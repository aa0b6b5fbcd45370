--------------------------- MODULE Collaboration ---------------------------
(***************************************************************************)
(* Members, approvals, comments and devices of a workspace                 *)
(* (apps/worker/src/api/collaboration/service.ts and postgres-store.ts).   *)
(*                                                                         *)
(* A request is authorized on one connection and then changes the          *)
(* workspace in one transaction on another.  Postgres runs the transaction *)
(* as READ COMMITTED: each statement sees what is committed when it runs,  *)
(* and a row that another transaction has locked, or a key it is           *)
(* inserting, is waited for.  An action is a statement; the writes of a    *)
(* transaction are seen by nobody before its end, so they and their audit  *)
(* record are one action with COMMIT.                                      *)
(*                                                                         *)
(* Abstractions.  One workspace, one recommendation and one finding, which *)
(* exist throughout: nothing in the source deletes them, adds a member or  *)
(* removes one.  Reads that change nothing are left out.                   *)
(***************************************************************************)
EXTENDS Integers, Sequences, FiniteSets, SequencesExt

CONSTANTS
  Users,
  Devices,
  AskedRoles,    \* roles that are asked for; the routes exclude "member"
  InitialRoles,  \* the role of each user, None for a user who is no member
  Requests,      \* requests that can be served at a time
  MaxIssued,     \* bound: requests issued
  MaxFaults,     \* bound: connections and answers lost
  None

VARIABLES
  members,    \* workspace_members.role
  approvals,  \* approvals.decision of each user
  comments,   \* ids of comments
  revoked,    \* devices whose row and credentials are revoked
  audit,      \* audit_log in commit order
  told,       \* decisions that users were told are recorded
  requests,   \* where each request is
  issued,     \* requests issued so far
  faults      \* faults so far

database == <<members, approvals, comments, revoked, audit>>
vars == <<database, told, requests, issued, faults>>

-----------------------------------------------------------------------------
Roles == {"owner", "maintainer", "developer", "reviewer", "observer", "member"}

(* rolePermissions, for the actions that change something.                 *)
rolePermissions ==
  [owner |-> {"approve", "comment", "manage_devices", "manage_members"},
   maintainer |-> {"approve", "comment", "manage_devices"},
   developer |-> {"comment"},
   reviewer |-> {"approve", "comment"},
   observer |-> {},
   member |-> {"comment"}]

Decisions == {"none", "approved", "rejected"}
Actions == {"manage_members", "approve", "manage_devices", "comment"}

CollaborationAssumption ==
  /\ AskedRoles \subseteq Roles /\ InitialRoles \in [Users -> Roles \union {None}]
  /\ {MaxIssued, MaxFaults} \subseteq Nat

(* The rows of workspace_members, approvals, comments and audit_log, and   *)
(* what the store is asked for.                                            *)
Memberships == [Users -> Roles \union {None}]
Approvals == [Users -> Decisions]
Comments == SUBSET (1..MaxIssued)
AuditLog == Seq([action : Actions, actor : Users,
                 target : Users \union Devices \union {None},
                 value : Roles \union Decisions \union {"revoked"}])
Asked == [step : {"idle", "authorize", "begin", "counting", "writing"},
          id : 0..MaxIssued, action : Actions \union {"none"},
          actor : Users \union {None}, target : Users \union Devices \union {None},
          value : Roles \union Decisions \union {"revoked"}]

NoRequest == [step |-> "idle", id |-> 0, action |-> "none", actor |-> None,
              target |-> None, value |-> "none"]

Init ==
  /\ members = InitialRoles
  /\ approvals = [u \in Users |-> "none"]
  /\ comments = {} /\ revoked = {} /\ audit = <<>>
  /\ told = {}
  /\ requests = [q \in Requests |-> NoRequest]
  /\ issued = 0 /\ faults = 0

Become(q, next) == requests' = [requests EXCEPT ![q] = next]

Go(q, step) == Become(q, [requests[q] EXCEPT !.step = step]) /\ UNCHANGED told

Answer(q, answer) ==
  /\ Become(q, NoRequest)
  /\ told' = IF answer = "ok" /\ requests[q].action = "approve"
             THEN told \union {[by |-> requests[q].actor, decision |-> requests[q].value]}
             ELSE told

Fault == faults < MaxFaults /\ faults' = faults + 1

At(q, step, action) == requests[q].step = step /\ requests[q].action = action

(* The row or key that the transaction of a request has locked.            *)
LockOf(q) == IF requests[q].action = "approve"
             THEN <<"approve", requests[q].actor>>
             ELSE <<requests[q].action, requests[q].target>>

Free(q) == \A p \in Requests \ {q} :
             requests[p].step \in {"counting", "writing"} => LockOf(p) # LockOf(q)

-----------------------------------------------------------------------------
(* A user sends a request.                                                 *)
Issue(q, action, actor, target, value) ==
  /\ requests[q].step = "idle"
  /\ issued < MaxIssued
  /\ issued' = issued + 1
  /\ Become(q, [step |-> "authorize", id |-> issued', action |-> action,
                actor |-> actor, target |-> target, value |-> value])
  /\ UNCHANGED <<database, told, faults>>

IssueAny(q) ==
  \E u \in Users :
    \/ \E t \in Users, role \in AskedRoles : Issue(q, "manage_members", u, t, role)
    \/ \E decision \in {"approved", "rejected"} : Issue(q, "approve", u, None, decision)
    \/ \E d \in Devices : Issue(q, "manage_devices", u, d, "revoked")
    \/ Issue(q, "comment", u, None, "none")

(* #authorize, before the transaction and on another connection.           *)
Authorize(q) ==
  /\ requests[q].step = "authorize"
  /\ LET role == members[requests[q].actor]
     IN IF role # None /\ requests[q].action \in rolePermissions[role]
        THEN Go(q, "begin") ELSE Answer(q, "forbidden")
  /\ UNCHANGED <<database, issued, faults>>

(* changeMemberRole: SELECT role ... FOR UPDATE locks the target's row.    *)
LockMember(q) ==
  /\ At(q, "begin", "manage_members") /\ Free(q)
  /\ LET role == members[requests[q].target]
     IN IF role = None THEN Answer(q, "not_found")
        ELSE IF role = "owner" /\ requests[q].value # "owner" THEN Go(q, "counting")
        ELSE Go(q, "writing")
  /\ UNCHANGED <<database, issued, faults>>

Owners == {u \in Users : members[u] = "owner"}

(* The owners are counted without a lock on their rows.                    *)
CountOwners(q) ==
  /\ At(q, "counting", "manage_members")
  /\ IF Cardinality(Owners) <= 1 THEN Answer(q, "last_owner") ELSE Go(q, "writing")
  /\ UNCHANGED <<database, issued, faults>>

AgreesWithAny(q) == TRUE

(* The decision that is stored is the one asked for.                       *)
Agrees(q) == approvals[requests[q].actor] = requests[q].value

(* addApproval: INSERT ... ON CONFLICT DO NOTHING, and what was there.     *)
InsertApproval(q) ==
  /\ At(q, "begin", "approve") /\ Free(q)
  /\ IF approvals[requests[q].actor] = "none" THEN Go(q, "writing")
     ELSE Answer(q, IF Agrees(q) THEN "ok" ELSE "approval_conflict")
  /\ UNCHANGED <<database, issued, faults>>

RevokesAgain(q) ==
  /\ At(q, "begin", "manage_devices") /\ Free(q)
  /\ Go(q, "writing")
  /\ UNCHANGED <<database, issued, faults>>

(* revokeDevice: UPDATE devices ... WHERE revoked_at IS NULL.              *)
RevokeDevice(q) ==
  /\ At(q, "begin", "manage_devices") /\ Free(q)
  /\ IF requests[q].target \in revoked THEN Answer(q, "not_found") ELSE Go(q, "writing")
  /\ UNCHANGED <<database, issued, faults>>

(* addComment: INSERT INTO comments, under a fresh id.                     *)
InsertComment(q) ==
  /\ At(q, "begin", "comment")
  /\ Go(q, "writing")
  /\ UNCHANGED <<database, issued, faults>>

(* appendAudit: the record inserted with the change it describes.          *)
AuditRecord(r) == [action |-> r.action, actor |-> r.actor,
                   target |-> r.target, value |-> r.value]

(* The writes of the transaction, its audit record and COMMIT, whose       *)
(* answer may be lost.                                                     *)
Commit(q) ==
  LET r == requests[q]
  IN /\ r.step = "writing"
     /\ members' = IF r.action = "manage_members"
                   THEN [members EXCEPT ![r.target] = r.value] ELSE members
     /\ approvals' = IF r.action = "approve"
                     THEN [approvals EXCEPT ![r.actor] = r.value] ELSE approvals
     /\ comments' = IF r.action = "comment" THEN comments \union {r.id} ELSE comments
     /\ revoked' = IF r.action = "manage_devices" THEN revoked \union {r.target} ELSE revoked
     /\ audit' = Append(audit, AuditRecord(r))
     /\ \/ Answer(q, "ok") /\ UNCHANGED faults
        \/ Answer(q, "lost") /\ Fault
     /\ UNCHANGED issued

(* The connection is lost before COMMIT, which undoes the transaction.     *)
Rollback(q) ==
  /\ requests[q].step \in {"authorize", "begin", "counting", "writing"}
  /\ Answer(q, "lost") /\ Fault
  /\ UNCHANGED <<database, issued>>

Serve(q) ==
  \/ Authorize(q) \/ LockMember(q) \/ CountOwners(q) \/ InsertApproval(q)
  \/ RevokeDevice(q) \/ InsertComment(q) \/ Commit(q) \/ Rollback(q)

Next == \E q \in Requests : IssueAny(q) \/ Serve(q)

Spec == Init /\ [][Next]_vars

-----------------------------------------------------------------------------
(* Every variable has its type.                                            *)
TypeOK ==
  /\ members \in Memberships
  /\ approvals \in Approvals
  /\ comments \in Comments /\ revoked \subseteq Devices
  /\ audit \in AuditLog
  /\ requests \in [Requests -> Asked]
  /\ told \subseteq [by : Users, decision : Decisions]
  /\ issued \in 0..MaxIssued /\ faults \in 0..MaxFaults

(* An approval is final: whoever is told that a decision was recorded, by  *)
(* the request that stored it, a concurrent one or a retry, finds exactly  *)
(* that decision for ever after.                                           *)
DecisionsHonoured == \A s \in told : approvals[s.by] = s.decision

(* Records of the audit log, by what they record.                          *)
RoleChanges(u) ==
  {i \in DOMAIN audit : audit[i].action = "manage_members" /\ audit[i].target = u}

DecisionsOf(u) == {i \in DOMAIN audit : audit[i].action = "approve" /\ audit[i].actor = u}

RevocationsOf(d) ==
  {i \in DOMAIN audit : audit[i].action = "manage_devices" /\ audit[i].target = d}

CommentsMade == {i \in DOMAIN audit : audit[i].action = "comment"}

(* The audit log says what was done, once, also when answers are lost and  *)
(* requests repeated: one record per approval, comment and revoked device, *)
(* and the last role change of a member is the member's role.              *)
AuditIsExact ==
  /\ \A u \in Users :
       /\ Cardinality(DecisionsOf(u)) = (IF approvals[u] = "none" THEN 0 ELSE 1)
       /\ RoleChanges(u) = {} => members[u] = InitialRoles[u]
       /\ \A i \in RoleChanges(u) :
            (\A j \in RoleChanges(u) : j <= i) => members[u] = audit[i].value
  /\ \A d \in Devices :
       Cardinality(RevocationsOf(d)) = (IF d \in revoked THEN 1 ELSE 0)
  /\ Cardinality(CommentsMade) = Cardinality(comments)

(* The test that "preserves at least one workspace owner"                  *)
(* (service.test.ts:108) wants one whatever role changes are asked for.    *)
LastOwner == Owners # {}
=============================================================================
