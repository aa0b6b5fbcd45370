------------------------------- MODULE Accounts --------------------------------
(***************************************************************************)
(* Sessions of browsers (auth/session.ts, auth/browser-session.ts and its  *)
(* Postgres store, the authenticate wrappers of index.ts), one-time grants *)
(* (device enrolments and workspace invitations), the device credentials   *)
(* an enrolment is exchanged for, and the linking of a repository.  Each   *)
(* service reads, decides and writes in separate awaits, so calls          *)
(* interleave, and an invocation may end between two of them.              *)
(*                                                                         *)
(* Abstractions.  A secret is right or wrong; lifetimes are one unit of    *)
(* time; a call keeps the time at which its request came, as the code does.*)
(* The repositories of grants, devices and projects are ports.             *)
(***************************************************************************)
EXTENDS Integers, Sequences, FiniteSets

CONSTANTS
  Users,           \* users; the Owner invites and enrols
  Owner,
  Sessions, Enrollments, Invitations,   \* identifiers, each used once
  Callers,         \* invocations at a time
  MaxNow,          \* bound on the clock
  MaxCalls,        \* bound on the requests made
  None

Redemptions == [who : Users, at : Nat]

SessionRows == [user : Users, expires : Nat, revoked : BOOLEAN]

GrantRows ==
  [by : Users, expires : Nat, consumed : Redemptions \union {None}, revoked : BOOLEAN]

DeviceRows == [who : Users, expires : Nat, revoked : BOOLEAN]

AccountsAssumption ==
  /\ Owner \in Users /\ Enrollments \intersect Invitations = {}
  /\ MaxNow \in Nat /\ MaxCalls \in Nat
  /\ None \notin Redemptions /\ None \notin SessionRows
  /\ None \notin GrantRows /\ None \notin DeviceRows

VARIABLES
  now, made,
  sessions,        \* rows of browser_sessions
  grants,          \* rows of enrolments and invitations
  devices,         \* devices with their credential, by enrolment
  roles,           \* role of each user in the workspace
  projects,        \* users who linked a repository
  redeemed,        \* history: who was told to have redeemed each grant
  calls            \* what each invocation is doing

vars == <<now, made, sessions, grants, devices, roles, projects, redeemed, calls>>

Grants == Enrollments \union Invitations

Idle == [step |-> "idle", after |-> FALSE, answer |-> "none"]

Init ==
  /\ now = 0 /\ made = 0
  /\ sessions = [s \in Sessions |-> None]
  /\ grants = [g \in Grants |-> None]
  /\ devices = [g \in Enrollments |-> None]
  /\ roles = [u \in Users |-> IF u = Owner THEN "owner" ELSE "none"]
  /\ projects = {} /\ redeemed = [g \in Grants |-> <<>>]
  /\ calls = [c \in Callers |-> Idle]

Tick == /\ now < MaxNow
        /\ now' = now + 1
        /\ UNCHANGED <<made, sessions, grants, devices, roles, projects, calls, redeemed>>

(* A request arrives with the secret it names, right or wrong; after: the  *)
(* session it names had already been logged out, the device revoked.       *)
Begin(c, step, who, on, right, after) ==
  /\ made < MaxCalls
  /\ calls[c].step = "idle"
  /\ made' = made + 1
  /\ calls' = [calls EXCEPT ![c] = [step |-> step, who |-> who, on |-> on, at |-> now,
                 right |-> right, after |-> after, answer |-> "none"]]
  /\ UNCHANGED <<now, sessions, grants, devices, roles, projects, redeemed>>

Goto(c, step) == calls' = [calls EXCEPT ![c].step = step]
Answer(c, answer) ==
  calls' = [calls EXCEPT ![c] = [Idle EXCEPT !.after = calls[c].after, !.answer = answer]]

(* The invocation ends between two awaits, or a repository throws.         *)
Lose(c) ==
  /\ calls[c].step # "idle"
  /\ Answer(c, "failed")
  /\ UNCHANGED <<now, made, sessions, grants, devices, roles, projects, redeemed>>

-----------------------------------------------------------------------------
(* BrowserSessionService.create, once GitHub has named the user.           *)
CreateSession(u, s) ==
  /\ sessions[s] = None
  /\ sessions' = [sessions EXCEPT ![s] =
                    [user |-> u, expires |-> now + 1, revoked |-> FALSE]]
  /\ UNCHANGED <<now, made, grants, devices, roles, projects, calls, redeemed>>

(* A request with a sealed cookie; right: its CSRF values agree, or it     *)
(* does not mutate.                                                        *)
SessionRequest(c, s) ==
  /\ sessions[s] # None
  /\ \E step \in {"authenticate", "logout"}, right \in BOOLEAN :
       Begin(c, step, sessions[s].user, s, right, sessions[s].revoked)

SessionAnswerUnrevoked(call, row) ==
  IF row.expires < call.at THEN "expired" ELSE "ok"

(* verifyProductSession, find and the checks after it.                     *)
SessionAnswer(call, row) ==
  IF row.expires < call.at THEN "expired"
  ELSE IF row.revoked THEN "revoked"
  ELSE IF ~call.right THEN "csrf_mismatch"
  ELSE "ok"

Authenticate(c) ==
  /\ calls[c].step \in {"authenticate", "logout"}
  /\ LET answer == SessionAnswer(calls[c], sessions[calls[c].on])
     IN  IF answer = "ok" /\ calls[c].step = "logout"
         THEN Goto(c, "revoke_session") ELSE Answer(c, answer)
  /\ UNCHANGED <<now, made, sessions, grants, devices, roles, projects, redeemed>>

RevokeSession(c) ==
  /\ calls[c].step = "revoke_session"
  /\ IF sessions[calls[c].on].revoked
     THEN Answer(c, "invalid") /\ UNCHANGED sessions
     ELSE /\ sessions' = [sessions EXCEPT ![calls[c].on].revoked = TRUE]
          /\ Answer(c, "ok")
  /\ UNCHANGED <<now, made, grants, devices, roles, projects, redeemed>>

-----------------------------------------------------------------------------
(* DeviceEnrollmentService.create writes at once; createInvitation and     *)
(* linkGitHubRepository first read the role of the caller.                 *)
CreateEnrollment(g) ==
  /\ grants[g] = None
  /\ grants' = [grants EXCEPT ![g] = [by |-> Owner, expires |-> now + 1,
                                      consumed |-> None, revoked |-> FALSE]]
  /\ UNCHANGED <<now, made, sessions, devices, roles, projects, calls, redeemed>>

OwnerRequest(c, u) ==
  \/ \E g \in Invitations : grants[g] = None /\ Begin(c, "may_invite", u, g, TRUE, FALSE)
  \/ \E right \in BOOLEAN : Begin(c, "may_link", u, u, right, FALSE)

MembershipRole(c) ==
  /\ calls[c].step \in {"may_invite", "may_link"}
  /\ IF roles[calls[c].who] # "owner" THEN Answer(c, "owner_required")
     ELSE Goto(c, IF calls[c].step = "may_invite" THEN "invite" ELSE "authorize")
  /\ UNCHANGED <<now, made, sessions, grants, devices, roles, projects, redeemed>>

(* right: GitHub authorizes the user for the very repository asked for.    *)
AuthorizedRepository(c) ==
  /\ calls[c].step = "authorize"
  /\ IF calls[c].right THEN Goto(c, "link") ELSE Answer(c, "repository_not_authorized")
  /\ UNCHANGED <<now, made, sessions, grants, devices, roles, projects, redeemed>>

CreateLinkedProject(c) ==
  /\ calls[c].step = "link"
  /\ projects' = projects \union {calls[c].who}
  /\ Answer(c, "ok")
  /\ UNCHANGED <<now, made, sessions, grants, devices, roles, redeemed>>

CreateInvitation(c) ==
  /\ calls[c].step = "invite"
  /\ grants[calls[c].on] = None
  /\ grants' = [grants EXCEPT ![calls[c].on] =
                  [by |-> calls[c].who, expires |-> calls[c].at + 1,
                   consumed |-> None, revoked |-> FALSE]]
  /\ Answer(c, "ok")
  /\ UNCHANGED <<now, made, sessions, devices, roles, projects, redeemed>>

(* A grant is withdrawn; nothing in the repository does it yet.            *)
RevokeGrant(g) ==
  /\ grants[g] # None
  /\ ~grants[g].revoked
  /\ grants' = [grants EXCEPT ![g].revoked = TRUE]
  /\ UNCHANGED <<now, made, sessions, devices, roles, projects, calls, redeemed>>

-----------------------------------------------------------------------------
(* right: the code and, of an enrolment, the device's public key agree.    *)
GrantRequest(c, u, g) ==
  /\ grants[g] # None
  /\ \E right \in BOOLEAN : Begin(c, "find_grant", u, g, right, FALSE)

GrantAnswer(call, row) ==
  IF \/ ~call.right
     \/ row.revoked
     \/ row.consumed # None
     \/ call.on \in Invitations /\ row.by = call.who
  THEN "invalid"
  ELSE IF row.expires < call.at THEN "expired"
  ELSE "ok"

FindGrant(c) ==
  /\ calls[c].step = "find_grant"
  /\ LET answer == GrantAnswer(calls[c], grants[calls[c].on])
     IN  IF answer = "ok" THEN Goto(c, "consume") ELSE Answer(c, answer)
  /\ UNCHANGED <<now, made, sessions, grants, devices, roles, projects, redeemed>>

UnconsumedUnchecked(g) == TRUE

(* The port's consume is conditional; what it does of a grant that has been*)
(* revoked in the meantime, it does not say.                               *)
Unconsumed(g) == grants[g].consumed = None

(* The caller is told that the grant has served it.                        *)
Serve(c) ==
  /\ redeemed' = [redeemed EXCEPT ![calls[c].on] = Append(@, calls[c].who)]
  /\ Answer(c, "ok")

(* consume, and of an invitation the membership in the same transaction.   *)
ConsumeGrant(c) ==
  /\ calls[c].step = "consume"
  /\ LET g == calls[c].on
     IN  IF Unconsumed(g)
         THEN /\ grants' = [grants EXCEPT ![g].consumed = [who |-> calls[c].who, at |-> calls[c].at]]
              /\ IF g \in Invitations
                 THEN /\ roles' = [roles EXCEPT ![calls[c].who] =
                                     IF @ = "none" THEN "member" ELSE @]
                      /\ Serve(c)
                 ELSE Goto(c, "register") /\ UNCHANGED <<roles, redeemed>>
         ELSE Answer(c, "invalid") /\ UNCHANGED <<grants, roles, redeemed>>
  /\ UNCHANGED <<now, made, sessions, devices, projects>>

(* register, after its enrolment is consumed.                              *)
CreateDeviceWithCredential(c) ==
  /\ calls[c].step = "register"
  /\ devices' = [devices EXCEPT ![calls[c].on] =
                   [who |-> calls[c].who, expires |-> calls[c].at + 1, revoked |-> FALSE]]
  /\ Serve(c)
  /\ UNCHANGED <<now, made, sessions, grants, roles, projects>>

DeviceRequest(c, g) ==
  /\ devices[g] # None
  /\ \E step \in {"device", "revoke_device"}, right \in BOOLEAN :
       Begin(c, step, devices[g].who, g, right, devices[g].revoked)

DeviceAnswer(call, row) ==
  IF ~call.right THEN "invalid"
  ELSE IF row.revoked THEN "revoked"
  ELSE IF row.expires < call.at THEN "expired"
  ELSE "ok"

AuthenticateDevice(c) ==
  /\ calls[c].step = "device"
  /\ Answer(c, DeviceAnswer(calls[c], devices[calls[c].on]))
  /\ UNCHANGED <<now, made, sessions, grants, devices, roles, projects, redeemed>>

RevokeDevice(c) ==
  /\ calls[c].step = "revoke_device"
  /\ IF devices[calls[c].on].revoked
     THEN Answer(c, "invalid") /\ UNCHANGED devices
     ELSE /\ devices' = [devices EXCEPT ![calls[c].on].revoked = TRUE]
          /\ Answer(c, "revoking")
  /\ UNCHANGED <<now, made, sessions, grants, roles, projects, redeemed>>

Next ==
  \/ Tick
  \/ \E u \in Users, s \in Sessions : CreateSession(u, s)
  \/ \E g \in Enrollments : CreateEnrollment(g)
  \/ \E g \in Grants : RevokeGrant(g)
  \/ \E c \in Callers :
       \/ \E s \in Sessions : SessionRequest(c, s)
       \/ \E u \in Users : OwnerRequest(c, u)
       \/ \E u \in Users, g \in Grants : GrantRequest(c, u, g)
       \/ \E g \in Enrollments : DeviceRequest(c, g)
       \/ Authenticate(c) \/ RevokeSession(c)
       \/ MembershipRole(c) \/ AuthorizedRepository(c)
       \/ CreateLinkedProject(c) \/ CreateInvitation(c)
       \/ FindGrant(c) \/ ConsumeGrant(c) \/ CreateDeviceWithCredential(c)
       \/ AuthenticateDevice(c) \/ RevokeDevice(c)
       \/ Lose(c)

Spec == Init /\ [][Next]_vars

-----------------------------------------------------------------------------
(* Every variable has its type.                                            *)
TypeOK ==
  /\ now \in 0..MaxNow /\ made \in 0..MaxCalls
  /\ sessions \in [Sessions -> SessionRows \union {None}]
  /\ grants \in [Grants -> GrantRows \union {None}]
  /\ devices \in [Enrollments -> DeviceRows \union {None}]
  /\ roles \in [Users -> {"owner", "member", "none"}]
  /\ projects \subseteq Users
  /\ redeemed \in [Grants -> Seq(Users)]

(* Whoever asks after a session has been logged out, or a device revoked,  *)
(* is not let in, whatever calls are under way, and a second logout does   *)
(* not succeed (BrowserSessionService.authenticate and logout,             *)
(* DeviceService.authenticate).                                            *)
OutIsOut == \A c \in Callers : calls[c].answer = "ok" => ~calls[c].after

(* A grant, an enrolment or an invitation, serves one caller, before it    *)
(* expires and never the one who gave it: of the calls for it one at most  *)
(* is told that it succeeded, the one that consumed it, even when several  *)
(* found it free; nobody consumes it after that; and a device is that of   *)
(* the caller who consumed its enrolment                                   *)
(* (DeviceEnrollmentService.consume, acceptInvitation).                    *)
RedeemedOnce ==
  /\ \A g \in Grants : redeemed[g] # <<>> =>
       /\ grants[g].consumed # None
       /\ redeemed[g] = <<grants[g].consumed.who>>
  /\ \A g \in Grants : grants[g] # None /\ grants[g].consumed # None =>
       /\ grants[g].consumed.at <= grants[g].expires
       /\ g \in Invitations =>
            /\ grants[g].consumed.who # grants[g].by
            /\ roles[grants[g].consumed.who] # "none"
            /\ redeemed[g] # <<>>
  /\ \A g \in Enrollments : devices[g] # None =>
       grants[g].consumed = [who |-> devices[g].who, at |-> devices[g].expires - 1]
  /\ \A c \in Callers : calls[c].step = "register" => devices[calls[c].on] = None
=============================================================================
