------------------------------ MODULE MCAccess ------------------------------
(***************************************************************************)
(* Access for TLC: values for its constants, and behaviours in which one   *)
(* component moves and the others stay as they begin, so that no state of  *)
(* one is multiplied with another's.  Accounts and RepositoryAccess move   *)
(* in parts that use some of their identifiers only.                       *)
(***************************************************************************)
EXTENDS Access, TLC

CONSTANTS c1, c2, n1, n2

VARIABLE part

(* Two calls, and two sign-ins, are interchangeable.                       *)
Symmetric == Permutations({c1, c2}) \union Permutations({n1, n2})

-----------------------------------------------------------------------------
Delivered(event, action) ==
  [size |-> "fits", signed |-> TRUE, id |-> TRUE, event |-> event,
   action |-> action, installation |-> 1]

MCContent ==
  [deleted |-> Delivered("installation", "deleted"),
   created |-> Delivered("installation", "created"),
   push |-> Delivered("pull_request", "labeled"),
   unsigned |-> [Delivered("push", "") EXCEPT !.signed = FALSE]]

MCRequestOf ==
  [o \in Operations |-> [base |-> 0, digest |-> TRUE, workflow |-> TRUE,
                         second |-> "another", exact |-> o = "verified"]]

MCInitialRoles == [owner |-> "owner", other |-> "reviewer"]

-----------------------------------------------------------------------------
cVars == <<time, losses, minted, spent, withdrawn, credential, signedIn, tokenCalls, signIns>>
aVars == <<stored, queue, link, job, answers>>
pVars == <<head, commits, branches, pulls, openings>>
rVars == <<installations, suspended, repositories, changes, call>>
sVars == <<now, made, sessions, grants, devices, roles, projects, redeemed, calls>>
lVars == <<companion, socket, backlog, served, exchanges, wire, handled>>
wVars == <<members, approvals, comments, revoked, audit, told, requests, issued, faults>>
vars == <<part, cVars, aVars, pVars, rVars, sVars, lVars, wVars>>

(* Only while nothing is lost does the clock go on to the end of a grant.  *)
Lasting == losses' = 0 \/ time' + losses' <= 2

(* Two installations with two repositories, or one with three, which are   *)
(* more than the pages.                                                    *)
Few(its, ofs) ==
  /\ R!ToSet(installations) \union suspended \subseteq its
  /\ \A i \in Installations : R!ToSet(repositories[i]) \subseteq IF i \in its THEN ofs ELSE {}
  /\ call.step # "idle" => call.asked = None \/ call.asked \in its \X ofs

RepositoriesOf(name) ==
  CASE name = "repositories" -> Few({1, 2}, {1, 2})
    [] name = "many_repositories" -> Few({1}, {1, 2, 3})
    [] OTHER -> Few({}, {})

(* What is under way: the session of one user, an enrolment, an invitation. *)
Under(steps, most) ==
  /\ made' <= most
  /\ \A c \in Callers :
       calls'[c].step \in {"idle", "may_link", "authorize", "link"} \union steps

AccountsMove ==
  \/ /\ part = "sessions" /\ S!Next
     /\ Under({"authenticate", "logout", "revoke_session"}, 3) /\ UNCHANGED grants
     /\ \A c \in Callers : calls'[c].step # "idle" => calls'[c].who = Owner
     /\ \A s \in Sessions : sessions'[s] # None => sessions'[s].user = Owner
  \/ /\ part = "enrollments" /\ S!Next
     /\ Under({"find_grant", "consume", "register", "device", "revoke_device"}, 3)
     /\ UNCHANGED sessions /\ \A g \in Invitations : grants'[g] = None
  \/ /\ part = "invitations" /\ S!Next
     /\ Under({"may_invite", "invite", "find_grant", "consume"}, 4)
     /\ UNCHANGED sessions /\ \A g \in Enrollments : grants'[g] = None

-----------------------------------------------------------------------------
MCInit ==
  /\ part \in {"credential", "app", "pull_request", "repositories",
               "many_repositories", "sessions", "enrollments", "invitations",
               "ipc", "collaboration"}
  /\ R!Init /\ RepositoriesOf(part)
  /\ C!Init /\ A!Init /\ P!Init /\ S!Init /\ L!Init /\ W!Init

MCNext ==
  /\ UNCHANGED part
  /\ \/ /\ part = "credential" /\ C!Next /\ Lasting
        /\ UNCHANGED <<aVars, pVars, rVars, sVars, lVars, wVars>>
     \/ /\ part = "app" /\ A!Next
        /\ UNCHANGED <<cVars, pVars, rVars, sVars, lVars, wVars>>
     \/ /\ part = "pull_request" /\ P!Next
        /\ UNCHANGED <<cVars, aVars, rVars, sVars, lVars, wVars>>
     \/ /\ part \in {"repositories", "many_repositories"} /\ R!Next
        /\ RepositoriesOf(part)'
        /\ UNCHANGED <<cVars, aVars, pVars, sVars, lVars, wVars>>
     \/ /\ AccountsMove
        /\ UNCHANGED <<cVars, aVars, pVars, rVars, lVars, wVars>>
     \/ /\ part = "ipc" /\ L!Next
        /\ UNCHANGED <<cVars, aVars, pVars, rVars, sVars, wVars>>
     \/ /\ part = "collaboration" /\ W!Next
        /\ UNCHANGED <<cVars, aVars, pVars, rVars, sVars, lVars>>

MCSpec == MCInit /\ [][MCNext]_vars
=============================================================================
