------------------------------- MODULE Access -------------------------------
(***************************************************************************)
(* Who may do what: a user's GitHub credential, the GitHub App, pull       *)
(* requests, a user's repositories, browser sessions, enrolments and       *)
(* invitations, the local connection of the extension, collaboration in a  *)
(* workspace, side by side.  They share no state here: a behaviour of this *)
(* module is one of each of them.                                          *)
(***************************************************************************)
EXTENDS Integers, Sequences, FiniteSets

CONSTANTS
  None, Callers, Users,
  (* GitHubCredential *)
  SignIns, AccessLife, RefreshLife, LeaseSeconds, Leeway, MaxTime, MaxLosses,
  (* GitHubApp *)
  Deliveries, Content, AppInstallations, Linked, Archived, Workers,
  (* PullRequest *)
  Operations, RequestOf, MaxPushes, MaxCommits,
  (* RepositoryAccess *)
  Installations, Repositories, PageSize, MaxPages, MaxChanges,
  (* Accounts *)
  Owner, Sessions, Enrollments, Invitations, MaxNow, MaxCalls,
  (* Ipc *)
  Clients, Informed, PathFits, MaxAttempts,
  (* Collaboration *)
  Devices, AskedRoles, InitialRoles, Requests, MaxIssued, MaxFaults

VARIABLES
  time, losses, minted, spent, withdrawn, credential, signedIn, tokenCalls, signIns,
  stored, queue, link, job, answers,
  head, commits, branches, pulls, openings,
  installations, suspended, repositories, changes, call,
  now, made, sessions, grants, devices, roles, projects, redeemed, calls,
  companion, socket, backlog, served, exchanges, wire, handled,
  members, approvals, comments, revoked, audit, told, requests, issued, faults

-----------------------------------------------------------------------------
C == INSTANCE GitHubCredential WITH
       MaxFaults <- MaxLosses, now <- time, faults <- losses, issued <- minted,
       sessions <- signedIn, calls <- tokenCalls

A == INSTANCE GitHubApp WITH Installations <- AppInstallations

P == INSTANCE PullRequest WITH calls <- openings

R == INSTANCE RepositoryAccess

S == INSTANCE Accounts

L == INSTANCE Ipc WITH Callers <- Clients, calls <- exchanges

W == INSTANCE Collaboration

ASSUME AccessAssumption ==
  /\ C!TimesAssumption /\ A!ContentAssumption /\ P!PullRequestAssumption
  /\ R!RepositoryAccessAssumption /\ S!AccountsAssumption /\ L!IpcAssumption
  /\ W!CollaborationAssumption

Spec == C!Spec /\ A!Spec /\ P!Spec /\ R!Spec /\ S!Spec /\ L!Spec /\ W!Spec

-----------------------------------------------------------------------------
(* The variables of every component have their types.                      *)
TypeOK ==
  /\ C!TypeOK /\ A!TypeOK /\ P!TypeOK /\ R!TypeOK
  /\ S!TypeOK /\ L!TypeOK /\ W!TypeOK

(* Credential: a stored grant is spent only by who stores its successor.   *)
RotationIsKept == C!RotationIsKept

(* GitHub App: a delivery that GitHub is told is dealt with is.            *)
DealtWith == A!DealtWith

(* Credential: a late answer or a failure does not overwrite what is newer,*)
(* what is handed out is what is stored, and only a call that had read or  *)
(* presented a grant GitHub does not take, or an outlived one, revokes; it *)
(* may not be the grant that is stored by then.  GitHub App: an            *)
(* installation that is deleted stays so, whatever comes late or again.    *)
CredentialsAreKept ==
  [][/\ C!KeepsNewer /\ C!HandsOutStored /\ C!RevokesRefused
     /\ A!KeepsDeleted]_<<C!vars, A!vars>>

(* Pull request: a branch and its pull request offer what was verified.    *)
OnlyTheVerified == P!OnlyTheVerified

(* Sessions and devices: nobody gets in after a logout or a revocation.    *)
(* Repositories: only what GitHub lets the user have is authorized, and    *)
(* nothing is left out that nobody touched.                                *)
OutIsOut == S!OutIsOut /\ R!AuthorizedIsAccessible

(* Enrolments and invitations: each serves one caller.                     *)
RedeemedOnce == S!RedeemedOnce

(* Local connection: what the outcome of a call says of its request.       *)
OutcomesTellTruth == L!OutcomesTellTruth

(* Collaboration: an approval is final, and the audit log and the state    *)
(* say the same.                                                           *)
DecisionsHonoured == W!DecisionsHonoured /\ W!AuditIsExact
=============================================================================
