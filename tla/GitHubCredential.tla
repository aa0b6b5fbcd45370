-------------------------- MODULE GitHubCredential --------------------------
(***************************************************************************)
(* One user's GitHub credential in the worker (apps/worker/src/auth/       *)
(* github): sign-in stores an access token with its single-use refresh     *)
(* grant, every request that needs the access token may find it expiring   *)
(* and rotate the pair under a lease in the database, and a grant that     *)
(* GitHub refuses revokes the credential and the user's browser sessions.  *)
(*                                                                         *)
(* Each statement or transaction on the database, and each answer of       *)
(* GitHub, is one action, so requests interleave at every await.  A        *)
(* request reads the clock once, when it starts.  GitHub is external: it   *)
(* mints token pairs in order, numbered from 1; a rotation spends the old  *)
(* pair.  Faults (an invocation that dies, an answer or a statement that   *)
(* is lost, a grant the user withdraws at GitHub) are bounded by MaxFaults.*)
(*                                                                         *)
(* Abstractions.  Encryption of the stored tokens, the GitHub user lookup  *)
(* and the sealed cookies change no state here.  No code disables a user,  *)
(* so identity_disabled does not occur.                                    *)
(***************************************************************************)
EXTENDS Integers, FiniteSets

CONSTANTS
  Callers,         \* calls of accessToken, one lease id each
  SignIns,         \* OAuth callbacks, one browser session each
  AccessLife,      \* lifetime of an access token
  RefreshLife,     \* lifetime of a refresh grant
  LeaseSeconds,    \* refreshLeaseSeconds
  Leeway,          \* refreshLeewaySeconds
  MaxTime,         \* bound: the clock
  MaxFaults,       \* bound: faults
  None             \* no credential, token or lease

(* A row of the credentials table that holds one of the pairs.             *)
RowOf(pairs) ==
  [token : pairs, accessUntil : Nat, refreshUntil : Nat,
   revoked : BOOLEAN, lease : Callers \union {None}, leaseUntil : Nat]

TimesAssumption ==
  /\ AccessLife \in Nat \ {0} /\ RefreshLife \in Nat \ {0}
  /\ LeaseSeconds \in Nat \ {0} /\ Leeway \in Nat
  /\ MaxTime \in Nat /\ MaxFaults \in Nat
  /\ None \notin Nat \union Callers \union RowOf(Nat)

VARIABLES
  now,             \* the clock
  faults,          \* faults that have happened
  issued,          \* GitHub: when each token pair was minted
  spent,           \* GitHub: pairs rotated out
  withdrawn,       \* GitHub: pairs the user withdrew
  credential,      \* github credential row, or None
  sessions,        \* browser_sessions: the live ones, by sign-in
  calls,           \* calls of accessToken
  signIns          \* OAuth callbacks

github == <<issued, spent, withdrawn>>
vars   == <<now, faults, github, credential, sessions, calls, signIns>>

-----------------------------------------------------------------------------
(* The grant is one that GitHub exchanges.                                 *)
Usable(t) ==
  /\ t \notin spent \union withdrawn
  /\ now < issued[t] + RefreshLife

NextToken == Cardinality(DOMAIN issued) + 1

Mint == issued' = [t \in DOMAIN issued \union {NextToken} |->
                     IF t = NextToken THEN now ELSE issued[t]]

RowUndated(t, at) ==
  [token |-> t, accessUntil |-> at + AccessLife, refreshUntil |-> None,
   revoked |-> FALSE, lease |-> None, leaseUntil |-> 0]

(* The row for a pair obtained by an invocation that started at time at.   *)
Row(t, at) ==
  [token |-> t, accessUntil |-> at + AccessLife,
   refreshUntil |-> at + RefreshLife, revoked |-> FALSE,
   lease |-> None, leaseUntil |-> 0]

Live == credential # None /\ ~credential.revoked

Fault == faults < MaxFaults /\ faults' = faults + 1

Init ==
  /\ now = 0 /\ faults = 0
  /\ issued = <<>> /\ spent = {} /\ withdrawn = {}
  /\ credential = None
  /\ sessions = {}
  /\ calls = [c \in Callers |->
       [step |-> "idle", at |-> 0, token |-> None, rotated |-> None]]
  /\ signIns = [s \in SignIns |-> [step |-> "idle", at |-> 0, token |-> None]]

Tick ==
  /\ now < MaxTime
  /\ now' = now + 1
  /\ UNCHANGED <<faults, github, credential, sessions, calls, signIns>>

(* The user withdraws the app's authorisation at GitHub.                   *)
Withdraw(t) ==
  /\ Fault
  /\ withdrawn' = withdrawn \union {t}
  /\ UNCHANGED <<now, issued, spent, credential, sessions, calls, signIns>>

-----------------------------------------------------------------------------
(* accessToken reads the credential: it is refused, handed out, past       *)
(* refreshing or expiring.                                                 *)
FindCredential(c) ==
  LET step == IF credential.revoked THEN "refused"
              ELSE IF credential.accessUntil > now + Leeway THEN "handed"
              ELSE IF credential.refreshUntil <= now THEN "revoke"
              ELSE "lease"
  IN /\ calls[c].step = "idle"
     /\ credential # None
     /\ calls' = [calls EXCEPT ![c] =
          [step |-> step, at |-> now, token |-> credential.token,
           rotated |-> None]]
     /\ UNCHANGED <<now, faults, github, credential, sessions, signIns>>

LeaseFreeIgnored(c) == Live

(* No lease is held, or it ran out before this call started.               *)
LeaseFree(c) ==
  Live /\ (credential.lease = None \/ credential.leaseUntil <= calls[c].at)

(* tryAcquireRefreshLease; refresh_in_progress when another call holds it. *)
TryAcquireRefreshLease(c) ==
  /\ calls[c].step = "lease"
  /\ IF LeaseFree(c)
     THEN /\ credential' = [credential EXCEPT
               !.lease = c, !.leaseUntil = calls[c].at + LeaseSeconds]
          /\ calls' = [calls EXCEPT ![c].step = "refresh"]
     ELSE /\ calls' = [calls EXCEPT ![c].step = "refused"]
          /\ UNCHANGED credential
  /\ UNCHANGED <<now, faults, github, sessions, signIns>>

(* GitHub rotates the grant the call read.                                 *)
Rotate(c) ==
  /\ calls[c].step = "refresh"
  /\ Usable(calls[c].token)
  /\ Mint
  /\ spent' = spent \union {calls[c].token}
  /\ UNCHANGED withdrawn

RefreshGitHubOAuthToken(c) ==
  /\ Rotate(c)
  /\ calls' = [calls EXCEPT ![c].step = "store", ![c].rotated = NextToken]
  /\ UNCHANGED <<now, faults, credential, sessions, signIns>>

(* REDACTED_refresh_rejected: a 400 or 401.                                *)
RefreshRejected(c) ==
  /\ calls[c].step = "refresh"
  /\ ~Usable(calls[c].token)
  /\ calls' = [calls EXCEPT ![c].step = "revoke"]
  /\ UNCHANGED <<now, faults, github, credential, sessions, signIns>>

FailedStepRevoking == "revoke"

(* Where the catch block goes on after any other failure.                  *)
FailedStep == "release"

(* REDACTED_refresh_failed: the request or its answer is lost.             *)
RefreshFailed(c) ==
  /\ Fault
  /\ calls[c].step = "refresh"
  /\ Rotate(c) \/ UNCHANGED github
  /\ calls' = [calls EXCEPT ![c].step = FailedStep]
  /\ UNCHANGED <<now, credential, sessions, signIns>>

StillLeasedUnchecked(c) == credential # None

StillLeased(c) == Live /\ credential.lease = c

(* What accessToken does with completeRefresh's row count.                 *)
CompletedUnchecked(c) == TRUE

Completed(c) == StillLeased(c)

(* completeRefresh stores the rotated pair if the call still has the lease;*)
(* otherwise refresh_persistence_failed.                                   *)
CompleteRefresh(c) ==
  /\ calls[c].step = "store"
  /\ credential' = IF StillLeased(c) THEN Row(calls[c].rotated, calls[c].at)
                                     ELSE credential
  /\ calls' = [calls EXCEPT ![c].step =
       IF Completed(c) THEN "handed" ELSE FailedStep]
  /\ UNCHANGED <<now, faults, github, sessions, signIns>>

(* The update of completeRefresh fails.                                    *)
CompleteRefreshFails(c) ==
  /\ Fault
  /\ calls[c].step = "store"
  /\ calls' = [calls EXCEPT ![c].step = FailedStep]
  /\ UNCHANGED <<now, github, credential, sessions, signIns>>

ReleaseRefreshLease(c) ==
  /\ calls[c].step = "release"
  /\ credential' = IF credential.lease = c
                   THEN [credential EXCEPT !.lease = None, !.leaseUntil = 0]
                   ELSE credential
  /\ calls' = [calls EXCEPT ![c].step = "refused"]
  /\ UNCHANGED <<now, faults, github, sessions, signIns>>

(* revokeCredentialAndSessions, then reauthorization_required.             *)
RevokeCredentialAndSessions(c) ==
  /\ calls[c].step = "revoke"
  /\ credential' = [credential EXCEPT !.revoked = TRUE, !.lease = None,
                                      !.leaseUntil = 0]
  /\ sessions' = {}
  /\ calls' = [calls EXCEPT ![c].step = "refused"]
  /\ UNCHANGED <<now, faults, github, signIns>>

(* The worker's invocation ends at any of its awaits.                      *)
CallDies(c) ==
  /\ Fault
  /\ calls[c].step \in {"lease", "refresh", "store", "release", "revoke"}
  /\ calls' = [calls EXCEPT ![c].step = "dead"]
  /\ UNCHANGED <<now, github, credential, sessions, signIns>>

-----------------------------------------------------------------------------
(* The OAuth callback exchanges its code for a pair of its own.            *)
ExchangeCode(s) ==
  /\ signIns[s].step = "idle"
  /\ Mint
  /\ signIns' = [signIns EXCEPT ![s] =
       [step |-> "upsert", at |-> now, token |-> NextToken]]
  /\ UNCHANGED <<now, faults, spent, withdrawn, credential, sessions, calls>>

(* upsertIdentity: the new pair replaces the row, its lease and revocation.*)
UpsertIdentity(s) ==
  /\ signIns[s].step = "upsert"
  /\ credential' = Row(signIns[s].token, signIns[s].at)
  /\ signIns' = [signIns EXCEPT ![s].step = "session"]
  /\ UNCHANGED <<now, faults, github, sessions, calls>>

CreateSession(s) ==
  /\ signIns[s].step = "session"
  /\ sessions' = sessions \union {s}
  /\ signIns' = [signIns EXCEPT ![s].step = "done"]
  /\ UNCHANGED <<now, faults, github, credential, calls>>

SignInDies(s) ==
  /\ Fault
  /\ signIns[s].step \in {"upsert", "session"}
  /\ signIns' = [signIns EXCEPT ![s].step = "dead"]
  /\ UNCHANGED <<now, github, credential, sessions, calls>>

Logout(s) ==
  /\ s \in sessions
  /\ sessions' = sessions \ {s}
  /\ UNCHANGED <<now, faults, github, credential, calls, signIns>>

Next ==
  \/ Tick
  \/ \E t \in DOMAIN issued : Withdraw(t)
  \/ \E c \in Callers :
       \/ FindCredential(c) \/ TryAcquireRefreshLease(c)
       \/ RefreshGitHubOAuthToken(c) \/ RefreshRejected(c) \/ RefreshFailed(c)
       \/ CompleteRefresh(c) \/ CompleteRefreshFails(c)
       \/ ReleaseRefreshLease(c) \/ RevokeCredentialAndSessions(c)
       \/ CallDies(c)
  \/ \E s \in SignIns :
       \/ ExchangeCode(s) \/ UpsertIdentity(s) \/ CreateSession(s)
       \/ SignInDies(s) \/ Logout(s)

Spec == Init /\ [][Next]_vars

-----------------------------------------------------------------------------
Credential == RowOf(DOMAIN issued)

(* handleGitHubOAuthCallback: where a sign-in is.                          *)
SignIn == [step : {"idle", "upsert", "session", "done", "dead"}, at : Nat,
           token : DOMAIN issued \union {None}]

(* A call of accessToken: the time it read, the pair it found and the pair *)
(* it obtained.                                                            *)
Call == [step : {"idle", "lease", "refresh", "store", "release",
                 "revoke", "handed", "refused", "dead"},
         at : Nat, token : DOMAIN issued \union {None},
         rotated : DOMAIN issued \union {None}]

(* Every variable has its type, and nothing unissued is spent or withdrawn.*)
TypeOK ==
  /\ now \in 0..MaxTime /\ faults \in 0..MaxFaults
  /\ DOMAIN issued = 1..Cardinality(DOMAIN issued)
  /\ \A t \in DOMAIN issued : issued[t] \in 0..now
  /\ spent \subseteq DOMAIN issued /\ withdrawn \subseteq DOMAIN issued
  /\ credential \in Credential \union {None}
  /\ sessions \subseteq SignIns
  /\ calls \in [Callers -> Call] /\ signIns \in [SignIns -> SignIn]
  /\ \A c \in Callers : calls[c].at <= now
  /\ \A s \in SignIns : signIns[s].at <= now

(* "Callers must serialize refreshes and durably persist the entire        *)
(* returned token set": while nothing fails, the stored grant is spent only*)
(* by the call that holds the lease and is about to store its successor,   *)
(* unless that call was outlived by its lease and overtaken.               *)
RotationIsKept ==
  faults = 0 /\ Live /\ credential.token \in spent =>
    \E c \in Callers :
      /\ calls[c].token = credential.token /\ calls[c].rotated # None
      /\ \/ calls[c].step = "store" /\ credential.lease = c
         \/ \E d \in Callers : calls[d].at >= calls[c].at + LeaseSeconds

(* A call that answers late never puts an older pair over the one a new    *)
(* sign-in stored.  (Two sign-ins may: each stores what it was given.)     *)
KeepsNewer ==
  credential # None /\ credential.token # credential'.token /\
    UNCHANGED signIns => credential'.token > credential.token

(* A caller is handed a token only while it is the stored, unrevoked one:  *)
(* a rotation that could not be stored is not used and then forgotten.     *)
HandsOutStored ==
  \A c \in Callers :
    calls[c].step # "handed" /\ calls'[c].step = "handed" =>
      /\ ~credential'.revoked
      /\ credential'.token = IF calls[c].step = "store"
                             THEN calls[c].rotated ELSE calls'[c].token

(* The grant a call read was by then as old, counted from the start of the  *)
(* call that obtained it, as a grant may get: what the row says of a pair's *)
(* life begins when its caller read the clock, a little before GitHub's.   *)
Outlived(c) ==
  \E d \in Callers :
    /\ calls[d].rotated = calls[c].token
    /\ calls[d].at + RefreshLife <= calls[c].at

(* "Never for a transient GitHub/network failure": a call revokes only     *)
(* after it presented, or read, a grant that GitHub does not take or that  *)
(* had outlived what its row says of it.                                   *)
RevokesRefused ==
  Live /\ credential'.revoked =>
    \E c \in Callers :
      calls[c].step = "revoke" /\ (~Usable(calls[c].token) \/ Outlived(c))

(* What no step does to the credential, whatever overlaps and fails.       *)
CredentialIsKept == [][KeepsNewer /\ HandsOutStored /\ RevokesRefused]_vars

(* "Used only for a provider-confirmed invalid refresh grant": the         *)
(* credential that is revoked is one GitHub would not refresh.             *)
RevokedOnlyWhenInvalid ==
  [][Live /\ credential'.revoked => ~Usable(credential.token)]_vars
=============================================================================
