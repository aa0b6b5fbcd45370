----------------------------- MODULE GitHubProofs -----------------------------
(***************************************************************************)
(* Invariants of the components of Access that face GitHub, for every set  *)
(* of callers, deliveries, operations and repositories and every bound:    *)
(* the part of AccessProofs about                                          *)
(*                                                                         *)
(* CredentialSound     who holds the lease of a credential, and what the   *)
(*                     grants in its row and in its hands are worth        *)
(* AppSound            a delivery that is worked on is one to be handled   *)
(* PullSound           what a call has found of its branch and its commit  *)
(* RepositoriesSound   which pages a call has read, and what stayed where  *)
(*                     it was since                                        *)
(***************************************************************************)
EXTENDS Access, FiniteSetTheorems, SequenceTheorems, TLAPS

-----------------------------------------------------------------------------
(* The records of the credential service when the pairs of D are minted.   *)
Lookup(D) ==
  [step : {"idle", "lease", "refresh", "store", "release",
           "revoke", "handed", "refused", "dead"},
   at : Nat, token : D \union {None}, rotated : D \union {None}]

Callback(D) ==
  [step : {"idle", "upsert", "session", "done", "dead"}, at : Nat,
   token : D \union {None}]

Stored(D) ==
  [token : D, accessUntil : Nat, refreshUntil : Nat,
   revoked : BOOLEAN, lease : Callers \union {None}, leaseUntil : Nat]

Minted == DOMAIN minted

CredentialTyped ==
  /\ time \in 0..MaxTime /\ losses \in 0..MaxLosses
  /\ \E n \in Nat : Minted = 1..n
  /\ \A t \in Minted : minted[t] \in 0..time
  /\ spent \subseteq Minted /\ withdrawn \subseteq Minted
  /\ credential \in Stored(Minted) \union {None}
  /\ signedIn \subseteq SignIns
  /\ tokenCalls \in [Callers -> Lookup(Minted)]
  /\ signIns \in [SignIns -> Callback(Minted)]
  /\ \A c \in Callers : tokenCalls[c].at <= time
  /\ \A s \in SignIns : signIns[s].at <= time

(* A call has found a pair; one that stores has obtained another.          *)
CallsHold ==
  \A c \in Callers : LET k == tokenCalls[c] IN
    /\ k.step # "idle" => k.token # None /\ credential # None
    /\ k.step \in {"idle", "lease", "refresh", "revoke"} => k.rotated = None
    /\ k.step = "store" => k.rotated # None

SignInsHold ==
  \A s \in SignIns : signIns[s].step = "upsert" =>
    signIns[s].token # None /\ signIns[s].at = minted[signIns[s].token]

(* A pair that is still to be stored is nobody else's.                     *)
CallsAreFresh ==
  \A c \in Callers : tokenCalls[c].step = "store" =>
    /\ credential.token # tokenCalls[c].rotated
    /\ \A d \in Callers :
         /\ tokenCalls[d].token # tokenCalls[c].rotated
         /\ tokenCalls[d].rotated = tokenCalls[c].rotated => d = c

SignInsAreFresh ==
  \A s \in SignIns : signIns[s].step = "upsert" =>
    /\ credential # None => credential.token # signIns[s].token
    /\ \A d \in Callers :
         /\ tokenCalls[d].token # signIns[s].token
         /\ tokenCalls[d].rotated # signIns[s].token
    /\ \A r \in SignIns :
         signIns[r].step = "upsert" /\ signIns[r].token = signIns[s].token => r = s

(* Who holds the lease has asked for it, until when it says, and holds a   *)
(* pair later than the one stored.                                         *)
LeaseIsHeld ==
  credential # None => \A c \in Callers : credential.lease = c =>
    /\ tokenCalls[c].step \notin {"idle", "lease"}
    /\ credential.leaseUntil = tokenCalls[c].at + LeaseSeconds
    /\ tokenCalls[c].step = "store" => tokenCalls[c].rotated > credential.token

(* The row says of its grant's life what the call that obtained it knew.   *)
RowIsDated ==
  credential # None =>
    \/ credential.refreshUntil = minted[credential.token] + RefreshLife
    \/ \E d \in Callers :
         /\ tokenCalls[d].rotated = credential.token
         /\ credential.refreshUntil = tokenCalls[d].at + RefreshLife

RevokedIsOld ==
  \A c \in Callers : tokenCalls[c].step = "revoke" =>
    ~C!Usable(tokenCalls[c].token) \/ C!Outlived(c)

Overtaken(c) ==
  \E d \in Callers : tokenCalls[d].at >= tokenCalls[c].at + LeaseSeconds

(* While nothing is lost, who spends or has spent the stored grant has the *)
(* lease or was outlived by it.                                            *)
SpentByHolder ==
  losses = 0 =>
    /\ \A t \in spent : \E c \in Callers :
         tokenCalls[c].token = t /\ tokenCalls[c].rotated # None
    /\ \A c \in Callers :
         C!Live /\ credential.token = tokenCalls[c].token =>
           /\ tokenCalls[c].step = "refresh" => credential.lease = c \/ Overtaken(c)
           /\ tokenCalls[c].rotated # None =>
                \/ tokenCalls[c].step = "store" /\ credential.lease = c
                \/ Overtaken(c)

CredentialSound ==
  /\ CredentialTyped /\ CallsHold /\ SignInsHold /\ CallsAreFresh /\ SignInsAreFresh
  /\ LeaseIsHeld /\ RowIsDated /\ RevokedIsOld /\ SpentByHolder

-----------------------------------------------------------------------------
LEMMA StepRecord ==
  ASSUME NEW D, NEW k \in Lookup(D), NEW x
  PROVE  [k EXCEPT !.step = x] =
           [step |-> x, at |-> k.at, token |-> k.token, rotated |-> k.rotated]
BY DEF Lookup

LEMMA LookupsStay ==
  ASSUME NEW D, NEW E, D \subseteq E, NEW f \in [Callers -> Lookup(D)],
         NEW c \in Callers, NEW v \in Lookup(E)
  PROVE  [f EXCEPT ![c] = v] \in [Callers -> Lookup(E)]
<1>1. ASSUME NEW d \in Callers
      PROVE  f[d] \in Lookup(E)
  BY <1>1 DEF Lookup
<1> QED
  BY <1>1

LEMMA CallbacksStay ==
  ASSUME NEW D, NEW E, D \subseteq E, NEW f \in [SignIns -> Callback(D)],
         NEW s \in SignIns, NEW v \in Callback(E)
  PROVE  [f EXCEPT ![s] = v] \in [SignIns -> Callback(E)]
<1>1. ASSUME NEW r \in SignIns
      PROVE  f[r] \in Callback(E)
  BY <1>1 DEF Callback
<1> QED
  BY <1>1

LEMMA CountSame ==
  ASSUME NEW D
  PROVE  C!Cardinality(D) = Cardinality(D)
BY DEF C!Cardinality, Cardinality

(* The pair minted next is none minted before.                             *)
LEMMA NextIsNew ==
  ASSUME CredentialTyped, C!Mint
  PROVE  /\ C!NextToken \in Nat /\ C!NextToken \notin Minted
         /\ \A t \in Minted : t \in Nat /\ t < C!NextToken /\ minted'[t] = minted[t]
         /\ minted'[C!NextToken] = time
         /\ Minted' = Minted \union {C!NextToken}
         /\ \E n \in Nat : Minted' = 1..n
<1>1. PICK n \in Nat : Minted = 1..n
  BY DEF CredentialTyped
<1>2. Cardinality(1..n) = n
  <2>1. Cardinality(1..n) = IF 1 > n THEN 0 ELSE n - 1 + 1
    BY FS_Interval
  <2> QED
    BY <2>1
<1>3. C!NextToken = n + 1
  BY <1>1, <1>2, CountSame DEF C!NextToken, Minted
<1>4. Minted' = 1..(n + 1)
  BY <1>1, <1>3 DEF C!Mint, Minted
<1>5. minted' = [t \in Minted \union {n + 1} |-> IF t = n + 1 THEN time ELSE minted[t]]
  BY <1>3 DEF C!Mint, Minted
<1> QED
  BY <1>1, <1>3, <1>4, <1>5

LEMMA PairsAreNumbers ==
  ASSUME CredentialTyped
  PROVE  Minted \subseteq Nat
BY DEF CredentialTyped

(* What the types say of the fields that are read below.                   *)
LEMMA Fields ==
  ASSUME C!TimesAssumption, CredentialTyped
  PROVE  /\ None \notin Minted /\ None \notin Callers
         /\ time \in Nat /\ losses \in Nat /\ LeaseSeconds \in Nat /\ RefreshLife \in Nat
         /\ LeaseSeconds > 0 /\ RefreshLife > 0
         /\ \A c \in Callers :
              /\ tokenCalls[c] \in Lookup(Minted) /\ tokenCalls[c].at \in Nat
              /\ tokenCalls[c].at <= time
              /\ tokenCalls[c].token \in Minted \union {None}
              /\ tokenCalls[c].rotated \in Minted \union {None}
         /\ \A s \in SignIns :
              /\ signIns[s] \in Callback(Minted) /\ signIns[s].at \in Nat
              /\ signIns[s].token \in Minted \union {None}
         /\ credential # None =>
              /\ credential \in Stored(Minted) /\ credential.token \in Minted
              /\ credential.refreshUntil \in Nat /\ credential.leaseUntil \in Nat
              /\ credential.lease \in Callers \union {None}
         /\ \A t \in Minted : t \in Nat /\ minted[t] \in Nat /\ minted[t] <= time
<1>1. Minted \subseteq Nat
  BY PairsAreNumbers
<1> QED
  BY <1>1 DEF CredentialTyped, C!TimesAssumption, Lookup, Callback, Stored

LEMMA CredentialInit ==
  ASSUME C!TimesAssumption, C!Init
  PROVE  CredentialSound
<1>1. Minted = 1..0
  BY DEF C!Init, Minted
<1>2. CredentialTyped
  BY <1>1 DEF C!Init, CredentialTyped, C!TimesAssumption, Lookup, Callback
<1>3. CallsHold /\ SignInsHold /\ CallsAreFresh /\ SignInsAreFresh /\ LeaseIsHeld
      /\ RowIsDated /\ RevokedIsOld /\ SpentByHolder
  BY DEF C!Init, CallsHold, SignInsHold, CallsAreFresh, SignInsAreFresh, LeaseIsHeld,
     RowIsDated, RevokedIsOld, SpentByHolder, C!Live
<1> QED
  BY <1>2, <1>3 DEF CredentialSound

(***************************************************************************)
(* A call gives up, for a reason of its own.                               *)
(***************************************************************************)
LEMMA CallLeaves ==
  ASSUME C!TimesAssumption, CredentialSound, NEW c \in Callers,
         NEW x \in {"revoke", "release", "refused", "dead"},
         tokenCalls[c].step \in {"lease", "refresh", "store", "release", "revoke"},
         x = "revoke" =>
           tokenCalls[c].step = "refresh" /\ ~C!Usable(tokenCalls[c].token),
         tokenCalls' = [tokenCalls EXCEPT ![c].step = x],
         losses' \in 0..MaxLosses, losses' = 0 => losses = 0,
         losses' = 0 => tokenCalls[c].step # "store" \/ ~C!StillLeased(c),
         UNCHANGED <<time, minted, spent, withdrawn, credential, signedIn, signIns>>
  PROVE  CredentialSound'
<1> USE Fields DEF CredentialSound
<1>1. tokenCalls' = [tokenCalls EXCEPT ![c] =
        [step |-> x, at |-> tokenCalls[c].at, token |-> tokenCalls[c].token,
         rotated |-> tokenCalls[c].rotated]]
  <2>1. tokenCalls \in [Callers -> Lookup(Minted)]
    BY DEF CredentialTyped
  <2>2. tokenCalls[c] \in Lookup(Minted)
    BY <2>1
  <2>3. [tokenCalls[c] EXCEPT !.step = x] =
          [step |-> x, at |-> tokenCalls[c].at, token |-> tokenCalls[c].token,
           rotated |-> tokenCalls[c].rotated]
    BY <2>2, StepRecord
  <2> QED
    BY <2>1, <2>3
<1>2. /\ tokenCalls'[c].step = x
      /\ tokenCalls'[c].at = tokenCalls[c].at
      /\ tokenCalls'[c].token = tokenCalls[c].token
      /\ tokenCalls'[c].rotated = tokenCalls[c].rotated
      /\ \A d \in Callers \ {c} : tokenCalls'[d] = tokenCalls[d]
  BY <1>1 DEF CredentialTyped
<1>3. Minted' = Minted
  BY DEF Minted
<1>4. tokenCalls' \in [Callers -> Lookup(Minted)]
  <2>1. [step |-> x, at |-> tokenCalls[c].at, token |-> tokenCalls[c].token,
         rotated |-> tokenCalls[c].rotated] \in Lookup(Minted)
    BY DEF Lookup
  <2> QED
    BY <1>1, <2>1, LookupsStay DEF CredentialTyped
<1>5. CredentialTyped'
  BY <1>2, <1>3, <1>4 DEF CredentialTyped
<1>6. CallsHold' /\ SignInsHold'
  BY <1>2 DEF CallsHold, SignInsHold
<1>7. CallsAreFresh' /\ SignInsAreFresh'
  BY <1>2 DEF CallsAreFresh, SignInsAreFresh
<1>8. LeaseIsHeld' /\ RowIsDated'
  BY <1>2 DEF LeaseIsHeld, RowIsDated
<1>9. RevokedIsOld'
  BY <1>2 DEF RevokedIsOld, C!Usable, C!Outlived
<1>10. SpentByHolder'
  BY <1>2 DEF SpentByHolder, C!Live, C!StillLeased, Overtaken, CallsHold
<1> QED
  BY <1>5, <1>6, <1>7, <1>8, <1>9, <1>10

LEMMA RowsAreRows ==
  ASSUME C!TimesAssumption, NEW D, D \subseteq Nat, NEW row \in Stored(D)
  PROVE  row # None
BY DEF C!TimesAssumption, Stored, C!RowOf

(* The row when a lease is taken or given up, and when it is revoked.      *)
LEMMA RowOnLease ==
  ASSUME C!TimesAssumption, CredentialTyped, credential # None,
         NEW l \in Callers \union {None}, NEW until \in Nat,
         credential' = [credential EXCEPT !.lease = l, !.leaseUntil = until]
  PROVE  /\ credential' \in Stored(Minted) /\ credential' # None
         /\ credential'.token = credential.token
         /\ credential'.refreshUntil = credential.refreshUntil
         /\ credential'.revoked = credential.revoked
         /\ credential'.lease = l /\ credential'.leaseUntil = until
<1> DEFINE Ls == Callers \union {None}
           Bs == BOOLEAN
           Rows == [token : Minted, accessUntil : Nat, refreshUntil : Nat, revoked : Bs,
                    lease : Ls, leaseUntil : Nat]
           mid == [credential EXCEPT !.lease = l]
<1>1. Stored(Minted) = Rows /\ credential \in Rows /\ l \in Ls
  BY DEF Stored, CredentialTyped
<1>2. credential' = [mid EXCEPT !.leaseUntil = until]
  OBVIOUS
<1> HIDE DEF Ls, Bs
<1>3. /\ mid \in Rows /\ mid.token = credential.token
      /\ mid.refreshUntil = credential.refreshUntil
      /\ mid.revoked = credential.revoked /\ mid.lease = l
  BY <1>1
<1> HIDE DEF mid
<1>4. /\ credential' \in Rows /\ credential'.token = mid.token
      /\ credential'.refreshUntil = mid.refreshUntil
      /\ credential'.revoked = mid.revoked /\ credential'.lease = mid.lease
      /\ credential'.leaseUntil = until
  BY <1>2, <1>3
<1> HIDE DEF Rows
<1>5. credential' \in Stored(Minted)
  BY <1>1, <1>4
<1> QED
  BY <1>3, <1>4, <1>5, RowsAreRows, PairsAreNumbers

LEMMA RowOnRevocation ==
  ASSUME C!TimesAssumption, CredentialTyped, credential # None,
         credential' = [credential EXCEPT !.revoked = TRUE, !.lease = None, !.leaseUntil = 0]
  PROVE  /\ credential' \in Stored(Minted) /\ credential' # None
         /\ credential'.token = credential.token
         /\ credential'.refreshUntil = credential.refreshUntil
         /\ credential'.revoked /\ credential'.lease = None
<1> DEFINE Ls == Callers \union {None}
           Bs == BOOLEAN
           yes == TRUE
           Rows == [token : Minted, accessUntil : Nat, refreshUntil : Nat, revoked : Bs,
                    lease : Ls, leaseUntil : Nat]
           free == 0
           one == [credential EXCEPT !.revoked = yes]
           two == [one EXCEPT !.lease = None]
<1>1. Stored(Minted) = Rows /\ credential \in Rows /\ yes \in Bs /\ None \in Ls
      /\ free \in Nat
  BY DEF Stored, CredentialTyped
<1>2. credential' = [two EXCEPT !.leaseUntil = free]
  OBVIOUS
<1> HIDE DEF Ls, Bs, yes, free
<1>3. /\ one \in Rows /\ one.token = credential.token
      /\ one.refreshUntil = credential.refreshUntil /\ one.revoked = yes
  BY <1>1
<1> HIDE DEF one
<1>4. /\ two \in Rows /\ two.token = one.token
      /\ two.refreshUntil = one.refreshUntil /\ two.revoked = one.revoked /\ two.lease = None
  BY <1>1, <1>3
<1> HIDE DEF two
<1>5. /\ credential' \in Rows /\ credential'.token = two.token
      /\ credential'.refreshUntil = two.refreshUntil
      /\ credential'.revoked = two.revoked /\ credential'.lease = two.lease
  BY ONLY <1>1, <1>2, <1>4
<1> HIDE DEF Rows
<1>6. credential' \in Stored(Minted)
  BY <1>1, <1>5
<1>7. credential'.revoked
  BY <1>3, <1>4, <1>5 DEF yes
<1> QED
  BY <1>3, <1>4, <1>5, <1>6, <1>7, RowsAreRows, PairsAreNumbers

LEMMA CallReads ==
  ASSUME C!TimesAssumption, CredentialSound, NEW c \in Callers, C!FindCredential(c)
  PROVE  CredentialSound'
<1> USE Fields DEF CredentialSound
<1>1. PICK x \in {"refused", "handed", "revoke", "lease"} :
        /\ tokenCalls' = [tokenCalls EXCEPT ![c] =
             [step |-> x, at |-> time, token |-> credential.token, rotated |-> None]]
        /\ x = "revoke" => credential.refreshUntil <= time
  BY DEF C!FindCredential
<1>2. /\ tokenCalls[c].step = "idle" /\ tokenCalls[c].rotated = None /\ credential # None
      /\ UNCHANGED <<time, losses, minted, spent, withdrawn, credential, signedIn, signIns>>
  BY DEF C!FindCredential, C!github, CallsHold
<1>3. /\ tokenCalls'[c].step = x /\ tokenCalls'[c].at = time
      /\ tokenCalls'[c].token = credential.token /\ tokenCalls'[c].rotated = None
      /\ \A d \in Callers \ {c} : tokenCalls'[d] = tokenCalls[d]
  BY <1>1 DEF CredentialTyped
<1>4. tokenCalls' \in [Callers -> Lookup(Minted)]
  <2>1. [step |-> x, at |-> time, token |-> credential.token, rotated |-> None]
          \in Lookup(Minted)
    BY <1>2 DEF Lookup
  <2> QED
    BY <1>1, <2>1, LookupsStay DEF CredentialTyped
<1>5. CredentialTyped'
  <2>1. Minted' = Minted
    BY <1>2 DEF Minted
  <2>2. \A d \in Callers : tokenCalls'[d].at <= time
    BY <1>3
  <2> QED
    BY <1>2, <1>4, <2>1, <2>2 DEF CredentialTyped
<1>6. CallsHold' /\ SignInsHold'
  BY <1>2, <1>3 DEF CallsHold, SignInsHold
<1>7. CallsAreFresh' /\ SignInsAreFresh'
  BY <1>2, <1>3 DEF CallsAreFresh, SignInsAreFresh, SignInsHold, CallsHold
<1>8. LeaseIsHeld'
  BY <1>2, <1>3 DEF LeaseIsHeld
<1>9. RowIsDated'
  BY <1>2, <1>3 DEF RowIsDated
<1>10. RevokedIsOld'
  <2>1. ASSUME NEW d \in Callers \ {c}, tokenCalls'[d].step = "revoke"
        PROVE  ~C!Usable(tokenCalls[d].token)' \/ C!Outlived(d)'
    <3>1. ~C!Usable(tokenCalls[d].token) \/ C!Outlived(d)
      BY <1>3, <2>1 DEF RevokedIsOld
    <3>2. ASSUME NEW e \in Callers, tokenCalls[e].rotated = tokenCalls[d].token
          PROVE  tokenCalls'[e] = tokenCalls[e]
      BY <1>2, <1>3, <2>1, <3>2 DEF CallsHold
    <3> QED
      BY <1>2, <1>3, <2>1, <3>1, <3>2 DEF C!Usable, C!Outlived
  <2>2. ASSUME x = "revoke"
        PROVE  ~C!Usable(tokenCalls[c].token)' \/ C!Outlived(c)'
    <3>1. CASE credential.refreshUntil = minted[credential.token] + RefreshLife
      BY <1>1, <1>2, <1>3, <2>2, <3>1 DEF C!Usable
    <3>2. ASSUME NEW d \in Callers, tokenCalls[d].rotated = credential.token,
                 credential.refreshUntil = tokenCalls[d].at + RefreshLife
          PROVE  C!Outlived(c)'
      <4>1. d # c
        BY <1>2, <3>2
      <4> QED
        BY <1>1, <1>2, <1>3, <2>2, <3>2, <4>1 DEF C!Outlived
    <3> QED
      BY <1>2, <3>1, <3>2 DEF RowIsDated
  <2> QED
    BY <1>3, <2>1, <2>2 DEF RevokedIsOld
<1>11. SpentByHolder'
  BY <1>2, <1>3 DEF SpentByHolder, C!Live, Overtaken
<1> QED
  BY <1>5, <1>6, <1>7, <1>8, <1>9, <1>10, <1>11

LEMMA CallIsGranted ==
  ASSUME C!TimesAssumption, CredentialSound, NEW c \in Callers,
         C!TryAcquireRefreshLease(c), C!LeaseFree(c)
  PROVE  CredentialSound'
<1> USE Fields DEF CredentialSound
<1>1. /\ tokenCalls[c].step = "lease" /\ credential # None /\ tokenCalls[c].rotated = None
      /\ UNCHANGED <<time, losses, minted, spent, withdrawn, signedIn, signIns>>
      /\ ~credential.revoked
      /\ credential.lease = None \/ credential.leaseUntil <= tokenCalls[c].at
  BY DEF C!TryAcquireRefreshLease, C!github, C!LeaseFree, C!Live, CallsHold
<1>2. tokenCalls' = [tokenCalls EXCEPT ![c] =
        [step |-> "refresh", at |-> tokenCalls[c].at, token |-> tokenCalls[c].token,
         rotated |-> tokenCalls[c].rotated]]
  <2>1. tokenCalls' = [tokenCalls EXCEPT ![c].step = "refresh"]
    BY DEF C!TryAcquireRefreshLease
  <2>2. tokenCalls \in [Callers -> Lookup(Minted)] /\ tokenCalls[c] \in Lookup(Minted)
    BY DEF CredentialTyped
  <2>3. [tokenCalls[c] EXCEPT !.step = "refresh"] =
          [step |-> "refresh", at |-> tokenCalls[c].at, token |-> tokenCalls[c].token,
           rotated |-> tokenCalls[c].rotated]
    BY <2>2, StepRecord
  <2> QED
    BY <2>1, <2>2, <2>3
<1>3. /\ tokenCalls'[c].step = "refresh"
      /\ tokenCalls'[c].at = tokenCalls[c].at
      /\ tokenCalls'[c].token = tokenCalls[c].token
      /\ tokenCalls'[c].rotated = tokenCalls[c].rotated
      /\ \A d \in Callers \ {c} : tokenCalls'[d] = tokenCalls[d]
  BY <1>2 DEF CredentialTyped
<1>4. /\ credential' \in Stored(Minted) /\ credential' # None
      /\ credential'.token = credential.token
      /\ credential'.refreshUntil = credential.refreshUntil
      /\ credential'.revoked = credential.revoked
      /\ credential'.lease = c
      /\ credential'.leaseUntil = tokenCalls[c].at + LeaseSeconds
  <2>1. /\ credential' = [credential EXCEPT !.lease = c,
                            !.leaseUntil = tokenCalls[c].at + LeaseSeconds]
        /\ tokenCalls[c].at + LeaseSeconds \in Nat
    BY DEF C!TryAcquireRefreshLease
  <2> QED
    BY <1>1, <2>1, RowOnLease
<1>5. tokenCalls' \in [Callers -> Lookup(Minted)]
  <2>1. [step |-> "refresh", at |-> tokenCalls[c].at, token |-> tokenCalls[c].token,
         rotated |-> tokenCalls[c].rotated] \in Lookup(Minted)
    BY DEF Lookup
  <2> QED
    BY <1>2, <2>1, LookupsStay DEF CredentialTyped
<1>6. CredentialTyped'
  BY <1>1, <1>3, <1>4, <1>5 DEF CredentialTyped, Minted
<1>7. CallsHold' /\ SignInsHold'
  BY <1>1, <1>3, <1>4 DEF CallsHold, SignInsHold
<1>8. CallsAreFresh' /\ SignInsAreFresh'
  BY <1>1, <1>3, <1>4 DEF CallsAreFresh, SignInsAreFresh
<1>9. LeaseIsHeld'
  BY <1>1, <1>3, <1>4 DEF LeaseIsHeld
<1>10. RowIsDated'
  BY <1>1, <1>3, <1>4 DEF RowIsDated
<1>11. RevokedIsOld'
  BY <1>1, <1>3 DEF RevokedIsOld, C!Usable, C!Outlived
<1>12. SpentByHolder'
  <2> SUFFICES ASSUME losses' = 0
               PROVE  SpentByHolder'
    BY DEF SpentByHolder
  <2>1. ASSUME NEW t \in spent'
        PROVE  \E d \in Callers : tokenCalls'[d].token = t /\ tokenCalls'[d].rotated # None
    BY <1>1, <1>3, <2>1 DEF SpentByHolder
  <2>2. ASSUME NEW d \in Callers, credential.token = tokenCalls[d].token, d # c,
               tokenCalls[d].step = "refresh" \/ tokenCalls[d].rotated # None
        PROVE  Overtaken(d)'
    <3>1. credential.lease = d \/ Overtaken(d)
      BY <1>1, <2>2 DEF SpentByHolder, C!Live
    <3>2. CASE credential.lease = d
      BY <1>1, <1>3, <2>2, <3>2 DEF LeaseIsHeld, Overtaken
    <3>3. CASE Overtaken(d)
      BY <1>3, <2>2, <3>3 DEF Overtaken
    <3> QED
      BY <3>1, <3>2, <3>3
  <2> QED
    BY <1>1, <1>3, <1>4, <2>1, <2>2 DEF SpentByHolder, C!Live
<1> QED
  BY <1>6, <1>7, <1>8, <1>9, <1>10, <1>11, <1>12

(* GitHub mints a pair for somebody; what is known of earlier pairs stays. *)
LEMMA MintKeeps ==
  ASSUME C!TimesAssumption, CredentialTyped, C!Mint, UNCHANGED time
  PROVE  /\ \A D : D = Minted => D \subseteq Minted'
         /\ C!NextToken \in Minted' /\ C!NextToken # None
         /\ \A t \in Minted' : minted'[t] \in 0..time
         /\ \E n \in Nat : Minted' = 1..n
         /\ signIns \in [SignIns -> Callback(Minted')]
         /\ tokenCalls \in [Callers -> Lookup(Minted')]
         /\ credential \in Stored(Minted') \union {None}
<1>1. Minted' = Minted \union {C!NextToken} /\ C!NextToken \in Nat
      /\ \E n \in Nat : Minted' = 1..n
  BY NextIsNew
<1>2. C!NextToken # None
  BY <1>1 DEF C!TimesAssumption
<1>3. \A t \in Minted' : minted'[t] \in 0..time
  BY <1>1, NextIsNew DEF CredentialTyped
<1>4. ASSUME NEW s \in SignIns
      PROVE  signIns[s] \in Callback(Minted')
  <2>1. signIns[s] \in Callback(Minted)
    BY DEF CredentialTyped
  <2> QED
    BY <1>1, <2>1 DEF Callback
<1>5. ASSUME NEW c \in Callers
      PROVE  tokenCalls[c] \in Lookup(Minted')
  <2>1. tokenCalls[c] \in Lookup(Minted)
    BY DEF CredentialTyped
  <2> QED
    BY <1>1, <2>1 DEF Lookup
<1>6. credential \in Stored(Minted') \union {None}
  <2> DEFINE Bs == BOOLEAN
  <2>1. credential \in [token : Minted, accessUntil : Nat, refreshUntil : Nat, revoked : Bs,
                        lease : Callers \union {None}, leaseUntil : Nat] \union {None}
    BY DEF CredentialTyped, Stored
  <2> HIDE DEF Bs
  <2>2. credential \in [token : Minted', accessUntil : Nat, refreshUntil : Nat, revoked : Bs,
                        lease : Callers \union {None}, leaseUntil : Nat] \union {None}
    BY <1>1, <2>1
  <2> QED
    BY <2>2 DEF Stored, Bs
<1> QED
  BY <1>1, <1>2, <1>3, <1>4, <1>5, <1>6 DEF CredentialTyped

(* The exchange succeeds: the answer arrives, or is lost.                  *)
LEMMA CallRotates ==
  ASSUME C!TimesAssumption, CredentialSound, NEW c \in Callers, C!Rotate(c),
         NEW x \in {"store", "release"}, NEW r,
         r = IF x = "store" THEN C!NextToken ELSE None,
         tokenCalls' = [tokenCalls EXCEPT ![c] =
           [step |-> x, at |-> tokenCalls[c].at, token |-> tokenCalls[c].token,
            rotated |-> r]],
         losses' \in 0..MaxLosses, losses' = 0 => losses = 0 /\ x = "store",
         UNCHANGED <<time, credential, signedIn, signIns>>
  PROVE  CredentialSound'
<1> USE Fields DEF CredentialSound
<1>1. /\ tokenCalls[c].step = "refresh" /\ tokenCalls[c].rotated = None
      /\ tokenCalls[c].token \in Minted /\ credential # None
      /\ tokenCalls[c].token \notin spent
      /\ spent' = spent \union {tokenCalls[c].token} /\ UNCHANGED withdrawn
      /\ C!Mint
  BY DEF C!Rotate, C!Usable, CallsHold
<1>2. /\ C!NextToken \in Nat /\ C!NextToken \notin Minted /\ C!NextToken # None
      /\ \A t \in Minted : t < C!NextToken /\ minted'[t] = minted[t]
      /\ minted'[C!NextToken] = time
      /\ Minted' = Minted \union {C!NextToken}
  BY <1>1, NextIsNew, MintKeeps
<1>3. /\ tokenCalls'[c].step = x
      /\ tokenCalls'[c].at = tokenCalls[c].at
      /\ tokenCalls'[c].token = tokenCalls[c].token
      /\ tokenCalls'[c].rotated = r
      /\ \A d \in Callers \ {c} : tokenCalls'[d] = tokenCalls[d]
  BY DEF CredentialTyped
<1>4. tokenCalls' \in [Callers -> Lookup(Minted')]
  <2>1. [step |-> x, at |-> tokenCalls[c].at, token |-> tokenCalls[c].token, rotated |-> r]
          \in Lookup(Minted')
    BY <1>2 DEF Lookup
  <2>2. tokenCalls \in [Callers -> Lookup(Minted')]
    BY <1>1, MintKeeps
  <2> QED
    BY <2>1, <2>2
<1>5. CredentialTyped'
  <2>1. \A d \in Callers : tokenCalls'[d].at <= time
    BY <1>3
  <2>2. spent' \subseteq Minted' /\ withdrawn' \subseteq Minted'
    BY <1>1, <1>2 DEF CredentialTyped
  <2>3. credential' \in Stored(Minted') \union {None}
        /\ signIns' \in [SignIns -> Callback(Minted')]
        /\ (\A t \in Minted' : minted'[t] \in 0..time)
        /\ \E n \in Nat : Minted' = 1..n
    BY <1>1, MintKeeps
  <2> QED
    BY <1>4, <2>1, <2>2, <2>3 DEF CredentialTyped
<1>6. CallsHold' /\ SignInsHold'
  <2>1. CallsHold'
    BY <1>1, <1>2, <1>3 DEF CallsHold
  <2>2. SignInsHold'
    BY <1>2 DEF SignInsHold
  <2> QED
    BY <2>1, <2>2
<1>7. CallsAreFresh'
  BY <1>1, <1>2, <1>3 DEF CallsAreFresh, CallsHold
<1>8. SignInsAreFresh'
  BY <1>1, <1>2, <1>3 DEF SignInsAreFresh, SignInsHold
<1>9. LeaseIsHeld'
  BY <1>1, <1>2, <1>3 DEF LeaseIsHeld
<1>10. RowIsDated'
  BY <1>1, <1>2, <1>3 DEF RowIsDated
<1>11. RevokedIsOld'
  <2>1. ASSUME NEW d \in Callers, tokenCalls'[d].step = "revoke"
        PROVE  ~C!Usable(tokenCalls[d].token)' \/ C!Outlived(d)'
    <3>1. d # c /\ tokenCalls'[d] = tokenCalls[d] /\ tokenCalls[d].token \in Minted
      BY <1>3, <2>1 DEF CallsHold
    <3>2. CASE ~C!Usable(tokenCalls[d].token)
      BY <1>1, <1>2, <3>1, <3>2 DEF C!Usable
    <3>3. CASE C!Outlived(d)
      BY <1>1, <1>3, <3>1, <3>3 DEF C!Outlived
    <3> QED
      BY <2>1, <3>1, <3>2, <3>3 DEF RevokedIsOld
  <2>2. ASSUME NEW d \in Callers, tokenCalls'[d].step = "revoke"
        PROVE  tokenCalls'[d].token = tokenCalls[d].token
    BY <1>3
  <2> QED
    BY <2>1, <2>2 DEF RevokedIsOld, C!Usable
<1>12. SpentByHolder'
  <2> SUFFICES ASSUME losses' = 0
               PROVE  SpentByHolder'
    BY DEF SpentByHolder
  <2>1. losses = 0 /\ r = C!NextToken
    OBVIOUS
  <2>2. ASSUME NEW t \in spent'
        PROVE  \E d \in Callers : tokenCalls'[d].token = t /\ tokenCalls'[d].rotated # None
    <3>1. CASE t = tokenCalls[c].token
      BY <1>2, <1>3, <2>1, <3>1
    <3>2. CASE t \in spent
      BY <1>1, <1>3, <2>1, <3>2 DEF SpentByHolder
    <3> QED
      BY <1>1, <2>2, <3>1, <3>2
  <2>3. \A d \in Callers : Overtaken(d) => Overtaken(d)'
    BY <1>3 DEF Overtaken
  <2> QED
    BY <1>1, <1>3, <2>1, <2>2, <2>3 DEF SpentByHolder, C!Live
<1> QED
  BY <1>5, <1>6, <1>7, <1>8, <1>9, <1>10, <1>11, <1>12

LEMMA CallCompletes ==
  ASSUME C!TimesAssumption, CredentialSound, NEW c \in Callers,
         tokenCalls[c].step = "store", C!StillLeased(c),
         credential' = C!Row(tokenCalls[c].rotated, tokenCalls[c].at),
         tokenCalls' = [tokenCalls EXCEPT ![c].step = "handed"],
         UNCHANGED <<time, losses, minted, spent, withdrawn, signedIn, signIns>>
  PROVE  CredentialSound'
<1> USE Fields DEF CredentialSound
<1>1. tokenCalls' = [tokenCalls EXCEPT ![c] =
        [step |-> "handed", at |-> tokenCalls[c].at, token |-> tokenCalls[c].token,
         rotated |-> tokenCalls[c].rotated]]
  <2>1. tokenCalls \in [Callers -> Lookup(Minted)] /\ tokenCalls[c] \in Lookup(Minted)
    BY DEF CredentialTyped
  <2>2. [tokenCalls[c] EXCEPT !.step = "handed"] =
          [step |-> "handed", at |-> tokenCalls[c].at, token |-> tokenCalls[c].token,
           rotated |-> tokenCalls[c].rotated]
    BY <2>1, StepRecord
  <2> QED
    BY <2>1, <2>2
<1>2. /\ tokenCalls'[c].step = "handed"
      /\ tokenCalls'[c].at = tokenCalls[c].at
      /\ tokenCalls'[c].token = tokenCalls[c].token
      /\ tokenCalls'[c].rotated = tokenCalls[c].rotated
      /\ \A d \in Callers \ {c} : tokenCalls'[d] = tokenCalls[d]
  BY <1>1 DEF CredentialTyped
<1>3. /\ tokenCalls[c].rotated \in Minted /\ credential # None
      /\ credential.token # tokenCalls[c].rotated
      /\ tokenCalls[c].token # None
  BY DEF CallsHold, CallsAreFresh
<1>4. /\ credential' \in Stored(Minted) /\ credential' # None
      /\ credential'.token = tokenCalls[c].rotated
      /\ credential'.refreshUntil = tokenCalls[c].at + RefreshLife
      /\ credential'.lease = None
  <2>1. C!Row(tokenCalls[c].rotated, tokenCalls[c].at) \in Stored(Minted)
    BY <1>3 DEF C!Row, Stored, C!TimesAssumption
  <2> QED
    BY <2>1, RowsAreRows, PairsAreNumbers DEF C!Row
<1>5. tokenCalls' \in [Callers -> Lookup(Minted)]
  <2>1. [step |-> "handed", at |-> tokenCalls[c].at, token |-> tokenCalls[c].token,
         rotated |-> tokenCalls[c].rotated] \in Lookup(Minted)
    BY DEF Lookup
  <2> QED
    BY <1>1, <2>1 DEF CredentialTyped
<1>6. CredentialTyped'
  BY <1>2, <1>4, <1>5 DEF CredentialTyped, Minted
<1>7. CallsHold' /\ SignInsHold'
  BY <1>2, <1>4 DEF CallsHold, SignInsHold
<1>8. CallsAreFresh'
  BY <1>2, <1>3, <1>4 DEF CallsAreFresh
<1>9. SignInsAreFresh'
  BY <1>2, <1>4 DEF SignInsAreFresh
<1>10. LeaseIsHeld'
  BY <1>4 DEF LeaseIsHeld
<1>11. RowIsDated'
  BY <1>2, <1>4 DEF RowIsDated
<1>12. RevokedIsOld'
  BY <1>2 DEF RevokedIsOld, C!Usable, C!Outlived
<1>13. SpentByHolder'
  <2>1. ASSUME NEW d \in Callers
        PROVE  credential'.token # tokenCalls'[d].token
    BY <1>2, <1>4 DEF CallsAreFresh
  <2> QED
    BY <1>2, <2>1 DEF SpentByHolder
<1> QED
  BY <1>6, <1>7, <1>8, <1>9, <1>10, <1>11, <1>12, <1>13

(* A call gives the lease back, or revokes the credential.                 *)
LEMMA CallReturns ==
  ASSUME C!TimesAssumption, CredentialSound, NEW c \in Callers,
         C!ReleaseRefreshLease(c) \/ C!RevokeCredentialAndSessions(c)
  PROVE  CredentialSound'
<1> USE Fields DEF CredentialSound
<1>1. /\ tokenCalls[c].step \in {"release", "revoke"} /\ credential # None
      /\ tokenCalls' = [tokenCalls EXCEPT ![c].step = "refused"]
      /\ UNCHANGED <<time, losses, minted, spent, withdrawn, signIns>>
      /\ signedIn' \subseteq SignIns
  BY DEF C!ReleaseRefreshLease, C!RevokeCredentialAndSessions, C!github, CallsHold,
     CredentialTyped
<1>2. tokenCalls' = [tokenCalls EXCEPT ![c] =
        [step |-> "refused", at |-> tokenCalls[c].at, token |-> tokenCalls[c].token,
         rotated |-> tokenCalls[c].rotated]]
  <2>1. tokenCalls \in [Callers -> Lookup(Minted)] /\ tokenCalls[c] \in Lookup(Minted)
    BY DEF CredentialTyped
  <2>2. [tokenCalls[c] EXCEPT !.step = "refused"] =
          [step |-> "refused", at |-> tokenCalls[c].at, token |-> tokenCalls[c].token,
           rotated |-> tokenCalls[c].rotated]
    BY <2>1, StepRecord
  <2> QED
    BY <1>1, <2>1, <2>2
<1>3. /\ tokenCalls'[c].step = "refused"
      /\ tokenCalls'[c].at = tokenCalls[c].at
      /\ tokenCalls'[c].token = tokenCalls[c].token
      /\ tokenCalls'[c].rotated = tokenCalls[c].rotated
      /\ \A d \in Callers \ {c} : tokenCalls'[d] = tokenCalls[d]
  BY <1>2 DEF CredentialTyped
<1>4. /\ credential' \in Stored(Minted) /\ credential' # None
      /\ credential'.token = credential.token
      /\ credential'.refreshUntil = credential.refreshUntil
      /\ \/ credential' = credential /\ credential.lease # c
         \/ /\ credential.lease = c /\ credential'.lease = None
            /\ credential'.revoked = credential.revoked
         \/ credential'.revoked /\ credential'.lease = None
  <2>1. CASE C!ReleaseRefreshLease(c)
    <3>1. CASE credential.lease = c
      <4>1. credential' = [credential EXCEPT !.lease = None, !.leaseUntil = 0]
        BY <2>1, <3>1 DEF C!ReleaseRefreshLease
      <4>2. None \in Callers \union {None} /\ 0 \in Nat
        OBVIOUS
      <4> QED
        BY <1>1, <3>1, <4>1, <4>2, RowOnLease
    <3>2. CASE credential.lease # c
      BY <1>1, <2>1, <3>2 DEF C!ReleaseRefreshLease, CredentialTyped
    <3> QED
      BY <3>1, <3>2
  <2>2. CASE C!RevokeCredentialAndSessions(c)
    BY <1>1, <2>2, RowOnRevocation DEF C!RevokeCredentialAndSessions
  <2> QED
    BY <2>1, <2>2
<1>5. tokenCalls' \in [Callers -> Lookup(Minted)]
  <2>1. [step |-> "refused", at |-> tokenCalls[c].at, token |-> tokenCalls[c].token,
         rotated |-> tokenCalls[c].rotated] \in Lookup(Minted)
    BY DEF Lookup
  <2> QED
    BY <1>2, <2>1 DEF CredentialTyped
<1>6. CredentialTyped'
  BY <1>1, <1>3, <1>4, <1>5 DEF CredentialTyped, Minted
<1>7. CallsHold' /\ SignInsHold'
  BY <1>1, <1>3, <1>4 DEF CallsHold, SignInsHold
<1>8. CallsAreFresh' /\ SignInsAreFresh'
  BY <1>1, <1>3, <1>4 DEF CallsAreFresh, SignInsAreFresh
<1>9. LeaseIsHeld'
  BY <1>1, <1>3, <1>4 DEF LeaseIsHeld
<1>10. RowIsDated'
  BY <1>1, <1>3, <1>4 DEF RowIsDated
<1>11. RevokedIsOld'
  BY <1>1, <1>3 DEF RevokedIsOld, C!Usable, C!Outlived
<1>12. SpentByHolder'
  <2>1. \A d \in Callers : Overtaken(d) <=> Overtaken(d)'
    BY <1>3 DEF Overtaken
  <2>2. CASE credential'.revoked
    BY <1>1, <1>3, <2>2 DEF SpentByHolder, C!Live
  <2>3. CASE ~credential'.revoked
    BY <1>1, <1>3, <1>4, <2>1, <2>3 DEF SpentByHolder, C!Live
  <2> QED
    BY <2>2, <2>3
<1> QED
  BY <1>6, <1>7, <1>8, <1>9, <1>10, <1>11, <1>12

LEMMA SignInGetsPair ==
  ASSUME C!TimesAssumption, CredentialSound, NEW s \in SignIns, C!ExchangeCode(s)
  PROVE  CredentialSound'
<1> USE Fields DEF CredentialSound
<1>1. /\ signIns[s].step = "idle" /\ C!Mint
      /\ signIns' = [signIns EXCEPT ![s] =
           [step |-> "upsert", at |-> time, token |-> C!NextToken]]
      /\ UNCHANGED <<time, losses, spent, withdrawn, credential, signedIn, tokenCalls>>
  BY DEF C!ExchangeCode
<1>2. /\ C!NextToken \in Nat /\ C!NextToken \notin Minted /\ C!NextToken # None
      /\ \A t \in Minted : t < C!NextToken /\ minted'[t] = minted[t]
      /\ minted'[C!NextToken] = time
      /\ Minted' = Minted \union {C!NextToken}
  BY <1>1, NextIsNew, MintKeeps
<1>3. /\ signIns'[s].step = "upsert" /\ signIns'[s].at = time
      /\ signIns'[s].token = C!NextToken
      /\ \A r \in SignIns \ {s} : signIns'[r] = signIns[r]
  BY <1>1 DEF CredentialTyped
<1>4. signIns' \in [SignIns -> Callback(Minted')]
  <2>1. [step |-> "upsert", at |-> time, token |-> C!NextToken] \in Callback(Minted')
    BY <1>2 DEF Callback
  <2>2. signIns \in [SignIns -> Callback(Minted')]
    BY <1>1, MintKeeps
  <2> QED
    BY <1>1, <2>1, <2>2
<1>5. CredentialTyped'
  <2>1. \A r \in SignIns : signIns'[r].at <= time
    BY <1>3 DEF CredentialTyped
  <2>2. spent' \subseteq Minted' /\ withdrawn' \subseteq Minted'
    BY <1>1, <1>2 DEF CredentialTyped
  <2>3. credential' \in Stored(Minted') \union {None}
        /\ tokenCalls' \in [Callers -> Lookup(Minted')]
        /\ (\A t \in Minted' : minted'[t] \in 0..time)
        /\ \E n \in Nat : Minted' = 1..n
    BY <1>1, MintKeeps
  <2> QED
    BY <1>1, <1>4, <2>1, <2>2, <2>3 DEF CredentialTyped
<1>6. CallsHold' /\ SignInsHold'
  <2>1. CallsHold'
    BY <1>1 DEF CallsHold
  <2>2. SignInsHold'
    BY <1>1, <1>2, <1>3 DEF SignInsHold
  <2> QED
    BY <2>1, <2>2
<1>7. CallsAreFresh'
  BY <1>1 DEF CallsAreFresh
<1>8. SignInsAreFresh'
  BY <1>1, <1>2, <1>3 DEF SignInsAreFresh, SignInsHold
<1>9. LeaseIsHeld'
  BY <1>1 DEF LeaseIsHeld
<1>10. RowIsDated'
  BY <1>1, <1>2 DEF RowIsDated
<1>11. RevokedIsOld'
  <2>1. ASSUME NEW d \in Callers, tokenCalls[d].step = "revoke"
        PROVE  ~C!Usable(tokenCalls[d].token)' \/ C!Outlived(d)'
    <3>1. tokenCalls[d].token \in Minted
      BY <2>1 DEF CallsHold
    <3>2. CASE ~C!Usable(tokenCalls[d].token)
      BY <1>1, <1>2, <3>1, <3>2 DEF C!Usable
    <3>3. CASE C!Outlived(d)
      BY <1>1, <3>3 DEF C!Outlived
    <3> QED
      BY <2>1, <3>2, <3>3 DEF RevokedIsOld
  <2> QED
    BY <1>1, <2>1 DEF RevokedIsOld, C!Usable
<1>12. SpentByHolder'
  BY <1>1 DEF SpentByHolder, C!Live, Overtaken
<1> QED
  BY <1>5, <1>6, <1>7, <1>8, <1>9, <1>10, <1>11, <1>12

LEMMA StepCallback ==
  ASSUME NEW D, NEW k \in Callback(D), NEW x
  PROVE  [k EXCEPT !.step = x] = [step |-> x, at |-> k.at, token |-> k.token]
BY DEF Callback

(* A sign-in goes on to another step.                                      *)
LEMMA SignInGoesOn ==
  ASSUME CredentialTyped, NEW s \in SignIns, NEW x \in {"session", "done", "dead"},
         signIns' = [signIns EXCEPT ![s].step = x]
  PROVE  /\ signIns'[s].step = x /\ signIns'[s].at = signIns[s].at
         /\ signIns'[s].token = signIns[s].token
         /\ \A r \in SignIns \ {s} : signIns'[r] = signIns[r]
         /\ signIns' \in [SignIns -> Callback(Minted)]
<1>1. signIns \in [SignIns -> Callback(Minted)] /\ signIns[s] \in Callback(Minted)
  BY DEF CredentialTyped
<1>2. [signIns[s] EXCEPT !.step = x] =
        [step |-> x, at |-> signIns[s].at, token |-> signIns[s].token]
  BY <1>1, StepCallback
<1>3. [step |-> x, at |-> signIns[s].at, token |-> signIns[s].token] \in Callback(Minted)
  BY <1>1 DEF Callback
<1> QED
  BY <1>1, <1>2, <1>3

LEMMA SignInStores ==
  ASSUME C!TimesAssumption, CredentialSound, NEW s \in SignIns, C!UpsertIdentity(s)
  PROVE  CredentialSound'
<1> USE Fields DEF CredentialSound
<1>1. /\ signIns[s].step = "upsert"
      /\ UNCHANGED <<time, losses, minted, spent, withdrawn, signedIn, tokenCalls>>
      /\ credential' = C!Row(signIns[s].token, signIns[s].at)
      /\ signIns' = [signIns EXCEPT ![s].step = "session"]
  BY DEF C!UpsertIdentity, C!github
<1>2. /\ signIns'[s].step = "session" /\ signIns'[s].at = signIns[s].at
      /\ signIns'[s].token = signIns[s].token
      /\ \A r \in SignIns \ {s} : signIns'[r] = signIns[r]
      /\ signIns' \in [SignIns -> Callback(Minted)]
  BY <1>1, SignInGoesOn
<1>3. /\ signIns[s].token \in Minted /\ signIns[s].at = minted[signIns[s].token]
  BY <1>1 DEF SignInsHold
<1>4. /\ credential' \in Stored(Minted) /\ credential' # None
      /\ credential'.token = signIns[s].token
      /\ credential'.refreshUntil = minted[signIns[s].token] + RefreshLife
      /\ credential'.lease = None
  <2>1. C!Row(signIns[s].token, signIns[s].at) \in Stored(Minted)
    BY <1>3 DEF C!Row, Stored, C!TimesAssumption
  <2> QED
    BY <1>1, <1>3, <2>1, RowsAreRows, PairsAreNumbers DEF C!Row
<1>5. CredentialTyped'
  BY <1>1, <1>2, <1>4 DEF CredentialTyped, Minted
<1>6. CallsHold' /\ SignInsHold'
  BY <1>1, <1>2, <1>4 DEF CallsHold, SignInsHold
<1>7. CallsAreFresh'
  BY <1>1, <1>4 DEF CallsAreFresh, SignInsAreFresh
<1>8. SignInsAreFresh'
  BY <1>1, <1>2, <1>4 DEF SignInsAreFresh
<1>9. LeaseIsHeld'
  BY <1>4 DEF LeaseIsHeld
<1>10. RowIsDated'
  BY <1>1, <1>4 DEF RowIsDated
<1>11. RevokedIsOld'
  BY <1>1 DEF RevokedIsOld, C!Usable, C!Outlived
<1>12. SpentByHolder'
  BY <1>1, <1>4 DEF SpentByHolder, SignInsAreFresh
<1> QED
  BY <1>5, <1>6, <1>7, <1>8, <1>9, <1>10, <1>11, <1>12

(* What is neither of a pair nor of a call: a session begins or ends, or a *)
(* sign-in dies.                                                           *)
LEMMA SignInsEnd ==
  ASSUME C!TimesAssumption, CredentialSound,
         UNCHANGED <<time, minted, spent, withdrawn, credential, tokenCalls>>,
         losses' \in 0..MaxLosses, losses' = 0 => losses = 0, signedIn' \subseteq SignIns,
         \/ UNCHANGED signIns
         \/ \E s \in SignIns, x \in {"done", "dead"} :
              signIns' = [signIns EXCEPT ![s].step = x]
  PROVE  CredentialSound'
<1> USE Fields DEF CredentialSound
<1>1. /\ signIns' \in [SignIns -> Callback(Minted)]
      /\ \A r \in SignIns :
           /\ signIns'[r].at = signIns[r].at /\ signIns'[r].token = signIns[r].token
           /\ signIns'[r].step = "upsert" => signIns[r].step = "upsert"
  <2>1. CASE UNCHANGED signIns
    BY <2>1 DEF CredentialTyped
  <2>2. ASSUME NEW s \in SignIns, NEW x \in {"done", "dead"},
               signIns' = [signIns EXCEPT ![s].step = x]
        PROVE  <1>1
    <3>1. x \in {"session", "done", "dead"}
      OBVIOUS
    <3>2. /\ signIns'[s].step = x /\ signIns'[s].at = signIns[s].at
          /\ signIns'[s].token = signIns[s].token
          /\ \A r \in SignIns \ {s} : signIns'[r] = signIns[r]
          /\ signIns' \in [SignIns -> Callback(Minted)]
      BY <2>2, <3>1, SignInGoesOn
    <3> QED
      BY <3>2
  <2> QED
    BY <2>1, <2>2
<1>2. CredentialTyped'
  BY <1>1 DEF CredentialTyped, Minted
<1>3. CallsHold' /\ SignInsHold' /\ CallsAreFresh' /\ SignInsAreFresh'
  BY <1>1 DEF CallsHold, SignInsHold, CallsAreFresh, SignInsAreFresh
<1>4. LeaseIsHeld' /\ RowIsDated' /\ RevokedIsOld'
  BY DEF LeaseIsHeld, RowIsDated, RevokedIsOld, C!Usable, C!Outlived
<1>5. SpentByHolder'
  BY DEF SpentByHolder, C!Live, Overtaken
<1> QED
  BY <1>2, <1>3, <1>4, <1>5

(* The clock goes on, or the user withdraws a grant.                       *)
LEMMA GrantsAge ==
  ASSUME C!TimesAssumption, CredentialSound,
         C!Tick \/ \E t \in Minted : C!Withdraw(t)
  PROVE  CredentialSound'
<1> USE Fields DEF CredentialSound
<1>1. /\ UNCHANGED <<minted, spent, credential, signedIn, tokenCalls, signIns>>
      /\ time' \in 0..MaxTime /\ time <= time' /\ losses' \in 0..MaxLosses
      /\ losses' = 0 => losses = 0
      /\ withdrawn \subseteq withdrawn' /\ withdrawn' \subseteq Minted
  <2>1. /\ time \in 0..MaxTime /\ losses \in 0..MaxLosses /\ withdrawn \subseteq Minted
        /\ MaxTime \in Nat /\ MaxLosses \in Nat
    BY DEF CredentialTyped, C!TimesAssumption
  <2>2. CASE C!Tick
    BY <2>1, <2>2 DEF C!Tick, C!github
  <2>3. ASSUME NEW t \in Minted, C!Withdraw(t)
        PROVE  <1>1
    BY <2>1, <2>3 DEF C!Withdraw, C!Fault
  <2> QED
    BY <2>2, <2>3
<1>2. CredentialTyped'
  BY <1>1 DEF CredentialTyped, Minted
<1>3. CallsHold' /\ SignInsHold' /\ CallsAreFresh' /\ SignInsAreFresh'
  BY <1>1 DEF CallsHold, SignInsHold, CallsAreFresh, SignInsAreFresh
<1>4. LeaseIsHeld' /\ RowIsDated'
  BY <1>1 DEF LeaseIsHeld, RowIsDated
<1>5. RevokedIsOld'
  <2>1. ASSUME NEW c \in Callers, tokenCalls[c].step = "revoke"
        PROVE  ~C!Usable(tokenCalls[c].token)' \/ C!Outlived(c)'
    <3>1. tokenCalls[c].token \in Minted
      BY <2>1 DEF CallsHold
    <3> QED
      BY <1>1, <2>1, <3>1 DEF RevokedIsOld, C!Usable, C!Outlived
  <2> QED
    BY <1>1, <2>1 DEF RevokedIsOld, C!Usable
<1>6. SpentByHolder'
  BY <1>1 DEF SpentByHolder, C!Live, Overtaken
<1> QED
  BY <1>2, <1>3, <1>4, <1>5, <1>6

LEMMA CredentialCalls ==
  ASSUME C!TimesAssumption, CredentialSound, NEW c \in Callers,
         \/ C!FindCredential(c) \/ C!TryAcquireRefreshLease(c)
         \/ C!RefreshGitHubOAuthToken(c) \/ C!RefreshRejected(c) \/ C!RefreshFailed(c)
         \/ C!CompleteRefresh(c) \/ C!CompleteRefreshFails(c)
         \/ C!ReleaseRefreshLease(c) \/ C!RevokeCredentialAndSessions(c)
         \/ C!CallDies(c)
  PROVE  CredentialSound'
<1>1. /\ losses \in 0..MaxLosses /\ MaxLosses \in Nat
      /\ C!Fault => losses' \in 0..MaxLosses /\ losses' # 0
  BY DEF CredentialSound, CredentialTyped, C!Fault, C!TimesAssumption
<1>2. /\ tokenCalls \in [Callers -> Lookup(Minted)] /\ tokenCalls[c] \in Lookup(Minted)
      /\ \A k \in Lookup(Minted) : k.rotated = None => k.rotated = None
  BY DEF CredentialSound, CredentialTyped
<1>3. CASE C!FindCredential(c)
  BY <1>3, CallReads
<1>4. CASE C!TryAcquireRefreshLease(c)
  <2>1. CASE C!LeaseFree(c)
    BY <1>4, <2>1, CallIsGranted
  <2>2. CASE ~C!LeaseFree(c)
    BY <1>1, <1>4, <2>2, CallLeaves DEF C!TryAcquireRefreshLease, C!github
  <2> QED
    BY <2>1, <2>2
<1>5. ASSUME C!Rotate(c), NEW x \in {"store", "release"}, NEW r,
             r = IF x = "store" THEN C!NextToken ELSE None,
             IF x = "store"
             THEN tokenCalls' = [tokenCalls EXCEPT ![c].step = x, ![c].rotated = r]
             ELSE tokenCalls' = [tokenCalls EXCEPT ![c].step = x]
      PROVE  tokenCalls' = [tokenCalls EXCEPT ![c] =
               [step |-> x, at |-> tokenCalls[c].at, token |-> tokenCalls[c].token,
                rotated |-> r]]
  <2>1. tokenCalls[c].rotated = None
    BY <1>5 DEF C!Rotate, CredentialSound, CallsHold
  <2>2. CASE x = "store"
    <3>1. [[tokenCalls[c] EXCEPT !.step = x] EXCEPT !.rotated = r] =
            [step |-> x, at |-> tokenCalls[c].at, token |-> tokenCalls[c].token,
             rotated |-> r]
      <4>1. [tokenCalls[c] EXCEPT !.step = x] =
              [step |-> x, at |-> tokenCalls[c].at, token |-> tokenCalls[c].token,
               rotated |-> tokenCalls[c].rotated]
        BY <1>2, StepRecord
      <4>2. [[step |-> x, at |-> tokenCalls[c].at, token |-> tokenCalls[c].token,
              rotated |-> tokenCalls[c].rotated] EXCEPT !.rotated = r] =
              [step |-> x, at |-> tokenCalls[c].at, token |-> tokenCalls[c].token,
               rotated |-> r]
        OBVIOUS
      <4> QED
        BY <4>1, <4>2
    <3>2. tokenCalls' = [tokenCalls EXCEPT ![c] =
                           [[tokenCalls[c] EXCEPT !.step = x] EXCEPT !.rotated = r]]
      BY <1>2, <1>5, <2>2
    <3> QED
      BY <3>1, <3>2
  <2>3. CASE x = "release"
    <3>1. [tokenCalls[c] EXCEPT !.step = x] =
            [step |-> x, at |-> tokenCalls[c].at, token |-> tokenCalls[c].token,
             rotated |-> r]
      BY <1>2, <1>5, <2>1, <2>3 DEF Lookup
    <3> QED
      BY <1>2, <1>5, <2>3, <3>1
  <2> QED
    BY <2>2, <2>3
<1>6. CASE C!RefreshGitHubOAuthToken(c)
  <2>1. /\ C!Rotate(c) /\ UNCHANGED <<time, losses, credential, signedIn, signIns>>
        /\ tokenCalls' = [tokenCalls EXCEPT ![c].step = "store", ![c].rotated = C!NextToken]
    BY <1>6 DEF C!RefreshGitHubOAuthToken
  <2>2. PICK x \in {"store", "release"} : x = "store"
    OBVIOUS
  <2>3. PICK r : r = C!NextToken
    OBVIOUS
  <2>4. tokenCalls' = [tokenCalls EXCEPT ![c] =
          [step |-> x, at |-> tokenCalls[c].at, token |-> tokenCalls[c].token,
           rotated |-> r]]
    BY <1>5, <2>1, <2>2, <2>3
  <2> QED
    BY <1>1, <2>1, <2>2, <2>3, <2>4, CallRotates
<1>7. CASE C!RefreshRejected(c)
  BY <1>1, <1>7, CallLeaves DEF C!RefreshRejected, C!github
<1>8. CASE C!RefreshFailed(c)
  <2>1. /\ C!Fault /\ tokenCalls[c].step = "refresh"
        /\ C!Rotate(c) \/ UNCHANGED <<minted, spent, withdrawn>>
        /\ tokenCalls' = [tokenCalls EXCEPT ![c].step = "release"]
        /\ UNCHANGED <<time, credential, signedIn, signIns>>
    BY <1>8 DEF C!RefreshFailed, C!FailedStep, C!github
  <2>2. CASE UNCHANGED <<minted, spent, withdrawn>>
    BY <1>1, <2>1, <2>2, CallLeaves
  <2>3. CASE C!Rotate(c)
    <3>1. PICK x \in {"store", "release"} : x = "release"
      OBVIOUS
    <3>2. PICK r : r = None
      OBVIOUS
    <3>3. tokenCalls' = [tokenCalls EXCEPT ![c] =
            [step |-> x, at |-> tokenCalls[c].at, token |-> tokenCalls[c].token,
             rotated |-> r]]
      BY <1>5, <2>1, <2>3, <3>1, <3>2
    <3> QED
      BY <1>1, <2>1, <2>3, <3>1, <3>2, <3>3, CallRotates
  <2> QED
    BY <2>1, <2>2, <2>3
<1>9. CASE C!CompleteRefresh(c)
  <2>1. CASE C!StillLeased(c)
    BY <1>9, <2>1, CallCompletes DEF C!CompleteRefresh, C!Completed, C!github
  <2>2. CASE ~C!StillLeased(c)
    BY <1>1, <1>9, <2>2, CallLeaves DEF C!CompleteRefresh, C!Completed, C!FailedStep, C!github
  <2> QED
    BY <2>1, <2>2
<1>10. CASE C!CompleteRefreshFails(c)
  BY <1>1, <1>10, CallLeaves DEF C!CompleteRefreshFails, C!FailedStep, C!github
<1>11. CASE C!CallDies(c)
  BY <1>1, <1>11, CallLeaves DEF C!CallDies, C!github
<1> QED
  BY <1>3, <1>4, <1>6, <1>7, <1>8, <1>9, <1>10, <1>11, CallReturns

(* Whatever overlaps and is lost, the credential service is sound          *)
(* (REDACTED-lifecycle.ts, client.ts, routes.ts of auth/github).           *)
THEOREM CredentialSoundAlways == C!TimesAssumption /\ C!Spec => []CredentialSound
<1> SUFFICES ASSUME C!TimesAssumption
             PROVE  C!Spec => []CredentialSound
  OBVIOUS
<1>1. C!Init => CredentialSound
  BY CredentialInit
<1>2. CredentialSound /\ [C!Next]_C!vars => CredentialSound'
  <2> SUFFICES ASSUME CredentialSound, [C!Next]_C!vars
               PROVE  CredentialSound'
    OBVIOUS
  <2>1. CASE UNCHANGED C!vars
    BY <2>1, SignInsEnd DEF C!vars, C!github, CredentialSound, CredentialTyped
  <2>2. ASSUME NEW c \in Callers,
               \/ C!FindCredential(c) \/ C!TryAcquireRefreshLease(c)
               \/ C!RefreshGitHubOAuthToken(c) \/ C!RefreshRejected(c) \/ C!RefreshFailed(c)
               \/ C!CompleteRefresh(c) \/ C!CompleteRefreshFails(c)
               \/ C!ReleaseRefreshLease(c) \/ C!RevokeCredentialAndSessions(c)
               \/ C!CallDies(c)
        PROVE  CredentialSound'
    BY <2>2, CredentialCalls
  <2>3. ASSUME NEW s \in SignIns, C!CreateSession(s) \/ C!SignInDies(s) \/ C!Logout(s)
        PROVE  CredentialSound'
    <3>1. /\ losses' \in 0..MaxLosses /\ (losses' = 0 => losses = 0)
          /\ signedIn' \subseteq SignIns
      BY <2>3 DEF C!CreateSession, C!SignInDies, C!Logout, C!Fault, CredentialSound,
         CredentialTyped, C!TimesAssumption
    <3> QED
      BY <2>3, <3>1, SignInsEnd DEF C!CreateSession, C!SignInDies, C!Logout, C!github
  <2> QED
    BY <2>1, <2>2, <2>3, SignInGetsPair, SignInStores, GrantsAge DEF C!Next, Minted
<1> QED
  BY <1>1, <1>2, PTL DEF C!Spec

LEMMA CredentialPromises ==
  ASSUME C!TimesAssumption, CredentialSound
  PROVE  C!TypeOK /\ C!RotationIsKept
<1> USE DEF CredentialSound
<1>1. Minted = 1..C!Cardinality(Minted)
  <2>1. PICK n \in Nat : Minted = 1..n
    BY DEF CredentialTyped
  <2>2. Cardinality(1..n) = IF 1 > n THEN 0 ELSE n - 1 + 1
    BY FS_Interval
  <2> QED
    BY <2>1, <2>2, CountSame
<1>2. /\ C!Credential = Stored(Minted) /\ C!Call = Lookup(Minted)
      /\ C!SignIn = Callback(Minted)
  BY DEF C!Credential, C!RowOf, Stored, C!Call, Lookup, C!SignIn, Callback, Minted
<1>3. C!TypeOK
  BY <1>1, <1>2 DEF C!TypeOK, CredentialTyped, Minted
<1>4. C!RotationIsKept
  BY DEF C!RotationIsKept, SpentByHolder, C!Live, Overtaken
<1> QED
  BY <1>3, <1>4

(* A step that changes the row or hands it out.                            *)
LEMMA CredentialStep ==
  ASSUME C!TimesAssumption, CredentialSound, C!Next
  PROVE  C!KeepsNewer /\ C!HandsOutStored /\ C!RevokesRefused
<1> USE Fields DEF CredentialSound
<1> DEFINE Kept == C!KeepsNewer /\ C!HandsOutStored /\ C!RevokesRefused
<1>1. ASSUME UNCHANGED credential,
             \A c \in Callers : tokenCalls'[c].step = "handed" => tokenCalls[c].step = "handed"
      PROVE  Kept
  BY <1>1 DEF C!KeepsNewer, C!HandsOutStored, C!RevokesRefused, C!Live
<1>2. ASSUME NEW c \in Callers, NEW x \in {"refresh", "store", "revoke", "release", "refused", "dead"},
             tokenCalls' = [tokenCalls EXCEPT ![c].step = x]
      PROVE  \A d \in Callers : tokenCalls'[d].step = "handed" => tokenCalls[d].step = "handed"
  <2>1. tokenCalls \in [Callers -> Lookup(Minted)] /\ tokenCalls[c] \in Lookup(Minted)
    BY DEF CredentialTyped
  <2>2. [tokenCalls[c] EXCEPT !.step = x] =
          [step |-> x, at |-> tokenCalls[c].at, token |-> tokenCalls[c].token,
           rotated |-> tokenCalls[c].rotated]
    BY <2>1, StepRecord
  <2>3. tokenCalls'[c].step = x /\ \A d \in Callers \ {c} : tokenCalls'[d] = tokenCalls[d]
    BY <1>2, <2>1, <2>2
  <2> QED
    BY <2>3
<1>3. ASSUME UNCHANGED <<credential, tokenCalls>>
      PROVE  Kept
  BY <1>1, <1>3
<1>4. CASE C!Tick \/ \E t \in DOMAIN minted : C!Withdraw(t)
  BY <1>3, <1>4 DEF C!Tick, C!Withdraw
<1>5. ASSUME NEW s \in SignIns, C!ExchangeCode(s) \/ C!CreateSession(s) \/ C!SignInDies(s)
                                \/ C!Logout(s)
      PROVE  Kept
  BY <1>3, <1>5 DEF C!ExchangeCode, C!CreateSession, C!SignInDies, C!Logout
<1>6. ASSUME NEW s \in SignIns, C!UpsertIdentity(s)
      PROVE  Kept
  <2> DEFINE no == FALSE
  <2>1. /\ signIns[s].step = "upsert" /\ UNCHANGED tokenCalls
        /\ signIns'[s].step = "session"
        /\ ~credential'.revoked
    <3>1. signIns' = [signIns EXCEPT ![s].step = "session"] /\ signIns[s].step = "upsert"
          /\ UNCHANGED tokenCalls /\ credential' = C!Row(signIns[s].token, signIns[s].at)
      BY <1>6 DEF C!UpsertIdentity
    <3>2. signIns'[s].step = "session"
      BY <3>1, SignInGoesOn
    <3> QED
      BY <3>1, <3>2 DEF C!Row
  <2> QED
    BY <2>1 DEF C!KeepsNewer, C!HandsOutStored, C!RevokesRefused
<1>7. ASSUME NEW c \in Callers,
             \/ C!RefreshRejected(c) \/ C!RefreshFailed(c) \/ C!CompleteRefreshFails(c)
             \/ C!CallDies(c)
             \/ C!TryAcquireRefreshLease(c) /\ ~C!LeaseFree(c)
             \/ C!CompleteRefresh(c) /\ ~C!StillLeased(c)
      PROVE  Kept
  <2>1. UNCHANGED credential
    BY <1>7 DEF C!RefreshRejected, C!RefreshFailed, C!CompleteRefreshFails, C!CallDies,
       C!TryAcquireRefreshLease, C!CompleteRefresh
  <2>2. \E x \in {"refresh", "store", "revoke", "release", "refused", "dead"} :
          tokenCalls' = [tokenCalls EXCEPT ![c].step = x]
    BY <1>7 DEF C!RefreshRejected, C!RefreshFailed, C!CompleteRefreshFails, C!CallDies,
       C!TryAcquireRefreshLease, C!CompleteRefresh, C!FailedStep, C!Completed
  <2> QED
    BY <1>1, <1>2, <2>1, <2>2
<1>8. ASSUME NEW c \in Callers, C!RefreshGitHubOAuthToken(c)
      PROVE  Kept
  <2>1. /\ UNCHANGED credential
        /\ tokenCalls' = [tokenCalls EXCEPT ![c].step = "store", ![c].rotated = C!NextToken]
    BY <1>8 DEF C!RefreshGitHubOAuthToken
  <2>2. \A d \in Callers : tokenCalls'[d].step = "handed" => tokenCalls[d].step = "handed"
    <3>1. tokenCalls \in [Callers -> Lookup(Minted)]
      BY DEF CredentialTyped
    <3>2. PICK r : r = C!NextToken
      OBVIOUS
    <3>3. tokenCalls' = [tokenCalls EXCEPT ![c] =
            [[tokenCalls[c] EXCEPT !.step = "store"] EXCEPT !.rotated = r]]
      BY <2>1, <3>1, <3>2
    <3>4. [tokenCalls[c] EXCEPT !.step = "store"] =
            [step |-> "store", at |-> tokenCalls[c].at, token |-> tokenCalls[c].token,
             rotated |-> tokenCalls[c].rotated]
      BY <3>1, StepRecord
    <3>5. tokenCalls'[c].step = "store"
      BY <3>1, <3>3, <3>4
    <3> QED
      BY <3>1, <3>3, <3>5
  <2> QED
    BY <1>1, <2>1, <2>2
<1>9. ASSUME NEW c \in Callers, C!TryAcquireRefreshLease(c), C!LeaseFree(c)
      PROVE  Kept
  <2>1. /\ credential # None /\ ~credential.revoked
        /\ credential' = [credential EXCEPT !.lease = c,
                            !.leaseUntil = tokenCalls[c].at + LeaseSeconds]
        /\ tokenCalls' = [tokenCalls EXCEPT ![c].step = "refresh"]
        /\ tokenCalls[c].at + LeaseSeconds \in Nat
    BY <1>9 DEF C!TryAcquireRefreshLease, C!LeaseFree, C!Live
  <2>2. /\ credential'.token = credential.token /\ credential'.revoked = credential.revoked
    BY <2>1, RowOnLease
  <2>3. \A d \in Callers : tokenCalls'[d].step = "handed" => tokenCalls[d].step = "handed"
    BY <1>2, <2>1
  <2> QED
    BY <2>1, <2>2, <2>3 DEF C!KeepsNewer, C!HandsOutStored, C!RevokesRefused
<1>10. ASSUME NEW c \in Callers, C!ReleaseRefreshLease(c)
       PROVE  Kept
  <2>1. /\ credential # None
        /\ tokenCalls' = [tokenCalls EXCEPT ![c].step = "refused"]
        /\ \/ UNCHANGED credential
           \/ credential' = [credential EXCEPT !.lease = None, !.leaseUntil = 0]
    BY <1>10 DEF C!ReleaseRefreshLease, CallsHold
  <2>2. /\ credential'.token = credential.token /\ credential'.revoked = credential.revoked
    <3>1. None \in Callers \union {None} /\ 0 \in Nat
      OBVIOUS
    <3> QED
      BY <2>1, <3>1, RowOnLease
  <2>3. \A d \in Callers : tokenCalls'[d].step = "handed" => tokenCalls[d].step = "handed"
    BY <1>2, <2>1
  <2> QED
    BY <2>1, <2>2, <2>3 DEF C!KeepsNewer, C!HandsOutStored, C!RevokesRefused, C!Live
<1>11. ASSUME NEW c \in Callers, C!RevokeCredentialAndSessions(c)
       PROVE  Kept
  <2>1. /\ credential # None /\ tokenCalls[c].step = "revoke"
        /\ tokenCalls' = [tokenCalls EXCEPT ![c].step = "refused"]
        /\ credential' = [credential EXCEPT !.revoked = TRUE, !.lease = None,
                                            !.leaseUntil = 0]
    BY <1>11 DEF C!RevokeCredentialAndSessions, CallsHold
  <2>2. /\ credential'.token = credential.token
    BY <2>1, RowOnRevocation
  <2>3. \A d \in Callers : tokenCalls'[d].step = "handed" => tokenCalls[d].step = "handed"
    BY <1>2, <2>1
  <2>4. ~C!Usable(tokenCalls[c].token) \/ C!Outlived(c)
    BY <2>1 DEF RevokedIsOld
  <2> QED
    BY <2>1, <2>2, <2>3, <2>4 DEF C!KeepsNewer, C!HandsOutStored, C!RevokesRefused
<1>12. ASSUME NEW c \in Callers, C!CompleteRefresh(c), C!StillLeased(c)
       PROVE  Kept
  <2>1. /\ tokenCalls[c].step = "store" /\ credential # None /\ credential.lease = c
        /\ credential' = C!Row(tokenCalls[c].rotated, tokenCalls[c].at)
        /\ tokenCalls' = [tokenCalls EXCEPT ![c].step = "handed"]
    BY <1>12 DEF C!CompleteRefresh, C!StillLeased, C!Live, C!Completed
  <2>2. /\ credential'.token = tokenCalls[c].rotated /\ ~credential'.revoked
    BY <2>1 DEF C!Row
  <2>3. credential'.token > credential.token
    BY <2>1, <2>2 DEF LeaseIsHeld
  <2>4. \A d \in Callers \ {c} : tokenCalls'[d] = tokenCalls[d]
    BY <2>1 DEF CredentialTyped
  <2> QED
    BY <2>1, <2>2, <2>3, <2>4 DEF C!KeepsNewer, C!HandsOutStored, C!RevokesRefused
<1>13. ASSUME NEW c \in Callers, C!FindCredential(c)
       PROVE  Kept
  <2>1. PICK x \in {"refused", "handed", "revoke", "lease"} :
          /\ tokenCalls' = [tokenCalls EXCEPT ![c] =
               [step |-> x, at |-> time, token |-> credential.token, rotated |-> None]]
          /\ x = "handed" => ~credential.revoked
    BY <1>13 DEF C!FindCredential
  <2>2. UNCHANGED credential /\ tokenCalls[c].step = "idle"
    BY <1>13 DEF C!FindCredential
  <2>3. /\ tokenCalls'[c].step = x /\ tokenCalls'[c].token = credential.token
        /\ \A d \in Callers \ {c} : tokenCalls'[d] = tokenCalls[d]
    BY <2>1 DEF CredentialTyped
  <2> QED
    BY <2>1, <2>2, <2>3 DEF C!KeepsNewer, C!HandsOutStored, C!RevokesRefused, C!Live
<1> QED
  BY <1>4, <1>5, <1>6, <1>7, <1>8, <1>9, <1>10, <1>11, <1>12, <1>13 DEF C!Next

-----------------------------------------------------------------------------
Handling == [at : {"publish", "mark"}, d : Deliveries]
Issuing == [at : {"issue"}, i : AppInstallations, purpose : A!Purposes]

Refusals == {"payload_too_large", "invalid_body", "invalid_signature",
             "invalid_delivery", "invalid_event"}

Codes == Refusals \union {"duplicate", "enqueued", "ignored", "storage_unavailable"}

AppTyped ==
  /\ stored \in [Deliveries -> {"absent", "pending", "enqueued", "ignored"}]
  /\ queue \subseteq Deliveries
  /\ link \in [Linked -> [suspended : BOOLEAN, deleted : BOOLEAN]]
  /\ job \in [Workers -> {A!Idle} \union Handling \union Issuing]
  /\ answers \in [Deliveries -> SUBSET Codes]

Wanted(d) == A!Refusal(Content[d]) = None /\ A!Accepted(Content[d])

JobSound(j) ==
  /\ j.at = "publish" => Wanted(j.d)
  /\ j.at = "mark" => A!Refusal(Content[j.d]) = None /\ (A!Accepted(Content[j.d]) => j.d \in queue)

DeliverySound(d) ==
  /\ stored[d] \in {"enqueued", "ignored"} /\ A!Accepted(Content[d]) => d \in queue
  /\ answers[d] \intersect {"enqueued", "duplicate"} # {} /\ A!Accepted(Content[d]) => d \in queue
  /\ d \in queue => Wanted(d)

AppSound ==
  /\ AppTyped
  /\ \A w \in Workers : JobSound(job[w])
  /\ \A d \in Deliveries : DeliverySound(d)

(* An answer that refuses or gives up promises nothing.                    *)
LEMMA RefusalPromisesNothing ==
  ASSUME NEW c \in A!Contents, A!Refusal(c) # None
  PROVE  A!Refusal(c) \in Refusals
<1>1. c.signed \in BOOLEAN /\ c.id \in BOOLEAN
  BY DEF A!Contents
<1>2. A!Refusal(c) \in Refusals \union {None}
  BY <1>1 DEF A!Refusal, Refusals
<1> QED
  BY <1>2

(* An answer that is given, with a worker that is free again.              *)
LEMMA AppAnswers ==
  ASSUME AppSound, NEW w \in Workers, NEW d \in Deliveries, NEW code \in Codes,
         A!Answer(w, d, code), link' \in [Linked -> [suspended : BOOLEAN, deleted : BOOLEAN]],
         stored' \in [Deliveries -> {"absent", "pending", "enqueued", "ignored"}],
         queue \subseteq queue', queue' \subseteq Deliveries,
         \A e \in queue' \ queue : Wanted(e),
         \A e \in Deliveries \ {d} : stored'[e] = stored[e],
         stored'[d] \in {"enqueued", "ignored"} /\ A!Accepted(Content[d]) => d \in queue',
         code \in {"enqueued", "duplicate"} /\ A!Accepted(Content[d]) => d \in queue'
  PROVE  AppSound'
<1>1. /\ job' = [job EXCEPT ![w] = A!Idle]
      /\ answers' = [answers EXCEPT ![d] = @ \union {code}]
  BY DEF A!Answer
<1>2. AppTyped'
  BY <1>1 DEF AppSound, AppTyped
<1>3. ASSUME NEW v \in Workers PROVE JobSound(job[v])'
  BY <1>1 DEF AppSound, AppTyped, JobSound, A!Idle, Wanted
<1>4. ASSUME NEW e \in Deliveries PROVE DeliverySound(e)'
  <2>1. CASE e = d
    BY <1>1, <2>1 DEF AppSound, AppTyped, DeliverySound, Wanted
  <2>2. CASE e # d
    BY <1>1, <2>2 DEF AppSound, AppTyped, DeliverySound, Wanted
  <2> QED
    BY <2>1, <2>2
<1> QED
  BY <1>2, <1>3, <1>4 DEF AppSound

(* Such an answer when the store and the queue stay as they are.           *)
LEMMA SameStoreKeeps ==
  ASSUME AppSound, NEW w \in Workers, NEW d \in Deliveries, NEW code \in Codes,
         A!Answer(w, d, code), UNCHANGED <<stored, queue, link>>,
         code \in {"enqueued", "duplicate"} /\ A!Accepted(Content[d]) => d \in queue
  PROVE  AppSound'
<1>1. /\ link' \in [Linked -> [suspended : BOOLEAN, deleted : BOOLEAN]]
      /\ stored' \in [Deliveries -> {"absent", "pending", "enqueued", "ignored"}]
      /\ queue' \subseteq Deliveries
  BY DEF AppSound, AppTyped
<1>2. stored'[d] \in {"enqueued", "ignored"} /\ A!Accepted(Content[d]) => d \in queue'
  BY DEF AppSound, DeliverySound
<1> QED
  BY <1>1, <1>2, AppAnswers

LEMMA RefuseSound ==
  ASSUME A!ContentAssumption, AppSound, NEW w \in Workers, NEW d \in Deliveries, A!Refuse(w, d)
  PROVE  AppSound'
<1>1. A!Answer(w, d, A!Refusal(Content[d])) /\ UNCHANGED <<stored, queue, link>>
  BY DEF A!Refuse
<1>2. A!Refusal(Content[d]) \in Codes \ {"enqueued", "duplicate"}
  BY RefusalPromisesNothing DEF A!Refuse, A!ContentAssumption, Refusals, Codes
<1> QED
  BY <1>1, <1>2, SameStoreKeeps

LEMMA ReserveSound ==
  ASSUME A!ContentAssumption, AppSound, NEW w \in Workers, NEW d \in Deliveries, A!Reserve(w, d)
  PROVE  AppSound'
<1>1. UNCHANGED <<queue, link>> /\ A!Refusal(Content[d]) = None
  BY DEF A!Reserve
<1>2. CASE stored[d] \in {"enqueued", "ignored"} /\ A!Answer(w, d, "duplicate") /\ UNCHANGED stored
  <2>1. A!Accepted(Content[d]) => d \in queue
    BY <1>2 DEF AppSound, DeliverySound
  <2> QED
    BY <1>1, <1>2, <2>1, SameStoreKeeps DEF Codes
<1>3. CASE A!Answer(w, d, "storage_unavailable") /\ UNCHANGED stored
  BY <1>1, <1>3, SameStoreKeeps DEF Codes
<1>4. CASE /\ stored[d] \in {"absent", "pending"}
           /\ stored' = [stored EXCEPT ![d] = "pending"]
           /\ job' = [job EXCEPT ![w] =
                [at |-> IF A!Accepted(Content[d]) THEN "publish" ELSE "mark", d |-> d]]
           /\ UNCHANGED answers
  <2>1. AppTyped'
    BY <1>1, <1>4 DEF AppSound, AppTyped, Handling
  <2>2. ASSUME NEW v \in Workers PROVE JobSound(job[v])'
    BY <1>1, <1>4 DEF AppSound, AppTyped, JobSound, Wanted
  <2>3. ASSUME NEW e \in Deliveries PROVE DeliverySound(e)'
    BY <1>1, <1>4 DEF AppSound, AppTyped, DeliverySound, Wanted
  <2> QED
    BY <2>1, <2>2, <2>3 DEF AppSound
<1> QED
  BY <1>2, <1>3, <1>4 DEF A!Reserve

LEMMA HandlingTyped ==
  ASSUME AppSound, NEW w \in Workers, job[w].at \in {"publish", "mark"}
  PROVE  job[w] \in Handling
BY DEF AppSound, AppTyped, A!Idle, Issuing

LEMMA PublishSound ==
  ASSUME A!ContentAssumption, AppSound, NEW w \in Workers, A!Publish(w)
  PROVE  AppSound'
<1>1. /\ job[w].at = "publish" /\ queue' = queue \union {job[w].d}
      /\ job' = [job EXCEPT ![w].at = "mark"] /\ UNCHANGED <<stored, link, answers>>
  BY DEF A!Publish
<1>2. job[w] \in Handling /\ Wanted(job[w].d)
  BY <1>1, HandlingTyped DEF AppSound, JobSound
<1>3. job'[w] = [at |-> "mark", d |-> job[w].d] /\ \A v \in Workers \ {w} : job'[v] = job[v]
  BY <1>1, <1>2 DEF AppSound, AppTyped, Handling
<1>4. AppTyped'
  <2>1. job' \in [Workers -> {A!Idle} \union Handling \union Issuing]
    BY <1>1, <1>2 DEF AppSound, AppTyped, Handling
  <2> QED
    BY <1>1, <1>2, <2>1 DEF AppSound, AppTyped, Handling
<1>5. ASSUME NEW v \in Workers PROVE JobSound(job[v])'
  <2>1. CASE v = w
    BY <1>1, <1>2, <1>3, <2>1 DEF JobSound, Wanted
  <2>2. CASE v # w
    BY <1>1, <1>3, <2>2 DEF AppSound, JobSound, Wanted
  <2> QED
    BY <2>1, <2>2
<1>6. ASSUME NEW e \in Deliveries PROVE DeliverySound(e)'
  BY <1>1, <1>2 DEF AppSound, DeliverySound, Wanted
<1> QED
  BY <1>4, <1>5, <1>6 DEF AppSound

LEMMA MarkSound ==
  ASSUME A!ContentAssumption, AppSound, NEW w \in Workers, A!MarkHandled(w) \/ A!StepFails(w)
  PROVE  AppSound'
<1> DEFINE d == job[w].d
<1>1. job[w] \in Handling /\ JobSound(job[w]) /\ d \in Deliveries /\ DeliverySound(d)
  BY HandlingTyped DEF A!MarkHandled, A!StepFails, AppSound, Handling
<1>2. A!Outcome(d) \in {"enqueued", "ignored"} /\ (A!Outcome(d) = "enqueued" <=> A!Accepted(Content[d]))
  BY DEF A!Outcome
<1> HIDE DEF d
<1>3. CASE A!MarkHandled(w)
  <2>1. /\ job[w].at = "mark" /\ stored' = [stored EXCEPT ![d] = A!Outcome(d)]
        /\ A!Answer(w, d, A!Outcome(d)) /\ UNCHANGED <<queue, link>>
    BY <1>3 DEF A!MarkHandled, d
  <2>2. /\ A!Accepted(Content[d]) => d \in queue
        /\ stored' \in [Deliveries -> {"absent", "pending", "enqueued", "ignored"}]
        /\ stored'[d] = A!Outcome(d) /\ \A e \in Deliveries \ {d} : stored'[e] = stored[e]
        /\ link' \in [Linked -> [suspended : BOOLEAN, deleted : BOOLEAN]]
        /\ queue' = queue /\ queue' \subseteq Deliveries
    BY <1>1, <1>2, <2>1 DEF AppSound, AppTyped, JobSound, d
  <2> QED
    BY <1>1, <1>2, <2>1, <2>2, AppAnswers DEF Codes
<1>4. CASE A!StepFails(w)
  <2>1. /\ A!Answer(w, d, "storage_unavailable") /\ UNCHANGED link
        /\ \/ UNCHANGED <<stored, queue>>
           \/ job[w].at = "publish" /\ queue' = queue \union {d} /\ UNCHANGED stored
           \/ job[w].at = "mark" /\ stored' = [stored EXCEPT ![d] = A!Outcome(d)]
              /\ UNCHANGED queue
    BY <1>4 DEF A!StepFails, d
  <2>2. /\ link' \in [Linked -> [suspended : BOOLEAN, deleted : BOOLEAN]]
        /\ stored \in [Deliveries -> {"absent", "pending", "enqueued", "ignored"}]
        /\ queue \subseteq Deliveries
        /\ stored[d] \in {"enqueued", "ignored"} /\ A!Accepted(Content[d]) => d \in queue
    BY <1>1, <2>1 DEF AppSound, AppTyped, DeliverySound
  <2>3. CASE UNCHANGED <<stored, queue>>
    BY <1>1, <2>1, <2>3, SameStoreKeeps DEF Codes
  <2>4. CASE job[w].at = "publish" /\ queue' = queue \union {d} /\ UNCHANGED stored
    <3>1. Wanted(d)
      BY <1>1, <2>4 DEF JobSound, d
    <3> QED
      BY <1>1, <2>1, <2>2, <2>4, <3>1, AppAnswers DEF Codes
  <2>5. CASE /\ job[w].at = "mark" /\ stored' = [stored EXCEPT ![d] = A!Outcome(d)]
             /\ UNCHANGED queue
    <3>1. A!Accepted(Content[d]) => d \in queue
      BY <1>1, <2>5 DEF JobSound, d
    <3>2. /\ stored' \in [Deliveries -> {"absent", "pending", "enqueued", "ignored"}]
          /\ \A e \in Deliveries \ {d} : stored'[e] = stored[e]
      BY <1>1, <1>2, <2>2, <2>5
    <3> QED
      BY <1>1, <2>1, <2>2, <2>5, <3>1, <3>2, AppAnswers DEF Codes
  <2> QED
    BY <2>1, <2>3, <2>4, <2>5
<1> QED
  BY <1>3, <1>4

LEMMA IssueSound ==
  ASSUME A!ContentAssumption, AppSound,
         \/ \E w \in Workers : A!IssueCredential(w)
         \/ \E w \in Workers, i \in AppInstallations, p \in A!Purposes : A!AskForCredential(w, i, p)
         \/ \E d \in Deliveries : A!ApplyInstallationLifecycle(d)
  PROVE  AppSound'
<1>1. ASSUME NEW w \in Workers, A!IssueCredential(w) PROVE AppSound'
  BY <1>1 DEF A!IssueCredential, AppSound, AppTyped, JobSound, DeliverySound, Wanted, A!Idle
<1>2. ASSUME NEW w \in Workers, NEW i \in AppInstallations, NEW p \in A!Purposes,
             A!AskForCredential(w, i, p)
      PROVE  AppSound'
  BY <1>2 DEF A!AskForCredential, AppSound, AppTyped, JobSound, DeliverySound, Wanted, Issuing
<1>3. ASSUME NEW d \in Deliveries, A!ApplyInstallationLifecycle(d) PROVE AppSound'
  <2> DEFINE i == Content[d].installation
  <2>1. /\ i \in Linked /\ link' = [link EXCEPT ![i] = A!After(@, Content[d].action)]
        /\ UNCHANGED <<stored, queue, job, answers>>
    BY <1>3 DEF A!ApplyInstallationLifecycle
  <2>2. A!After(link[i], Content[d].action) \in [suspended : BOOLEAN, deleted : BOOLEAN]
    BY <2>1 DEF A!After, AppSound, AppTyped
  <2> QED
    BY <2>1, <2>2 DEF AppSound, AppTyped, JobSound, DeliverySound, Wanted
<1> QED
  BY <1>1, <1>2, <1>3

LEMMA AppNext ==
  ASSUME A!ContentAssumption, AppSound, [A!Next]_A!vars
  PROVE  AppSound'
<1>1. CASE UNCHANGED A!vars
  BY <1>1 DEF A!vars, AppSound, AppTyped, JobSound, DeliverySound, Wanted
<1>2. ASSUME NEW w \in Workers,
             \/ \E d \in Deliveries : A!Refuse(w, d) \/ A!Reserve(w, d)
             \/ A!Publish(w) \/ A!MarkHandled(w) \/ A!StepFails(w)
      PROVE  AppSound'
  BY <1>2, RefuseSound, ReserveSound, PublishSound, MarkSound
<1> QED
  BY <1>1, <1>2, IssueSound DEF A!Next

(* The invariant of the GitHub App (webhook.ts, installation-tokens.ts).   *)
THEOREM AppSoundAlways == A!ContentAssumption /\ A!Spec => []AppSound
<1> SUFFICES ASSUME A!ContentAssumption PROVE A!Spec => []AppSound
  OBVIOUS
<1>1. A!Init => AppSound
  BY DEF A!Init, AppSound, AppTyped, JobSound, DeliverySound, A!Idle, Wanted, A!ContentAssumption
<1>2. AppSound /\ [A!Next]_A!vars => AppSound'
  BY AppNext
<1> QED
  BY <1>1, <1>2, PTL DEF A!Spec

LEMMA AppPromises ==
  ASSUME AppSound
  PROVE  A!TypeOK /\ A!DealtWith
<1>1. A!DealtWith
  BY DEF AppSound, DeliverySound, Wanted, A!DealtWith
<1>2. \A p \in A!Purposes : A!Permissions(p) # {}
  BY DEF A!Purposes, A!Permissions
<1>3. ASSUME NEW w \in Workers
      PROVE  /\ job[w].at \in {"idle", "publish", "mark", "issue"}
             /\ job[w].at = "issue" => job[w].purpose \in A!Purposes
  <2>1. job[w] \in {A!Idle} \union Handling \union Issuing
    BY DEF AppSound, AppTyped
  <2> QED
    BY <2>1 DEF A!Idle, Handling, Issuing
<1>4. A!TypeOK
  BY <1>2, <1>3 DEF AppSound, AppTyped, A!TypeOK
<1> QED
  BY <1>1, <1>4

-----------------------------------------------------------------------------
(* The row of a deleted installation is no longer written.                 *)
LEMMA DeletedRowKept ==
  ASSUME AppSound, NEW i \in Linked, link[i].deleted, [A!Next]_A!vars
  PROVE  link'[i] = link[i]
<1>1. CASE UNCHANGED link
  BY <1>1
<1>2. ASSUME NEW d \in Deliveries, A!ApplyInstallationLifecycle(d) PROVE link'[i] = link[i]
  <2>1. PICK k \in Linked : link' = [link EXCEPT ![k] = A!After(@, Content[d].action)]
    BY <1>2 DEF A!ApplyInstallationLifecycle
  <2>2. A!After(link[i], Content[d].action) = link[i]
    BY DEF A!After, AppSound, AppTyped
  <2> QED
    BY <2>1, <2>2 DEF AppSound, AppTyped
<1> QED
  BY <1>1, <1>2 DEF A!Next, A!vars, A!Refuse, A!Reserve, A!Publish, A!MarkHandled, A!StepFails,
                    A!AskForCredential, A!IssueCredential

(* A worker that comes to ask for a credential has been let to.            *)
LEMMA AskingIsAuthorized ==
  ASSUME AppSound, NEW w \in Workers, [A!Next]_A!vars, job'[w].at = "issue", job'[w] # job[w]
  PROVE  job'[w].i \in Linked /\ ~link[job'[w].i].deleted
<1> USE DEF AppSound, AppTyped
<1>1. ASSUME NEW v \in Workers, NEW d \in Deliveries, A!Refuse(v, d) \/ A!Reserve(v, d) PROVE FALSE
  BY <1>1 DEF A!Refuse, A!Reserve, A!Answer, A!Idle
<1>2. ASSUME NEW v \in Workers, A!Publish(v) PROVE FALSE
  <2>1. job[v] \in Handling /\ job' = [job EXCEPT ![v].at = "mark"]
    BY <1>2, HandlingTyped DEF A!Publish
  <2> QED
    BY <2>1 DEF Handling
<1>3. ASSUME NEW v \in Workers, A!MarkHandled(v) \/ A!StepFails(v) \/ A!IssueCredential(v) PROVE FALSE
  BY <1>3 DEF A!MarkHandled, A!StepFails, A!IssueCredential, A!Answer, A!Idle
<1>4. ASSUME NEW v \in Workers, NEW i \in AppInstallations, NEW p \in A!Purposes,
             A!AskForCredential(v, i, p)
      PROVE  job'[w].i \in Linked /\ ~link[job'[w].i].deleted
  BY <1>4 DEF A!AskForCredential, A!Authorized
<1>5. ASSUME NEW d \in Deliveries, A!ApplyInstallationLifecycle(d) PROVE FALSE
  BY <1>5 DEF A!ApplyInstallationLifecycle
<1>6. CASE UNCHANGED A!vars
  BY <1>6 DEF A!vars
<1> QED
  BY <1>1, <1>2, <1>3, <1>4, <1>5, <1>6 DEF A!Next

LEMMA AppStep ==
  ASSUME AppSound, [A!Next]_A!vars
  PROVE  A!KeepsDeleted
<1> SUFFICES ASSUME NEW i \in Linked, link[i].deleted, NEW w \in Workers,
                    job'[w].at = "issue", job'[w].i = i, job'[w] # job[w]
             PROVE  FALSE
  BY DeletedRowKept DEF A!KeepsDeleted
<1> QED
  BY AskingIsAuthorized

-----------------------------------------------------------------------------
UnderWay == {"base", "tree", "commit", "base again", "branch", "create", "move",
          "base at last", "check", "list", "open", "answered", "branch_conflict", "failed"}

Ended == {"answered", "branch_conflict", "failed"}

(* The steps of a call that has made its commit.                           *)
Committed == {"base again", "branch", "create", "move", "base at last", "check", "list",
              "open", "answered"}

(* The steps of a call whose branch holds its commit.                      *)
Branched == {"list", "open", "answered"}

Commit == [op : Operations, exact : BOOLEAN, parent : 0..MaxPushes]

Call == [step : {"idle"} \union UnderWay, op : Operations \union {None},
         expected : Nat \union {None}, commit : Nat \union {None}]

PullTyped ==
  /\ head \in Nat
  /\ commits \in Seq(Commit)
  /\ branches \in [Operations -> DOMAIN commits \union {None}]
  /\ pulls \in [Operations -> SUBSET (Nat \union {None})]
  /\ openings \in [Workers -> Call]

(* The commit c is the one that operation o was approved and verified for. *)
Verified(c, o) ==
  /\ c \in DOMAIN commits
  /\ commits[c].op = o /\ commits[c].exact /\ commits[c].parent = RequestOf[o].base

OpeningSound(opening) ==
  /\ opening.step \in UnderWay => opening.op \in Operations /\ P!Acceptable(RequestOf[opening.op])
  /\ opening.step = "commit" => RequestOf[opening.op].exact
  /\ opening.step \in Committed => Verified(opening.commit, opening.op)
  /\ opening.step \in Branched => branches[opening.op] = opening.commit
  /\ opening.step = "answered" => pulls[opening.op] = {opening.commit}

BranchSound(o) ==
  /\ branches[o] # None => Verified(branches[o], o) /\ P!Acceptable(RequestOf[o])
  /\ pulls[o] # {} => branches[o] # None /\ pulls[o] = {branches[o]}

PullSound ==
  /\ PullTyped
  /\ \A w \in Workers : OpeningSound(openings[w])
  /\ \A o \in Operations : BranchSound(o)

LEMMA PullBegins == P!PullRequestAssumption /\ P!Init => PullSound
<1> SUFFICES ASSUME P!PullRequestAssumption, P!Init PROVE PullSound
  OBVIOUS
<1>1. PullTyped
  BY DEF P!Init, PullTyped, P!NoCall, Call, P!PullRequestAssumption
<1>2. \A w \in Workers : OpeningSound(openings[w])
  BY DEF P!Init, P!NoCall, OpeningSound, UnderWay, Committed, Branched
<1>3. \A o \in Operations : BranchSound(o)
  BY DEF P!Init, BranchSound
<1> QED
  BY <1>1, <1>2, <1>3 DEF PullSound

(* A step of one call that changes nothing but where the call is.          *)
LEMMA GoesKeeps ==
  ASSUME PullSound, NEW w \in Workers, NEW step \in {"idle"} \union UnderWay,
         openings[w].step \in UnderWay, P!Goes(w, step),
         UNCHANGED <<commits, branches, pulls>>, head' \in Nat,
         step = "commit" => RequestOf[openings[w].op].exact,
         step \in Committed => Verified(openings[w].commit, openings[w].op),
         step \in Branched => branches[openings[w].op] = openings[w].commit,
         step = "answered" => pulls[openings[w].op] = {openings[w].commit}
  PROVE  PullSound'
<1>1. /\ openings' \in [Workers -> Call]
      /\ \A v \in Workers \ {w} : openings'[v] = openings[v]
      /\ openings'[w].step = step /\ openings'[w].op = openings[w].op
      /\ openings'[w].commit = openings[w].commit
  BY DEF PullSound, PullTyped, P!Goes, Call
<1>2. PullTyped'
  BY <1>1 DEF PullSound, PullTyped
<1>3. ASSUME NEW v \in Workers PROVE OpeningSound(openings[v])'
  <2>1. OpeningSound(openings[v]) /\ OpeningSound(openings[w])
    BY DEF PullSound
  <2>2. CASE v = w
    BY <1>1, <2>1, <2>2 DEF OpeningSound, Verified, UnderWay
  <2>3. CASE v # w
    BY <1>1, <2>1, <2>3 DEF OpeningSound, Verified
  <2> QED
    BY <2>2, <2>3
<1>4. \A o \in Operations : BranchSound(o)'
  BY DEF PullSound, BranchSound, Verified
<1> QED
  BY <1>2, <1>3, <1>4 DEF PullSound

LEMMA OpeningBegins ==
  ASSUME P!PullRequestAssumption, PullSound, NEW w \in Workers, P!Begin(w)
  PROVE  PullSound'
<1>1. PICK o \in Operations :
        /\ P!Acceptable(RequestOf[o])
        /\ \E expected \in {None} \union {c \in DOMAIN commits : commits[c].op = o} :
             openings' = [openings EXCEPT ![w] =
               [step |-> "base", op |-> o, expected |-> expected, commit |-> None]]
  BY DEF P!Begin
<1>2. PICK expected \in {None} \union {c \in DOMAIN commits : commits[c].op = o} :
        openings' = [openings EXCEPT ![w] =
               [step |-> "base", op |-> o, expected |-> expected, commit |-> None]]
  BY <1>1
<1>3. UNCHANGED <<head, commits, branches, pulls>>
  BY DEF P!Begin
<1>4. expected \in Nat \union {None}
  BY DEF PullSound, PullTyped
<1>5. [step |-> "base", op |-> o, expected |-> expected, commit |-> None] \in Call
  BY <1>4 DEF Call, UnderWay
<1>6. PullTyped'
  BY <1>2, <1>3, <1>5 DEF PullSound, PullTyped
<1>7. ASSUME NEW v \in Workers PROVE OpeningSound(openings[v])'
  <2>1. CASE v = w
    BY <1>1, <1>2, <2>1 DEF PullSound, PullTyped, OpeningSound, UnderWay, Committed, Branched
  <2>2. CASE v # w
    BY <1>2, <1>3, <2>2 DEF PullSound, PullTyped, OpeningSound, Verified
  <2> QED
    BY <2>1, <2>2
<1>8. \A q \in Operations : BranchSound(q)'
  BY <1>3 DEF PullSound, BranchSound, Verified
<1> QED
  BY <1>6, <1>7, <1>8 DEF PullSound

(* The steps that read, compare and go on, or give up.                     *)
LEMMA ReadingSound ==
  ASSUME P!PullRequestAssumption, PullSound, NEW w \in Workers,
         \/ P!AssertBaseHead(w) \/ P!Materialize(w) \/ P!ReadBranch(w)
         \/ P!UpdateRef(w) \/ P!CheckBranch(w) \/ P!ListPulls(w) \/ P!Lose(w)
  PROVE  PullSound'
<1> USE DEF UnderWay, Committed, Branched
<1>1. OpeningSound(openings[w]) /\ head \in Nat /\ openings[w].step \in {"idle"} \union UnderWay
  BY DEF PullSound, PullTyped, Call
<1>2. CASE P!AssertBaseHead(w)
  <2>1. PICK pair \in {<<"base", "tree">>, <<"base again", "branch">>, <<"base at last", "check">>} :
          openings[w].step = pair[1] /\ P!Goes(w, IF P!BaseStands(w) THEN pair[2] ELSE "failed")
    BY <1>2 DEF P!AssertBaseHead
  <2>2. UNCHANGED <<head, commits, branches, pulls>>
    BY <1>2 DEF P!AssertBaseHead
  <2>3. CASE pair = <<"base", "tree">>
    BY <1>1, <2>1, <2>2, <2>3, GoesKeeps DEF OpeningSound
  <2>4. CASE pair = <<"base again", "branch">>
    BY <1>1, <2>1, <2>2, <2>4, GoesKeeps DEF OpeningSound
  <2>5. CASE pair = <<"base at last", "check">>
    BY <1>1, <2>1, <2>2, <2>5, GoesKeeps DEF OpeningSound
  <2> QED
    BY <2>1, <2>3, <2>4, <2>5
<1>3. CASE P!Materialize(w)
  BY <1>1, <1>3, GoesKeeps DEF P!Materialize, P!TreeMatches, P!RequestIn, OpeningSound
<1>4. CASE P!ReadBranch(w)
  <2>1. P!NextOnBranch(openings[w], branches[openings[w].op])
          \in {"base at last", "create", "move", "branch_conflict"}
    BY DEF P!NextOnBranch
  <2> QED
    BY <1>1, <1>4, <2>1, GoesKeeps DEF P!ReadBranch, OpeningSound
<1>5. CASE P!UpdateRef(w)
  BY <1>1, <1>5, GoesKeeps DEF P!UpdateRef, OpeningSound
<1>6. CASE P!CheckBranch(w)
  BY <1>1, <1>6, GoesKeeps DEF P!CheckBranch, OpeningSound
<1>7. CASE P!ListPulls(w)
  BY <1>1, <1>7, GoesKeeps DEF P!ListPulls, OpeningSound
<1>8. CASE P!Lose(w)
  BY <1>1, <1>8, GoesKeeps DEF P!Lose, OpeningSound
<1> QED
  BY <1>2, <1>3, <1>4, <1>5, <1>6, <1>7, <1>8

(* Append adds one element and leaves the others as they are.              *)
LEMMA AppendKeeps ==
  ASSUME NEW set, NEW s \in Seq(set), NEW e \in set
  PROVE  /\ Append(s, e) \in Seq(set) /\ Len(Append(s, e)) = Len(s) + 1
         /\ DOMAIN s = 1..Len(s) /\ DOMAIN Append(s, e) = 1..(Len(s) + 1)
         /\ \A c \in DOMAIN s : Append(s, e)[c] = s[c]
         /\ Append(s, e)[Len(s) + 1] = e
         /\ Len(s) \in Nat
OBVIOUS

(* A commit made leaves the commits there are as they are.                 *)
LEMMA CreateCommitSound ==
  ASSUME P!PullRequestAssumption, PullSound, NEW w \in Workers, P!CreateCommit(w)
  PROVE  PullSound'
<1> DEFINE commit == [op |-> openings[w].op, exact |-> P!RequestIn(w).exact,
                      parent |-> P!RequestIn(w).base]
<1>1. /\ openings[w].step = "commit" /\ commits' = Append(commits, commit)
      /\ openings' = [openings EXCEPT ![w].step = "base again", ![w].commit = Len(commits) + 1]
      /\ UNCHANGED <<head, branches, pulls>>
  BY DEF P!CreateCommit
<1>2. /\ openings[w].op \in Operations /\ P!Acceptable(RequestOf[openings[w].op])
      /\ RequestOf[openings[w].op].exact
  BY <1>1 DEF PullSound, OpeningSound, UnderWay
<1>3. commit \in Commit
  BY <1>2 DEF Commit, P!RequestIn, P!PullRequestAssumption, P!Request
<1> HIDE DEF commit
<1>4. /\ commits' \in Seq(Commit) /\ Len(commits') = Len(commits) + 1
      /\ DOMAIN commits = 1..Len(commits) /\ DOMAIN commits' = 1..(Len(commits) + 1)
      /\ \A c \in DOMAIN commits : commits'[c] = commits[c]
      /\ commits'[Len(commits) + 1] = commit
      /\ Len(commits) \in Nat
  <2>1. commits \in Seq(Commit)
    BY DEF PullSound, PullTyped
  <2>2. /\ Append(commits, commit) \in Seq(Commit)
        /\ Len(Append(commits, commit)) = Len(commits) + 1
        /\ DOMAIN commits = 1..Len(commits)
        /\ DOMAIN Append(commits, commit) = 1..(Len(commits) + 1)
        /\ \A c \in DOMAIN commits : Append(commits, commit)[c] = commits[c]
        /\ Append(commits, commit)[Len(commits) + 1] = commit
        /\ Len(commits) \in Nat
    BY <1>3, <2>1, AppendKeeps
  <2> QED
    BY <1>1, <2>2
<1>6. PullTyped'
  <2>1. openings' \in [Workers -> Call]
    <3>1. openings \in [Workers -> Call] /\ Len(commits) + 1 \in Nat
      BY <1>4 DEF PullSound, PullTyped
    <3> QED
      BY <1>1, <3>1 DEF Call, UnderWay
  <2>2. branches' \in [Operations -> DOMAIN commits' \union {None}]
    <3>1. branches \in [Operations -> DOMAIN commits \union {None}]
      BY DEF PullSound, PullTyped
    <3>2. DOMAIN commits \subseteq DOMAIN commits'
      BY <1>4
    <3> QED
      BY <1>1, <3>1, <3>2
  <2> QED
    BY <1>1, <1>4, <2>1, <2>2 DEF PullSound, PullTyped
<1>7. ASSUME NEW v \in Workers PROVE OpeningSound(openings[v])'
  <2>1. CASE v = w
    <3>1. openings'[w].step = "base again" /\ openings'[w].op = openings[w].op
          /\ openings'[w].commit = Len(commits) + 1
      BY <1>1 DEF PullSound, PullTyped, Call
    <3>2. Verified(openings[w].commit, openings[w].op)'
      <4>1. Len(commits) + 1 \in DOMAIN commits'
        BY <1>4
      <4>2. /\ commit.op = openings[w].op /\ commit.exact
            /\ commit.parent = RequestOf[openings[w].op].base
        BY <1>2 DEF commit, P!RequestIn
      <4> QED
        BY <1>4, <3>1, <4>1, <4>2 DEF Verified
    <3> QED
      BY <1>1, <1>2, <2>1, <3>1, <3>2 DEF OpeningSound, UnderWay, Committed, Branched
  <2>2. CASE v # w
    <3>1. openings'[v] = openings[v] /\ OpeningSound(openings[v])
      BY <1>1, <2>2 DEF PullSound, PullTyped
    <3>2. openings[v].step \in Committed => Verified(openings[v].commit, openings[v].op)'
      <4>1. openings[v].step \in Committed => Verified(openings[v].commit, openings[v].op)
        BY <3>1 DEF OpeningSound
      <4> QED
        BY <1>4, <3>1, <4>1 DEF Verified
    <3> QED
      BY <1>1, <3>1, <3>2 DEF OpeningSound, Verified
  <2> QED
    BY <2>1, <2>2
<1>8. ASSUME NEW o \in Operations PROVE BranchSound(o)'
  <2>1. BranchSound(o)
    BY DEF PullSound
  <2>2. branches' = branches /\ pulls' = pulls
    BY <1>1
  <2>3. branches[o] # None => Verified(branches[o], o) /\ P!Acceptable(RequestOf[o])
    BY <2>1 DEF BranchSound
  <2>4. branches'[o] # None => Verified(branches[o], o)'
    BY <1>4, <2>2, <2>3 DEF Verified
  <2> QED
    BY <2>1, <2>2, <2>3, <2>4 DEF BranchSound
<1> QED
  BY <1>6, <1>7, <1>8 DEF PullSound

(* A branch is made once: whoever has it checked keeps it.                 *)
LEMMA CreateRefSound ==
  ASSUME P!PullRequestAssumption, PullSound, NEW w \in Workers, P!CreateRef(w)
  PROVE  PullSound'
<1>1. OpeningSound(openings[w]) /\ openings[w].step = "create" /\ head \in Nat
  BY DEF P!CreateRef, PullSound, PullTyped
<1>2. CASE branches[openings[w].op] # None
  BY <1>1, <1>2, GoesKeeps DEF P!CreateRef, OpeningSound, UnderWay, Committed, Branched
<1>3. CASE branches[openings[w].op] = None
  <2> DEFINE op == openings[w].op
             commit == openings[w].commit
  <2>1. /\ branches' = [branches EXCEPT ![op] = commit]
        /\ openings' = [openings EXCEPT ![w].step = "base at last"]
        /\ UNCHANGED <<head, commits, pulls>>
    BY <1>3 DEF P!CreateRef, P!Goes
  <2>2. op \in Operations /\ P!Acceptable(RequestOf[op]) /\ Verified(commit, op)
    BY <1>1 DEF OpeningSound, UnderWay, Committed
  <2>3. /\ openings' \in [Workers -> Call]
        /\ \A v \in Workers \ {w} : openings'[v] = openings[v]
        /\ openings'[w].step = "base at last" /\ openings'[w].op = op /\ openings'[w].commit = commit
    BY <2>1 DEF PullSound, PullTyped, Call, UnderWay
  <2>4. /\ branches' \in [Operations -> DOMAIN commits \union {None}]
        /\ branches'[op] = commit
        /\ \A o \in Operations \ {op} : branches'[o] = branches[o]
    BY <2>1, <2>2 DEF PullSound, PullTyped, Verified
  <2> HIDE DEF op, commit
  <2>5. PullTyped'
    BY <2>1, <2>3, <2>4 DEF PullSound, PullTyped
  <2>6. ASSUME NEW v \in Workers PROVE OpeningSound(openings[v])'
    <3>1. CASE v = w
      BY <2>1, <2>2, <2>3, <3>1 DEF OpeningSound, Verified, UnderWay, Committed, Branched
    <3>2. CASE v # w
      <4>1. openings'[v] = openings[v] /\ OpeningSound(openings[v])
        BY <2>3, <3>2 DEF PullSound
      <4>2. openings[v].step \in Branched =>
              /\ openings[v].op \in Operations /\ branches[openings[v].op] = openings[v].commit
              /\ openings[v].commit \in DOMAIN commits
        BY <4>1 DEF OpeningSound, Verified, UnderWay, Committed, Branched
      <4>3. openings[v].step \in Branched => openings[v].op # op
        BY <1>3, <4>2 DEF op, PullSound, PullTyped, P!PullRequestAssumption
      <4> QED
        BY <2>1, <2>4, <4>1, <4>2, <4>3 DEF OpeningSound, Verified, Branched
    <3> QED
      BY <3>1, <3>2
  <2>7. ASSUME NEW o \in Operations PROVE BranchSound(o)'
    <3>1. BranchSound(o)
      BY DEF PullSound
    <3>2. CASE o = op
      BY <1>3, <2>1, <2>2, <2>4, <3>1, <3>2 DEF BranchSound, Verified, op
    <3>3. CASE o # op
      BY <2>1, <2>4, <3>1, <3>3 DEF BranchSound, Verified
    <3> QED
      BY <3>2, <3>3
  <2> QED
    BY <2>5, <2>6, <2>7 DEF PullSound
<1> QED
  BY <1>2, <1>3

LEMMA OpenPullSound ==
  ASSUME P!PullRequestAssumption, PullSound, NEW w \in Workers, P!OpenPull(w)
  PROVE  PullSound'
<1>1. OpeningSound(openings[w]) /\ openings[w].step = "open" /\ head \in Nat
  BY DEF P!OpenPull, PullSound, PullTyped
<1>2. CASE pulls[openings[w].op] # {}
  BY <1>1, <1>2, GoesKeeps DEF P!OpenPull, OpeningSound, UnderWay, Committed, Branched
<1>3. CASE pulls[openings[w].op] = {}
  <2> DEFINE op == openings[w].op
             commit == openings[w].commit
  <2>1. /\ pulls' = [pulls EXCEPT ![op] = {commit}]
        /\ openings' = [openings EXCEPT ![w].step = "answered"]
        /\ UNCHANGED <<head, commits, branches>>
    BY <1>3 DEF P!OpenPull, P!Goes
  <2>2. /\ op \in Operations /\ P!Acceptable(RequestOf[op]) /\ Verified(commit, op)
        /\ branches[op] = commit /\ commit \in Nat
    <3>1. /\ op \in Operations /\ P!Acceptable(RequestOf[op]) /\ Verified(commit, op)
          /\ branches[op] = commit
      BY <1>1 DEF OpeningSound, UnderWay, Committed, Branched
    <3>2. commits \in Seq(Commit)
      BY DEF PullSound, PullTyped
    <3>3. commit \in Nat
      BY <3>1, <3>2 DEF Verified
    <3> QED
      BY <3>1, <3>3
  <2>3. /\ openings' \in [Workers -> Call]
        /\ \A v \in Workers \ {w} : openings'[v] = openings[v]
        /\ openings'[w].step = "answered" /\ openings'[w].op = op /\ openings'[w].commit = commit
    BY <2>1 DEF PullSound, PullTyped, Call, UnderWay
  <2>4. /\ pulls' \in [Operations -> SUBSET (Nat \union {None})]
        /\ pulls'[op] = {commit}
        /\ \A o \in Operations \ {op} : pulls'[o] = pulls[o]
    BY <2>1, <2>2 DEF PullSound, PullTyped
  <2> HIDE DEF op, commit
  <2>5. PullTyped'
    BY <2>1, <2>3, <2>4 DEF PullSound, PullTyped
  <2>6. ASSUME NEW v \in Workers PROVE OpeningSound(openings[v])'
    <3>1. CASE v = w
      BY <2>1, <2>2, <2>3, <2>4, <3>1 DEF OpeningSound, Verified, UnderWay, Committed, Branched
    <3>2. CASE v # w
      <4>1. openings'[v] = openings[v] /\ OpeningSound(openings[v])
        BY <2>3, <3>2 DEF PullSound
      <4>2. openings[v].step = "answered" =>
              openings[v].op \in Operations /\ pulls[openings[v].op] = {openings[v].commit}
        BY <4>1 DEF OpeningSound, UnderWay
      <4>3. openings[v].step = "answered" => openings[v].op # op
        BY <1>3, <4>2 DEF op
      <4> QED
        BY <2>1, <2>4, <4>1, <4>2, <4>3 DEF OpeningSound, Verified
    <3> QED
      BY <3>1, <3>2
  <2>7. ASSUME NEW o \in Operations PROVE BranchSound(o)'
    <3>1. BranchSound(o)
      BY DEF PullSound
    <3>2. CASE o = op
      BY <2>1, <2>2, <2>4, <3>1, <3>2 DEF BranchSound, Verified, PullSound, PullTyped, P!PullRequestAssumption
    <3>3. CASE o # op
      BY <2>1, <2>4, <3>1, <3>3 DEF BranchSound, Verified
    <3> QED
      BY <3>2, <3>3
  <2> QED
    BY <2>5, <2>6, <2>7 DEF PullSound
<1> QED
  BY <1>2, <1>3

LEMMA PullNext == P!PullRequestAssumption /\ PullSound /\ [P!Next]_P!vars => PullSound'
<1> SUFFICES ASSUME P!PullRequestAssumption, PullSound, [P!Next]_P!vars PROVE PullSound'
  OBVIOUS
<1>1. CASE P!Push
  BY <1>1 DEF P!Push, PullSound, PullTyped, OpeningSound, BranchSound, Verified
<1>2. CASE UNCHANGED P!vars
  BY <1>2 DEF P!vars, PullSound, PullTyped, OpeningSound, BranchSound, Verified
<1>3. ASSUME NEW w \in Workers,
             \/ P!Begin(w) \/ P!AssertBaseHead(w) \/ P!Materialize(w) \/ P!CreateCommit(w)
             \/ P!ReadBranch(w) \/ P!CreateRef(w) \/ P!UpdateRef(w) \/ P!CheckBranch(w)
             \/ P!ListPulls(w) \/ P!OpenPull(w) \/ P!Lose(w)
      PROVE  PullSound'
  BY <1>3, OpeningBegins, ReadingSound, CreateCommitSound, CreateRefSound, OpenPullSound
<1> QED
  BY <1>1, <1>2, <1>3 DEF P!Next

(* What is counted stays within the bounds, and a call has a commit that   *)
(* was made.                                                               *)
PullBounds ==
  /\ head \in 0..MaxPushes /\ Len(commits) <= MaxCommits
  /\ \A w \in Workers : openings[w].commit \in {None} \union DOMAIN commits

LEMMA BoundsKept ==
  ASSUME P!PullRequestAssumption, PullSound, PullBounds, [P!Next]_P!vars
  PROVE  PullBounds'
<1>1. CASE P!Push
  BY <1>1 DEF P!Push, PullBounds, P!PullRequestAssumption
<1>2. CASE UNCHANGED P!vars
  BY <1>2 DEF P!vars, PullBounds
<1>3. openings \in [Workers -> Call]
  BY DEF PullSound, PullTyped
<1>4. ASSUME NEW w \in Workers, NEW s, P!Goes(w, s), UNCHANGED <<head, commits>>
      PROVE  PullBounds'
  <2>1. \A v \in Workers : openings'[v].commit = openings[v].commit
    BY <1>3, <1>4 DEF P!Goes, Call
  <2> QED
    BY <1>4, <2>1 DEF PullBounds
<1>5. ASSUME NEW w \in Workers, P!Begin(w)
      PROVE  PullBounds'
  BY <1>3, <1>5 DEF P!Begin, PullBounds, Call
<1>6. ASSUME NEW w \in Workers, P!CreateCommit(w)
      PROVE  PullBounds'
  <2>1. PICK c : c = [op |-> openings[w].op, exact |-> P!RequestIn(w).exact,
                      parent |-> P!RequestIn(w).base]
    OBVIOUS
  <2>0. commits \in Seq(Commit) /\ Len(commits) < MaxCommits
    BY <1>6 DEF PullSound, PullTyped, P!CreateCommit
  <2>2. PICK old \in Seq(Commit) : old = commits /\ Len(old) \in Nat /\ Len(old) < MaxCommits
    BY <2>0
  <2>3. commits' = Append(old, c)
    BY <1>6, <2>1, <2>2 DEF P!CreateCommit
  <2>4. Len(commits') = Len(old) + 1 /\ DOMAIN commits' = 1..(Len(old) + 1)
        /\ DOMAIN commits = 1..Len(old)
    BY <2>2, <2>3
  <2>5. \A v \in Workers : openings'[v].commit \in {openings[v].commit, Len(old) + 1}
    BY <1>3, <1>6, <2>2 DEF P!CreateCommit, Call
  <2>6. head' = head
    BY <1>6 DEF P!CreateCommit
  <2> QED
    BY <2>2, <2>4, <2>5, <2>6 DEF PullBounds, P!PullRequestAssumption
<1>7. ASSUME NEW w \in Workers,
             \/ P!AssertBaseHead(w) \/ P!Materialize(w) \/ P!ReadBranch(w) \/ P!CreateRef(w)
             \/ P!UpdateRef(w) \/ P!CheckBranch(w) \/ P!ListPulls(w) \/ P!OpenPull(w) \/ P!Lose(w)
      PROVE  PullBounds'
  <2>1. UNCHANGED <<head, commits>>
    BY <1>7 DEF P!AssertBaseHead, P!Materialize, P!ReadBranch, P!CreateRef, P!UpdateRef,
       P!CheckBranch, P!ListPulls, P!OpenPull, P!Lose
  <2>2. \E s : P!Goes(w, s)
    <3>1. P!AssertBaseHead(w) => \E s : P!Goes(w, s)
      BY DEF P!AssertBaseHead
    <3>2. P!Materialize(w) => P!Goes(w, "commit") \/ P!Goes(w, "failed")
      BY DEF P!Materialize
    <3>3. P!ReadBranch(w) => P!Goes(w, "base at last") \/ P!Goes(w, "create")
                             \/ P!Goes(w, "move") \/ P!Goes(w, "branch_conflict")
      BY DEF P!ReadBranch, P!NextOnBranch
    <3>4. P!CreateRef(w) => P!Goes(w, "base at last") \/ P!Goes(w, "failed")
      BY DEF P!CreateRef
    <3>5. P!CheckBranch(w) => P!Goes(w, "list") \/ P!Goes(w, "branch_conflict")
      BY DEF P!CheckBranch
    <3>6. P!ListPulls(w) => P!Goes(w, "open") \/ P!Goes(w, "answered") \/ P!Goes(w, "failed")
      BY DEF P!ListPulls
    <3>7. P!OpenPull(w) => P!Goes(w, "answered") \/ P!Goes(w, "failed")
      BY DEF P!OpenPull
    <3>8. P!UpdateRef(w) \/ P!Lose(w) => P!Goes(w, "failed")
      BY DEF P!UpdateRef, P!Lose
    <3> QED
      BY <1>7, <3>1, <3>2, <3>3, <3>4, <3>5, <3>6, <3>7, <3>8
  <2> QED
    BY <1>4, <2>1, <2>2
<1> QED
  BY <1>1, <1>2, <1>5, <1>6, <1>7 DEF P!Next

(* The invariant of the calls that open a pull request                     *)
(* (applyExactChangesAndOpenPullRequest of client.ts).                     *)
THEOREM PullSoundAlways ==
  P!PullRequestAssumption /\ P!Spec => [](PullSound /\ PullBounds)
<1> SUFFICES ASSUME P!PullRequestAssumption PROVE P!Spec => [](PullSound /\ PullBounds)
  OBVIOUS
<1>1. P!Init => PullSound /\ PullBounds
  BY PullBegins DEF P!Init, PullBounds, P!NoCall, P!PullRequestAssumption
<1>2. PullSound /\ PullBounds /\ [P!Next]_P!vars => (PullSound /\ PullBounds)'
  BY PullNext, BoundsKept
<1> QED
  BY <1>1, <1>2, PTL DEF P!Spec

LEMMA PullPromises ==
  ASSUME PullSound, PullBounds
  PROVE  P!TypeOK /\ P!OnlyTheVerified
<1>1. P!OnlyTheVerified
  BY DEF PullSound, PullTyped, OpeningSound, BranchSound, Verified, P!OnlyTheVerified,
     UnderWay, Committed, Branched
<1>2. P!TypeOK
  BY DEF PullSound, PullTyped, PullBounds, BranchSound, Verified, P!TypeOK
<1> QED
  BY <1>1, <1>2

-----------------------------------------------------------------------------
UsableIn(inst, susp) == R!ToSet(inst) \ susp

AccessIn(inst, susp, repos) ==
  {a \in Installations \X Repositories :
     a[1] \in UsableIn(inst, susp) /\ a[2] \in R!ToSet(repos[a[1]])}

(* What the pages before this one have shown.                              *)
Reached(list, page) ==
  {list[j] : j \in DOMAIN list \intersect (1 .. (page - 1) * PageSize)}

Listing ==
  [page : Nat, total : Nat \union {None}, found : SUBSET (Installations \union Repositories)]

(* A call that has begun.                                                  *)
Begun ==
  [step : {"installations", "repositories", "answered"},
   asked : {None} \union (Installations \X Repositories), listing : Listing,
   todo : SUBSET Installations, at : Installations \union {None},
   result : SUBSET (Installations \X Repositories),
   answer : {None, "authorized", "listed", "installation_not_authorized",
             "repository_not_authorized", "invalid_response",
             "pagination_limit_exceeded", "github_unavailable"},
   held : SUBSET (Installations \X Repositories), undisturbed : BOOLEAN]

(* A call knows what its pages have shown, and that is what there is as    *)
(* long as nothing has changed.                                            *)
ListingSound(listing, list, unwanted) ==
  /\ listing.total \in {None, Len(list)}
  /\ listing.found = Reached(list, listing.page) \ unwanted

RunningSound(k, inst, susp, repos) ==
  k.step \in {"installations", "repositories"} =>
    /\ k.listing.page \in 1..MaxPages
    /\ AccessIn(inst, susp, repos) \subseteq k.held
    /\ k.undisturbed => k.held = AccessIn(inst, susp, repos)

FirstSound(k, inst, susp, repos) ==
  k.step = "installations" =>
    /\ k.listing.found \subseteq Installations
    /\ k.undisturbed => ListingSound(k.listing, inst, susp)

SecondSound(k, inst, susp, repos) ==
  k.step = "repositories" =>
    /\ k.at \in Installations
    /\ k.listing.found \subseteq Repositories
    /\ {k.at} \X k.listing.found \subseteq k.held
    /\ k.result \subseteq k.held
    /\ k.asked # None => k.asked[1] = k.at
    /\ k.undisturbed =>
         /\ k.at \in UsableIn(inst, susp) /\ k.todo \subseteq UsableIn(inst, susp)
         /\ ListingSound(k.listing, repos[k.at], {})
         /\ k.asked = None =>
              \A a \in k.held : a[1] = k.at \/ a[1] \in k.todo \/ a \in k.result

AnswerSound(k) ==
  k.step = "answered" =>
    /\ k.answer = "authorized" => k.asked \in k.held
    /\ k.answer = "listed" => k.result \subseteq k.held
    /\ k.undisturbed =>
         /\ k.answer = "listed" => k.result = k.held
         /\ k.answer # "invalid_response"
         /\ k.answer \in {"installation_not_authorized", "repository_not_authorized"}
              => k.asked \notin k.held

CallOfUser(k, inst, susp, repos) ==
  k.step # "idle" =>
    /\ k \in Begun
    /\ RunningSound(k, inst, susp, repos) /\ FirstSound(k, inst, susp, repos)
    /\ SecondSound(k, inst, susp, repos) /\ AnswerSound(k)

Injective(list) == \A i, j \in DOMAIN list : list[i] = list[j] => i = j

RepositoriesSound ==
  /\ installations \in Seq(Installations) /\ Injective(installations)
  /\ suspended \subseteq Installations
  /\ repositories \in [Installations -> Seq(Repositories)]
  /\ \A i \in Installations : Injective(repositories[i])
  /\ changes \in 0..MaxChanges
  /\ CallOfUser(call, installations, suspended, repositories)

-----------------------------------------------------------------------------
LEMMA PagesAdd ==
  ASSUME R!RepositoryAccessAssumption, NEW page \in Nat \ {0}
  PROVE  /\ page * PageSize \in Nat /\ (page - 1) * PageSize \in Nat
         /\ page * PageSize = (page - 1) * PageSize + PageSize
         /\ PageSize \in Nat \ {0}
BY DEF R!RepositoryAccessAssumption

LEMMA PageExtends ==
  ASSUME R!RepositoryAccessAssumption, NEW set, NEW list \in Seq(set), NEW page \in Nat \ {0}
  PROVE  /\ Reached(list, page + 1) = Reached(list, page) \union R!PageOf(list, page)
         /\ R!PageOf(list, page) \subseteq R!ToSet(list) /\ R!ToSet(list) \subseteq set
         /\ R!LastPage(page, Len(list)) => Reached(list, page + 1) = R!ToSet(list)
         /\ ~R!LastPage(page, Len(list)) => R!PageOf(list, page) # {}
<1>1. PICK n \in Nat : n = (page - 1) * PageSize
  BY PagesAdd
<1>2. PICK m \in Nat : m = PageSize
  BY PagesAdd
<1>3. /\ m > 0 /\ page * PageSize = n + m /\ ((page + 1) - 1) * PageSize = n + m
  <2>1. (page + 1) - 1 = page
    OBVIOUS
  <2> QED
    BY <1>1, <1>2, <2>1, PagesAdd
<1>4. /\ Len(list) \in Nat /\ DOMAIN list = 1..Len(list) /\ \A j \in 1..Len(list) : list[j] \in set
  OBVIOUS
<1>5. /\ Reached(list, page) = {list[j] : j \in DOMAIN list \intersect (1..n)}
      /\ Reached(list, page + 1) = {list[j] : j \in DOMAIN list \intersect (1..(n + m))}
      /\ R!PageOf(list, page) = {list[j] : j \in DOMAIN list \intersect ((n + 1)..(n + m))}
      /\ R!LastPage(page, Len(list)) <=> n + m >= Len(list)
  BY <1>1, <1>3 DEF Reached, R!PageOf, R!LastPage
<1>6. R!ToSet(list) = {list[j] : j \in DOMAIN list}
  BY DEF R!ToSet
<1>7. \A j \in Nat : j \in 1..(n + m) <=> j \in 1..n \/ j \in (n + 1)..(n + m)
  OBVIOUS
<1>8. Reached(list, page + 1) = Reached(list, page) \union R!PageOf(list, page)
  BY <1>4, <1>5, <1>7
<1>9. ASSUME n + m >= Len(list)
      PROVE  Reached(list, page + 1) = R!ToSet(list)
  BY <1>4, <1>5, <1>6, <1>9
<1>10. ASSUME n + m < Len(list)
       PROVE  R!PageOf(list, page) # {}
  <2>1. n + 1 \in DOMAIN list \intersect ((n + 1)..(n + m))
    BY <1>3, <1>4, <1>10
  <2> QED
    BY <1>5, <2>1
<1>11. R!PageOf(list, page) \subseteq R!ToSet(list) /\ R!ToSet(list) \subseteq set
  BY <1>4, <1>5, <1>6
<1> QED
  BY <1>4, <1>5, <1>8, <1>9, <1>10, <1>11

LEMMA FirstReached ==
  ASSUME R!RepositoryAccessAssumption, NEW list
  PROVE  Reached(list, 1) = {}
<1>1. (1 - 1) * PageSize = 0
  BY DEF R!RepositoryAccessAssumption
<1> QED
  BY <1>1 DEF Reached

LEMMA AfterPageIs ==
  ASSUME R!RepositoryAccessAssumption, NEW set, NEW list \in Seq(set), NEW listing \in Listing,
         listing.page \in 1..MaxPages, NEW after, after = R!AfterPage(listing, list)
  PROVE  /\ after \in {"more", "complete", "invalid_response", "pagination_limit_exceeded"}
         /\ after = "complete" => R!LastPage(listing.page, Len(list))
         /\ after = "more" =>
              ~R!LastPage(listing.page, Len(list)) /\ listing.page + 1 \in 1..MaxPages
         /\ after = "invalid_response" => listing.total \notin {None, Len(list)}
<1>1. listing.page \in Nat \ {0} /\ MaxPages \in Nat
  BY DEF R!RepositoryAccessAssumption
<1>2. ~R!LastPage(listing.page, Len(list)) => R!PageOf(list, listing.page) # {}
  BY <1>1, PageExtends
<1>3. CASE listing.total \notin {None, Len(list)}
  BY <1>3 DEF R!AfterPage
<1>4. CASE listing.total \in {None, Len(list)} /\ R!LastPage(listing.page, Len(list))
  BY <1>4 DEF R!AfterPage
<1>5. CASE listing.total \in {None, Len(list)} /\ ~R!LastPage(listing.page, Len(list))
  <2>1. after = IF listing.page = MaxPages THEN "pagination_limit_exceeded" ELSE "more"
    BY <1>2, <1>5 DEF R!AfterPage
  <2> QED
    BY <1>1, <1>5, <2>1
<1> QED
  BY <1>3, <1>4, <1>5

LEMMA NextPage ==
  ASSUME R!RepositoryAccessAssumption, NEW set, set \subseteq Installations \union Repositories,
         NEW list \in Seq(set), NEW listing \in Listing,
         listing.page \in 1..MaxPages, NEW unwanted, NEW next,
         next = R!WithPage(listing, list, unwanted)
  PROVE  /\ next \in Listing /\ next.page = listing.page + 1
         /\ next.found = listing.found \union (R!PageOf(list, listing.page) \ unwanted)
         /\ R!PageOf(list, listing.page) \subseteq R!ToSet(list)
         /\ R!PageOf(list, listing.page) \subseteq set
         /\ ListingSound(listing, list, unwanted) =>
              /\ ListingSound(next, list, unwanted)
              /\ R!LastPage(listing.page, Len(list)) =>
                   next.found = R!ToSet(list) \ unwanted
<1>1. /\ listing.page \in Nat \ {0} /\ listing.found \subseteq Installations \union Repositories
      /\ Len(list) \in Nat
  BY DEF R!RepositoryAccessAssumption, Listing
<1>2. PICK page : page = R!PageOf(list, listing.page)
  OBVIOUS
<1>3. next = [page |-> listing.page + 1, total |-> Len(list),
              found |-> listing.found \union (page \ unwanted)]
  BY <1>2 DEF R!WithPage
<1>4. /\ next.page = listing.page + 1 /\ next.total = Len(list)
      /\ next.found = listing.found \union (page \ unwanted)
  BY <1>3
<1>5. /\ Reached(list, listing.page + 1) = Reached(list, listing.page) \union page
      /\ page \subseteq R!ToSet(list) /\ R!ToSet(list) \subseteq set
      /\ R!LastPage(listing.page, Len(list)) =>
           Reached(list, listing.page + 1) = R!ToSet(list)
  BY <1>1, <1>2, PageExtends
<1>6. next \in Listing
  BY <1>1, <1>3, <1>5 DEF Listing
<1>7. ListingSound(listing, list, unwanted) =>
        next.found = Reached(list, listing.page + 1) \ unwanted
  BY <1>4, <1>5 DEF ListingSound
<1> QED
  BY <1>2, <1>4, <1>5, <1>6, <1>7 DEF ListingSound

(***************************************************************************)
(* What a step leaves of the call.                                         *)
(***************************************************************************)
LEMMA CallSeesChange ==
  ASSUME call \in Begun, NEW h \in SUBSET (Installations \X Repositories),
         call' = [call EXCEPT !.held = h, !.undisturbed = FALSE]
  PROVE  /\ call' \in Begun /\ call'.step = call.step /\ call'.asked = call.asked
         /\ call'.listing = call.listing /\ call'.todo = call.todo /\ call'.at = call.at
         /\ call'.result = call.result /\ call'.answer = call.answer
         /\ call'.held = h /\ ~call'.undisturbed
<1> DEFINE Bs == BOOLEAN
           no == FALSE
           Hs == SUBSET (Installations \X Repositories)
           Ss == {"installations", "repositories", "answered"}
           As == {None, "authorized", "listed", "installation_not_authorized",
                  "repository_not_authorized", "invalid_response",
                  "pagination_limit_exceeded", "github_unavailable"}
           Qs == {None} \union (Installations \X Repositories)
           Ts == SUBSET Installations
           Is == Installations \union {None}
           Calls == [step : Ss, asked : Qs, listing : Listing, todo : Ts, at : Is,
                     result : Hs, answer : As, held : Hs, undisturbed : Bs]
           mid == [call EXCEPT !.held = h]
<1>1. Begun = Calls /\ call \in Calls /\ no \in Bs /\ h \in Hs
  BY DEF Begun
<1>2. call' = [mid EXCEPT !.undisturbed = no]
  OBVIOUS
<1> HIDE DEF Bs, no, Hs, Ss, As, Qs, Ts, Is
<1>3. /\ mid \in Calls /\ mid.step = call.step /\ mid.asked = call.asked
      /\ mid.listing = call.listing /\ mid.todo = call.todo /\ mid.at = call.at
      /\ mid.result = call.result /\ mid.answer = call.answer /\ mid.held = h
  BY <1>1
<1> HIDE DEF mid
<1>4. /\ call' \in Calls /\ call'.step = mid.step /\ call'.asked = mid.asked
      /\ call'.listing = mid.listing /\ call'.todo = mid.todo /\ call'.at = mid.at
      /\ call'.result = mid.result /\ call'.answer = mid.answer /\ call'.held = mid.held
      /\ call'.undisturbed = no
  BY <1>1, <1>2, <1>3
<1> HIDE DEF Calls
<1>5. ~call'.undisturbed
  BY <1>4 DEF no
<1> QED
  BY <1>1, <1>3, <1>4, <1>5

LEMMA CallIsAnswered ==
  ASSUME call \in Begun, NEW r \in SUBSET (Installations \X Repositories),
         NEW a \in {"authorized", "listed", "installation_not_authorized",
                    "repository_not_authorized", "invalid_response",
                    "pagination_limit_exceeded", "github_unavailable"},
         \/ call' = [call EXCEPT !.step = "answered", !.answer = a] /\ r = call.result
         \/ call' = [call EXCEPT !.step = "answered", !.answer = a, !.result = r]
  PROVE  /\ call' \in Begun /\ call'.step = "answered" /\ call'.asked = call.asked
         /\ call'.result = r /\ call'.answer = a
         /\ call'.held = call.held /\ call'.undisturbed = call.undisturbed
<1> DEFINE Bs == BOOLEAN
           Hs == SUBSET (Installations \X Repositories)
           Ss == {"installations", "repositories", "answered"}
           As == {None, "authorized", "listed", "installation_not_authorized",
                  "repository_not_authorized", "invalid_response",
                  "pagination_limit_exceeded", "github_unavailable"}
           Qs == {None} \union (Installations \X Repositories)
           Ts == SUBSET Installations
           Is == Installations \union {None}
           Calls == [step : Ss, asked : Qs, listing : Listing, todo : Ts, at : Is,
                     result : Hs, answer : As, held : Hs, undisturbed : Bs]
           done == "answered"
           one == [call EXCEPT !.step = done]
           two == [one EXCEPT !.answer = a]
<1>1. Begun = Calls /\ call \in Calls /\ done \in Ss /\ r \in Hs /\ a \in As
  BY DEF Begun
<1>2. \/ call' = two /\ r = call.result
      \/ call' = [two EXCEPT !.result = r]
  OBVIOUS
<1> HIDE DEF Bs, Hs, Ss, As, Qs, Ts, Is, done
<1>3. /\ one \in Calls /\ one.step = done /\ one.asked = call.asked
      /\ one.result = call.result /\ one.held = call.held
      /\ one.undisturbed = call.undisturbed
  BY <1>1
<1> HIDE DEF one
<1>4. /\ two \in Calls /\ two.step = one.step /\ two.asked = one.asked
      /\ two.result = one.result /\ two.held = one.held
      /\ two.undisturbed = one.undisturbed /\ two.answer = a
  BY <1>1, <1>3
<1> HIDE DEF two
<1>5. CASE call' = two /\ r = call.result
  <2> HIDE DEF Calls
  <2> QED
    BY <1>1, <1>3, <1>4, <1>5 DEF done
<1>6. CASE call' = [two EXCEPT !.result = r]
  <2>1. /\ call' \in Calls /\ call'.step = two.step /\ call'.asked = two.asked
        /\ call'.result = r /\ call'.held = two.held
        /\ call'.undisturbed = two.undisturbed /\ call'.answer = two.answer
    BY <1>1, <1>4, <1>6
  <2> HIDE DEF Calls
  <2> QED
    BY <1>1, <1>3, <1>4, <2>1 DEF done
<1> QED
  BY <1>2, <1>5, <1>6

LEMMA CallTurnsPage ==
  ASSUME call \in Begun, NEW l \in Listing, call' = [call EXCEPT !.listing = l]
  PROVE  /\ call' \in Begun /\ call'.step = call.step /\ call'.asked = call.asked
         /\ call'.listing = l /\ call'.todo = call.todo /\ call'.at = call.at
         /\ call'.result = call.result /\ call'.answer = call.answer
         /\ call'.held = call.held /\ call'.undisturbed = call.undisturbed
<1> DEFINE Bs == BOOLEAN
           Hs == SUBSET (Installations \X Repositories)
           Ss == {"installations", "repositories", "answered"}
           As == {None, "authorized", "listed", "installation_not_authorized",
                  "repository_not_authorized", "invalid_response",
                  "pagination_limit_exceeded", "github_unavailable"}
           Qs == {None} \union (Installations \X Repositories)
           Ts == SUBSET Installations
           Is == Installations \union {None}
           Calls == [step : Ss, asked : Qs, listing : Listing, todo : Ts, at : Is,
                     result : Hs, answer : As, held : Hs, undisturbed : Bs]
<1>1. Begun = Calls /\ call \in Calls
  BY DEF Begun
<1> HIDE DEF Bs, Hs, Ss, As, Qs, Ts, Is
<1>2. /\ call' \in Calls /\ call'.step = call.step /\ call'.asked = call.asked
      /\ call'.listing = l /\ call'.todo = call.todo /\ call'.at = call.at
      /\ call'.result = call.result /\ call'.answer = call.answer
      /\ call'.held = call.held /\ call'.undisturbed = call.undisturbed
  BY <1>1
<1> HIDE DEF Calls
<1> QED
  BY <1>1, <1>2

LEMMA CallListsNext ==
  ASSUME call \in Begun, NEW l \in Listing, NEW i \in Installations,
         NEW t \in SUBSET Installations, NEW r \in SUBSET (Installations \X Repositories),
         call' = [call EXCEPT !.step = "repositories", !.listing = l, !.at = i,
                              !.todo = t, !.result = r]
  PROVE  /\ call' \in Begun /\ call'.step = "repositories" /\ call'.asked = call.asked
         /\ call'.listing = l /\ call'.todo = t /\ call'.at = i
         /\ call'.result = r /\ call'.answer = call.answer
         /\ call'.held = call.held /\ call'.undisturbed = call.undisturbed
<1> DEFINE Bs == BOOLEAN
           Hs == SUBSET (Installations \X Repositories)
           Ss == {"installations", "repositories", "answered"}
           As == {None, "authorized", "listed", "installation_not_authorized",
                  "repository_not_authorized", "invalid_response",
                  "pagination_limit_exceeded", "github_unavailable"}
           Qs == {None} \union (Installations \X Repositories)
           Ts == SUBSET Installations
           Is == Installations \union {None}
           Calls == [step : Ss, asked : Qs, listing : Listing, todo : Ts, at : Is,
                     result : Hs, answer : As, held : Hs, undisturbed : Bs]
           goes == "repositories"
           one == [call EXCEPT !.step = goes]
           two == [one EXCEPT !.listing = l]
           three == [two EXCEPT !.at = i]
           four == [three EXCEPT !.todo = t]
<1>1. Begun = Calls /\ call \in Calls /\ goes \in Ss /\ r \in Hs /\ t \in Ts /\ i \in Is
  BY DEF Begun
<1>2. call' = [four EXCEPT !.result = r]
  OBVIOUS
<1> HIDE DEF Bs, Hs, Ss, As, Qs, Ts, Is, goes
<1>3. /\ one \in Calls /\ one.step = goes /\ one.asked = call.asked
      /\ one.answer = call.answer /\ one.held = call.held
      /\ one.undisturbed = call.undisturbed
  BY <1>1
<1> HIDE DEF one
<1>4. /\ two \in Calls /\ two.step = one.step /\ two.asked = one.asked
      /\ two.answer = one.answer /\ two.held = one.held
      /\ two.undisturbed = one.undisturbed /\ two.listing = l
  BY <1>1, <1>3
<1> HIDE DEF two
<1>5. /\ three \in Calls /\ three.step = two.step /\ three.asked = two.asked
      /\ three.answer = two.answer /\ three.held = two.held
      /\ three.undisturbed = two.undisturbed /\ three.listing = two.listing
      /\ three.at = i
  BY <1>1, <1>4
<1> HIDE DEF three
<1>6. /\ four \in Calls /\ four.step = three.step /\ four.asked = three.asked
      /\ four.answer = three.answer /\ four.held = three.held
      /\ four.undisturbed = three.undisturbed /\ four.listing = three.listing
      /\ four.at = three.at /\ four.todo = t
  BY <1>1, <1>5
<1> HIDE DEF four
<1>7. /\ call' \in Calls /\ call'.step = four.step /\ call'.asked = four.asked
      /\ call'.answer = four.answer /\ call'.held = four.held
      /\ call'.undisturbed = four.undisturbed /\ call'.listing = four.listing
      /\ call'.at = four.at /\ call'.todo = four.todo /\ call'.result = r
  BY <1>1, <1>2, <1>6
<1> HIDE DEF Calls
<1> QED
  BY <1>1, <1>3, <1>4, <1>5, <1>6, <1>7 DEF goes

(***************************************************************************)
(* What a change on GitHub leaves of a list.                               *)
(***************************************************************************)
LEMMA ToggledIs ==
  ASSUME NEW set, NEW list \in Seq(set), Injective(list), NEW x \in set
  PROVE  R!Toggled(list, x) \in Seq(set) /\ Injective(R!Toggled(list, x))
<1>1. /\ Len(list) \in Nat /\ DOMAIN list = 1..Len(list) /\ \A j \in 1..Len(list) : list[j] \in set
  OBVIOUS
<1>2. \A i, j \in 1..Len(list) : list[i] = list[j] => i = j
  BY <1>1 DEF Injective
<1>3. R!ToSet(list) = {list[j] : j \in DOMAIN list}
  BY DEF R!ToSet
<1>4. CASE x \in R!ToSet(list)
  <2>1. PICK p \in 1..Len(list) : p = CHOOSE k \in DOMAIN list : list[k] = x
    BY <1>1, <1>3, <1>4
  <2> DEFINE front == SubSeq(list, 1, p - 1)
             rest  == SubSeq(list, p + 1, Len(list))
             shorter == front \o rest
  <2>2. R!Toggled(list, x) = shorter
    BY <1>4, <2>1 DEF R!Toggled, R!RemoveAt
  <2>3. /\ front \in Seq(set) /\ Len(front) = p - 1
        /\ \A j \in 1..(p - 1) : front[j] = list[j]
    <3>1. \A j \in 1..(p - 1) : list[j] \in set
      BY <1>1
    <3>2. /\ front \in Seq(set) /\ Len(front) = IF 1 <= p - 1 THEN (p - 1) - 1 + 1 ELSE 0
          /\ \A j \in 1..((p - 1) - 1 + 1) : front[j] = list[1 + j - 1]
      BY <3>1, SubSeqProperties
    <3> HIDE DEF front
    <3> QED
      BY <3>2
  <2>4. /\ rest \in Seq(set) /\ Len(rest) = Len(list) - p
        /\ \A j \in 1..(Len(list) - p) : rest[j] = list[p + j]
    <3>1. \A j \in (p + 1)..Len(list) : list[j] \in set
      BY <1>1
    <3>2. /\ rest \in Seq(set)
          /\ Len(rest) = IF p + 1 <= Len(list) THEN Len(list) - (p + 1) + 1 ELSE 0
          /\ \A j \in 1..(Len(list) - (p + 1) + 1) : rest[j] = list[(p + 1) + j - 1]
      BY <1>1, <3>1, SubSeqProperties
    <3>3. Len(list) - (p + 1) + 1 = Len(list) - p /\ (Len(list) - p > 0 <=> p + 1 <= Len(list))
      BY <1>1
    <3> HIDE DEF rest
    <3>4. Len(rest) = Len(list) - p
      <4>1. CASE p + 1 <= Len(list)
        BY <3>2, <3>3, <4>1
      <4>2. CASE ~(p + 1 <= Len(list))
        <5>1. p \in 1..Len(list) /\ Len(list) \in Nat
          BY <1>1, <2>1
        <5>2. PICK n \in Nat : n = Len(list)
          BY <5>1
        <5>3. n - p = 0
          BY <4>2, <5>1, <5>2
        <5>4. Len(list) - p = 0
          BY <5>2, <5>3
        <5> QED
          BY <3>2, <4>2, <5>4
      <4> QED
        BY <4>1, <4>2
    <3>5. ASSUME NEW j \in 1..(Len(list) - p)
          PROVE  rest[j] = list[p + j]
      <4>1. (p + 1) + j - 1 = p + j
        BY <1>1
      <4> QED
        BY <3>2, <3>3, <4>1
    <3> QED
      BY <3>2, <3>4, <3>5
  <2> HIDE DEF front, rest
  <2>5. /\ shorter \in Seq(set) /\ Len(shorter) = Len(list) - 1
        /\ \A j \in 1..(Len(list) - 1) :
             shorter[j] = IF j <= p - 1 THEN front[j] ELSE rest[j - (p - 1)]
    <3>1. /\ shorter \in Seq(set) /\ Len(shorter) = Len(front) + Len(rest)
          /\ \A j \in 1..(Len(front) + Len(rest)) :
               shorter[j] = IF j <= Len(front) THEN front[j] ELSE rest[j - Len(front)]
      BY <2>3, <2>4, ConcatProperties
    <3> HIDE DEF shorter
    <3> QED
      BY <1>1, <2>3, <2>4, <3>1
  <2> HIDE DEF shorter
  <2>6. \A j \in 1..(Len(list) - 1) : shorter[j] = list[IF j < p THEN j ELSE j + 1]
    <3> TAKE j \in 1..(Len(list) - 1)
    <3>1. CASE j < p
      BY <1>1, <2>3, <2>5, <3>1
    <3>2. CASE ~(j < p)
      <4>1. /\ j - (p - 1) \in 1..(Len(list) - p) /\ p + (j - (p - 1)) = j + 1
            /\ ~(j <= p - 1)
        BY <1>1, <3>2
      <4> QED
        BY <2>4, <2>5, <3>2, <4>1
    <3> QED
      BY <3>1, <3>2
  <2>7. DOMAIN shorter = 1..(Len(list) - 1)
    BY <1>1, <2>5
  <2>8. Injective(shorter)
    <3> SUFFICES ASSUME NEW i \in 1..(Len(list) - 1), NEW j \in 1..(Len(list) - 1),
                        shorter[i] = shorter[j]
                 PROVE  i = j
      BY <2>7 DEF Injective
    <3>1. PICK k \in 1..Len(list) : k = IF i < p THEN i ELSE i + 1
      BY <1>1
    <3>2. PICK l \in 1..Len(list) : l = IF j < p THEN j ELSE j + 1
      BY <1>1
    <3>3. list[k] = list[l]
      BY <2>6, <3>1, <3>2
    <3>4. k = l
      BY <1>2, <3>3
    <3> QED
      BY <1>1, <3>1, <3>2, <3>4
  <2> QED
    BY <2>2, <2>5, <2>8
<1>5. CASE x \notin R!ToSet(list)
  <2> DEFINE longer == Append(list, x)
  <2>1. R!Toggled(list, x) = longer
    BY <1>5 DEF R!Toggled
  <2>2. /\ longer \in Seq(set) /\ Len(longer) = Len(list) + 1
        /\ \A j \in 1..Len(list) : longer[j] = list[j]
        /\ longer[Len(list) + 1] = x
    BY AppendProperties
  <2> HIDE DEF longer
  <2>3. DOMAIN longer = 1..(Len(list) + 1)
    BY <1>1, <2>2
  <2>4. \A j \in 1..Len(list) : list[j] # x
    BY <1>1, <1>3, <1>5
  <2>5. Injective(longer)
    <3> SUFFICES ASSUME NEW i \in 1..(Len(list) + 1), NEW j \in 1..(Len(list) + 1),
                        longer[i] = longer[j]
                 PROVE  i = j
      BY <2>3 DEF Injective
    <3>1. CASE i \in 1..Len(list) /\ j \in 1..Len(list)
      BY <1>2, <2>2, <3>1
    <3>2. CASE i = Len(list) + 1 /\ j \in 1..Len(list)
      BY <2>2, <2>4, <3>2
    <3>3. CASE j = Len(list) + 1 /\ i \in 1..Len(list)
      BY <2>2, <2>4, <3>3
    <3> QED
      BY <1>1, <3>1, <3>2, <3>3
  <2> QED
    BY <2>1, <2>2, <2>5
<1> QED
  BY <1>4, <1>5

LEMMA ChangeKeeps ==
  ASSUME R!RepositoryAccessAssumption, RepositoriesSound, R!Change
  PROVE  RepositoriesSound'
<1>1. /\ call.step \in {"installations", "repositories"}
      /\ changes < MaxChanges /\ changes' = changes + 1
  BY DEF R!Change
<1>2. /\ installations' \in Seq(Installations) /\ Injective(installations')
      /\ suspended' \subseteq Installations
      /\ repositories' \in [Installations -> Seq(Repositories)]
      /\ \A i \in Installations : Injective(repositories'[i])
  <2>1. PICK i \in Installations, r \in Repositories :
          \/ /\ installations' = R!Toggled(installations, i)
             /\ UNCHANGED <<suspended, repositories>>
          \/ /\ suspended' = (suspended \ {i}) \union ({i} \ suspended)
             /\ UNCHANGED <<installations, repositories>>
          \/ /\ repositories' = [repositories EXCEPT ![i] = R!Toggled(@, r)]
             /\ UNCHANGED <<installations, suspended>>
    BY DEF R!Change
  <2>2. CASE installations' = R!Toggled(installations, i) /\ UNCHANGED <<suspended, repositories>>
    <3>1. PICK list \in Seq(Installations) : list = installations
      BY DEF RepositoriesSound
    <3>2. R!Toggled(list, i) \in Seq(Installations) /\ Injective(R!Toggled(list, i))
      BY <3>1, ToggledIs DEF RepositoriesSound
    <3> QED
      BY <2>2, <3>1, <3>2 DEF RepositoriesSound
  <2>3. CASE /\ suspended' = (suspended \ {i}) \union ({i} \ suspended)
             /\ UNCHANGED <<installations, repositories>>
    BY <2>3 DEF RepositoriesSound
  <2>4. CASE /\ repositories' = [repositories EXCEPT ![i] = R!Toggled(@, r)]
             /\ UNCHANGED <<installations, suspended>>
    <3>1. PICK list \in Seq(Repositories) : list = repositories[i] /\ Injective(list)
      BY DEF RepositoriesSound
    <3>2. PICK new : new = R!Toggled(list, r)
      OBVIOUS
    <3>3. new \in Seq(Repositories) /\ Injective(new)
      BY <3>1, <3>2, ToggledIs
    <3>4. repositories' = [repositories EXCEPT ![i] = new]
      BY <2>4, <3>1, <3>2
    <3> QED
      BY <2>4, <3>3, <3>4 DEF RepositoriesSound
  <2> QED
    BY <2>1, <2>2, <2>3, <2>4
<1>3. call \in Begun /\ RunningSound(call, installations, suspended, repositories)
      /\ FirstSound(call, installations, suspended, repositories)
      /\ SecondSound(call, installations, suspended, repositories)
  BY <1>1 DEF RepositoriesSound, CallOfUser
<1>4. PICK open : open = AccessIn(installations', suspended', repositories')
  OBVIOUS
<1>5. R!Access' = open /\ open \subseteq Installations \X Repositories
  BY <1>4 DEF R!Access, R!Usable, AccessIn, UsableIn
<1>6. PICK h \in SUBSET (Installations \X Repositories) : h = call.held \union open
  BY <1>3, <1>5 DEF Begun
<1>7. call' = [call EXCEPT !.held = h, !.undisturbed = FALSE]
  BY <1>5, <1>6 DEF R!Change
<1>8. /\ call' \in Begun /\ call'.step = call.step /\ call'.asked = call.asked
      /\ call'.listing = call.listing /\ call'.todo = call.todo /\ call'.at = call.at
      /\ call'.result = call.result /\ call'.answer = call.answer
      /\ call'.held = h /\ ~call'.undisturbed
  BY <1>3, <1>7, CallSeesChange
<1>9. RunningSound(call', installations', suspended', repositories')
  BY <1>3, <1>4, <1>6, <1>8 DEF RunningSound
<1>10. FirstSound(call', installations', suspended', repositories')
  BY <1>3, <1>8 DEF FirstSound
<1>11. SecondSound(call', installations', suspended', repositories')
  BY <1>3, <1>6, <1>8 DEF SecondSound
<1>12. AnswerSound(call')
  BY <1>1, <1>8 DEF AnswerSound
<1>13. changes' \in 0..MaxChanges
  BY <1>1 DEF RepositoriesSound, R!RepositoryAccessAssumption
<1> QED
  BY <1>2, <1>8, <1>9, <1>10, <1>11, <1>12, <1>13 DEF RepositoriesSound, CallOfUser

LEMMA BeginKeeps ==
  ASSUME R!RepositoryAccessAssumption, RepositoriesSound, R!Begin
  PROVE  RepositoriesSound'
<1>1. UNCHANGED <<installations, suspended, repositories, changes>>
  BY DEF R!Begin
<1>2. PICK open : open = AccessIn(installations, suspended, repositories)
  OBVIOUS
<1>3. R!Access = open /\ open \subseteq Installations \X Repositories
  BY <1>2 DEF R!Access, R!Usable, AccessIn, UsableIn
<1>4. PICK asked \in {None} \union (Installations \X Repositories) :
        call' = [step |-> "installations", asked |-> asked, listing |-> R!FirstPage,
                 todo |-> {}, at |-> None, result |-> {}, answer |-> None,
                 held |-> open, undisturbed |-> TRUE]
  BY <1>3 DEF R!Begin
<1>5. PICK first : first = R!FirstPage
  OBVIOUS
<1>6. first \in Listing /\ first.page = 1 /\ first.total = None /\ first.found = {}
  BY <1>5 DEF R!FirstPage, Listing
<1>7. /\ call'.step = "installations" /\ call'.listing = first /\ call'.held = open
      /\ call' \in Begun
  BY <1>3, <1>4, <1>5, <1>6 DEF Begun
<1>8. RunningSound(call', installations, suspended, repositories)
  BY <1>2, <1>6, <1>7 DEF RunningSound, R!RepositoryAccessAssumption
<1>9. FirstSound(call', installations, suspended, repositories)
  BY <1>6, <1>7, FirstReached DEF FirstSound, ListingSound
<1>10. SecondSound(call', installations, suspended, repositories) /\ AnswerSound(call')
  BY <1>7 DEF SecondSound, AnswerSound
<1>11. CallOfUser(call', installations, suspended, repositories)
  BY <1>7, <1>8, <1>9, <1>10 DEF CallOfUser
<1> QED
  BY <1>1, <1>11 DEF RepositoriesSound

LEMMA UnavailableKeeps ==
  ASSUME R!RepositoryAccessAssumption, RepositoriesSound, R!Unavailable
  PROVE  RepositoriesSound'
<1>1. UNCHANGED <<installations, suspended, repositories, changes>>
  BY DEF R!Unavailable
<1>2. call \in Begun /\ call.step \in {"installations", "repositories"}
  BY DEF R!Unavailable, RepositoriesSound, CallOfUser
<1>3. PICK r \in SUBSET (Installations \X Repositories) : r = call.result
  BY <1>2 DEF Begun
<1>4. /\ call' \in Begun /\ call'.step = "answered" /\ call'.answer = "github_unavailable"
  BY <1>2, <1>3, CallIsAnswered DEF R!Unavailable, R!Answer
<1>5. CallOfUser(call', installations, suspended, repositories)
  BY <1>4 DEF CallOfUser, RunningSound, FirstSound, SecondSound, AnswerSound
<1> QED
  BY <1>1, <1>5 DEF RepositoriesSound

-----------------------------------------------------------------------------
(* What is accessible does not change while a page is read.                *)
HeldSound(k, inst, susp, repos) ==
  /\ AccessIn(inst, susp, repos) \subseteq k.held
  /\ k.undisturbed => k.held = AccessIn(inst, susp, repos)

LEMMA AnsweredIsSound ==
  ASSUME call \in Begun, NEW r \in SUBSET (Installations \X Repositories),
         NEW a \in {"authorized", "listed", "installation_not_authorized",
                    "repository_not_authorized", "invalid_response",
                    "pagination_limit_exceeded", "github_unavailable"},
         \/ call' = [call EXCEPT !.step = "answered", !.answer = a] /\ r = call.result
         \/ call' = [call EXCEPT !.step = "answered", !.answer = a, !.result = r],
         a = "authorized" => call.asked \in call.held,
         a = "listed" => r \subseteq call.held,
         call.undisturbed =>
           /\ a = "listed" => r = call.held
           /\ a # "invalid_response"
           /\ a \in {"installation_not_authorized", "repository_not_authorized"}
                => call.asked \notin call.held,
         NEW inst, NEW susp, NEW repos
  PROVE  CallOfUser(call', inst, susp, repos)
<1>1. /\ call' \in Begun /\ call'.step = "answered" /\ call'.asked = call.asked
      /\ call'.result = r /\ call'.answer = a
      /\ call'.held = call.held /\ call'.undisturbed = call.undisturbed
  BY CallIsAnswered
<1> QED
  BY <1>1 DEF CallOfUser, RunningSound, FirstSound, SecondSound, AnswerSound

LEMMA ListNextIsSound ==
  ASSUME R!RepositoryAccessAssumption, call \in Begun,
         NEW inst, NEW susp, NEW repos, HeldSound(call, inst, susp, repos),
         NEW todo \in SUBSET Installations,
         NEW result \in SUBSET (Installations \X Repositories), result \subseteq call.held,
         call.asked # None => todo = {call.asked[1]},
         call.undisturbed =>
           /\ todo \subseteq UsableIn(inst, susp)
           /\ call.asked = None => \A a \in call.held : a[1] \in todo \/ a \in result,
         R!ListNext(todo, result)
  PROVE  CallOfUser(call', inst, susp, repos)
<1>1. CASE todo = {}
  <2>1. call' = [call EXCEPT !.step = "answered", !.answer = "listed", !.result = result]
    BY <1>1 DEF R!ListNext
  <2>2. call.undisturbed => result = call.held
    BY <1>1
  <2> QED
    BY <2>1, <2>2, AnsweredIsSound
<1>2. CASE todo # {}
  <2>1. PICK i \in todo :
          call' = [call EXCEPT !.step = "repositories", !.listing = R!FirstPage, !.at = i,
                               !.todo = todo \ {i}, !.result = result]
    BY <1>2 DEF R!ListNext
  <2>2. PICK first : first = R!FirstPage
    OBVIOUS
  <2>3. first \in Listing /\ first.page = 1 /\ first.total = None /\ first.found = {}
    BY <2>2 DEF R!FirstPage, Listing
  <2>4. PICK rest \in SUBSET Installations : rest = todo \ {i}
    OBVIOUS
  <2>5. call' = [call EXCEPT !.step = "repositories", !.listing = first, !.at = i,
                             !.todo = rest, !.result = result]
    BY <2>1, <2>2, <2>4
  <2>6. /\ call' \in Begun /\ call'.step = "repositories" /\ call'.asked = call.asked
        /\ call'.listing = first /\ call'.todo = rest /\ call'.at = i
        /\ call'.result = result /\ call'.answer = call.answer
        /\ call'.held = call.held /\ call'.undisturbed = call.undisturbed
    <3>1. PICK j \in Installations : j = i
      BY <2>1
    <3>2. call' = [call EXCEPT !.step = "repositories", !.listing = first, !.at = j,
                               !.todo = rest, !.result = result]
      BY <2>5, <3>1
    <3>3. /\ call' \in Begun /\ call'.step = "repositories" /\ call'.asked = call.asked
          /\ call'.listing = first /\ call'.todo = rest /\ call'.at = j
          /\ call'.result = result /\ call'.answer = call.answer
          /\ call'.held = call.held /\ call'.undisturbed = call.undisturbed
      BY <2>3, <3>2, CallListsNext
    <3> QED
      BY <3>1, <3>3
  <2>7. RunningSound(call', inst, susp, repos)
    BY <2>3, <2>6 DEF RunningSound, HeldSound, R!RepositoryAccessAssumption
  <2>8. ListingSound(first, repos[i], {})
    BY <2>3, FirstReached DEF ListingSound
  <2>9. SecondSound(call', inst, susp, repos)
    BY <2>1, <2>3, <2>4, <2>6, <2>8 DEF SecondSound
  <2>10. FirstSound(call', inst, susp, repos) /\ AnswerSound(call')
    BY <2>6 DEF FirstSound, AnswerSound
  <2> QED
    BY <2>6, <2>7, <2>9, <2>10 DEF CallOfUser
<1> QED
  BY <1>1, <1>2

LEMMA ListInstallationsKeeps ==
  ASSUME R!RepositoryAccessAssumption, RepositoriesSound, R!ListInstallations
  PROVE  RepositoriesSound'
<1>1. /\ UNCHANGED <<installations, suspended, repositories, changes>>
      /\ call.step = "installations"
  BY DEF R!ListInstallations
<1>2. /\ call \in Begun /\ RunningSound(call, installations, suspended, repositories)
      /\ FirstSound(call, installations, suspended, repositories)
  BY <1>1 DEF RepositoriesSound, CallOfUser
<1>3. PICK inst \in Seq(Installations) : inst = installations
  BY DEF RepositoriesSound
<1>4. PICK susp, repos : susp = suspended /\ repos = repositories
  OBVIOUS
<1>5. PICK listing \in Listing : listing = call.listing
  BY <1>2 DEF Begun
<1>6. /\ listing.page \in 1..MaxPages /\ listing.found \subseteq Installations
      /\ HeldSound(call, inst, susp, repos)
      /\ call.undisturbed => ListingSound(listing, inst, susp)
  BY <1>1, <1>2, <1>3, <1>4, <1>5 DEF RunningSound, FirstSound, HeldSound
<1>7. PICK after : after = R!AfterPage(listing, inst)
  OBVIOUS
<1>8. PICK next : next = R!WithPage(listing, inst, susp)
  OBVIOUS
<1>9. /\ after \in {"more", "complete", "invalid_response", "pagination_limit_exceeded"}
      /\ after = "complete" => R!LastPage(listing.page, Len(inst))
      /\ after = "more" =>
           ~R!LastPage(listing.page, Len(inst)) /\ listing.page + 1 \in 1..MaxPages
      /\ after = "invalid_response" => listing.total \notin {None, Len(inst)}
  BY <1>6, <1>7, AfterPageIs
<1>10. /\ next \in Listing /\ next.page = listing.page + 1
       /\ next.found = listing.found \union (R!PageOf(inst, listing.page) \ susp)
       /\ R!PageOf(inst, listing.page) \subseteq R!ToSet(inst)
       /\ R!PageOf(inst, listing.page) \subseteq Installations
       /\ ListingSound(listing, inst, susp) =>
            /\ ListingSound(next, inst, susp)
            /\ R!LastPage(listing.page, Len(inst)) => next.found = R!ToSet(inst) \ susp
  BY <1>6, <1>8, NextPage
<1>11. next.found \in SUBSET Installations
  BY <1>6, <1>10
<1>12. /\ after = "more" => call' = [call EXCEPT !.listing = next]
       /\ after = "complete" =>
            /\ call.asked = None => R!ListNext(next.found, {})
            /\ call.asked # None /\ call.asked[1] \in next.found =>
                 R!ListNext({call.asked[1]}, {})
            /\ call.asked # None /\ call.asked[1] \notin next.found =>
                 R!Answer("installation_not_authorized")
       /\ after \notin {"more", "complete"} => R!Answer(after)
  BY <1>3, <1>4, <1>5, <1>7, <1>8 DEF R!ListInstallations
<1>13. CallOfUser(call', inst, susp, repos)
  <2>1. CASE after = "more"
    <3>1. call' = [call EXCEPT !.listing = next]
      BY <1>12, <2>1
    <3>2. /\ call' \in Begun /\ call'.step = call.step /\ call'.asked = call.asked
          /\ call'.listing = next /\ call'.todo = call.todo /\ call'.at = call.at
          /\ call'.result = call.result /\ call'.answer = call.answer
          /\ call'.held = call.held /\ call'.undisturbed = call.undisturbed
      BY <1>2, <1>10, <3>1, CallTurnsPage
    <3>3. RunningSound(call', inst, susp, repos)
      BY <1>6, <1>9, <1>10, <2>1, <3>2 DEF RunningSound, HeldSound
    <3>4. FirstSound(call', inst, susp, repos)
      BY <1>6, <1>10, <1>11, <3>2 DEF FirstSound
    <3>5. SecondSound(call', inst, susp, repos) /\ AnswerSound(call')
      BY <1>1, <3>2 DEF SecondSound, AnswerSound
    <3> QED
      BY <3>2, <3>3, <3>4, <3>5 DEF CallOfUser
  <2>2. CASE after = "complete"
    <3>1. call.undisturbed =>
            next.found = UsableIn(inst, susp) /\ call.held = AccessIn(inst, susp, repos)
      BY <1>6, <1>9, <1>10, <2>2 DEF UsableIn, HeldSound
    <3>2. CASE call.asked = None
      <4>1. R!ListNext(next.found, {})
        BY <1>12, <2>2, <3>2
      <4>2. PICK found \in SUBSET Installations : found = next.found
        BY <1>11
      <4>3. R!ListNext(found, {})
        BY <4>1, <4>2
      <4>4. call.undisturbed =>
              /\ found \subseteq UsableIn(inst, susp)
              /\ \A a \in call.held : a[1] \in found
        BY <3>1, <4>2 DEF AccessIn
      <4> QED
        BY <1>2, <1>6, <3>2, <4>3, <4>4, ListNextIsSound
    <3>3. CASE call.asked # None /\ call.asked[1] \in next.found
      <4>1. PICK i \in Installations : i = call.asked[1] /\ i \in next.found
        BY <1>11, <3>3
      <4>2. R!ListNext({i}, {})
        BY <1>12, <2>2, <3>3, <4>1
      <4>3. call.undisturbed => {i} \subseteq UsableIn(inst, susp)
        BY <3>1, <4>1
      <4> QED
        BY <1>2, <1>6, <3>3, <4>1, <4>2, <4>3, ListNextIsSound
    <3>4. CASE call.asked # None /\ call.asked[1] \notin next.found
      <4>1. call' = [call EXCEPT !.step = "answered", !.answer = "installation_not_authorized"]
        BY <1>12, <2>2, <3>4 DEF R!Answer
      <4>2. call.undisturbed => call.asked \notin call.held
        BY <3>1, <3>4 DEF AccessIn
      <4>3. PICK r \in SUBSET (Installations \X Repositories) : r = call.result
        BY <1>2 DEF Begun
      <4> QED
        BY <1>2, <4>1, <4>2, <4>3, AnsweredIsSound
    <3> QED
      BY <3>2, <3>3, <3>4
  <2>3. CASE after \in {"invalid_response", "pagination_limit_exceeded"}
    <3>1. call' = [call EXCEPT !.step = "answered", !.answer = after]
      BY <1>12, <2>3 DEF R!Answer
    <3>2. call.undisturbed => after # "invalid_response"
      BY <1>6, <1>9 DEF ListingSound
    <3>3. PICK r \in SUBSET (Installations \X Repositories) : r = call.result
      BY <1>2 DEF Begun
    <3> QED
      BY <1>2, <2>3, <3>1, <3>2, <3>3, AnsweredIsSound
  <2> QED
    BY <1>9, <2>1, <2>2, <2>3
<1> QED
  BY <1>1, <1>3, <1>4, <1>13 DEF RepositoriesSound

LEMMA ListRepositoriesKeeps ==
  ASSUME R!RepositoryAccessAssumption, RepositoriesSound, R!ListRepositories
  PROVE  RepositoriesSound'
<1>1. /\ UNCHANGED <<installations, suspended, repositories, changes>>
      /\ call.step = "repositories"
  BY DEF R!ListRepositories
<1>2. /\ call \in Begun /\ RunningSound(call, installations, suspended, repositories)
      /\ SecondSound(call, installations, suspended, repositories)
  BY <1>1 DEF RepositoriesSound, CallOfUser
<1>3. PICK at \in Installations : at = call.at
  BY <1>1, <1>2 DEF SecondSound
<1>4. PICK list \in Seq(Repositories) : list = repositories[at]
  BY DEF RepositoriesSound
<1>5. PICK inst, susp, repos : inst = installations /\ susp = suspended /\ repos = repositories
  OBVIOUS
<1>6. PICK listing \in Listing : listing = call.listing
  BY <1>2 DEF Begun
<1>7. PICK asked \in {None} \union (Installations \X Repositories) : asked = call.asked
  BY <1>2 DEF Begun
<1>8. PICK result \in SUBSET (Installations \X Repositories) : result = call.result
  BY <1>2 DEF Begun
<1>9. PICK todo \in SUBSET Installations : todo = call.todo
  BY <1>2 DEF Begun
<1>10. PICK held \in SUBSET (Installations \X Repositories) : held = call.held
  BY <1>2 DEF Begun
<1>11. /\ listing.page \in 1..MaxPages /\ listing.found \subseteq Repositories
       /\ {at} \X listing.found \subseteq held /\ result \subseteq held
       /\ asked # None => asked[1] = at
       /\ AccessIn(inst, susp, repos) \subseteq held
       /\ call.undisturbed =>
            /\ held = AccessIn(inst, susp, repos)
            /\ at \in UsableIn(inst, susp) /\ todo \subseteq UsableIn(inst, susp)
            /\ ListingSound(listing, list, {})
            /\ asked = None => \A a \in held : a[1] = at \/ a[1] \in todo \/ a \in result
  BY <1>1, <1>2, <1>3, <1>4, <1>5, <1>6, <1>7, <1>8, <1>9, <1>10
     DEF RunningSound, SecondSound
<1>12. PICK after : after = R!AfterPage(listing, list)
  OBVIOUS
<1>13. PICK next : next = R!WithPage(listing, list, {})
  OBVIOUS
<1>14. /\ after \in {"more", "complete", "invalid_response", "pagination_limit_exceeded"}
       /\ after = "complete" => R!LastPage(listing.page, Len(list))
       /\ after = "more" =>
            ~R!LastPage(listing.page, Len(list)) /\ listing.page + 1 \in 1..MaxPages
       /\ after = "invalid_response" => listing.total \notin {None, Len(list)}
  BY <1>11, <1>12, AfterPageIs
<1>15. /\ next \in Listing /\ next.page = listing.page + 1
       /\ next.found = listing.found \union (R!PageOf(list, listing.page) \ {})
       /\ R!PageOf(list, listing.page) \subseteq R!ToSet(list)
       /\ R!PageOf(list, listing.page) \subseteq Repositories
       /\ ListingSound(listing, list, {}) =>
            /\ ListingSound(next, list, {})
            /\ R!LastPage(listing.page, Len(list)) => next.found = R!ToSet(list) \ {}
  <2>1. PICK none : none = {}
    OBVIOUS
  <2>2. next = R!WithPage(listing, list, none)
    BY <1>13, <2>1
  <2>3. /\ next \in Listing /\ next.page = listing.page + 1
        /\ next.found = listing.found \union (R!PageOf(list, listing.page) \ none)
        /\ R!PageOf(list, listing.page) \subseteq R!ToSet(list)
        /\ R!PageOf(list, listing.page) \subseteq Repositories
        /\ ListingSound(listing, list, none) =>
             /\ ListingSound(next, list, none)
             /\ R!LastPage(listing.page, Len(list)) => next.found = R!ToSet(list) \ none
    BY <1>11, <2>2, NextPage
  <2> QED
    BY <2>1, <2>3
<1>16. next.found \subseteq Repositories
  BY <1>11, <1>15
<1>17. /\ at \notin UsableIn(inst, susp) => R!Answer("installation_not_authorized")
       /\ at \in UsableIn(inst, susp) =>
            /\ after = "more" => call' = [call EXCEPT !.listing = next]
            /\ after = "complete" =>
                 /\ asked = None => R!ListNext(todo, result \union ({at} \X next.found))
                 /\ asked # None /\ asked[2] \in next.found => R!Answer("authorized")
                 /\ asked # None /\ asked[2] \notin next.found =>
                      R!Answer("repository_not_authorized")
            /\ after \notin {"more", "complete"} => R!Answer(after)
  <2>1. R!Usable(call.at) <=> at \in UsableIn(inst, susp)
    BY <1>3, <1>5 DEF R!Usable, UsableIn
  <2> QED
    BY <2>1, <1>3, <1>4, <1>6, <1>7, <1>8, <1>9, <1>12, <1>13 DEF R!ListRepositories
<1>18. CASE at \notin UsableIn(inst, susp)
  <2>1. call' = [call EXCEPT !.step = "answered", !.answer = "installation_not_authorized"]
    BY <1>17, <1>18 DEF R!Answer
  <2>2. ~call.undisturbed
    BY <1>2, <1>11, <1>18
  <2>3. CallOfUser(call', inst, susp, repos)
    BY <1>2, <1>8, <2>1, <2>2, AnsweredIsSound
  <2> QED
    BY <1>1, <1>5, <2>3 DEF RepositoriesSound
<1>19. CASE at \in UsableIn(inst, susp)
  <2>1. {at} \X next.found \subseteq held
    <3>1. \A r \in R!PageOf(list, listing.page) : <<at, r>> \in AccessIn(inst, susp, repos)
      BY <1>4, <1>5, <1>15, <1>19 DEF AccessIn
    <3> QED
      BY <1>11, <1>15, <3>1
  <2>2. CASE after = "more"
    <3>1. call' = [call EXCEPT !.listing = next]
      BY <1>17, <1>19, <2>2
    <3>2. /\ call' \in Begun /\ call'.step = call.step /\ call'.asked = call.asked
          /\ call'.listing = next /\ call'.todo = call.todo /\ call'.at = call.at
          /\ call'.result = call.result /\ call'.answer = call.answer
          /\ call'.held = call.held /\ call'.undisturbed = call.undisturbed
      BY <1>2, <1>15, <3>1, CallTurnsPage
    <3>3. RunningSound(call', inst, susp, repos)
      BY <1>10, <1>11, <1>14, <1>15, <2>2, <3>2 DEF RunningSound
    <3>4. SecondSound(call', inst, susp, repos)
      BY <1>3, <1>4, <1>5, <1>7, <1>8, <1>9, <1>10, <1>11, <1>15, <1>16, <2>1, <3>2
         DEF SecondSound
    <3>5. FirstSound(call', inst, susp, repos) /\ AnswerSound(call')
      BY <1>1, <3>2 DEF FirstSound, AnswerSound
    <3>6. CallOfUser(call', inst, susp, repos)
      BY <3>2, <3>3, <3>4, <3>5 DEF CallOfUser
    <3> QED
      BY <1>1, <1>5, <3>6 DEF RepositoriesSound
  <2>3. CASE after = "complete"
    <3>1. call.undisturbed => next.found = R!ToSet(repos[at])
      BY <1>4, <1>5, <1>11, <1>14, <1>15, <2>3
    <3>2. CASE asked = None
      <4>1. R!ListNext(todo, result \union ({at} \X next.found))
        BY <1>17, <1>19, <2>3, <3>2
      <4>2. PICK more \in SUBSET (Installations \X Repositories) :
              more = result \union ({at} \X next.found)
        BY <1>16
      <4>3. call.undisturbed =>
              /\ todo \subseteq UsableIn(inst, susp)
              /\ \A a \in call.held : a[1] \in todo \/ a \in more
        <5>1. SUFFICES ASSUME call.undisturbed
                       PROVE  \A a \in held : a[1] \in todo \/ a \in more
          BY <1>10, <1>11
        <5>2. TAKE a \in held
        <5>3. CASE a[1] = at
          <6>1. a = <<at, a[2]>> /\ a[2] \in R!ToSet(repos[at])
            BY <1>11, <5>1, <5>3 DEF AccessIn
          <6> QED
            BY <3>1, <4>2, <5>1, <6>1
        <5> QED
          BY <1>11, <3>2, <4>2, <5>1, <5>3
      <4>4. R!ListNext(todo, more) /\ more \subseteq call.held
        BY <1>10, <1>11, <2>1, <4>1, <4>2
      <4>5. HeldSound(call, inst, susp, repos)
        BY <1>10, <1>11 DEF HeldSound
      <4>6. CallOfUser(call', inst, susp, repos)
        BY <1>2, <1>7, <3>2, <4>3, <4>4, <4>5, ListNextIsSound
      <4> QED
        BY <1>1, <1>5, <4>6 DEF RepositoriesSound
    <3>3. CASE asked # None /\ asked[2] \in next.found
      <4>1. call' = [call EXCEPT !.step = "answered", !.answer = "authorized"]
        BY <1>17, <1>19, <2>3, <3>3 DEF R!Answer
      <4>2. asked \in held
        <5>1. asked = <<at, asked[2]>>
          BY <1>11, <3>3
        <5> QED
          BY <2>1, <3>3, <5>1
      <4>3. CallOfUser(call', inst, susp, repos)
        BY <1>2, <1>7, <1>8, <1>10, <4>1, <4>2, AnsweredIsSound
      <4> QED
        BY <1>1, <1>5, <4>3 DEF RepositoriesSound
    <3>4. CASE asked # None /\ asked[2] \notin next.found
      <4>1. call' = [call EXCEPT !.step = "answered", !.answer = "repository_not_authorized"]
        BY <1>17, <1>19, <2>3, <3>4 DEF R!Answer
      <4>2. call.undisturbed => call.asked \notin call.held
        <5>1. SUFFICES ASSUME call.undisturbed, asked \in held
                       PROVE  FALSE
          BY <1>7, <1>10
        <5>2. asked[2] \in R!ToSet(repos[at])
          BY <1>11, <3>4, <5>1 DEF AccessIn
        <5> QED
          BY <3>1, <3>4, <5>1, <5>2
      <4>3. CallOfUser(call', inst, susp, repos)
        BY <1>2, <1>8, <4>1, <4>2, AnsweredIsSound
      <4> QED
        BY <1>1, <1>5, <4>3 DEF RepositoriesSound
    <3> QED
      BY <3>2, <3>3, <3>4
  <2>4. CASE after \in {"invalid_response", "pagination_limit_exceeded"}
    <3>1. call' = [call EXCEPT !.step = "answered", !.answer = after]
      BY <1>17, <1>19, <2>4 DEF R!Answer
    <3>2. call.undisturbed => after # "invalid_response"
      BY <1>11, <1>14 DEF ListingSound
    <3>3. CallOfUser(call', inst, susp, repos)
      BY <1>2, <1>8, <2>4, <3>1, <3>2, AnsweredIsSound
    <3> QED
      BY <1>1, <1>5, <3>3 DEF RepositoriesSound
  <2> QED
    BY <1>14, <2>2, <2>3, <2>4
<1> QED
  BY <1>18, <1>19

LEMMA RepositoriesBegin ==
  ASSUME R!RepositoryAccessAssumption, R!Init
  PROVE  RepositoriesSound
<1>1. ASSUME NEW set, NEW list \in R!Lists(set)
      PROVE  list \in Seq(set) /\ Injective(list)
  <2>1. PICK n \in 0..R!Cardinality(set) : list \in [1..n -> set]
    BY <1>1 DEF R!Lists
  <2>2. list \in Seq(set)
    <3>1. CASE n \in Nat
      BY <2>1, <3>1
    <3> QED
      BY <2>1, <3>1
  <2> QED
    BY <1>1, <2>2 DEF R!Lists, R!IsInjective, Injective
<1>2. installations \in Seq(Installations) /\ Injective(installations)
  BY <1>1 DEF R!Init
<1>3. \A i \in Installations : repositories[i] \in Seq(Repositories) /\ Injective(repositories[i])
  BY <1>1 DEF R!Init
<1>4. repositories \in [Installations -> Seq(Repositories)]
  BY <1>3 DEF R!Init
<1>5. suspended \subseteq Installations
  BY <1>2 DEF R!Init, R!ToSet
<1>6. changes \in 0..MaxChanges
  BY DEF R!Init, R!RepositoryAccessAssumption
<1>7. CallOfUser(call, installations, suspended, repositories)
  BY DEF R!Init, R!NoCall, CallOfUser
<1> QED
  BY <1>2, <1>3, <1>4, <1>5, <1>6, <1>7 DEF RepositoriesSound

(* Invariant of RepositoryAccess.                                          *)
THEOREM RepositoriesSoundAlways == R!RepositoryAccessAssumption /\ R!Spec => []RepositoriesSound
<1> SUFFICES ASSUME R!RepositoryAccessAssumption
             PROVE  R!Spec => []RepositoriesSound
  OBVIOUS
<1>1. R!Init => RepositoriesSound
  BY RepositoriesBegin
<1>2. RepositoriesSound /\ [R!Next]_R!vars => RepositoriesSound'
  <2>1. ASSUME UNCHANGED R!vars, RepositoriesSound
        PROVE  RepositoriesSound'
    BY <2>1 DEF R!vars, RepositoriesSound
  <2> QED
    BY <2>1, ChangeKeeps, BeginKeeps, UnavailableKeeps, ListInstallationsKeeps,
       ListRepositoriesKeeps DEF R!Next
<1> QED
  BY <1>1, <1>2, PTL DEF R!Spec

LEMMA RepositoriesPromise ==
  ASSUME R!RepositoryAccessAssumption, RepositoriesSound
  PROVE  R!TypeOK /\ R!AuthorizedIsAccessible
<1>1. R!IsInjective(installations) /\ \A i \in Installations : R!IsInjective(repositories[i])
  BY DEF RepositoriesSound, Injective, R!IsInjective
<1>2. R!ToSet(installations) \subseteq Installations
  BY DEF RepositoriesSound, R!ToSet
<1>3. R!TypeOK
  BY <1>1, <1>2 DEF R!TypeOK, RepositoriesSound, CallOfUser, RunningSound
<1>4. R!AuthorizedIsAccessible
  BY DEF R!AuthorizedIsAccessible, RepositoriesSound, CallOfUser, AnswerSound
<1> QED
  BY <1>3, <1>4
=============================================================================
