----------------------------- MODULE AccessProofs -----------------------------
(***************************************************************************)
(* Theorems about the components of Access, for every set of callers,      *)
(* users, deliveries and requests and every bound.                         *)
(*                                                                         *)
(* Each component has an invariant of its own, stronger than what it       *)
(* promises, that says what a call which has stopped half way knows.  Four *)
(* are those of GitHubProofs; the others are                               *)
(*                                                                         *)
(* AccountsSound       what a call has seen of its session, device or grant*)
(* IpcSound            what each side knows of a connection                *)
(* CollaborationSound  the rows a transaction has locked, and what it has  *)
(*                     read under the lock                                 *)
(***************************************************************************)
EXTENDS GitHubProofs

-----------------------------------------------------------------------------
(* The steps of a request for a session, a grant, a device or the owner.   *)
OfSession == {"authenticate", "logout", "revoke_session"}
OfGrant == {"find_grant", "consume", "register"}
OfDevice == {"device", "revoke_device"}
OfOwner == {"may_invite", "may_link", "invite", "authorize", "link"}

Steps == OfSession \union OfGrant \union OfDevice \union OfOwner

Under == [step : Steps, who : Users, on : Sessions \union S!Grants \union Users, at : Nat,
          right : BOOLEAN, after : BOOLEAN, answer : {"none"}]

Over == [step : {"idle"}, after : BOOLEAN,
         answer : {"none", "failed", "ok", "invalid", "expired", "revoked", "csrf_mismatch",
                   "owner_required", "repository_not_authorized", "revoking"}]

CallIsSound(ask) ==
  /\ ask.answer = "ok" => ~ask.after
  /\ ask.step \in OfSession =>
       /\ ask.on \in Sessions /\ sessions[ask.on] # None
       /\ ask.after => sessions[ask.on].revoked /\ ask.step # "revoke_session"
  /\ ask.step \in OfDevice =>
       /\ ask.on \in Enrollments /\ devices[ask.on] # None
       /\ ask.after => devices[ask.on].revoked
  /\ ask.step \in OfGrant \union OfOwner => ~ask.after
  /\ ask.step \in OfGrant => ask.on \in S!Grants /\ grants[ask.on] # None
  /\ ask.step \in {"may_invite", "invite"} => ask.on \in Invitations
  /\ ask.step \in {"consume", "register"} =>
       /\ ask.at <= grants[ask.on].expires
       /\ ask.on \in Invitations => grants[ask.on].by # ask.who
  /\ ask.step = "register" =>
       /\ ask.on \in Enrollments
       /\ grants[ask.on].consumed = [who |-> ask.who, at |-> ask.at]
       /\ devices[ask.on] = None

GrantSound(g) ==
  grants[g] # None /\ grants[g].consumed # None =>
    /\ grants[g].consumed.at <= grants[g].expires
    /\ g \in Invitations => /\ grants[g].consumed.who # grants[g].by
                            /\ roles[grants[g].consumed.who] # "none"

DeviceSound(g) ==
  devices[g] # None =>
    /\ grants[g] # None /\ grants[g].consumed # None
    /\ grants[g].consumed = [who |-> devices[g].who, at |-> devices[g].expires - 1]

OneRegisters ==
  \A c, d \in Callers :
    calls[c].step = "register" /\ calls[d].step = "register" /\ calls[c].on = calls[d].on
      => c = d

(* What the invariant says of the calls, and of the rows.                  *)
CallsInv ==
  /\ calls \in [Callers -> Under \union Over]
  /\ \A c \in Callers : CallIsSound(calls[c])
  /\ OneRegisters

RowsInv ==
  /\ \A g \in S!Grants : GrantSound(g)
  /\ \A g \in Enrollments : DeviceSound(g)

(* The type invariant but for the history of who was served.               *)
RowsTyped ==
  /\ now \in 0..MaxNow /\ made \in 0..MaxCalls
  /\ sessions \in [Sessions -> S!SessionRows \union {None}]
  /\ grants \in [S!Grants -> S!GrantRows \union {None}]
  /\ devices \in [Enrollments -> S!DeviceRows \union {None}]
  /\ roles \in [Users -> {"owner", "member", "none"}]
  /\ projects \subseteq Users

AccountsRows == RowsTyped /\ CallsInv /\ RowsInv

-----------------------------------------------------------------------------
(* What a step may do to the rows: a grant keeps its giver and its expiry, *)
(* and nothing is taken back.                                              *)
RowsGrow ==
  /\ \A s \in Sessions : sessions[s] # None =>
       sessions'[s] # None /\ (sessions[s].revoked => sessions'[s].revoked)
  /\ \A g \in S!Grants : grants[g] # None =>
       /\ grants'[g] # None
       /\ grants'[g].by = grants[g].by /\ grants'[g].expires = grants[g].expires
       /\ grants[g].consumed # None => grants'[g].consumed = grants[g].consumed
  /\ \A g \in Enrollments : devices[g] # None =>
       /\ devices'[g] # None
       /\ devices[g].revoked => devices'[g].revoked
  /\ \A u \in Users : roles[u] # "none" => roles'[u] # "none"

(* Of a call that does not move, what was said stays true while the rows   *)
(* grow and nobody else registers its device.                              *)
LEMMA CallKept ==
  ASSUME S!AccountsAssumption, RowsTyped, RowsGrow,
         NEW ask \in Under \union Over, CallIsSound(ask),
         ask.step = "register" => devices'[ask.on] = None
  PROVE  CallIsSound(ask)'
<1>1. ask.step = "register" => grants[ask.on].consumed # None
  BY DEF CallIsSound, Under, Over, S!AccountsAssumption, S!Redemptions, Steps
<1>2. ask.step \in OfSession => CallIsSound(ask)'
  BY DEF CallIsSound, RowsGrow, OfSession, OfDevice, OfGrant, OfOwner
<1>3. ask.step \in OfDevice => CallIsSound(ask)'
  BY DEF CallIsSound, RowsGrow, OfSession, OfDevice, OfGrant, OfOwner, S!Grants
<1>4. ask.step \in OfGrant \union OfOwner => CallIsSound(ask)'
  BY <1>1 DEF CallIsSound, RowsGrow, OfSession, OfDevice, OfGrant, OfOwner, S!Grants
<1>5. ask.step = "idle" => CallIsSound(ask)'
  BY DEF CallIsSound, OfSession, OfDevice, OfGrant, OfOwner
<1> QED
  BY <1>2, <1>3, <1>4, <1>5 DEF Under, Over, Steps

(* No call moves.                                                          *)
LEMMA NoneMoves ==
  ASSUME S!AccountsAssumption, RowsTyped, CallsInv, RowsGrow,
         UNCHANGED calls, UNCHANGED devices
  PROVE  CallsInv'
<1>1. ASSUME NEW c \in Callers
      PROVE  CallIsSound(calls[c])'
  <2>1. PICK ask \in Under \union Over : ask = calls[c]
    BY DEF CallsInv
  <2>2. CallIsSound(ask)
    BY <2>1 DEF CallsInv
  <2>3. ask.step = "register" => devices'[ask.on] = None
    BY <2>2 DEF CallIsSound, OfGrant, OfSession, OfDevice, OfOwner
  <2>4. CallIsSound(ask)'
    BY <2>2, <2>3, CallKept
  <2> QED
    BY <2>1, <2>4 DEF CallIsSound
<1> QED
  BY <1>1 DEF CallsInv, OneRegisters

(* One call moves: what is said of the calls holds if it holds of that     *)
(* call, if it begins to register only what nobody registers, and if no    *)
(* device another call is about to register is created.                    *)
LEMMA OneMoves ==
  ASSUME S!AccountsAssumption, RowsTyped, CallsInv, RowsGrow,
         NEW c \in Callers, NEW next \in Under \union Over,
         calls' = [calls EXCEPT ![c] = next],
         CallIsSound(next)',
         next.step = "register" =>
           \A d \in Callers : calls[d].step = "register" => calls[d].on # next.on,
         \A d \in Callers \ {c} : calls[d].step = "register" =>
           devices'[calls[d].on] = devices[calls[d].on]
  PROVE  CallsInv'
<1>1. calls' \in [Callers -> Under \union Over] /\ calls'[c] = next
  BY DEF CallsInv
<1>2. \A d \in Callers \ {c} : calls'[d] = calls[d]
  BY DEF CallsInv
<1>3. ASSUME NEW d \in Callers
      PROVE  CallIsSound(calls[d])'
  <2>1. CASE d = c
    BY <1>1, <2>1 DEF CallIsSound
  <2>2. CASE d # c
    <3>1. PICK ask \in Under \union Over : ask = calls[d]
      BY DEF CallsInv
    <3>2. CallIsSound(ask)
      BY <3>1 DEF CallsInv
    <3>3. ask.step = "register" => devices'[ask.on] = None
      BY <2>2, <3>1, <3>2 DEF CallIsSound, OfGrant, OfSession, OfDevice, OfOwner
    <3>4. CallIsSound(ask)'
      BY <3>2, <3>3, CallKept
    <3> QED
      BY <1>2, <2>2, <3>1, <3>4 DEF CallIsSound
  <2> QED
    BY <2>1, <2>2
<1>4. OneRegisters'
  BY <1>1, <1>2 DEF OneRegisters, CallsInv
<1> QED
  BY <1>1, <1>3, <1>4 DEF CallsInv

-----------------------------------------------------------------------------
LEMMA AccountsBegin == S!AccountsAssumption /\ S!Init => AccountsRows
<1> SUFFICES ASSUME S!AccountsAssumption, S!Init
             PROVE  AccountsRows
  OBVIOUS
<1>1. RowsTyped
  BY DEF S!Init, RowsTyped, S!AccountsAssumption
<1>2. CallsInv
  <2>1. S!Idle \in Over
    BY DEF S!Idle, Over
  <2>2. \A c \in Callers : calls[c] = S!Idle
    BY DEF S!Init
  <2>3. calls \in [Callers -> Under \union Over]
    BY <2>1 DEF S!Init
  <2>4. \A c \in Callers : CallIsSound(calls[c])
    BY <2>2 DEF CallIsSound, S!Idle, OfSession, OfDevice, OfGrant, OfOwner
  <2> QED
    BY <2>2, <2>3, <2>4 DEF CallsInv, OneRegisters, S!Idle
<1>3. RowsInv
  BY DEF RowsInv, GrantSound, DeviceSound, S!Init
<1> QED
  BY <1>1, <1>2, <1>3 DEF AccountsRows

(* A step that moves one call and no row.                                  *)
LEMMA Decides ==
  ASSUME S!AccountsAssumption, AccountsRows, NEW c \in Callers, NEW next \in Under \union Over,
         UNCHANGED <<now, sessions, grants, devices, roles, projects>>,
         made' \in 0..MaxCalls,
         calls' = [calls EXCEPT ![c] = next],
         CallIsSound(next), next.step # "register"
  PROVE  AccountsRows'
<1>1. RowsTyped'
  BY DEF AccountsRows, RowsTyped
<1>2. RowsGrow
  BY DEF RowsGrow
<1>3. CallIsSound(next)'
  BY DEF CallIsSound
<1>4. CallsInv'
  BY <1>2, <1>3, OneMoves DEF AccountsRows
<1>5. RowsInv'
  BY DEF AccountsRows, RowsInv, GrantSound, DeviceSound
<1> QED
  BY <1>1, <1>4, <1>5 DEF AccountsRows

(* A request arrives.                                                      *)
LEMMA AccountsAsk ==
  ASSUME S!AccountsAssumption, AccountsRows, NEW c \in Callers,
         NEW step \in OfSession \union OfGrant \union OfDevice \union OfOwner,
         NEW who \in Users, NEW on \in Sessions \union S!Grants \union Users,
         NEW right \in BOOLEAN, NEW after \in BOOLEAN,
         S!Begin(c, step, who, on, right, after),
         step \in OfSession => on \in Sessions /\ sessions[on] # None
                                 /\ (after => sessions[on].revoked /\ step # "revoke_session"),
         step \in OfDevice => on \in Enrollments /\ devices[on] # None
                                /\ (after => devices[on].revoked),
         step \in OfGrant \union OfOwner => ~after,
         step \in OfGrant => step = "find_grant" /\ on \in S!Grants /\ grants[on] # None,
         step \in {"may_invite", "invite"} => on \in Invitations
  PROVE  AccountsRows'
<1>1. PICK moment \in Nat : moment = now
  BY DEF AccountsRows, RowsTyped, S!AccountsAssumption
<1> DEFINE next == [step |-> step, who |-> who, on |-> on, at |-> moment,
                    right |-> right, after |-> after, answer |-> "none"]
<1>2. next \in Under
  BY DEF Under, Steps
<1>3. CallIsSound(next)
  BY DEF CallIsSound, OfGrant
<1>4. next.step # "register"
  BY DEF OfSession, OfGrant, OfDevice, OfOwner
<1>5. made' \in 0..MaxCalls
  BY DEF S!Begin, AccountsRows, RowsTyped, S!AccountsAssumption
<1>6. calls' = [calls EXCEPT ![c] = next]
  BY <1>1 DEF S!Begin
<1>7. UNCHANGED <<now, sessions, grants, devices, roles, projects>>
  BY DEF S!Begin
<1> HIDE DEF next
<1> QED
  BY <1>2, <1>3, <1>4, <1>5, <1>6, <1>7, Decides

LEMMA RequestsSound ==
  ASSUME S!AccountsAssumption, AccountsRows, NEW c \in Callers,
         \/ \E s \in Sessions : S!SessionRequest(c, s)
         \/ \E u \in Users : S!OwnerRequest(c, u)
         \/ \E u \in Users, g \in S!Grants : S!GrantRequest(c, u, g)
         \/ \E g \in Enrollments : S!DeviceRequest(c, g)
  PROVE  AccountsRows'
<1>1. ASSUME NEW s \in Sessions, S!SessionRequest(c, s)
      PROVE  AccountsRows'
  <2>1. sessions[s] \in S!SessionRows /\ sessions[s] # None
    BY <1>1 DEF S!SessionRequest, AccountsRows, RowsTyped
  <2>2. PICK row \in S!SessionRows : row = sessions[s]
    BY <2>1
  <2>3. PICK step \in {"authenticate", "logout"}, right \in BOOLEAN :
          S!Begin(c, step, row.user, s, right, row.revoked)
    BY <1>1, <2>2 DEF S!SessionRequest
  <2>4. step \in OfSession /\ step \notin OfGrant \union OfDevice \union OfOwner
          /\ step # "revoke_session"
    BY DEF OfSession, OfGrant, OfDevice, OfOwner
  <2>5. row.user \in Users /\ row.revoked \in BOOLEAN
    BY DEF S!SessionRows
  <2>6. step \notin {"may_invite", "invite"}
    OBVIOUS
  <2> QED
    BY <2>1, <2>2, <2>3, <2>4, <2>5, <2>6, AccountsAsk
<1>2. ASSUME NEW u \in Users, S!OwnerRequest(c, u)
      PROVE  AccountsRows'
  <2>1. ASSUME NEW g \in Invitations, S!Begin(c, "may_invite", u, g, TRUE, FALSE)
        PROVE  AccountsRows'
    <3>1. "may_invite" \in OfOwner /\ "may_invite" \notin OfSession \union OfGrant \union OfDevice
      BY DEF OfSession, OfGrant, OfDevice, OfOwner
    <3> QED
      BY <2>1, <3>1, AccountsAsk DEF S!Grants
  <2>2. ASSUME NEW right \in BOOLEAN, S!Begin(c, "may_link", u, u, right, FALSE)
        PROVE  AccountsRows'
    <3>1. "may_link" \in OfOwner /\ "may_link" \notin OfSession \union OfGrant \union OfDevice
      BY DEF OfSession, OfGrant, OfDevice, OfOwner
    <3> QED
      BY <2>2, <3>1, AccountsAsk
  <2> QED
    BY <1>2, <2>1, <2>2 DEF S!OwnerRequest
<1>3. ASSUME NEW u \in Users, NEW g \in S!Grants, S!GrantRequest(c, u, g)
      PROVE  AccountsRows'
  <2>1. PICK right \in BOOLEAN : S!Begin(c, "find_grant", u, g, right, FALSE)
    BY <1>3 DEF S!GrantRequest
  <2>2. "find_grant" \in OfGrant /\ "find_grant" \notin OfSession \union OfDevice \union OfOwner
    BY DEF OfSession, OfGrant, OfDevice, OfOwner
  <2>3. grants[g] # None
    BY <1>3 DEF S!GrantRequest
  <2> QED
    BY <2>1, <2>2, <2>3, AccountsAsk
<1>4. ASSUME NEW g \in Enrollments, S!DeviceRequest(c, g)
      PROVE  AccountsRows'
  <2>1. devices[g] \in S!DeviceRows /\ devices[g] # None
    BY <1>4 DEF S!DeviceRequest, AccountsRows, RowsTyped
  <2>2. PICK row \in S!DeviceRows : row = devices[g]
    BY <2>1
  <2>3. PICK step \in {"device", "revoke_device"}, right \in BOOLEAN :
          S!Begin(c, step, row.who, g, right, row.revoked)
    BY <1>4, <2>2 DEF S!DeviceRequest
  <2>4. step \in OfDevice /\ step \notin OfGrant \union OfSession \union OfOwner
    BY DEF OfSession, OfGrant, OfDevice, OfOwner
  <2>5. row.who \in Users /\ row.revoked \in BOOLEAN
    BY DEF S!DeviceRows
  <2>6. step \notin {"may_invite", "invite"}
    OBVIOUS
  <2> QED
    BY <2>1, <2>2, <2>3, <2>4, <2>5, <2>6, AccountsAsk DEF S!Grants
<1> QED
  BY <1>1, <1>2, <1>3, <1>4

(* The call an invocation is at.                                           *)
LEMMA AtStep ==
  ASSUME S!AccountsAssumption, AccountsRows, NEW c \in Callers, calls[c].step # "idle"
  PROVE  \E ask \in Under : ask = calls[c] /\ CallIsSound(ask)
<1>1. calls[c] \in Under \union Over
  BY DEF AccountsRows, CallsInv
<1>2. calls[c] \in Under
  BY <1>1 DEF Over
<1>3. PICK ask \in Under : ask = calls[c]
  BY <1>2
<1>4. CallIsSound(calls[c])
  BY DEF AccountsRows, CallsInv
<1> QED
  BY <1>3, <1>4

(* An invocation answers, having changed no row.                           *)
LEMMA AccountsAnswer ==
  ASSUME S!AccountsAssumption, AccountsRows, NEW c \in Callers, calls[c].step # "idle",
         NEW answer \in {"failed", "ok", "invalid", "expired", "revoked", "csrf_mismatch",
                   "owner_required", "repository_not_authorized", "revoking"},
         S!Answer(c, answer), answer = "ok" => ~calls[c].after,
         UNCHANGED <<now, made, sessions, grants, devices, roles, projects>>
  PROVE  AccountsRows'
<1>1. PICK ask \in Under : ask = calls[c] /\ CallIsSound(ask)
  BY AtStep
<1> DEFINE next == [S!Idle EXCEPT !.after = ask.after, !.answer = answer]
<1>2. next \in Over /\ next.step = "idle" /\ next.after = ask.after /\ next.answer = answer
  <2>1. S!Idle \in Over /\ S!Idle.step = "idle"
    BY DEF S!Idle, Over
  <2>2. ask.after \in BOOLEAN
    BY DEF Under
  <2> QED
    BY <2>1, <2>2 DEF Over
<1>3. CallIsSound(next)
  BY <1>1, <1>2 DEF CallIsSound, OfSession, OfDevice, OfGrant, OfOwner
<1>4. calls' = [calls EXCEPT ![c] = next]
  BY <1>1 DEF S!Answer
<1>5. made' \in 0..MaxCalls
  BY DEF AccountsRows, RowsTyped
<1>6. next.step # "register"
  BY <1>2
<1> HIDE DEF next
<1> QED
  BY <1>2, <1>3, <1>4, <1>5, <1>6, Decides

(* An invocation goes on, having changed no row.                           *)
LEMMA GotoSound ==
  ASSUME S!AccountsAssumption, AccountsRows, NEW c \in Callers,
         NEW ask \in Under, ask = calls[c],
         NEW step \in Steps \ {"register"}, S!Goto(c, step),
         CallIsSound([ask EXCEPT !.step = step]),
         UNCHANGED <<now, made, sessions, grants, devices, roles, projects>>
  PROVE  AccountsRows'
<1> DEFINE next == [ask EXCEPT !.step = step]
<1>1. next \in Under
  BY DEF Under
<1>2. calls' = [calls EXCEPT ![c] = next]
  BY DEF S!Goto
<1>3. made' \in 0..MaxCalls
  BY DEF AccountsRows, RowsTyped
<1>4. next.step # "register"
  BY DEF Under
<1>5. CallIsSound(next)
  OBVIOUS
<1> HIDE DEF next
<1> QED
  BY <1>1, <1>2, <1>3, <1>4, <1>5, Decides

-----------------------------------------------------------------------------
LEMMA LoseSound ==
  ASSUME S!AccountsAssumption, AccountsRows, NEW c \in Callers, S!Lose(c)
  PROVE  AccountsRows'
BY AccountsAnswer DEF S!Lose

LEMMA AuthenticateSound ==
  ASSUME S!AccountsAssumption, AccountsRows, NEW c \in Callers, S!Authenticate(c)
  PROVE  AccountsRows'
<1>1. PICK ask \in Under : ask = calls[c] /\ CallIsSound(ask)
  BY AtStep DEF S!Authenticate
<1>2. ask.step \in OfSession /\ ask.on \in Sessions /\ sessions[ask.on] # None
  BY <1>1 DEF S!Authenticate, CallIsSound, OfSession
<1>3. PICK row : row = sessions[ask.on]
  OBVIOUS
<1>4. PICK answer : answer = S!SessionAnswer(ask, row)
  OBVIOUS
<1>5. answer \in {"expired", "revoked", "csrf_mismatch", "ok"}
        /\ (answer = "ok" => ~row.revoked)
  BY <1>4 DEF S!SessionAnswer
<1>6. answer = "ok" => ~ask.after
  BY <1>1, <1>2, <1>3, <1>5 DEF CallIsSound
<1>7. UNCHANGED <<now, made, sessions, grants, devices, roles, projects>>
  BY DEF S!Authenticate
<1>8. calls[c].step # "idle"
  BY DEF S!Authenticate
<1>9. CASE S!Answer(c, answer)
  BY <1>1, <1>5, <1>6, <1>7, <1>8, <1>9, AccountsAnswer
<1>10. CASE answer = "ok" /\ S!Goto(c, "revoke_session")
  <2>1. CallIsSound([ask EXCEPT !.step = "revoke_session"])
    BY <1>1, <1>2, <1>6, <1>10
       DEF CallIsSound, Under, OfSession, OfDevice, OfGrant, OfOwner
  <2>2. "revoke_session" \in Steps \ {"register"}
    BY DEF Steps, OfSession
  <2> QED
    BY <1>1, <1>7, <1>10, <2>1, <2>2, GotoSound
<1> QED
  BY <1>1, <1>3, <1>4, <1>9, <1>10 DEF S!Authenticate

LEMMA MembershipRoleSound ==
  ASSUME S!AccountsAssumption, AccountsRows, NEW c \in Callers, S!MembershipRole(c)
  PROVE  AccountsRows'
<1>1. PICK ask \in Under : ask = calls[c] /\ CallIsSound(ask)
  BY AtStep DEF S!MembershipRole
<1>2. CASE S!Answer(c, "owner_required")
  BY <1>2, AccountsAnswer DEF S!MembershipRole
<1>3. CASE S!Goto(c, IF calls[c].step = "may_invite" THEN "invite" ELSE "authorize")
  <2>1. PICK step : step = IF ask.step = "may_invite" THEN "invite" ELSE "authorize"
    OBVIOUS
  <2>2. step \in OfOwner /\ step \notin OfSession \union OfDevice \union OfGrant
    BY <2>1 DEF OfSession, OfDevice, OfGrant, OfOwner
  <2>3. ask.step \in OfOwner
    BY <1>1 DEF S!MembershipRole, OfOwner
  <2>4. CallIsSound([ask EXCEPT !.step = step])
    BY <1>1, <2>1, <2>2, <2>3
       DEF CallIsSound, Under, OfSession, OfDevice, OfGrant, OfOwner
  <2>5. step \in Steps \ {"register"}
    BY <2>2 DEF Steps, OfGrant
  <2> QED
    BY <1>1, <1>3, <2>1, <2>4, <2>5, GotoSound DEF S!MembershipRole
<1> QED
  BY <1>2, <1>3 DEF S!MembershipRole

LEMMA AuthorizedRepositorySound ==
  ASSUME S!AccountsAssumption, AccountsRows, NEW c \in Callers, S!AuthorizedRepository(c)
  PROVE  AccountsRows'
<1>1. PICK ask \in Under : ask = calls[c] /\ CallIsSound(ask)
  BY AtStep DEF S!AuthorizedRepository
<1>2. CASE S!Answer(c, "repository_not_authorized")
  BY <1>2, AccountsAnswer DEF S!AuthorizedRepository
<1>3. CASE S!Goto(c, "link")
  <2>1. CallIsSound([ask EXCEPT !.step = "link"])
    BY <1>1 DEF S!AuthorizedRepository, CallIsSound, Under, OfSession, OfDevice, OfGrant, OfOwner
  <2>2. "link" \in Steps \ {"register"}
    BY DEF Steps, OfOwner
  <2> QED
    BY <1>1, <1>3, <2>1, <2>2, GotoSound DEF S!AuthorizedRepository
<1> QED
  BY <1>2, <1>3 DEF S!AuthorizedRepository

LEMMA FindGrantSound ==
  ASSUME S!AccountsAssumption, AccountsRows, NEW c \in Callers, S!FindGrant(c)
  PROVE  AccountsRows'
<1>1. PICK ask \in Under : ask = calls[c] /\ CallIsSound(ask)
  BY AtStep DEF S!FindGrant
<1>2. ask.step = "find_grant" /\ ask.on \in S!Grants /\ grants[ask.on] # None /\ ~ask.after
  BY <1>1 DEF S!FindGrant, CallIsSound, OfGrant
<1>3. PICK row : row = grants[ask.on]
  OBVIOUS
<1>4. row \in S!GrantRows
  BY <1>2, <1>3 DEF AccountsRows, RowsTyped
<1>5. PICK answer : answer = S!GrantAnswer(ask, row)
  OBVIOUS
<1>6. answer \in {"invalid", "expired", "ok"}
  BY <1>5 DEF S!GrantAnswer
<1>7. answer = "ok" => ask.at <= row.expires /\ (ask.on \in Invitations => row.by # ask.who)
  BY <1>4, <1>5 DEF S!GrantAnswer, Under, S!GrantRows
<1>8. calls[c].step # "idle" /\ UNCHANGED <<now, made, sessions, grants, devices, roles, projects>>
  BY DEF S!FindGrant
<1>9. CASE S!Answer(c, answer)
  BY <1>1, <1>2, <1>6, <1>8, <1>9, AccountsAnswer
<1>10. CASE answer = "ok" /\ S!Goto(c, "consume")
  <2>1. CallIsSound([ask EXCEPT !.step = "consume"])
    BY <1>1, <1>2, <1>3, <1>7, <1>10
       DEF CallIsSound, Under, OfSession, OfDevice, OfGrant, OfOwner
  <2>2. "consume" \in Steps \ {"register"}
    BY DEF Steps, OfGrant
  <2> QED
    BY <1>1, <1>8, <1>10, <2>1, <2>2, GotoSound
<1> QED
  BY <1>1, <1>3, <1>5, <1>9, <1>10 DEF S!FindGrant

LEMMA AuthenticateDeviceSound ==
  ASSUME S!AccountsAssumption, AccountsRows, NEW c \in Callers, S!AuthenticateDevice(c)
  PROVE  AccountsRows'
<1>1. PICK ask \in Under : ask = calls[c] /\ CallIsSound(ask)
  BY AtStep DEF S!AuthenticateDevice
<1>2. PICK row : row = devices[ask.on]
  OBVIOUS
<1>3. PICK answer : answer = S!DeviceAnswer(ask, row)
  OBVIOUS
<1>4. answer \in {"invalid", "revoked", "expired", "ok"} /\ (answer = "ok" => ~row.revoked)
  BY <1>3 DEF S!DeviceAnswer
<1>5. ask.step \in OfDevice
  BY <1>1 DEF S!AuthenticateDevice, OfDevice
<1>6. answer = "ok" => ~ask.after
  BY <1>1, <1>2, <1>4, <1>5 DEF CallIsSound
<1> QED
  BY <1>1, <1>2, <1>3, <1>4, <1>6, AccountsAnswer DEF S!AuthenticateDevice

-----------------------------------------------------------------------------
(* The steps that write no call.                                           *)
LEMMA RowsOnlySound ==
  ASSUME S!AccountsAssumption, AccountsRows,
         \/ S!Tick
         \/ \E u \in Users, s \in Sessions : S!CreateSession(u, s)
         \/ \E g \in Enrollments : S!CreateEnrollment(g)
         \/ \E g \in S!Grants : S!RevokeGrant(g)
  PROVE  AccountsRows'
<1>1. CASE S!Tick
  <2>1. RowsTyped'
    BY <1>1 DEF S!Tick, AccountsRows, RowsTyped, S!AccountsAssumption
  <2>2. RowsGrow
    BY <1>1 DEF S!Tick, RowsGrow
  <2>3. CallsInv'
    BY <1>1, <2>2, NoneMoves DEF AccountsRows, S!Tick
  <2>4. RowsInv'
    BY <1>1 DEF S!Tick, AccountsRows, RowsInv, GrantSound, DeviceSound
  <2> QED
    BY <2>1, <2>3, <2>4 DEF AccountsRows
<1>2. ASSUME NEW u \in Users, NEW s \in Sessions, S!CreateSession(u, s)
      PROVE  AccountsRows'
  <2>1. [user |-> u, expires |-> now + 1, revoked |-> FALSE] \in S!SessionRows
    BY DEF AccountsRows, RowsTyped, S!AccountsAssumption, S!SessionRows
  <2>2. RowsTyped'
    BY <1>2, <2>1 DEF S!CreateSession, AccountsRows, RowsTyped
  <2>3. RowsGrow
    BY <1>2 DEF S!CreateSession, RowsGrow, AccountsRows, RowsTyped
  <2>4. CallsInv'
    BY <1>2, <2>3, NoneMoves DEF AccountsRows, S!CreateSession
  <2>5. RowsInv'
    BY <1>2 DEF S!CreateSession, AccountsRows, RowsInv, GrantSound, DeviceSound
  <2> QED
    BY <2>2, <2>4, <2>5 DEF AccountsRows
<1>3. ASSUME NEW g \in Enrollments, S!CreateEnrollment(g)
      PROVE  AccountsRows'
  <2> DEFINE row == [by |-> Owner, expires |-> now + 1, consumed |-> None, revoked |-> FALSE]
  <2>1. row \in S!GrantRows
    BY DEF AccountsRows, RowsTyped, S!AccountsAssumption, S!GrantRows
  <2>2. grants' = [grants EXCEPT ![g] = row] /\ grants[g] = None /\ row.consumed = None
    BY <1>3 DEF S!CreateEnrollment
  <2> HIDE DEF row
  <2>3. RowsTyped'
    BY <1>3, <2>1, <2>2 DEF S!CreateEnrollment, AccountsRows, RowsTyped
  <2>4. \A h \in S!Grants : h # g => grants'[h] = grants[h]
    BY <2>2 DEF AccountsRows, RowsTyped
  <2>5. grants'[g] = row
    BY <2>2 DEF AccountsRows, RowsTyped, S!Grants
  <2>6. RowsGrow
    BY <1>3, <2>2, <2>4 DEF S!CreateEnrollment, RowsGrow
  <2>7. CallsInv'
    BY <1>3, <2>6, NoneMoves DEF AccountsRows, S!CreateEnrollment
  <2>8. \A h \in S!Grants : GrantSound(h)'
    BY <1>3, <2>2, <2>4, <2>5 DEF S!CreateEnrollment, AccountsRows, RowsInv, GrantSound
  <2>9. ASSUME NEW h \in Enrollments
        PROVE  DeviceSound(h)'
    <3>1. DeviceSound(h) /\ devices' = devices
      BY <1>3 DEF S!CreateEnrollment, AccountsRows, RowsInv
    <3>2. devices[h] # None => h # g
      BY <2>2, <3>1 DEF DeviceSound
    <3>3. h # g => grants'[h] = grants[h]
      BY <2>4 DEF S!Grants
    <3> QED
      BY <3>1, <3>2, <3>3 DEF DeviceSound
  <2> QED
    BY <2>3, <2>7, <2>8, <2>9 DEF AccountsRows, RowsInv
<1>4. ASSUME NEW g \in S!Grants, S!RevokeGrant(g)
      PROVE  AccountsRows'
  <2>1. grants[g] \in S!GrantRows
    BY <1>4 DEF S!RevokeGrant, AccountsRows, RowsTyped
  <2>2. PICK row \in S!GrantRows : row = grants[g]
    BY <2>1
  <2> DEFINE next == [row EXCEPT !.revoked = TRUE]
  <2>3. /\ next \in S!GrantRows
        /\ next.by = row.by /\ next.expires = row.expires /\ next.consumed = row.consumed
    BY DEF S!GrantRows
  <2>4. grants' = [grants EXCEPT ![g] = next] /\ grants[g] # None
    BY <1>4, <2>2 DEF S!RevokeGrant
  <2> HIDE DEF next
  <2>5. RowsTyped'
    BY <1>4, <2>3, <2>4 DEF S!RevokeGrant, AccountsRows, RowsTyped
  <2>6. \A h \in S!Grants : h # g => grants'[h] = grants[h]
    BY <2>4 DEF AccountsRows, RowsTyped
  <2>7. grants'[g] = next /\ next # None
    BY <2>3, <2>4 DEF AccountsRows, RowsTyped, S!AccountsAssumption
  <2>8. RowsGrow
    BY <1>4, <2>2, <2>3, <2>6, <2>7 DEF S!RevokeGrant, RowsGrow
  <2>9. CallsInv'
    BY <1>4, <2>8, NoneMoves DEF AccountsRows, S!RevokeGrant
  <2>10. \A h \in S!Grants : GrantSound(h)'
    BY <1>4, <2>2, <2>3, <2>4, <2>6, <2>7 DEF S!RevokeGrant, AccountsRows, RowsInv, GrantSound
  <2>11. ASSUME NEW h \in Enrollments
         PROVE  DeviceSound(h)'
    <3>1. DeviceSound(h) /\ devices' = devices
      BY <1>4 DEF S!RevokeGrant, AccountsRows, RowsInv
    <3>2. grants[h] # None => grants'[h] # None /\ grants'[h].consumed = grants[h].consumed
      BY <2>2, <2>3, <2>6, <2>7 DEF S!Grants
    <3> QED
      BY <3>1, <3>2 DEF DeviceSound
  <2> QED
    BY <2>5, <2>9, <2>10, <2>11 DEF AccountsRows, RowsInv
<1> QED
  BY <1>1, <1>2, <1>3, <1>4

(* An invocation answers after a write.                                    *)
LEMMA Answered ==
  ASSUME S!AccountsAssumption, RowsTyped, CallsInv, RowsGrow, NEW c \in Callers,
         NEW ask \in Under, ask = calls[c],
         NEW answer \in {"failed", "ok", "invalid", "expired", "revoked", "csrf_mismatch",
                   "owner_required", "repository_not_authorized", "revoking"},
         S!Answer(c, answer), answer = "ok" => ~ask.after,
         \A d \in Callers \ {c} : calls[d].step = "register" =>
           devices'[calls[d].on] = devices[calls[d].on]
  PROVE  CallsInv'
<1> DEFINE next == [S!Idle EXCEPT !.after = ask.after, !.answer = answer]
<1>1. next \in Over /\ next.step = "idle" /\ next.after = ask.after /\ next.answer = answer
  <2>1. S!Idle \in Over /\ S!Idle.step = "idle"
    BY DEF S!Idle, Over
  <2>2. ask.after \in BOOLEAN
    BY DEF Under
  <2> QED
    BY <2>1, <2>2 DEF Over
<1>2. CallIsSound(next)'
  BY <1>1 DEF CallIsSound, OfSession, OfDevice, OfGrant, OfOwner
<1>3. calls' = [calls EXCEPT ![c] = next]
  BY DEF S!Answer
<1> HIDE DEF next
<1> QED
  BY <1>1, <1>2, <1>3, OneMoves

LEMMA RevokeSessionSound ==
  ASSUME S!AccountsAssumption, AccountsRows, NEW c \in Callers, S!RevokeSession(c)
  PROVE  AccountsRows'
<1>1. PICK ask \in Under : ask = calls[c] /\ CallIsSound(ask)
  BY AtStep DEF S!RevokeSession
<1>2. ask.on \in Sessions /\ sessions[ask.on] # None /\ ~ask.after
  BY <1>1 DEF S!RevokeSession, CallIsSound, OfSession, Under
<1>3. CASE sessions[calls[c].on].revoked
  BY <1>3, AccountsAnswer DEF S!RevokeSession
<1>4. CASE ~sessions[calls[c].on].revoked
  <2>1. PICK row \in S!SessionRows : row = sessions[ask.on]
    BY <1>2 DEF AccountsRows, RowsTyped
  <2> DEFINE next == [row EXCEPT !.revoked = TRUE]
  <2>2. next \in S!SessionRows /\ next.revoked
    BY DEF S!SessionRows
  <2>3. sessions' = [sessions EXCEPT ![ask.on] = next] /\ S!Answer(c, "ok")
    BY <1>1, <1>4, <2>1 DEF S!RevokeSession
  <2>4. UNCHANGED <<now, made, grants, devices, roles, projects>>
    BY DEF S!RevokeSession
  <2> HIDE DEF next
  <2>5. RowsTyped'
    BY <2>2, <2>3, <2>4 DEF AccountsRows, RowsTyped
  <2>6. RowsGrow
    BY <2>2, <2>3, <2>4 DEF RowsGrow, AccountsRows, RowsTyped, S!AccountsAssumption
  <2>7. CallsInv'
    BY <1>1, <1>2, <2>3, <2>4, <2>6, Answered DEF AccountsRows
  <2>8. RowsInv'
    BY <2>4 DEF AccountsRows, RowsInv, GrantSound, DeviceSound
  <2> QED
    BY <2>5, <2>7, <2>8 DEF AccountsRows
<1> QED
  BY <1>3, <1>4

LEMMA RevokeDeviceSound ==
  ASSUME S!AccountsAssumption, AccountsRows, NEW c \in Callers, S!RevokeDevice(c)
  PROVE  AccountsRows'
<1>1. PICK ask \in Under : ask = calls[c] /\ CallIsSound(ask)
  BY AtStep DEF S!RevokeDevice
<1>2. ask.on \in Enrollments /\ devices[ask.on] # None
  BY <1>1 DEF S!RevokeDevice, CallIsSound, OfDevice
<1>3. CASE devices[calls[c].on].revoked
  BY <1>3, AccountsAnswer DEF S!RevokeDevice
<1>4. CASE ~devices[calls[c].on].revoked
  <2>1. PICK row \in S!DeviceRows : row = devices[ask.on]
    BY <1>2 DEF AccountsRows, RowsTyped
  <2> DEFINE next == [row EXCEPT !.revoked = TRUE]
  <2>2. next \in S!DeviceRows /\ next.revoked /\ next.who = row.who /\ next.expires = row.expires
    BY DEF S!DeviceRows
  <2>3. devices' = [devices EXCEPT ![ask.on] = next] /\ S!Answer(c, "revoking")
    BY <1>1, <1>4, <2>1 DEF S!RevokeDevice
  <2>4. UNCHANGED <<now, made, sessions, grants, roles, projects>>
    BY DEF S!RevokeDevice
  <2> HIDE DEF next
  <2>5. RowsTyped'
    BY <2>2, <2>3, <2>4 DEF AccountsRows, RowsTyped
  <2>6. \A h \in Enrollments : h # ask.on => devices'[h] = devices[h]
    BY <2>3 DEF AccountsRows, RowsTyped
  <2>7. devices'[ask.on] = next /\ next # None
    BY <1>2, <2>2, <2>3 DEF AccountsRows, RowsTyped, S!AccountsAssumption
  <2>8. RowsGrow
    BY <2>2, <2>4, <2>6, <2>7 DEF RowsGrow
  <2>9. ASSUME NEW d \in Callers, calls[d].step = "register"
        PROVE  devices'[calls[d].on] = devices[calls[d].on]
    <3>1. calls[d].on \in Enrollments /\ devices[calls[d].on] = None
      BY <2>9 DEF AccountsRows, CallsInv, CallIsSound
    <3> QED
      BY <1>2, <2>6, <3>1
  <2>10. CallsInv'
    BY <1>1, <2>3, <2>8, <2>9, Answered DEF AccountsRows
  <2>11. \A h \in S!Grants : GrantSound(h)'
    BY <2>4 DEF AccountsRows, RowsInv, GrantSound
  <2>12. \A h \in Enrollments : DeviceSound(h)'
    BY <1>2, <2>1, <2>2, <2>4, <2>6, <2>7 DEF AccountsRows, RowsInv, DeviceSound
  <2> QED
    BY <2>5, <2>10, <2>11, <2>12 DEF AccountsRows, RowsInv
<1> QED
  BY <1>3, <1>4

LEMMA CreateLinkedProjectSound ==
  ASSUME S!AccountsAssumption, AccountsRows, NEW c \in Callers, S!CreateLinkedProject(c)
  PROVE  AccountsRows'
<1>1. PICK ask \in Under : ask = calls[c] /\ CallIsSound(ask)
  BY AtStep DEF S!CreateLinkedProject
<1>2. ~ask.after
  BY <1>1 DEF S!CreateLinkedProject, CallIsSound, OfOwner
<1>3. RowsTyped'
  BY <1>1 DEF S!CreateLinkedProject, AccountsRows, RowsTyped, Under
<1>4. RowsGrow
  BY DEF S!CreateLinkedProject, RowsGrow
<1>5. CallsInv'
  BY <1>1, <1>2, <1>4, Answered DEF AccountsRows, S!CreateLinkedProject
<1>6. RowsInv'
  BY DEF S!CreateLinkedProject, AccountsRows, RowsInv, GrantSound, DeviceSound
<1> QED
  BY <1>3, <1>5, <1>6 DEF AccountsRows

LEMMA CreateInvitationSound ==
  ASSUME S!AccountsAssumption, AccountsRows, NEW c \in Callers, S!CreateInvitation(c)
  PROVE  AccountsRows'
<1>1. PICK ask \in Under : ask = calls[c] /\ CallIsSound(ask)
  BY AtStep DEF S!CreateInvitation
<1>2. ~ask.after /\ ask.on \in S!Grants
  BY <1>1 DEF S!CreateInvitation, CallIsSound, OfOwner, S!Grants
<1> DEFINE row == [by |-> ask.who, expires |-> ask.at + 1, consumed |-> None, revoked |-> FALSE]
<1>3. row \in S!GrantRows
  BY DEF Under, S!GrantRows
<1>4. grants' = [grants EXCEPT ![ask.on] = row] /\ grants[ask.on] = None /\ row.consumed = None
  BY <1>1 DEF S!CreateInvitation
<1>5. S!Answer(c, "ok") /\ UNCHANGED <<now, made, sessions, devices, roles, projects>>
  BY DEF S!CreateInvitation
<1> HIDE DEF row
<1>6. RowsTyped'
  BY <1>3, <1>4, <1>5 DEF AccountsRows, RowsTyped
<1>7. \A h \in S!Grants : h # ask.on => grants'[h] = grants[h]
  BY <1>4 DEF AccountsRows, RowsTyped
<1>8. grants'[ask.on] = row
  BY <1>2, <1>4 DEF AccountsRows, RowsTyped
<1>9. RowsGrow
  BY <1>4, <1>5, <1>7 DEF RowsGrow
<1>10. CallsInv'
  BY <1>1, <1>2, <1>5, <1>9, Answered DEF AccountsRows
<1>11. \A h \in S!Grants : GrantSound(h)'
  BY <1>4, <1>5, <1>7, <1>8 DEF AccountsRows, RowsInv, GrantSound
<1>12. \A h \in Enrollments : DeviceSound(h)'
  BY <1>4, <1>5, <1>7 DEF AccountsRows, RowsInv, DeviceSound, S!Grants
<1> QED
  BY <1>6, <1>10, <1>11, <1>12 DEF AccountsRows, RowsInv

(* Who consumes an enrolment is the only one about to register its device. *)
LEMMA ConsumeGrantSound ==
  ASSUME S!AccountsAssumption, AccountsRows, NEW c \in Callers, S!ConsumeGrant(c)
  PROVE  AccountsRows'
<1>1. PICK ask \in Under : ask = calls[c] /\ CallIsSound(ask)
  BY AtStep DEF S!ConsumeGrant
<1>2. /\ ask.step = "consume" /\ ~ask.after
      /\ ask.on \in S!Grants /\ grants[ask.on] # None
      /\ ask.at <= grants[ask.on].expires
      /\ ask.on \in Invitations => grants[ask.on].by # ask.who
  BY <1>1 DEF S!ConsumeGrant, CallIsSound, OfGrant
<1>3. CASE ~S!Unconsumed(calls[c].on)
  BY <1>1, <1>3, AccountsAnswer DEF S!ConsumeGrant
<1>4. CASE S!Unconsumed(calls[c].on)
  <2>1. PICK row \in S!GrantRows : row = grants[ask.on]
    BY <1>2 DEF AccountsRows, RowsTyped
  <2> DEFINE mine == [who |-> ask.who, at |-> ask.at]
             next == [row EXCEPT !.consumed = mine]
  <2>2. mine \in S!Redemptions /\ mine # None /\ mine.who = ask.who /\ mine.at = ask.at
    BY DEF S!Redemptions, S!AccountsAssumption, Under
  <2>3. next \in S!GrantRows /\ next.consumed = mine /\ next.by = row.by /\ next.expires = row.expires
    BY <2>2 DEF S!GrantRows
  <2>4. row.consumed = None
    BY <1>1, <1>4, <2>1 DEF S!Unconsumed
  <2>5. grants' = [grants EXCEPT ![ask.on] = next]
    BY <1>1, <1>4, <2>1 DEF S!ConsumeGrant
  <2>6. UNCHANGED <<now, made, sessions, devices, projects>>
    BY DEF S!ConsumeGrant
  <2>7. \/ /\ ask.on \in Invitations
           /\ roles' = [roles EXCEPT ![ask.who] = IF @ = "none" THEN "member" ELSE @]
           /\ S!Answer(c, "ok")
        \/ ask.on \notin Invitations /\ S!Goto(c, "register") /\ UNCHANGED roles
    BY <1>1, <1>4 DEF S!ConsumeGrant, S!Serve
  <2>8. mine = [who |-> ask.who, at |-> ask.at]
    OBVIOUS
  <2> HIDE DEF next, mine
  <2>9. roles' \in [Users -> {"owner", "member", "none"}]
          /\ \A u \in Users : roles[u] # "none" => roles'[u] # "none"
    BY <2>7 DEF AccountsRows, RowsTyped, Under
  <2>10. ask.on \in Invitations => roles'[ask.who] # "none"
    BY <2>7 DEF AccountsRows, RowsTyped, Under
  <2>11. RowsTyped'
    BY <2>3, <2>5, <2>6, <2>9 DEF AccountsRows, RowsTyped
  <2>12. \A h \in S!Grants : h # ask.on => grants'[h] = grants[h]
    BY <2>5 DEF AccountsRows, RowsTyped
  <2>13. grants'[ask.on] = next /\ next # None
    BY <1>2, <2>3, <2>5 DEF AccountsRows, RowsTyped, S!AccountsAssumption
  <2>14. RowsGrow
    BY <2>1, <2>3, <2>4, <2>6, <2>9, <2>12, <2>13 DEF RowsGrow
  <2>15. ASSUME NEW d \in Callers, calls[d].step = "register"
         PROVE  calls[d].on # ask.on
    <3>1. PICK other \in Under : other = calls[d] /\ CallIsSound(other)
      BY <2>15, AtStep
    <3>2. grants[other.on].consumed = [who |-> other.who, at |-> other.at]
      BY <2>15, <3>1 DEF CallIsSound
    <3>3. [who |-> other.who, at |-> other.at] \in S!Redemptions
      BY DEF S!Redemptions, Under
    <3> QED
      BY <2>1, <2>4, <3>1, <3>2, <3>3 DEF S!AccountsAssumption
  <2>16. CallsInv'
    <3>1. CASE ask.on \in Invitations /\ S!Answer(c, "ok")
      BY <1>1, <1>2, <2>6, <2>14, <3>1, Answered DEF AccountsRows
    <3>2. CASE ask.on \notin Invitations /\ S!Goto(c, "register")
      <4> DEFINE going == [ask EXCEPT !.step = "register"]
      <4>1. /\ going \in Under /\ going.step = "register" /\ going.on = ask.on
            /\ going.who = ask.who /\ going.at = ask.at
            /\ going.after = ask.after /\ going.answer = "none"
        BY DEF Under, Steps, OfGrant
      <4>2. calls' = [calls EXCEPT ![c] = going]
        BY <1>1, <3>2 DEF S!Goto
      <4> HIDE DEF going
      <4>3. ask.on \in Enrollments
        BY <1>2, <3>2 DEF S!Grants
      <4>4. devices[ask.on] = None
        BY <2>1, <2>4, <4>3 DEF AccountsRows, RowsInv, DeviceSound
      <4>5. CallIsSound(going)'
        <5>1. /\ ~going.after /\ going.on \in S!Grants /\ grants'[going.on] # None
              /\ going.at <= grants'[going.on].expires
              /\ going.on \notin Invitations
              /\ going.on \in Enrollments
              /\ grants'[going.on].consumed = [who |-> going.who, at |-> going.at]
              /\ devices'[going.on] = None
          BY <1>2, <2>1, <2>3, <2>6, <2>8, <2>13, <3>2, <4>1, <4>3, <4>4
        <5>2. going.step \notin OfSession \union OfDevice
                /\ going.step \notin {"may_invite", "invite", "consume"}
          BY <4>1 DEF OfSession, OfDevice
        <5> QED
          BY <4>1, <5>1, <5>2 DEF CallIsSound
      <4> QED
        BY <2>6, <2>14, <2>15, <4>1, <4>2, <4>5, OneMoves DEF AccountsRows
    <3> QED
      BY <2>7, <3>1, <3>2
  <2>17. \A h \in S!Grants : GrantSound(h)'
    <3>1. ASSUME NEW h \in S!Grants, h # ask.on
          PROVE  GrantSound(h)'
      <4>1. GrantSound(h) /\ grants'[h] = grants[h]
        BY <2>12, <3>1 DEF AccountsRows, RowsInv
      <4>2. grants[h] # None /\ grants[h].consumed # None => grants[h].consumed.who \in Users
        BY <3>1 DEF AccountsRows, RowsTyped, S!GrantRows, S!Redemptions
      <4> QED
        BY <2>9, <4>1, <4>2 DEF GrantSound
    <3>2. GrantSound(ask.on)'
      BY <1>2, <2>1, <2>2, <2>3, <2>10, <2>13 DEF GrantSound
    <3> QED
      BY <3>1, <3>2
  <2>18. \A h \in Enrollments : DeviceSound(h)'
    <3>1. ASSUME NEW h \in Enrollments, devices'[h] # None
          PROVE  DeviceSound(h)'
      <4>1. DeviceSound(h) /\ devices[h] # None
        BY <2>6, <3>1 DEF AccountsRows, RowsInv
      <4>2. grants[h].consumed = [who |-> devices[h].who, at |-> devices[h].expires - 1]
              /\ grants[h] # None /\ grants[h].consumed # None
        BY <4>1 DEF DeviceSound
      <4>3. h # ask.on
        BY <2>1, <2>4, <4>2
      <4> QED
        BY <2>6, <2>12, <4>2, <4>3 DEF DeviceSound, S!Grants
    <3> QED
      BY <3>1 DEF DeviceSound
  <2> QED
    BY <2>11, <2>16, <2>17, <2>18 DEF AccountsRows, RowsInv
<1> QED
  BY <1>3, <1>4

LEMMA CreateDeviceSound ==
  ASSUME S!AccountsAssumption, AccountsRows, NEW c \in Callers, S!CreateDeviceWithCredential(c)
  PROVE  AccountsRows'
<1>1. PICK ask \in Under : ask = calls[c] /\ CallIsSound(ask)
  BY AtStep DEF S!CreateDeviceWithCredential
<1>2. /\ ask.step = "register" /\ ~ask.after
      /\ ask.on \in Enrollments /\ ask.on \in S!Grants /\ grants[ask.on] # None
      /\ grants[ask.on].consumed = [who |-> ask.who, at |-> ask.at]
      /\ devices[ask.on] = None
  BY <1>1 DEF S!CreateDeviceWithCredential, CallIsSound, OfGrant
<1>3. grants[ask.on].consumed # None
  BY <1>2 DEF S!Redemptions, Under, S!AccountsAssumption
<1> DEFINE row == [who |-> ask.who, expires |-> ask.at + 1, revoked |-> FALSE]
<1>4. row \in S!DeviceRows /\ row.who = ask.who /\ row.expires - 1 = ask.at
  BY DEF S!DeviceRows, Under
<1>5. devices' = [devices EXCEPT ![ask.on] = row] /\ S!Answer(c, "ok")
        /\ UNCHANGED <<now, made, sessions, grants, roles, projects>>
  BY <1>1 DEF S!CreateDeviceWithCredential, S!Serve
<1> HIDE DEF row
<1>6. RowsTyped'
  BY <1>4, <1>5 DEF AccountsRows, RowsTyped
<1>7. \A h \in Enrollments : h # ask.on => devices'[h] = devices[h]
  BY <1>5 DEF AccountsRows, RowsTyped
<1>8. devices'[ask.on] = row
  BY <1>2, <1>5 DEF AccountsRows, RowsTyped
<1>9. RowsGrow
  BY <1>2, <1>4, <1>5, <1>7 DEF RowsGrow
<1>10. ASSUME NEW d \in Callers \ {c}, calls[d].step = "register"
       PROVE  devices'[calls[d].on] = devices[calls[d].on]
  <2>1. calls[d].on # ask.on
    BY <1>1, <1>2, <1>10 DEF AccountsRows, CallsInv, OneRegisters
  <2>2. calls[d].on \in Enrollments
    BY <1>10 DEF AccountsRows, CallsInv, CallIsSound
  <2> QED
    BY <1>7, <2>1, <2>2
<1>11. CallsInv'
  BY <1>1, <1>2, <1>5, <1>9, <1>10, Answered DEF AccountsRows
<1>12. \A h \in S!Grants : GrantSound(h)'
  BY <1>5 DEF AccountsRows, RowsInv, GrantSound
<1>13. \A h \in Enrollments : DeviceSound(h)'
  BY <1>2, <1>3, <1>4, <1>5, <1>7, <1>8 DEF AccountsRows, RowsInv, DeviceSound
<1> QED
  BY <1>6, <1>11, <1>12, <1>13 DEF AccountsRows, RowsInv

-----------------------------------------------------------------------------
LEMMA AccountsNext == S!AccountsAssumption /\ AccountsRows /\ [S!Next]_S!vars => AccountsRows'
<1> SUFFICES ASSUME S!AccountsAssumption, AccountsRows, [S!Next]_S!vars
             PROVE  AccountsRows'
  OBVIOUS
<1>1. CASE UNCHANGED S!vars
  <2>1. RowsTyped'
    BY <1>1 DEF S!vars, AccountsRows, RowsTyped
  <2>2. RowsGrow
    BY <1>1 DEF S!vars, RowsGrow
  <2>3. CallsInv'
    BY <1>1, <2>2, NoneMoves DEF S!vars, AccountsRows
  <2>4. RowsInv'
    BY <1>1 DEF S!vars, AccountsRows, RowsInv, GrantSound, DeviceSound
  <2> QED
    BY <2>1, <2>3, <2>4 DEF AccountsRows
<1>2. ASSUME NEW c \in Callers,
             \/ \E s \in Sessions : S!SessionRequest(c, s)
             \/ \E u \in Users : S!OwnerRequest(c, u)
             \/ \E u \in Users, g \in S!Grants : S!GrantRequest(c, u, g)
             \/ \E g \in Enrollments : S!DeviceRequest(c, g)
             \/ S!Authenticate(c) \/ S!RevokeSession(c)
             \/ S!MembershipRole(c) \/ S!AuthorizedRepository(c)
             \/ S!CreateLinkedProject(c) \/ S!CreateInvitation(c)
             \/ S!FindGrant(c) \/ S!ConsumeGrant(c) \/ S!CreateDeviceWithCredential(c)
             \/ S!AuthenticateDevice(c) \/ S!RevokeDevice(c)
             \/ S!Lose(c)
      PROVE  AccountsRows'
  BY <1>2, RequestsSound, AuthenticateSound, RevokeSessionSound, MembershipRoleSound,
     AuthorizedRepositorySound, CreateLinkedProjectSound, CreateInvitationSound,
     FindGrantSound, ConsumeGrantSound, CreateDeviceSound, AuthenticateDeviceSound,
     RevokeDeviceSound, LoseSound
<1> QED
  BY <1>1, <1>2, RowsOnlySound DEF S!Next

-----------------------------------------------------------------------------
(* Who a grant has served: nobody before it is redeemed, and after that    *)
(* the one who consumed it.                                                *)
Redeemed(g) ==
  \/ g \in Invitations /\ grants[g] # None /\ grants[g].consumed # None
  \/ g \in Enrollments /\ devices[g] # None

ServedBy(g) == IF Redeemed(g) THEN <<grants[g].consumed.who>> ELSE <<>>

RedeemedSound ==
  /\ redeemed \in [S!Grants -> Seq(Users)]
  /\ \A g \in S!Grants : redeemed[g] = ServedBy(g)

AccountsSound == AccountsRows /\ RedeemedSound

(* A step that redeems no grant.                                           *)
NoneRedeemed ==
  /\ UNCHANGED redeemed
  /\ \A g \in S!Grants : Redeemed(g)' <=> Redeemed(g)
  /\ \A g \in S!Grants : Redeemed(g) => grants'[g].consumed = grants[g].consumed

LEMMA NoneServed == RedeemedSound /\ NoneRedeemed => RedeemedSound'
  BY DEF RedeemedSound, NoneRedeemed, ServedBy

LEMMA RowsStay == UNCHANGED <<grants, devices, redeemed>> => NoneRedeemed
  BY DEF NoneRedeemed, Redeemed

(* A grant that changes but is not consumed.                               *)
LEMMA GrantWritten ==
  ASSUME S!AccountsAssumption, AccountsRows, NEW g \in S!Grants, NEW next \in S!GrantRows,
         grants' = [grants EXCEPT ![g] = next], UNCHANGED <<devices, redeemed>>,
         grants[g] # None => next.consumed = grants[g].consumed,
         grants[g] = None => next.consumed = None
  PROVE  NoneRedeemed
<1>1. \A h \in S!Grants : h # g => grants'[h] = grants[h]
  BY DEF AccountsRows, RowsTyped
<1>2. grants'[g] = next /\ next # None
  BY DEF AccountsRows, RowsTyped, S!AccountsAssumption
<1>3. g \in Enrollments /\ devices[g] # None => grants[g] # None
  BY DEF AccountsRows, RowsInv, DeviceSound
<1> QED
  BY <1>1, <1>2, <1>3 DEF NoneRedeemed, Redeemed

LEMMA EnrolmentServesNobody ==
  ASSUME S!AccountsAssumption, AccountsRows, NEW g \in Enrollments, S!CreateEnrollment(g)
  PROVE  NoneRedeemed
<1> DEFINE next == [by |-> Owner, expires |-> now + 1, consumed |-> None, revoked |-> FALSE]
<1>1. next \in S!GrantRows /\ next.consumed = None /\ g \in S!Grants
  BY DEF AccountsRows, RowsTyped, S!GrantRows, S!AccountsAssumption, S!Grants
<1>2. grants[g] = None /\ grants' = [grants EXCEPT ![g] = next] /\ UNCHANGED <<devices, redeemed>>
  BY DEF S!CreateEnrollment
<1> HIDE DEF next
<1> QED
  BY <1>1, <1>2, GrantWritten

LEMMA InvitationServesNobody ==
  ASSUME S!AccountsAssumption, AccountsRows, NEW c \in Callers, S!CreateInvitation(c)
  PROVE  NoneRedeemed
<1>1. PICK ask \in Under : ask = calls[c] /\ CallIsSound(ask)
  BY AtStep DEF S!CreateInvitation
<1> DEFINE next == [by |-> ask.who, expires |-> ask.at + 1, consumed |-> None, revoked |-> FALSE]
<1>2. next \in S!GrantRows /\ next.consumed = None
  BY DEF S!GrantRows, Under
<1>3. ask.on \in S!Grants
  BY <1>1 DEF S!CreateInvitation, CallIsSound, S!Grants
<1>4. grants[ask.on] = None /\ grants' = [grants EXCEPT ![ask.on] = next]
        /\ UNCHANGED <<devices, redeemed>>
  BY <1>1 DEF S!CreateInvitation
<1> HIDE DEF next
<1> QED
  BY <1>2, <1>3, <1>4, GrantWritten

LEMMA WithdrawalServesNobody ==
  ASSUME S!AccountsAssumption, AccountsRows, NEW g \in S!Grants, S!RevokeGrant(g)
  PROVE  NoneRedeemed
<1>1. PICK row \in S!GrantRows : row = grants[g]
  BY DEF S!RevokeGrant, AccountsRows, RowsTyped
<1> DEFINE next == [row EXCEPT !.revoked = TRUE]
<1>2. next \in S!GrantRows /\ next.consumed = row.consumed
  BY DEF S!GrantRows
<1>3. grants[g] # None /\ grants' = [grants EXCEPT ![g] = next] /\ UNCHANGED <<devices, redeemed>>
  BY <1>1 DEF S!RevokeGrant
<1> HIDE DEF next
<1> QED
  BY <1>1, <1>2, <1>3, GrantWritten

LEMMA RevocationServesNobody ==
  ASSUME S!AccountsAssumption, AccountsRows, NEW c \in Callers, S!RevokeDevice(c)
  PROVE  NoneRedeemed
<1>1. PICK ask \in Under : ask = calls[c] /\ CallIsSound(ask)
  BY AtStep DEF S!RevokeDevice
<1>2. ask.on \in Enrollments /\ devices[ask.on] # None
  BY <1>1 DEF S!RevokeDevice, CallIsSound, OfDevice
<1>3. CASE devices[ask.on].revoked
  BY <1>1, <1>3, RowsStay DEF S!RevokeDevice
<1>4. CASE ~devices[ask.on].revoked
  <2>1. PICK row \in S!DeviceRows : row = devices[ask.on]
    BY <1>2 DEF AccountsRows, RowsTyped
  <2> DEFINE next == [row EXCEPT !.revoked = TRUE]
  <2>2. next \in S!DeviceRows
    BY DEF S!DeviceRows
  <2>3. devices' = [devices EXCEPT ![ask.on] = next] /\ UNCHANGED <<grants, redeemed>>
    BY <1>1, <1>4, <2>1 DEF S!RevokeDevice
  <2> HIDE DEF next
  <2>4. devices'[ask.on] # None
    BY <1>2, <2>2, <2>3 DEF AccountsRows, RowsTyped, S!AccountsAssumption
  <2>5. \A h \in Enrollments : h # ask.on => devices'[h] = devices[h]
    BY <2>3 DEF AccountsRows, RowsTyped
  <2> QED
    BY <1>2, <2>3, <2>4, <2>5 DEF NoneRedeemed, Redeemed
<1> QED
  BY <1>3, <1>4

(* A grant that nobody had redeemed serves the caller that redeems it.     *)
LEMMA OneServed ==
  ASSUME RedeemedSound, NEW g \in S!Grants, NEW who \in Users,
         redeemed' = [redeemed EXCEPT ![g] = Append(@, who)],
         ~Redeemed(g), Redeemed(g)', grants'[g].consumed.who = who,
         \A h \in S!Grants \ {g} : /\ Redeemed(h)' <=> Redeemed(h)
                                   /\ grants'[h] = grants[h]
  PROVE  RedeemedSound'
<1>1. redeemed[g] = <<>>
  BY DEF RedeemedSound, ServedBy
<1>2. redeemed' \in [S!Grants -> Seq(Users)] /\ redeemed'[g] = <<who>>
  BY <1>1 DEF RedeemedSound
<1>3. \A h \in S!Grants \ {g} : redeemed'[h] = ServedBy(h)'
  BY DEF RedeemedSound, ServedBy
<1>4. redeemed'[g] = ServedBy(g)'
  BY <1>2 DEF ServedBy
<1> QED
  BY <1>2, <1>3, <1>4 DEF RedeemedSound

LEMMA ConsumeServes ==
  ASSUME S!AccountsAssumption, AccountsRows, RedeemedSound, NEW c \in Callers, S!ConsumeGrant(c)
  PROVE  RedeemedSound'
<1>1. PICK ask \in Under : ask = calls[c] /\ CallIsSound(ask)
  BY AtStep DEF S!ConsumeGrant
<1>2. ask.on \in S!Grants /\ grants[ask.on] # None
  BY <1>1 DEF S!ConsumeGrant, CallIsSound, OfGrant
<1>3. CASE ~S!Unconsumed(calls[c].on)
  BY <1>3, RowsStay, NoneServed DEF S!ConsumeGrant
<1>4. CASE S!Unconsumed(calls[c].on)
  <2>1. PICK row \in S!GrantRows : row = grants[ask.on]
    BY <1>2 DEF AccountsRows, RowsTyped
  <2> DEFINE mine == [who |-> ask.who, at |-> ask.at]
             next == [row EXCEPT !.consumed = mine]
  <2>2. mine \in S!Redemptions /\ mine # None /\ mine.who = ask.who /\ ask.who \in Users
    BY DEF S!Redemptions, S!AccountsAssumption, Under
  <2>3. next \in S!GrantRows /\ next.consumed = mine
    BY <2>2 DEF S!GrantRows
  <2>4. row.consumed = None
    BY <1>1, <1>4, <2>1 DEF S!Unconsumed
  <2>5. grants' = [grants EXCEPT ![ask.on] = next] /\ UNCHANGED devices
    BY <1>1, <1>4, <2>1 DEF S!ConsumeGrant
  <2>6. IF ask.on \in Invitations
        THEN redeemed' = [redeemed EXCEPT ![ask.on] = Append(@, ask.who)]
        ELSE UNCHANGED redeemed
    BY <1>1, <1>4 DEF S!ConsumeGrant, S!Serve
  <2> HIDE DEF next, mine
  <2>7. \A h \in S!Grants : h # ask.on => grants'[h] = grants[h]
    BY <2>5 DEF AccountsRows, RowsTyped
  <2>8. grants'[ask.on] = next /\ next # None
    BY <1>2, <2>3, <2>5 DEF AccountsRows, RowsTyped, S!AccountsAssumption
  <2>9. \A h \in S!Grants : h # ask.on => (Redeemed(h)' <=> Redeemed(h))
    BY <2>5, <2>7 DEF Redeemed
  <2>10. ~Redeemed(ask.on)
    BY <2>1, <2>4 DEF Redeemed, AccountsRows, RowsInv, DeviceSound
  <2>11. CASE ask.on \in Invitations
    <3>1. Redeemed(ask.on)'
      BY <2>2, <2>3, <2>8, <2>11 DEF Redeemed
    <3> QED
      BY <1>2, <2>2, <2>3, <2>6, <2>7, <2>8, <2>9, <2>10, <2>11, <3>1, OneServed
  <2>12. CASE ask.on \notin Invitations
    <3>1. ~Redeemed(ask.on)'
      BY <2>5, <2>10, <2>12 DEF Redeemed
    <3>2. NoneRedeemed
      BY <2>6, <2>7, <2>9, <2>10, <2>12, <3>1 DEF NoneRedeemed
    <3> QED
      BY <3>2, NoneServed
  <2> QED
    BY <2>11, <2>12
<1> QED
  BY <1>3, <1>4

LEMMA DeviceServes ==
  ASSUME S!AccountsAssumption, AccountsRows, RedeemedSound, NEW c \in Callers,
         S!CreateDeviceWithCredential(c)
  PROVE  RedeemedSound'
<1>1. PICK ask \in Under : ask = calls[c] /\ CallIsSound(ask)
  BY AtStep DEF S!CreateDeviceWithCredential
<1>2. /\ ask.on \in Enrollments /\ ask.on \in S!Grants /\ ask.who \in Users
      /\ grants[ask.on].consumed = [who |-> ask.who, at |-> ask.at]
      /\ devices[ask.on] = None
  BY <1>1 DEF S!CreateDeviceWithCredential, CallIsSound, OfGrant, Under
<1> DEFINE row == [who |-> ask.who, expires |-> ask.at + 1, revoked |-> FALSE]
<1>3. row \in S!DeviceRows
  BY DEF S!DeviceRows, Under
<1>4. /\ devices' = [devices EXCEPT ![ask.on] = row]
      /\ redeemed' = [redeemed EXCEPT ![ask.on] = Append(@, ask.who)]
      /\ UNCHANGED grants
  BY <1>1 DEF S!CreateDeviceWithCredential, S!Serve
<1> HIDE DEF row
<1>5. devices'[ask.on] # None
  BY <1>2, <1>3, <1>4 DEF AccountsRows, RowsTyped, S!AccountsAssumption
<1>6. \A h \in S!Grants \ {ask.on} : Redeemed(h)' <=> Redeemed(h)
  BY <1>4 DEF Redeemed, AccountsRows, RowsTyped
<1>7. ~Redeemed(ask.on) /\ Redeemed(ask.on)'
  BY <1>2, <1>5 DEF Redeemed, S!AccountsAssumption
<1>8. grants'[ask.on].consumed.who = ask.who
  BY <1>2, <1>4
<1> QED
  BY <1>2, <1>4, <1>6, <1>7, <1>8, OneServed

LEMMA ServedNext ==
  ASSUME S!AccountsAssumption, AccountsRows, RedeemedSound, [S!Next]_S!vars
  PROVE  RedeemedSound'
<1>1. CASE UNCHANGED S!vars
  BY <1>1, RowsStay, NoneServed DEF S!vars
<1>2. CASE \/ S!Tick
           \/ \E u \in Users, s \in Sessions : S!CreateSession(u, s)
           \/ \E g \in Enrollments : S!CreateEnrollment(g)
           \/ \E g \in S!Grants : S!RevokeGrant(g)
  BY <1>2, RowsStay, EnrolmentServesNobody, WithdrawalServesNobody, NoneServed
     DEF S!Tick, S!CreateSession
<1>3. ASSUME NEW c \in Callers,
             \/ \E s \in Sessions : S!SessionRequest(c, s)
             \/ \E u \in Users : S!OwnerRequest(c, u)
             \/ \E u \in Users, g \in S!Grants : S!GrantRequest(c, u, g)
             \/ \E g \in Enrollments : S!DeviceRequest(c, g)
      PROVE  RedeemedSound'
  BY <1>3, RowsStay, NoneServed
     DEF S!SessionRequest, S!OwnerRequest, S!GrantRequest, S!DeviceRequest, S!Begin
<1>4. ASSUME NEW c \in Callers,
             \/ S!Authenticate(c) \/ S!RevokeSession(c)
             \/ S!MembershipRole(c) \/ S!AuthorizedRepository(c)
             \/ S!CreateLinkedProject(c) \/ S!FindGrant(c)
             \/ S!AuthenticateDevice(c) \/ S!Lose(c)
      PROVE  RedeemedSound'
  BY <1>4, RowsStay, NoneServed
     DEF S!Authenticate, S!RevokeSession, S!MembershipRole, S!AuthorizedRepository,
         S!CreateLinkedProject, S!FindGrant, S!AuthenticateDevice, S!Lose
<1>5. ASSUME NEW c \in Callers,
             \/ S!CreateInvitation(c) \/ S!RevokeDevice(c)
             \/ S!ConsumeGrant(c) \/ S!CreateDeviceWithCredential(c)
      PROVE  RedeemedSound'
  BY <1>5, InvitationServesNobody, RevocationServesNobody, NoneServed, ConsumeServes, DeviceServes
<1> QED
  BY <1>1, <1>2, <1>3, <1>4, <1>5 DEF S!Next

-----------------------------------------------------------------------------
(* The invariant of sessions, enrolments and invitations.                  *)
THEOREM AccountsSoundAlways == S!AccountsAssumption /\ S!Spec => []AccountsSound
<1> SUFFICES ASSUME S!AccountsAssumption PROVE S!Spec => []AccountsSound
  OBVIOUS
<1>1. S!Init => AccountsSound
  <2> SUFFICES ASSUME S!Init PROVE AccountsSound
    OBVIOUS
  <2>1. AccountsRows
    BY AccountsBegin
  <2>2. redeemed \in [S!Grants -> Seq(Users)]
    BY DEF S!Init
  <2>3. \A g \in S!Grants : redeemed[g] = <<>> /\ ~Redeemed(g)
    BY DEF S!Init, Redeemed
  <2> QED
    BY <2>1, <2>2, <2>3 DEF AccountsSound, RedeemedSound, ServedBy
<1>2. AccountsSound /\ [S!Next]_S!vars => AccountsSound'
  BY AccountsNext, ServedNext DEF AccountsSound
<1> QED
  BY <1>1, <1>2, PTL DEF S!Spec

LEMMA AccountsPromise ==
  ASSUME S!AccountsAssumption, AccountsSound
  PROVE  S!TypeOK /\ S!OutIsOut /\ S!RedeemedOnce
<1>1. S!OutIsOut
  BY DEF AccountsSound, AccountsRows, CallsInv, CallIsSound, S!OutIsOut
<1>2. S!TypeOK
  BY DEF AccountsSound, AccountsRows, RowsTyped, RedeemedSound, S!TypeOK
<1>3. ASSUME NEW g \in S!Grants, redeemed[g] # <<>>
      PROVE  /\ grants[g].consumed # None
             /\ redeemed[g] = <<grants[g].consumed.who>>
  <2>1. Redeemed(g) /\ redeemed[g] = <<grants[g].consumed.who>>
    BY <1>3 DEF AccountsSound, RedeemedSound, ServedBy
  <2> QED
    BY <2>1 DEF Redeemed, AccountsSound, AccountsRows, RowsInv, DeviceSound
<1>4. ASSUME NEW g \in Invitations, grants[g] # None, grants[g].consumed # None
      PROVE  redeemed[g] # <<>>
  <2>1. redeemed[g] = <<grants[g].consumed.who>>
    BY <1>4 DEF AccountsSound, RedeemedSound, ServedBy, Redeemed, S!Grants
  <2> QED
    BY <2>1
<1>5. \A g \in S!Grants : GrantSound(g)
  BY DEF AccountsSound, AccountsRows, RowsInv
<1>6. \A g \in Enrollments : DeviceSound(g)
  BY DEF AccountsSound, AccountsRows, RowsInv
<1>7. \A c \in Callers : calls[c].step = "register" => devices[calls[c].on] = None
  BY DEF AccountsSound, AccountsRows, CallsInv, CallIsSound
<1>8. S!RedeemedOnce
  BY <1>3, <1>4, <1>5, <1>6, <1>7 DEF GrantSound, DeviceSound, S!RedeemedOnce
<1> QED
  BY <1>1, <1>2, <1>8

-----------------------------------------------------------------------------
Tokens == {None} \union ({"launch", "other"} \X {"server", "client"} \X L!Connections)
Frames == [kind : {"challenge", "response", "proof", "ack", "request", "answered",
                   "remote_error"},
           mac : Tokens]
Wires == [L!Connections ->
            [up : Seq(Frames), down : Seq(Frames), ends : SUBSET {"client", "server"}]]

(* A connection that the Companion has not let go.                         *)
Live(n) == served.of = n \/ \E j \in DOMAIN backlog : backlog[j] = n

Waiting == {"challenge", "proof", "request"}

Sent(kind, mac) == <<L!Frame(kind, mac)>>

(* What the caller knows: what comes down, what it means that nothing does,*)
(* and how often the request was run when it is where it is.               *)
ExchangeIs(n, s, down, mine, h, live, over) ==
  /\ h \in {0, 1}
  /\ h = 1 => n[1] \in Informed
  /\ s \in Waiting => mine
  /\ s \in {"connect", "challenge", "proof", "closed", "peer_validation_failed",
            "authentication_failed"} => h = 0 \/ over
  /\ s \in {"answered", "remote_error"} => h = 1
  /\ s = "challenge" => down \in {<<>>, Sent("response", L!Mac("launch", "server", n))}
  /\ s = "proof" => down \in {<<>>, Sent("ack", None)} /\ n[1] \in Informed
  /\ s = "request" =>
       /\ down \in {<<>>, Sent("answered", None), Sent("remote_error", None)}
       /\ n[1] \in Informed
       /\ down # <<>> => h = 1
       /\ down = <<>> /\ ~live => h = 0 \/ over

(* How far the Companion is with a connection and how far its caller is.   *)
TogetherIs(n, waits, s, up, down, h) ==
  /\ waits \in {"challenge", "proof", "request", "answer"}
  /\ waits = "challenge" =>
       /\ s \in {"challenge", "timeout"} /\ h = 0
       /\ up = Sent("challenge", None) /\ down = <<>>
  /\ waits = "proof" =>
       /\ s \in {"challenge", "proof", "authentication_failed", "timeout"} /\ h = 0
       /\ \/ up = <<>> /\ s # "proof"
          \/ /\ up = Sent("proof", L!Mac("launch", "client", n)) /\ n[1] \in Informed
             /\ down = <<>> /\ s \in {"proof", "timeout"}
  /\ waits = "request" =>
       /\ s \in {"proof", "request", "timeout"} /\ h = 0 /\ n[1] \in Informed
       /\ \/ up = <<>> /\ s # "request"
          \/ up = Sent("request", None) /\ down = <<>> /\ s \in {"request", "timeout"}
  /\ waits = "answer" => s \in {"request", "timeout"} /\ h = 1 /\ down = <<>> /\ n[1] \in Informed

ExchangeSound(c) ==
  LET n == L!Connection(c)
  IN ExchangeIs(n, exchanges[c].step, wire[n].down, "client" \in wire[n].ends,
                handled[c], Live(n), companion = "ended")

Together(n, waits) ==
  TogetherIs(n, waits, exchanges[n[1]].step, wire[n].up, wire[n].down, handled[n[1]])

(* A connection that is live is the last one of its caller.                *)
LiveSound ==
  /\ \A n \in L!Connections :
       /\ Live(n) => n[2] = exchanges[n[1]].attempt /\ "server" \in wire[n].ends
       /\ served.of = n => Together(n, served.waits)
  /\ \A j \in DOMAIN backlog :
       /\ Together(backlog[j], "challenge")
       /\ served.of # backlog[j]
       /\ \A k \in DOMAIN backlog : backlog[j] = backlog[k] => j = k
  /\ companion \in {"launched", "ended"} => served.of = None /\ backlog = <<>>
  /\ socket = "private" => companion # "launched"

IpcSound ==
  /\ L!TypeOK
  /\ served \in [of : L!Connections \union {None},
                 waits : {"accept", "challenge", "proof", "request", "answer"}]
  /\ wire \in Wires
  /\ LiveSound
  /\ \A c \in Clients : ExchangeSound(c)

-----------------------------------------------------------------------------
LEMMA ConnectionsAre ==
  ASSUME IpcSound, NEW c \in Clients
  PROVE  /\ L!Connection(c) \in L!Connections /\ L!Connection(c)[1] = c
         /\ L!Connection(c)[2] = exchanges[c].attempt
         /\ \A m \in L!Connections : m[1] \in Clients /\ m = <<m[1], m[2]>>
         /\ \A m \in L!Connections :
              m[1] = c /\ m[2] = exchanges[c].attempt => m = L!Connection(c)
<1>1. exchanges[c].attempt \in 1..MaxAttempts
  BY DEF IpcSound, L!TypeOK, L!PendingRequest
<1> QED
  BY <1>1 DEF L!Connection, L!Connections

LEMMA OnlyTheLastLives ==
  ASSUME L!IpcAssumption, IpcSound, NEW n \in L!Connections, Live(n)
  PROVE  /\ n = L!Connection(n[1]) /\ "server" \in wire[n].ends
         /\ \E waits \in {"challenge", "proof", "request", "answer"} : Together(n, waits)
         /\ companion \notin {"launched", "ended"}
<1>1. n[1] \in Clients /\ n[2] = exchanges[n[1]].attempt /\ "server" \in wire[n].ends
  BY DEF IpcSound, LiveSound, L!Connections
<1>2. n = L!Connection(n[1])
  BY <1>1, ConnectionsAre
<1>3. n # None
  BY DEF L!IpcAssumption, L!Connections
<1>4. CASE served.of = n
  <2>1. Together(n, served.waits)
    BY <1>4 DEF IpcSound, LiveSound
  <2>2. served.waits \in {"challenge", "proof", "request", "answer"}
    BY <2>1 DEF Together, TogetherIs
  <2> QED
    BY <1>1, <1>2, <1>3, <1>4, <2>1, <2>2 DEF IpcSound, LiveSound
<1>5. CASE \E j \in DOMAIN backlog : backlog[j] = n
  <2>1. Together(n, "challenge") /\ backlog # <<>>
    BY <1>5 DEF IpcSound, LiveSound
  <2> QED
    BY <1>1, <1>2, <2>1 DEF IpcSound, LiveSound
<1> QED
  BY <1>4, <1>5 DEF Live

(* A caller that does something changes its own connection only.           *)
LEMMA CallerStep ==
  ASSUME L!IpcAssumption, IpcSound, NEW c \in Clients, NEW n, n = L!Connection(c),
         UNCHANGED <<companion, socket, backlog, served, handled>>,
         NEW k \in L!PendingRequest, exchanges' = [exchanges EXCEPT ![c] = k],
         wire' \in Wires, \A m \in L!Connections \ {n} : wire'[m] = wire[m],
         Live(n) =>
           /\ k.attempt = exchanges[c].attempt /\ "server" \in wire'[n].ends
           /\ \A waits \in {"challenge", "proof", "request", "answer"} :
                Together(n, waits) =>
                  TogetherIs(n, waits, k.step, wire'[n].up, wire'[n].down, handled[c]),
         ExchangeSound(c)'
  PROVE  IpcSound'
<1>1. /\ n \in L!Connections /\ n[1] = c /\ n[2] = exchanges[c].attempt
      /\ \A m \in L!Connections : m[1] \in Clients /\ m = <<m[1], m[2]>>
  BY ConnectionsAre
<1>2. /\ exchanges' \in [Clients -> L!PendingRequest] /\ exchanges'[c] = k
      /\ \A d \in Clients \ {c} : exchanges'[d] = exchanges[d]
  BY DEF IpcSound, L!TypeOK
<1>3. L!TypeOK'
  BY <1>2 DEF IpcSound, L!TypeOK
<1>4. \A m \in L!Connections : Live(m)' <=> Live(m)
  BY DEF Live
<1>5. \A d \in Clients \ {c} : ExchangeSound(d)'
  <2> TAKE d \in Clients \ {c}
  <2>1. PICK m \in L!Connections \ {n} : m = L!Connection(d)
    BY <1>1, ConnectionsAre
  <2>2. m = L!Connection(d)' /\ wire'[m] = wire[m]
    BY <1>2, <2>1 DEF L!Connection
  <2>3. ExchangeSound(d)
    BY DEF IpcSound
  <2> QED
    BY <1>2, <1>4, <2>1, <2>2, <2>3 DEF ExchangeSound, ExchangeIs
<1>6. ASSUME NEW m \in L!Connections \ {n}, Live(m)
      PROVE  /\ m[1] \in Clients \ {c} /\ m[2] = exchanges'[m[1]].attempt
             /\ "server" \in wire'[m].ends
             /\ \A waits : Together(m, waits) => Together(m, waits)'
  <2>1. m = L!Connection(m[1]) /\ "server" \in wire[m].ends
    BY <1>6, OnlyTheLastLives
  <2>2. m[1] \in Clients \ {c}
    BY <1>1, <2>1
  <2>3. exchanges'[m[1]] = exchanges[m[1]] /\ m[2] = exchanges[m[1]].attempt
    BY <1>2, <2>1, <2>2, ConnectionsAre
  <2>4. wire'[m] = wire[m]
    OBVIOUS
  <2> QED
    BY <2>1, <2>2, <2>3, <2>4 DEF Together
<1>7. ASSUME Live(n), NEW waits \in {"challenge", "proof", "request", "answer"},
             Together(n, waits)
      PROVE  Together(n, waits)'
  BY <1>1, <1>2, <1>7 DEF Together
<1>8. ASSUME NEW m \in L!Connections, Live(m)
      PROVE  m[2] = exchanges'[m[1]].attempt /\ "server" \in wire'[m].ends
  BY <1>1, <1>2, <1>6, <1>8
<1>9. ASSUME NEW m \in L!Connections, served.of = m
      PROVE  Together(m, served.waits)'
  <2>1. Together(m, served.waits) /\ Live(m)
    BY <1>9 DEF IpcSound, LiveSound, Live
  <2>2. served.waits \in {"challenge", "proof", "request", "answer"}
    BY <2>1 DEF Together, TogetherIs
  <2>3. PICK waits \in {"challenge", "proof", "request", "answer"} : waits = served.waits
    BY <2>2
  <2>4. Together(m, waits)'
    BY <1>6, <1>7, <2>1, <2>3
  <2> QED
    BY <2>3, <2>4 DEF Together
<1>10. ASSUME NEW j \in DOMAIN backlog
       PROVE  Together(backlog[j], "challenge")'
  <2>1. PICK m \in L!Connections : m = backlog[j]
    BY DEF IpcSound, L!TypeOK
  <2>2. Together(m, "challenge") /\ Live(m)
    BY <2>1 DEF IpcSound, LiveSound, Live
  <2>3. Together(m, "challenge")'
    BY <1>6, <1>7, <2>2
  <2>4. backlog'[j] = backlog[j]
    OBVIOUS
  <2> QED
    BY <2>1, <2>3, <2>4 DEF Together
<1>11. LiveSound'
  BY <1>4, <1>8, <1>9, <1>10 DEF IpcSound, LiveSound
<1> QED
  BY <1>3, <1>5, <1>11 DEF IpcSound

LEMMA ClosedIs ==
  ASSUME IpcSound, NEW c \in Clients, NEW n, n = L!Connection(c), wire' = L!Close(c, wire)
  PROVE  /\ wire' \in Wires /\ \A m \in L!Connections \ {n} : wire'[m] = wire[m]
         /\ wire'[n].up = wire[n].up /\ wire'[n].down = wire[n].down
         /\ wire'[n].ends = wire[n].ends \ {"client"}
<1>1. n \in L!Connections
  BY ConnectionsAre
<1>2. wire \in Wires
  BY DEF IpcSound
<1>3. PICK e \in SUBSET {"client", "server"} : e = wire[n].ends \ {"client"}
  BY <1>1, <1>2 DEF Wires
<1>4. wire' = [wire EXCEPT ![n].ends = e]
  BY <1>3 DEF L!Close
<1> QED
  BY <1>1, <1>2, <1>3, <1>4 DEF Wires

LEMMA FailedStep ==
  ASSUME L!IpcAssumption, IpcSound, NEW c \in Clients,
         UNCHANGED <<companion, socket, backlog, served, handled>>,
         NEW error \in L!Errors, L!Failed(c, error),
         error # "timeout" => handled[c] = 0 \/ companion = "ended",
         Live(L!Connection(c)) =>
           \/ error = "timeout" /\ exchanges[c].step \in Waiting
           \/ error = "authentication_failed" /\ exchanges[c].step = "challenge"
                /\ wire[L!Connection(c)].down # <<>>
  PROVE  IpcSound'
<1>1. PICK n \in L!Connections : n = L!Connection(c) /\ n[1] = c
  BY ConnectionsAre
<1>2. PICK attempt, s :
        attempt \in 1..MaxAttempts /\ attempt = exchanges[c].attempt /\ s = exchanges[c].step
        /\ exchanges[c] = [attempt |-> attempt, step |-> s]
  BY DEF IpcSound, L!TypeOK, L!PendingRequest
<1>3. /\ wire' \in Wires /\ \A m \in L!Connections \ {n} : wire'[m] = wire[m]
      /\ wire'[n].up = wire[n].up /\ wire'[n].down = wire[n].down
      /\ wire'[n].ends = wire[n].ends \ {"client"}
  BY <1>1, ClosedIs DEF L!Failed
<1>4. PICK k : k = IF error \in {"closed", "peer_validation_failed"} /\ attempt < MaxAttempts
                   THEN [attempt |-> attempt + 1, step |-> "connect"]
                   ELSE [attempt |-> attempt, step |-> error]
  OBVIOUS
<1>5. [exchanges[c] EXCEPT !.step = error] = [attempt |-> attempt, step |-> error]
  BY <1>2
<1>6. exchanges' = [exchanges EXCEPT ![c] = k]
  BY <1>2, <1>4, <1>5 DEF L!Failed
<1>7. /\ k \in L!PendingRequest /\ k.step \in {"connect", error}
      /\ k.step = "connect" => error # "timeout"
      /\ error \in {"timeout", "authentication_failed"} =>
           k.attempt = attempt /\ k.step = error
  <2>1. CASE error \in {"closed", "peer_validation_failed"} /\ attempt < MaxAttempts
    <3>1. k = [attempt |-> attempt + 1, step |-> "connect"]
      BY <1>4, <2>1
    <3>2. attempt + 1 \in 1..MaxAttempts
      BY <1>2, <2>1 DEF L!IpcAssumption
    <3> QED
      BY <2>1, <3>1, <3>2 DEF L!PendingRequest
  <2>2. CASE ~(error \in {"closed", "peer_validation_failed"} /\ attempt < MaxAttempts)
    <3>1. k = [attempt |-> attempt, step |-> error] /\ error # "connect"
      BY <1>4, <2>2 DEF L!Errors
    <3> QED
      BY <1>2, <3>1 DEF L!PendingRequest
  <2> QED
    BY <2>1, <2>2
<1>8. exchanges'[c] = k
  BY <1>6 DEF IpcSound, L!TypeOK
<1>9. handled[c] \in {0, 1} /\ (handled[c] = 1 => c \in Informed)
  BY <1>1 DEF IpcSound, ExchangeSound, ExchangeIs
<1>10. ExchangeSound(c)'
  <2>1. PICK m : m = L!Connection(c)' /\ m[1] = c
    <3>1. L!Connection(c)' = <<c, exchanges'[c].attempt>>
      BY DEF L!Connection
    <3>2. PICK a : a = exchanges'[c].attempt
      OBVIOUS
    <3>3. L!Connection(c)' = <<c, a>> /\ <<c, a>>[1] = c
      BY <3>1, <3>2
    <3> QED
      BY <3>3
  <2>2. k.step \in {"connect", "closed", "peer_validation_failed", "authentication_failed",
                    "timeout"}
    BY <1>7 DEF L!Errors
  <2>3. k.step # "timeout" => handled[c] = 0 \/ companion = "ended"
    BY <1>7, <2>2
  <2> QED
    BY <1>8, <1>9, <2>1, <2>2, <2>3 DEF ExchangeSound, ExchangeIs, Waiting
<1>11. ASSUME Live(n)
       PROVE  /\ k.attempt = exchanges[c].attempt /\ "server" \in wire'[n].ends
              /\ \A waits \in {"challenge", "proof", "request", "answer"} :
                   Together(n, waits) =>
                     TogetherIs(n, waits, k.step, wire'[n].up, wire'[n].down, handled[c])
  <2>1. k.attempt = exchanges[c].attempt /\ k.step = error
    BY <1>1, <1>2, <1>7, <1>11
  <2>2. "server" \in wire'[n].ends
    BY <1>3, <1>11, OnlyTheLastLives
  <2>3. ASSUME NEW waits \in {"challenge", "proof", "request", "answer"}, Together(n, waits)
        PROVE  TogetherIs(n, waits, k.step, wire'[n].up, wire'[n].down, handled[c])
    <3>1. CASE error = "timeout" /\ exchanges[c].step \in Waiting
      BY <1>1, <1>3, <2>1, <2>3, <3>1 DEF Together, TogetherIs, Waiting
    <3>2. CASE /\ error = "authentication_failed" /\ exchanges[c].step = "challenge"
               /\ wire[n].down # <<>>
      BY <1>1, <1>3, <2>1, <2>3, <3>2 DEF Together, TogetherIs
    <3> QED
      BY <1>1, <1>11, <3>1, <3>2
  <2> QED
    BY <2>1, <2>2, <2>3
<1> QED
  BY <1>1, <1>3, <1>6, <1>7, <1>10, <1>11, CallerStep

LEMMA TimeOutKeeps ==
  ASSUME L!IpcAssumption, IpcSound, NEW c \in Clients, L!TimeOut(c)
  PROVE  IpcSound'
BY FailedStep DEF L!TimeOut, L!server, L!Errors, Waiting

LEMMA ConnectionClosesKeeps ==
  ASSUME L!IpcAssumption, IpcSound, NEW c \in Clients, L!ConnectionCloses(c)
  PROVE  IpcSound'
<1>1. /\ exchanges[c].step \in Waiting /\ wire[L!Connection(c)].down = <<>>
      /\ "server" \notin wire[L!Connection(c)].ends /\ L!Failed(c, "closed")
      /\ UNCHANGED <<companion, socket, backlog, served, handled>>
  BY DEF L!ConnectionCloses, L!server, Waiting
<1>2. ~Live(L!Connection(c))
  BY <1>1, OnlyTheLastLives, ConnectionsAre
<1>3. handled[c] = 0 \/ companion = "ended"
  <2>1. ExchangeSound(c)
    BY DEF IpcSound
  <2> QED
    BY <1>1, <1>2, <2>1 DEF ExchangeSound, ExchangeIs, Waiting
<1> QED
  BY <1>1, <1>2, <1>3, FailedStep DEF L!Errors

LEMMA OneFrame ==
  ASSUME NEW set, NEW f \in set
  PROVE  /\ Append(<<>>, f) = <<f>> /\ Head(<<f>>) = f /\ Tail(<<f>>) = <<>>
         /\ <<f>> # <<>> /\ <<f>> \in Seq(set) /\ <<>> \in Seq(set)
OBVIOUS

LEMMA FramesAre ==
  ASSUME L!IpcAssumption, NEW n \in L!Connections,
         NEW role \in {"server", "client"}, NEW secret \in {"launch", "other"}
  PROVE  /\ \A kind \in {"challenge", "response", "proof", "ack", "request", "answered",
                         "remote_error"} :
              /\ L!Frame(kind, None) \in Frames
              /\ L!Frame(kind, L!Mac(secret, role, n)) \in Frames
              /\ L!Frame(kind, None).kind = kind
              /\ L!Frame(kind, L!Mac(secret, role, n)).mac = L!Mac(secret, role, n)
BY DEF L!Frame, L!Mac, Frames, Tokens

(* The next frame to the Companion goes up, and the one from it is read.   *)
LEMMA SentIs ==
  ASSUME IpcSound, NEW n \in L!Connections, NEW f \in Frames,
         wire' = [[wire EXCEPT ![n].down = Tail(@)] EXCEPT ![n].up = Append(@, f)],
         wire[n].down # <<>>
  PROVE  /\ wire' \in Wires /\ \A m \in L!Connections \ {n} : wire'[m] = wire[m]
         /\ wire'[n].up = Append(wire[n].up, f) /\ wire'[n].down = Tail(wire[n].down)
         /\ wire'[n].ends = wire[n].ends
<1>1. wire \in Wires
  BY DEF IpcSound
<1>2. PICK d \in Seq(Frames) : d = Tail(wire[n].down)
  BY <1>1 DEF Wires
<1>3. PICK u \in Seq(Frames) : u = Append(wire[n].up, f)
  BY <1>1 DEF Wires
<1> DEFINE mid == [wire EXCEPT ![n].down = d]
<1>4. /\ mid \in Wires /\ \A m \in L!Connections \ {n} : mid[m] = wire[m]
      /\ mid[n].up = wire[n].up /\ mid[n].down = d /\ mid[n].ends = wire[n].ends
  BY <1>1 DEF Wires
<1>5. wire' = [mid EXCEPT ![n].up = Append(@, f)]
  BY <1>2
<1> HIDE DEF mid
<1>6. wire' = [mid EXCEPT ![n].up = u]
  BY <1>3, <1>4, <1>5
<1>7. /\ wire' \in Wires /\ \A m \in L!Connections \ {n} : wire'[m] = mid[m]
      /\ wire'[n].up = u /\ wire'[n].down = mid[n].down /\ wire'[n].ends = mid[n].ends
  BY <1>4, <1>6 DEF Wires
<1> QED
  BY <1>2, <1>3, <1>4, <1>7

LEMMA FrameStep ==
  ASSUME IpcSound, NEW c \in Clients,
         NEW s \in {"connect", "challenge", "proof", "request", "answered", "remote_error"},
         exchanges' = [exchanges EXCEPT ![c].step = s]
  PROVE  \E k \in L!PendingRequest :
           /\ k.attempt = exchanges[c].attempt /\ k.step = s
           /\ exchanges' = [exchanges EXCEPT ![c] = k] /\ exchanges'[c] = k
<1>1. exchanges \in [Clients -> L!PendingRequest]
  BY DEF IpcSound, L!TypeOK
<1>2. PICK k : k = [attempt |-> exchanges[c].attempt, step |-> s]
  OBVIOUS
<1>3. k \in L!PendingRequest /\ k.attempt = exchanges[c].attempt /\ k.step = s
  BY <1>1, <1>2 DEF L!PendingRequest
<1>4. exchanges[c] = [attempt |-> exchanges[c].attempt, step |-> exchanges[c].step]
  BY <1>1 DEF L!PendingRequest
<1>5. [exchanges[c] EXCEPT !.step = s] = k
  BY <1>2, <1>4
<1>6. exchanges' = [exchanges EXCEPT ![c] = k]
  BY <1>5
<1> QED
  BY <1>1, <1>3, <1>6

LEMMA ReadAndClosedIs ==
  ASSUME IpcSound, NEW c \in Clients, NEW n \in L!Connections, n = L!Connection(c),
         wire' = L!Close(c, [wire EXCEPT ![n].down = Tail(@)]), wire[n].down # <<>>
  PROVE  wire' \in Wires /\ \A m \in L!Connections \ {n} : wire'[m] = wire[m]
<1>1. wire \in Wires
  BY DEF IpcSound
<1>2. PICK d \in Seq(Frames) : d = Tail(wire[n].down)
  <2>1. PICK old : old = wire[n].down
    OBVIOUS
  <2>2. old \in Seq(Frames) /\ old # <<>>
    BY <1>1, <2>1 DEF Wires
  <2>3. Tail(old) \in Seq(Frames)
    BY <2>2
  <2> QED
    BY <2>1, <2>3
<1> DEFINE mid == [wire EXCEPT ![n].down = d]
<1>3. mid \in Wires /\ \A m \in L!Connections \ {n} : mid[m] = wire[m]
  BY <1>1 DEF Wires
<1>4. wire' = [mid EXCEPT ![n].ends = @ \ {"client"}]
  BY <1>2 DEF L!Close
<1> HIDE DEF mid
<1>5. PICK e \in SUBSET {"client", "server"} : e = mid[n].ends \ {"client"}
  BY <1>3 DEF Wires
<1>6. wire' = [mid EXCEPT ![n].ends = e]
  BY <1>4, <1>5
<1> QED
  BY <1>3, <1>6 DEF Wires

LEMMA SameConnection ==
  ASSUME NEW c \in Clients, NEW n, n = L!Connection(c), NEW k, exchanges'[c] = k,
         k.attempt = exchanges[c].attempt
  PROVE  L!Connection(c)' = n
BY DEF L!Connection

LEMMA AcceptResponseKeeps ==
  ASSUME L!IpcAssumption, IpcSound, NEW c \in Clients, L!AcceptResponse(c)
  PROVE  IpcSound'
<1>1. PICK n \in L!Connections : n = L!Connection(c) /\ n[1] = c
  BY ConnectionsAre
<1>2. /\ exchanges[c].step \in Waiting /\ wire[n].down # <<>>
      /\ UNCHANGED <<companion, socket, backlog, served, handled>>
  BY <1>1 DEF L!AcceptResponse, L!server, Waiting
<1>3. PICK frame : frame = Head(wire[n].down)
  OBVIOUS
<1>4. PICK s, down, h : s = exchanges[c].step /\ down = wire[n].down /\ h = handled[c]
  OBVIOUS
<1>5. ExchangeIs(n, s, down, "client" \in wire[n].ends, h, Live(n), companion = "ended")
  BY <1>1, <1>4 DEF IpcSound, ExchangeSound
<1>6. Live(n)' <=> Live(n)
  BY <1>2 DEF Live
<1>7. wire[n].up \in Seq(Frames) /\ wire \in Wires
  BY DEF IpcSound, Wires
<1>8. CASE s = "challenge" /\ L!Secret(c) = "launch"
  <2>1. PICK mac : mac = L!Mac("launch", "server", n)
    OBVIOUS
  <2>2. down = Sent("response", mac)
    BY <1>2, <1>4, <1>5, <1>8, <2>1 DEF ExchangeIs
  <2>3. frame.mac = mac /\ Tail(down) = <<>>
    BY <1>3, <1>4, <2>2, OneFrame DEF Sent, L!Frame
  <2>4. PICK f : f = L!Frame("proof", L!Mac("launch", "client", n))
    OBVIOUS
  <2>5. f \in Frames
    BY <2>4, FramesAre
  <2>6. /\ wire' = [[wire EXCEPT ![n].down = Tail(@)] EXCEPT ![n].up = Append(@, f)]
        /\ exchanges' = [exchanges EXCEPT ![c].step = "proof"]
    BY <1>1, <1>3, <1>4, <1>8, <2>1, <2>3, <2>4 DEF L!AcceptResponse
  <2>7. /\ wire' \in Wires /\ \A m \in L!Connections \ {n} : wire'[m] = wire[m]
        /\ wire'[n].up = Append(wire[n].up, f) /\ wire'[n].down = Tail(wire[n].down)
        /\ wire'[n].ends = wire[n].ends
    BY <1>2, <2>5, <2>6, SentIs
  <2>8. PICK k \in L!PendingRequest :
          /\ k.attempt = exchanges[c].attempt /\ k.step = "proof"
          /\ exchanges' = [exchanges EXCEPT ![c] = k] /\ exchanges'[c] = k
    BY <2>6, FrameStep
  <2>9. c \in Informed
    BY <1>8 DEF L!Secret
  <2>10. wire'[n].down = <<>>
    BY <1>4, <2>3, <2>7
  <2>11. ExchangeSound(c)'
    <3>1. L!Connection(c)' = n
      BY <1>1, <2>8, SameConnection
    <3>2. "client" \in wire'[n].ends
      BY <1>5, <1>8, <2>7 DEF ExchangeIs, Waiting
    <3> QED
      BY <1>1, <1>2, <1>4, <1>5, <1>8, <2>8, <2>9, <2>10, <3>1, <3>2
         DEF ExchangeSound, ExchangeIs
  <2>12. ASSUME NEW waits \in {"challenge", "proof", "request", "answer"}, Together(n, waits)
         PROVE  TogetherIs(n, waits, k.step, wire'[n].up, wire'[n].down, handled[c])
    <3>1. waits = "proof" /\ wire[n].up = <<>> /\ handled[c] = 0
      BY <1>1, <1>2, <1>4, <1>8, <2>12 DEF Together, TogetherIs
    <3>2. wire'[n].up = Sent("proof", L!Mac("launch", "client", n))
      BY <2>4, <2>5, <2>7, <3>1, OneFrame DEF Sent
    <3> QED
      BY <1>1, <2>8, <2>9, <2>10, <3>1, <3>2 DEF TogetherIs
  <2>13. Live(n) => "server" \in wire'[n].ends
    BY <2>7, OnlyTheLastLives
  <2> QED
    BY <1>1, <1>2, <2>7, <2>8, <2>11, <2>12, <2>13, CallerStep
<1>9. CASE s = "challenge" /\ L!Secret(c) # "launch"
  <2>1. down = Sent("response", L!Mac("launch", "server", n))
    BY <1>2, <1>4, <1>5, <1>9 DEF ExchangeIs
  <2>2. frame.mac = L!Mac("launch", "server", n)
    BY <1>3, <1>4, <2>1, OneFrame DEF Sent, L!Frame
  <2>3. frame.mac # L!Mac(L!Secret(c), "server", n)
    BY <1>9, <2>2 DEF L!Mac
  <2>4. L!Failed(c, "authentication_failed")
    BY <1>1, <1>3, <1>4, <1>9, <2>3 DEF L!AcceptResponse
  <2>5. handled[c] = 0 \/ companion = "ended"
    BY <1>4, <1>5, <1>9 DEF ExchangeIs
  <2> QED
    BY <1>1, <1>2, <1>4, <1>9, <2>4, <2>5, FailedStep DEF L!Errors
<1>10. CASE s = "proof"
  <2>1. PICK f : f = L!Frame("request", None)
    OBVIOUS
  <2>2. f \in Frames
    BY <2>1, FramesAre
  <2>3. /\ wire' = [[wire EXCEPT ![n].down = Tail(@)] EXCEPT ![n].up = Append(@, f)]
        /\ exchanges' = [exchanges EXCEPT ![c].step = "request"]
    BY <1>1, <1>4, <1>10, <2>1 DEF L!AcceptResponse
  <2>4. /\ wire' \in Wires /\ \A m \in L!Connections \ {n} : wire'[m] = wire[m]
        /\ wire'[n].up = Append(wire[n].up, f) /\ wire'[n].down = Tail(wire[n].down)
        /\ wire'[n].ends = wire[n].ends
    BY <1>2, <2>2, <2>3, SentIs
  <2>5. PICK k \in L!PendingRequest :
          /\ k.attempt = exchanges[c].attempt /\ k.step = "request"
          /\ exchanges' = [exchanges EXCEPT ![c] = k] /\ exchanges'[c] = k
    BY <2>3, FrameStep
  <2>6. down = Sent("ack", None) /\ c \in Informed
    BY <1>1, <1>2, <1>4, <1>5, <1>10 DEF ExchangeIs
  <2>7. wire'[n].down = <<>>
    BY <1>4, <2>4, <2>6, OneFrame DEF Sent
  <2>8. ExchangeSound(c)'
    <3>1. L!Connection(c)' = n
      BY <1>1, <2>5, SameConnection
    <3>2. "client" \in wire'[n].ends
      BY <1>5, <1>10, <2>4 DEF ExchangeIs, Waiting
    <3> QED
      BY <1>1, <1>2, <1>4, <1>5, <1>10, <2>5, <2>6, <2>7, <3>1, <3>2
         DEF ExchangeSound, ExchangeIs
  <2>9. ASSUME NEW waits \in {"challenge", "proof", "request", "answer"}, Together(n, waits)
        PROVE  TogetherIs(n, waits, k.step, wire'[n].up, wire'[n].down, handled[c])
    <3>1. waits = "request" /\ wire[n].up = <<>> /\ handled[c] = 0
      BY <1>1, <1>2, <1>4, <1>10, <2>9 DEF Together, TogetherIs
    <3>2. wire'[n].up = Sent("request", None)
      BY <2>1, <2>2, <2>4, <3>1, OneFrame DEF Sent
    <3> QED
      BY <1>1, <2>5, <2>6, <2>7, <3>1, <3>2 DEF TogetherIs
  <2>10. Live(n) => "server" \in wire'[n].ends
    BY <2>4, OnlyTheLastLives
  <2> QED
    BY <1>1, <1>2, <2>4, <2>5, <2>8, <2>9, <2>10, CallerStep
<1>11. CASE s = "request"
  <2>1. /\ wire' = L!Close(c, [wire EXCEPT ![n].down = Tail(@)])
        /\ exchanges' = [exchanges EXCEPT ![c].step = frame.kind]
    BY <1>1, <1>3, <1>4, <1>11 DEF L!AcceptResponse
  <2>2. h = 1 /\ down \in {Sent("answered", None), Sent("remote_error", None)}
    BY <1>2, <1>4, <1>5, <1>11 DEF ExchangeIs
  <2>3. PICK kind \in {"answered", "remote_error"} : down = Sent(kind, None)
    BY <2>2
  <2>4. frame.kind = kind
    BY <1>3, <1>4, <2>3, OneFrame DEF Sent, L!Frame
  <2>5. PICK k \in L!PendingRequest :
          /\ k.attempt = exchanges[c].attempt /\ k.step = kind
          /\ exchanges' = [exchanges EXCEPT ![c] = k] /\ exchanges'[c] = k
    <3>1. exchanges' = [exchanges EXCEPT ![c].step = kind]
      BY <2>1, <2>4
    <3>2. kind \in {"connect", "challenge", "proof", "request", "answered", "remote_error"}
      OBVIOUS
    <3> QED
      BY <3>1, <3>2, FrameStep
  <2>6. wire' \in Wires /\ \A m \in L!Connections \ {n} : wire'[m] = wire[m]
    BY <1>1, <1>2, <2>1, ReadAndClosedIs
  <2>7. ExchangeSound(c)'
    <3>1. L!Connection(c)' = n
      BY <1>1, <2>5, SameConnection
    <3> QED
      BY <1>1, <1>2, <1>4, <1>5, <2>2, <2>5, <3>1 DEF ExchangeSound, ExchangeIs, Waiting
  <2>8. ~Live(n)
    <3>1. ASSUME NEW waits \in {"challenge", "proof", "request", "answer"}, Together(n, waits)
          PROVE  FALSE
      BY <1>1, <1>2, <1>4, <1>11, <2>2, <3>1 DEF Together, TogetherIs
    <3> QED
      BY <3>1, OnlyTheLastLives
  <2> QED
    BY <1>1, <1>2, <2>5, <2>6, <2>7, <2>8, CallerStep
<1> QED
  BY <1>2, <1>4, <1>8, <1>9, <1>10, <1>11 DEF Waiting

LEMMA BacklogGrows ==
  ASSUME NEW n \in L!Connections, backlog \in Seq(L!Connections), backlog' = Append(backlog, n)
  PROVE  /\ backlog' \in Seq(L!Connections) /\ Len(backlog') = Len(backlog) + 1
         /\ Len(backlog) \in Nat
         /\ DOMAIN backlog = 1..Len(backlog) /\ DOMAIN backlog' = 1..(Len(backlog) + 1)
         /\ \A j \in 1..Len(backlog) : backlog'[j] = backlog[j]
         /\ backlog'[Len(backlog) + 1] = n
BY AppendProperties

(* The one action that makes a connection.                                 *)
LEMMA ConnectKeeps ==
  ASSUME L!IpcAssumption, IpcSound, NEW c \in Clients, L!Connect(c)
  PROVE  IpcSound'
<1>1. PICK n \in L!Connections : /\ n = L!Connection(c) /\ n[1] = c
                                 /\ n[2] = exchanges[c].attempt
  BY ConnectionsAre
<1>2. /\ exchanges[c].step = "connect"
      /\ UNCHANGED <<companion, socket, served, handled>>
  BY DEF L!Connect
<1>3. ~Live(n)
  <2>1. ASSUME NEW waits \in {"challenge", "proof", "request", "answer"}, Together(n, waits)
        PROVE  FALSE
    BY <1>1, <1>2, <2>1 DEF Together, TogetherIs
  <2> QED
    BY <2>1, OnlyTheLastLives
<1>4. ExchangeSound(c)
  BY DEF IpcSound
<1>5. /\ handled[c] = 0 \/ companion = "ended"
      /\ handled[c] \in {0, 1}
  BY <1>2, <1>4 DEF ExchangeSound, ExchangeIs
<1>6. CASE UNCHANGED backlog /\ L!Failed(c, "peer_validation_failed")
  BY <1>1, <1>2, <1>3, <1>5, <1>6, FailedStep DEF L!Errors
<1>7. CASE UNCHANGED backlog /\ L!Failed(c, "closed")
  BY <1>1, <1>2, <1>3, <1>5, <1>7, FailedStep DEF L!Errors
<1>8. CASE /\ companion \in {"serving", "stopping"}
           /\ backlog' = Append(backlog, L!Connection(c))
           /\ exchanges' = [exchanges EXCEPT ![c].step = "challenge"]
           /\ wire' = [wire EXCEPT ![L!Connection(c)] =
                [L!Silent EXCEPT !.up = <<L!Frame("challenge", None)>>,
                                 !.ends = {"client", "server"}]]
  <2>1. PICK k \in L!PendingRequest :
          /\ k.attempt = exchanges[c].attempt /\ k.step = "challenge"
          /\ exchanges' = [exchanges EXCEPT ![c] = k] /\ exchanges'[c] = k
    BY <1>8, FrameStep
  <2>2. \A d \in Clients \ {c} : exchanges'[d] = exchanges[d]
    BY <1>8 DEF IpcSound, L!TypeOK
  <2>3. PICK up : up = Sent("challenge", None)
    OBVIOUS
  <2>4. up \in Seq(Frames)
    BY <1>1, <2>3, FramesAre, OneFrame DEF Sent
  <2>5. PICK w : w = [up |-> up, down |-> <<>>, ends |-> {"client", "server"}]
    OBVIOUS
  <2>6. wire' = [wire EXCEPT ![n] = w]
    <3>1. [L!Silent EXCEPT !.up = <<L!Frame("challenge", None)>>,
                           !.ends = {"client", "server"}]
            = [L!Silent EXCEPT !.up = up, !.ends = {"client", "server"}]
      BY <2>3 DEF Sent
    <3>2. PICK both : both = {"client", "server"}
      OBVIOUS
    <3>3. PICK f : f = <<L!Frame("challenge", None)>>
      OBVIOUS
    <3>4. up = f
      BY <2>3, <3>3 DEF Sent
    <3>5. [L!Silent EXCEPT !.up = up, !.ends = both] = [up |-> up, down |-> <<>>, ends |-> both]
      <4>1. PICK nil, none : nil = <<>> /\ none = {} /\ L!Silent = [up |-> nil, down |-> nil, ends |-> none]
        BY DEF L!Silent
      <4>2. PICK one : one = [up |-> up, down |-> nil, ends |-> none]
        OBVIOUS
      <4>3. [[up |-> nil, down |-> nil, ends |-> none] EXCEPT !.up = up] = one
        BY <4>2
      <4>4. [one EXCEPT !.ends = both] = [up |-> up, down |-> nil, ends |-> both]
        BY <4>2
      <4> QED
        BY <4>1, <4>3, <4>4
    <3>6. wire' = [wire EXCEPT ![n] = [L!Silent EXCEPT !.up = f, !.ends = both]]
      BY <1>1, <1>8, <3>2, <3>3
    <3> QED
      BY <2>5, <3>2, <3>4, <3>5, <3>6
  <2>7. /\ wire' \in Wires /\ wire'[n] = w
        /\ \A m \in L!Connections \ {n} : wire'[m] = wire[m]
    <3>1. w \in [up : Seq(Frames), down : Seq(Frames), ends : SUBSET {"client", "server"}]
      BY <2>4, <2>5
    <3> QED
      BY <2>6, <3>1 DEF IpcSound, Wires
  <2>8. /\ wire'[n].up = up /\ wire'[n].down = <<>>
        /\ "client" \in wire'[n].ends /\ "server" \in wire'[n].ends
    BY <2>5, <2>7
  <2>9. /\ backlog' \in Seq(L!Connections) /\ Len(backlog') = Len(backlog) + 1
        /\ Len(backlog) \in Nat
        /\ DOMAIN backlog = 1..Len(backlog) /\ DOMAIN backlog' = 1..(Len(backlog) + 1)
        /\ \A j \in 1..Len(backlog) : backlog'[j] = backlog[j]
        /\ backlog'[Len(backlog) + 1] = n
    BY <1>1, <1>8, BacklogGrows DEF IpcSound, L!TypeOK
  <2>10. \A m \in L!Connections : Live(m)' <=> Live(m) \/ m = n
    BY <1>2, <2>9 DEF Live
  <2>11. handled[c] = 0
    BY <1>5, <1>8
  <2>12. ExchangeSound(c)'
    <3>1. L!Connection(c)' = n
      BY <1>1, <2>1, SameConnection
    <3> QED
      BY <1>2, <2>1, <2>8, <2>11, <3>1 DEF ExchangeSound, ExchangeIs, Waiting
  <2>13. ASSUME NEW d \in Clients \ {c}
         PROVE  ExchangeSound(d)'
    <3>1. PICK m \in L!Connections \ {n} : m = L!Connection(d)
      BY <1>1, ConnectionsAre
    <3>2. m = L!Connection(d)' /\ wire'[m] = wire[m]
      BY <2>2, <2>7, <3>1 DEF L!Connection
    <3>3. ExchangeSound(d)
      BY DEF IpcSound
    <3> QED
      BY <1>2, <2>2, <2>10, <3>1, <3>2, <3>3 DEF ExchangeSound, ExchangeIs
  <2>14. Together(n, "challenge")'
    BY <1>1, <1>2, <2>1, <2>3, <2>8, <2>11 DEF Together, TogetherIs
  <2>15. ASSUME NEW m \in L!Connections, Live(m)
         PROVE  /\ m # n /\ m[2] = exchanges'[m[1]].attempt /\ "server" \in wire'[m].ends
                /\ \A waits : Together(m, waits) => Together(m, waits)'
    <3>1. m = L!Connection(m[1]) /\ "server" \in wire[m].ends /\ m # n
      BY <1>3, <2>15, OnlyTheLastLives
    <3>2. m[1] \in Clients \ {c}
      BY <1>1, <3>1, ConnectionsAre
    <3>3. exchanges'[m[1]] = exchanges[m[1]] /\ m[2] = exchanges[m[1]].attempt
      BY <2>2, <3>1, <3>2, ConnectionsAre
    <3>4. wire'[m] = wire[m]
      BY <2>7, <3>1
    <3> QED
      BY <1>2, <3>1, <3>2, <3>3, <3>4 DEF Together
  <2>16. ASSUME NEW m \in L!Connections, Live(m)'
         PROVE  m[2] = exchanges'[m[1]].attempt /\ "server" \in wire'[m].ends
    BY <1>1, <2>1, <2>8, <2>10, <2>15, <2>16
  <2>17. ASSUME NEW m \in L!Connections, served.of = m
         PROVE  Together(m, served.waits)' /\ m # n
    <3>1. Together(m, served.waits) /\ Live(m)
      BY <2>17 DEF IpcSound, LiveSound, Live
    <3>2. PICK waits : waits = served.waits
      OBVIOUS
    <3>3. Together(m, waits)' /\ m # n
      BY <2>15, <3>1, <3>2
    <3> QED
      BY <1>2, <3>2, <3>3 DEF Together
  <2>18. ASSUME NEW j \in 1..Len(backlog)
         PROVE  /\ Together(backlog[j], "challenge")' /\ backlog[j] # n
                /\ served.of # backlog[j]
                /\ \A i \in 1..Len(backlog) : backlog[j] = backlog[i] => j = i
    <3>1. PICK m \in L!Connections : m = backlog[j]
      BY <2>9 DEF IpcSound, L!TypeOK
    <3>2. Together(m, "challenge") /\ Live(m)
      BY <2>9, <3>1 DEF IpcSound, LiveSound, Live
    <3>3. Together(m, "challenge")' /\ m # n
      BY <2>15, <3>2
    <3>4. backlog'[j] = backlog[j]
      BY <2>9
    <3> QED
      BY <2>9, <3>1, <3>3, <3>4 DEF IpcSound, LiveSound, Together
  <2>19. ASSUME NEW j \in DOMAIN backlog'
         PROVE  /\ Together(backlog[j], "challenge")' /\ served.of # backlog'[j]
                /\ \A i \in DOMAIN backlog' : backlog'[j] = backlog'[i] => j = i
    <3>1. CASE j \in 1..Len(backlog)
      <4>1. backlog'[j] = backlog[j]
        BY <2>9, <3>1
      <4>2. Together(backlog[j], "challenge")' /\ backlog[j] # n /\ served.of # backlog[j]
        BY <2>18, <3>1
      <4>3. ASSUME NEW i \in DOMAIN backlog', backlog'[j] = backlog'[i]
            PROVE  j = i
        <5>1. i \in 1..Len(backlog)
          BY <2>9, <4>1, <4>2, <4>3
        <5> QED
          BY <2>9, <2>18, <3>1, <4>3, <5>1
      <4> QED
        BY <4>1, <4>2, <4>3
    <3>2. CASE j = Len(backlog) + 1
      <4>1. backlog'[j] = n
        BY <2>9, <3>2
      <4>2. Together(backlog[j], "challenge")'
        BY <2>14, <4>1 DEF Together
      <4>3. served.of # n
        BY <1>3 DEF Live
      <4>4. ASSUME NEW i \in DOMAIN backlog', backlog'[j] = backlog'[i]
            PROVE  j = i
        <5>1. i \notin 1..Len(backlog)
          BY <2>9, <2>18, <4>1, <4>4
        <5> QED
          BY <2>9, <3>2, <5>1
      <4> QED
        BY <4>1, <4>2, <4>3, <4>4
    <3> QED
      BY <2>9, <3>1, <3>2
  <2>20. LiveSound'
    <3>1. /\ companion' \in {"launched", "ended"} => served'.of = None /\ backlog' = <<>>
          /\ socket' = "private" => companion' # "launched"
      BY <1>2, <1>8
    <3>2. \A m \in L!Connections : served'.of = m => Together(m, served.waits)'
      BY <1>2, <2>17
    <3>3. served' = served
      BY <1>2
    <3> QED
      BY <2>16, <2>19, <3>1, <3>2, <3>3 DEF LiveSound
  <2>21. L!TypeOK'
    BY <1>2, <2>1, <2>9 DEF IpcSound, L!TypeOK
  <2> QED
    BY <1>2, <2>7, <2>12, <2>13, <2>20, <2>21 DEF IpcSound
<1> QED
  BY <1>1, <1>2, <1>6, <1>7, <1>8 DEF L!Connect

(***************************************************************************)
(* The Companion's side of a connection.                                   *)
(***************************************************************************)
LEMMA HangUpIs ==
  ASSUME NEW w \in Wires, wire' = L!HangUp(w)
  PROVE  /\ wire' \in Wires
         /\ \A m \in L!Connections :
              /\ wire'[m].up = w[m].up /\ wire'[m].down = w[m].down
              /\ "client" \in wire'[m].ends <=> "client" \in w[m].ends
<1>1. \A m \in L!Connections :
        /\ wire'[m] = [w[m] EXCEPT !.ends = @ \ {"server"}]
        /\ w[m] \in [up : Seq(Frames), down : Seq(Frames), ends : SUBSET {"client", "server"}]
  BY DEF L!HangUp, Wires
<1>2. \A m \in L!Connections :
        /\ wire'[m] \in [up : Seq(Frames), down : Seq(Frames), ends : SUBSET {"client", "server"}]
        /\ wire'[m].up = w[m].up /\ wire'[m].down = w[m].down
        /\ wire'[m].ends = w[m].ends \ {"server"}
  <2> TAKE m \in L!Connections
  <2>1. PICK r \in [up : Seq(Frames), down : Seq(Frames), ends : SUBSET {"client", "server"}] :
          r = w[m]
    BY <1>1
  <2>2. PICK e \in SUBSET {"client", "server"} : e = r.ends \ {"server"}
    OBVIOUS
  <2>3. wire'[m] = [r EXCEPT !.ends = e]
    BY <1>1, <2>1, <2>2
  <2> QED
    BY <2>1, <2>2, <2>3
<1>3. wire' \in Wires
  BY <1>2 DEF L!HangUp, Wires
<1> QED
  BY <1>2, <1>3

LEMMA ServerHangsUp ==
  ASSUME NEW w \in Wires, NEW n \in L!Connections,
         wire' = [w EXCEPT ![n].ends = @ \ {"server"}]
  PROVE  /\ wire' \in Wires /\ \A m \in L!Connections \ {n} : wire'[m] = w[m]
         /\ wire'[n].up = w[n].up /\ wire'[n].down = w[n].down
         /\ "client" \in wire'[n].ends <=> "client" \in w[n].ends
<1>1. PICK e \in SUBSET {"client", "server"} : e = w[n].ends \ {"server"}
  BY DEF Wires
<1>2. PICK v : v = [w EXCEPT ![n].ends = e]
  OBVIOUS
<1>3. v = wire'
  BY <1>1, <1>2
<1>4. /\ v \in Wires /\ \A m \in L!Connections \ {n} : v[m] = w[m]
      /\ v[n].up = w[n].up /\ v[n].down = w[n].down /\ v[n].ends = e
  BY <1>1, <1>2 DEF Wires
<1>5. "client" \in e <=> "client" \in w[n].ends
  BY <1>1
<1> QED
  BY <1>3, <1>4, <1>5

(* Whatever is under way when nothing lives any more.                      *)
LEMMA AllEnds ==
  ASSUME L!IpcAssumption, IpcSound, UNCHANGED <<exchanges, handled>>, wire' \in Wires,
         companion' = "ended", socket' \in {"absent", "open", "private"},
         backlog' = <<>>, served' = L!NoConnection,
         \A m \in L!Connections : "client" \in wire'[m].ends <=> "client" \in wire[m].ends,
         \A m \in L!Connections :
           \/ wire'[m].down = wire[m].down
           \/ /\ wire'[m].down \in {Sent("answered", None), Sent("remote_error", None)}
              /\ handled[m[1]] = 1 /\ exchanges[m[1]].step \in {"request", "timeout"}
  PROVE  IpcSound'
<1>1. L!TypeOK'
  BY DEF IpcSound, L!TypeOK, L!NoConnection
<1>2. served' \in [of : L!Connections \union {None},
                   waits : {"accept", "challenge", "proof", "request", "answer"}]
  BY DEF L!NoConnection
<1>3. ASSUME NEW d \in Clients
      PROVE  ExchangeSound(d)'
  <2>1. PICK m \in L!Connections : m = L!Connection(d) /\ m[1] = d
    BY ConnectionsAre
  <2>2. m = L!Connection(d)'
    BY <2>1 DEF L!Connection
  <2>3. ExchangeSound(d)
    BY DEF IpcSound
  <2> QED
    BY <2>1, <2>2, <2>3 DEF ExchangeSound, ExchangeIs
<1>4. served'.of = None /\ None \notin L!Connections
  BY DEF L!NoConnection, L!IpcAssumption, L!Connections
<1>5. LiveSound'
  <2>1. \A m \in L!Connections : ~Live(m)'
    BY <1>4 DEF Live
  <2> QED
    BY <1>4, <2>1 DEF LiveSound
<1> QED
  BY <1>1, <1>2, <1>3, <1>5 DEF IpcSound

LEMMA DropStep ==
  ASSUME L!IpcAssumption, IpcSound, NEW n \in L!Connections, served.of = n,
         NEW w \in Wires, \A m \in L!Connections \ {n} : w[m] = wire[m],
         w[n].ends = wire[n].ends, L!Drop(w), UNCHANGED handled,
         \/ w[n].down = wire[n].down /\ handled[n[1]] = 0
         \/ /\ served.waits = "answer"
            /\ \/ w[n].down = wire[n].down /\ "client" \notin wire[n].ends
               \/ w[n].down \in {Sent("answered", None), Sent("remote_error", None)}
  PROVE  IpcSound'
<1>1. Live(n) /\ n = L!Connection(n[1]) /\ n[1] \in Clients
  BY OnlyTheLastLives DEF Live, L!Connections
<1>2. UNCHANGED exchanges /\ served' = L!NoConnection
  BY DEF L!Drop
<1>3. Together(n, served.waits)
  BY DEF IpcSound, LiveSound
<1>4. \/ w[n].down = wire[n].down
         /\ \/ handled[n[1]] = 0
            \/ exchanges[n[1]].step = "timeout" /\ handled[n[1]] = 1
      \/ /\ w[n].down \in {Sent("answered", None), Sent("remote_error", None)}
         /\ handled[n[1]] = 1 /\ exchanges[n[1]].step \in {"request", "timeout"}
  <2>1. CASE w[n].down = wire[n].down /\ handled[n[1]] = 0
    BY <2>1
  <2>2. CASE served.waits = "answer"
    <3>1. exchanges[n[1]].step \in {"request", "timeout"} /\ handled[n[1]] = 1
      BY <1>3, <2>2 DEF Together, TogetherIs
    <3>2. ExchangeSound(n[1])
      BY <1>1 DEF IpcSound
    <3>3. exchanges[n[1]].step = "request" => "client" \in wire[n].ends
      BY <1>1, <3>2 DEF ExchangeSound, ExchangeIs, Waiting
    <3>4. \/ w[n].down = wire[n].down /\ "client" \notin wire[n].ends
          \/ w[n].down \in {Sent("answered", None), Sent("remote_error", None)}
      BY <3>1
    <3> QED
      BY <3>1, <3>3, <3>4
  <2> QED
    BY <2>1, <2>2
<1>5. \A m \in L!Connections : "client" \in w[m].ends <=> "client" \in wire[m].ends
  OBVIOUS
<1>6. CASE companion = "stopping"
  <2>1. /\ companion' = "ended" /\ socket' = "absent" /\ backlog' = <<>>
        /\ wire' = L!HangUp(w)
    BY <1>6 DEF L!Drop
  <2>2. /\ wire' \in Wires
        /\ \A m \in L!Connections :
             /\ wire'[m].up = w[m].up /\ wire'[m].down = w[m].down
             /\ "client" \in wire'[m].ends <=> "client" \in w[m].ends
    BY <2>1, HangUpIs
  <2>3. \A m \in L!Connections :
           \/ wire'[m].down = wire[m].down
           \/ /\ wire'[m].down \in {Sent("answered", None), Sent("remote_error", None)}
              /\ handled[m[1]] = 1 /\ exchanges[m[1]].step \in {"request", "timeout"}
    BY <1>4, <2>2
  <2> QED
    BY <1>2, <1>5, <2>1, <2>2, <2>3, AllEnds
<1>7. CASE companion # "stopping"
  <2>1. /\ UNCHANGED <<companion, socket, backlog>>
        /\ wire' = [w EXCEPT ![n].ends = @ \ {"server"}]
    BY <1>7 DEF L!Drop
  <2>2. /\ wire' \in Wires /\ \A m \in L!Connections \ {n} : wire'[m] = w[m]
        /\ wire'[n].up = w[n].up /\ wire'[n].down = w[n].down
        /\ "client" \in wire'[n].ends <=> "client" \in w[n].ends
    BY <2>1, ServerHangsUp
  <2>3. served'.of = None /\ None \notin L!Connections
    BY <1>2 DEF L!NoConnection, L!IpcAssumption, L!Connections
  <2>4. \A j \in DOMAIN backlog : backlog[j] # n
    BY DEF IpcSound, LiveSound
  <2>5. \A m \in L!Connections \ {n} : Live(m)' <=> Live(m)
    BY <2>1, <2>3 DEF Live
  <2>6. ~Live(n)'
    BY <2>1, <2>3, <2>4 DEF Live
  <2>7. ASSUME NEW d \in Clients
        PROVE  ExchangeSound(d)'
    <3>1. PICK m \in L!Connections : m = L!Connection(d) /\ m[1] = d
      BY ConnectionsAre
    <3>2. m = L!Connection(d)'
      BY <1>2, <3>1 DEF L!Connection
    <3>3. ExchangeSound(d)
      BY DEF IpcSound
    <3>4. CASE m # n
      <4>1. wire'[m] = wire[m]
        BY <2>2, <3>4
      <4> QED
        BY <1>2, <2>1, <2>5, <3>1, <3>2, <3>3, <3>4, <4>1 DEF ExchangeSound, ExchangeIs
    <3>5. CASE m = n
      <4>1. CASE /\ w[n].down = wire[n].down
                 /\ \/ handled[n[1]] = 0
                    \/ exchanges[n[1]].step = "timeout" /\ handled[n[1]] = 1
        BY <1>2, <2>1, <2>2, <3>1, <3>2, <3>3, <3>5, <4>1
           DEF ExchangeSound, ExchangeIs, Waiting
      <4>2. CASE /\ w[n].down \in {Sent("answered", None), Sent("remote_error", None)}
                 /\ handled[n[1]] = 1 /\ exchanges[n[1]].step \in {"request", "timeout"}
        <5>1. w[n].down # <<>>
          BY <4>2, OneFrame DEF Sent
        <5> QED
          BY <1>2, <2>1, <2>2, <3>1, <3>2, <3>3, <3>5, <4>2, <5>1
             DEF ExchangeSound, ExchangeIs, Waiting
      <4> QED
        BY <1>4, <4>1, <4>2
    <3> QED
      BY <3>4, <3>5
  <2>8. LiveSound'
    <3>1. ASSUME NEW m \in L!Connections, Live(m)'
          PROVE  m[2] = exchanges'[m[1]].attempt /\ "server" \in wire'[m].ends
      <4>1. Live(m) /\ m # n
        BY <2>5, <2>6, <3>1
      <4> QED
        BY <1>2, <2>2, <4>1 DEF IpcSound, LiveSound
    <3>2. \A m \in L!Connections : served'.of # m
      BY <2>3
    <3>3. ASSUME NEW j \in DOMAIN backlog
          PROVE  Together(backlog[j], "challenge")' /\ served'.of # backlog'[j]
      <4>1. PICK m \in L!Connections : m = backlog[j]
        BY DEF IpcSound, L!TypeOK
      <4>2. Together(m, "challenge") /\ m # n
        BY <2>4, <4>1 DEF IpcSound, LiveSound
      <4>3. wire'[m] = wire[m]
        BY <2>2, <4>2
      <4> QED
        BY <1>2, <2>1, <2>3, <4>1, <4>2, <4>3 DEF Together
    <3>4. \A j, k \in DOMAIN backlog : backlog[j] = backlog[k] => j = k
      BY DEF IpcSound, LiveSound
    <3>5. companion \notin {"launched", "ended"} /\ companion' = companion /\ backlog' = backlog
      BY <1>1, <2>1, OnlyTheLastLives
    <3>6. companion' \notin {"launched", "ended"}
      BY <3>5
    <3> QED
      BY <3>1, <3>2, <3>3, <3>4, <3>5, <3>6 DEF LiveSound
  <2>9. L!TypeOK'
    BY <1>2, <2>1 DEF IpcSound, L!TypeOK, L!NoConnection
  <2>10. served' \in [of : L!Connections \union {None},
                      waits : {"accept", "challenge", "proof", "request", "answer"}]
    BY <1>2 DEF L!NoConnection
  <2> QED
    BY <2>2, <2>7, <2>8, <2>9, <2>10 DEF IpcSound
<1> QED
  BY <1>6, <1>7

LEMMA ServerStep ==
  ASSUME L!IpcAssumption, IpcSound, NEW n \in L!Connections, served.of = n,
         UNCHANGED <<companion, socket, backlog, exchanges>>,
         NEW waits \in {"proof", "request", "answer"}, served' = [of |-> n, waits |-> waits],
         wire' \in Wires, \A m \in L!Connections \ {n} : wire'[m] = wire[m],
         wire'[n].ends = wire[n].ends,
         handled' \in [Clients -> Nat],
         \A d \in Clients \ {n[1]} : handled'[d] = handled[d],
         TogetherIs(n, waits, exchanges[n[1]].step, wire'[n].up, wire'[n].down,
                    handled'[n[1]]),
         ExchangeSound(n[1])'
  PROVE  IpcSound'
<1>1. Live(n) /\ n = L!Connection(n[1]) /\ n[1] \in Clients /\ "server" \in wire[n].ends
  BY OnlyTheLastLives DEF Live, L!Connections
<1>2. \A m \in L!Connections : Live(m)' <=> Live(m)
  BY DEF Live
<1>3. ASSUME NEW m \in L!Connections \ {n}, Live(m)
      PROVE  m[1] \in Clients \ {n[1]}
  <2>1. m = L!Connection(m[1]) /\ m[1] \in Clients
    BY <1>3, OnlyTheLastLives, <1>1, ConnectionsAre
  <2> QED
    BY <1>1, <2>1
<1>4. ASSUME NEW d \in Clients \ {n[1]}
      PROVE  ExchangeSound(d)'
  <2>1. PICK m \in L!Connections \ {n} : m = L!Connection(d) /\ m[1] = d
    BY <1>1, ConnectionsAre
  <2>2. m = L!Connection(d)' /\ wire'[m] = wire[m]
    BY <2>1 DEF L!Connection
  <2>3. ExchangeSound(d)
    BY DEF IpcSound
  <2> QED
    BY <1>2, <2>1, <2>2, <2>3 DEF ExchangeSound, ExchangeIs
<1>5. LiveSound'
  <2>1. ASSUME NEW m \in L!Connections, Live(m)'
        PROVE  m[2] = exchanges'[m[1]].attempt /\ "server" \in wire'[m].ends
    <3>1. m[2] = exchanges[m[1]].attempt /\ "server" \in wire[m].ends
      BY <1>2, <2>1 DEF IpcSound, LiveSound
    <3> QED
      BY <3>1
  <2>2. Together(n, served.waits)'
    BY DEF Together
  <2>3. ASSUME NEW j \in DOMAIN backlog
        PROVE  Together(backlog[j], "challenge")' /\ backlog[j] # n
    <3>1. PICK m \in L!Connections : m = backlog[j]
      BY DEF IpcSound, L!TypeOK
    <3>2. Together(m, "challenge") /\ Live(m) /\ m # n
      BY <3>1 DEF IpcSound, LiveSound, Live
    <3>3. m[1] \in Clients \ {n[1]} /\ wire'[m] = wire[m]
      BY <1>3, <3>2
    <3>4. Together(m, "challenge")'
      BY <3>2, <3>3 DEF Together
    <3>5. backlog'[j] = backlog[j]
      OBVIOUS
    <3> QED
      BY <3>1, <3>2, <3>4, <3>5 DEF Together
  <2>4. \A j, k \in DOMAIN backlog : backlog[j] = backlog[k] => j = k
    BY DEF IpcSound, LiveSound
  <2>5. companion' \notin {"launched", "ended"}
    BY <1>1, OnlyTheLastLives
  <2>6. served'.of = n
    OBVIOUS
  <2>7. \A m \in L!Connections : served'.of = m => Together(m, served.waits)'
    BY <2>2, <2>6 DEF Together
  <2> QED
    BY <2>1, <2>3, <2>4, <2>5, <2>6, <2>7 DEF LiveSound
<1>6. L!TypeOK'
  <2>1. n # None
    BY DEF L!IpcAssumption, L!Connections
  <2>2. served'.of = n /\ served'.waits # "accept"
    OBVIOUS
  <2> QED
    BY <2>1, <2>2 DEF IpcSound, L!TypeOK
<1> QED
  BY <1>4, <1>5, <1>6 DEF IpcSound

(* The first frame is taken.                                               *)
LEMMA TakenIs ==
  ASSUME IpcSound, served.of \in L!Connections, wire[served.of].up # <<>>, NEW w, w = L!Take
  PROVE  /\ w \in Wires /\ \A m \in L!Connections \ {served.of} : w[m] = wire[m]
         /\ w[served.of].up = Tail(wire[served.of].up)
         /\ w[served.of].down = wire[served.of].down
         /\ w[served.of].ends = wire[served.of].ends
<1>1. PICK n \in L!Connections : n = served.of
  OBVIOUS
<1>2. PICK v \in Wires : v = wire
  BY DEF IpcSound
<1>3. PICK old \in Seq(Frames) : old = v[n].up /\ old # <<>>
  BY <1>1, <1>2 DEF Wires
<1>4. PICK u \in Seq(Frames) : u = Tail(old)
  <2>1. Tail(old) \in Seq(Frames)
    BY <1>3
  <2> QED
    BY <2>1
<1>5. w = [v EXCEPT ![n].up = u]
  BY <1>1, <1>2, <1>3, <1>4 DEF L!Take
<1>6. /\ w \in Wires /\ \A m \in L!Connections \ {n} : w[m] = v[m]
      /\ w[n].up = u /\ w[n].down = v[n].down /\ w[n].ends = v[n].ends
  BY <1>5 DEF Wires
<1> QED
  BY <1>1, <1>2, <1>3, <1>4, <1>6

(* A frame goes down.                                                      *)
Added(w, n, f) == [w EXCEPT ![n].down = Append(@, f)]

LEMMA AddedIs ==
  ASSUME NEW w \in Wires, NEW n \in L!Connections, NEW f \in Frames, NEW v,
         v = Added(w, n, f)
  PROVE  /\ v \in Wires /\ \A m \in L!Connections \ {n} : v[m] = w[m]
         /\ v[n].up = w[n].up /\ v[n].ends = w[n].ends
         /\ w[n].down = <<>> => v[n].down = <<f>>
<1>1. PICK d \in Seq(Frames) : d = Append(w[n].down, f)
  <2>1. PICK old \in Seq(Frames) : old = w[n].down
    BY DEF Wires
  <2>2. Append(old, f) \in Seq(Frames)
    BY AppendProperties
  <2> QED
    BY <2>1, <2>2
<1>2. v = [w EXCEPT ![n].down = d]
  BY <1>1 DEF Added
<1>3. /\ v \in Wires /\ \A m \in L!Connections \ {n} : v[m] = w[m]
      /\ v[n].up = w[n].up /\ v[n].ends = w[n].ends /\ v[n].down = d
  BY <1>2 DEF Wires
<1> QED
  BY <1>1, <1>3, OneFrame

(* What the Companion knows of the connection it is on.                    *)
LEMMA ServedIs ==
  ASSUME L!IpcAssumption, IpcSound, served.of # None
  PROVE  \E n \in L!Connections :
           /\ n = served.of /\ Live(n) /\ n[1] \in Clients /\ n = L!Connection(n[1])
           /\ Together(n, served.waits)
           /\ ExchangeIs(n, exchanges[n[1]].step, wire[n].down, "client" \in wire[n].ends,
                         handled[n[1]], Live(n), companion = "ended")
           /\ served = [of |-> n, waits |-> served.waits]
<1>1. PICK n \in L!Connections : n = served.of
  BY DEF IpcSound, L!TypeOK
<1>2. Live(n) /\ n[1] \in Clients /\ n = L!Connection(n[1])
  BY <1>1, OnlyTheLastLives DEF Live, L!Connections
<1>3. Together(n, served.waits)
  BY <1>1 DEF IpcSound, LiveSound
<1>4. ExchangeSound(n[1])
  BY <1>2 DEF IpcSound
<1>5. served = [of |-> n, waits |-> served.waits]
  BY <1>1 DEF IpcSound
<1> QED
  BY <1>1, <1>2, <1>3, <1>4, <1>5 DEF ExchangeSound

(* A frame that is answered by another.                                    *)
LEMMA ReplyStep ==
  ASSUME L!IpcAssumption, IpcSound, L!Incoming, UNCHANGED handled,
         NEW f \in Frames, NEW waits \in {"proof", "request"}, L!Reply(f, waits),
         NEW n \in L!Connections, n = served.of,
         handled[n[1]] = 0,
         /\ wire[n].down = <<>> /\ Tail(wire[n].up) = <<>>
         /\ TogetherIs(n, waits, exchanges[n[1]].step, <<>>, <<f>>, 0)
         /\ exchanges[n[1]].step = "challenge" =>
              <<f>> = Sent("response", L!Mac("launch", "server", n))
         /\ exchanges[n[1]].step = "proof" => <<f>> = Sent("ack", None)
         /\ exchanges[n[1]].step # "request"
  PROVE  IpcSound'
<1>1. PICK w : w = L!Take
  OBVIOUS
<1>2. /\ w \in Wires /\ \A m \in L!Connections \ {n} : w[m] = wire[m]
      /\ w[n].up = <<>> /\ w[n].down = wire[n].down /\ w[n].ends = wire[n].ends
  BY <1>1, TakenIs DEF L!Incoming
<1>3. CASE "client" \notin wire[n].ends
  <2>1. L!Drop(w)
    BY <1>1, <1>3 DEF L!Reply
  <2> QED
    BY <1>2, <2>1, DropStep
<1>4. CASE "client" \in wire[n].ends
  <2>1. /\ wire' = [w EXCEPT ![n].down = Append(@, f)]
        /\ served' = [served EXCEPT !.waits = waits]
        /\ UNCHANGED <<companion, socket, backlog, exchanges>>
    BY <1>1, <1>4 DEF L!Reply
  <2>2. PICK v : v = Added(w, n, f)
    OBVIOUS
  <2>3. /\ v \in Wires /\ \A m \in L!Connections \ {n} : v[m] = w[m]
        /\ v[n].up = w[n].up /\ v[n].ends = w[n].ends /\ v[n].down = <<f>>
    BY <1>2, <2>2, AddedIs
  <2>4. v = wire'
    BY <2>1, <2>2 DEF Added
  <2>5. served' = [of |-> n, waits |-> waits]
    BY <2>1 DEF IpcSound
  <2>6. ExchangeSound(n[1])'
    <3>1. /\ n[1] \in Clients /\ n = L!Connection(n[1])
          /\ ExchangeIs(n, exchanges[n[1]].step, wire[n].down, "client" \in wire[n].ends,
                        handled[n[1]], Live(n), companion = "ended")
      BY ServedIs DEF L!Incoming
    <3>2. L!Connection(n[1])' = n
      BY <2>1, <3>1 DEF L!Connection
    <3> QED
      BY <1>2, <1>4, <2>1, <2>3, <2>4, <3>1, <3>2 DEF ExchangeSound, ExchangeIs
  <2>7. handled' \in [Clients -> Nat] /\ \A d \in Clients \ {n[1]} : handled'[d] = handled[d]
    BY DEF IpcSound, L!TypeOK
  <2>8. TogetherIs(n, waits, exchanges[n[1]].step, wire'[n].up, wire'[n].down, handled'[n[1]])
    BY <1>2, <2>3, <2>4
  <2>9. /\ wire' \in Wires /\ \A m \in L!Connections \ {n} : wire'[m] = wire[m]
        /\ wire'[n].ends = wire[n].ends
    BY <1>2, <2>3, <2>4
  <2> QED
    BY <2>1, <2>5, <2>6, <2>7, <2>8, <2>9, ServerStep
<1> QED
  BY <1>3, <1>4

LEMMA ReadChallengeKeeps ==
  ASSUME L!IpcAssumption, IpcSound, L!ReadChallenge
  PROVE  IpcSound'
<1>1. L!Incoming /\ served.of # None /\ served.waits = "challenge" /\ UNCHANGED handled
  BY DEF L!ReadChallenge, L!Incoming
<1>2. PICK n \in L!Connections : n = served.of /\ Together(n, served.waits)
  BY <1>1, ServedIs
<1>3. PICK f : f = L!Frame("response", L!Mac("launch", "server", n))
  OBVIOUS
<1>4. f \in Frames
  BY <1>3, FramesAre
<1>5. L!Reply(f, "proof")
  BY <1>2, <1>3 DEF L!ReadChallenge
<1>6. /\ exchanges[n[1]].step \in {"challenge", "timeout"} /\ handled[n[1]] = 0
      /\ wire[n].up = Sent("challenge", None) /\ wire[n].down = <<>>
  BY <1>1, <1>2 DEF Together, TogetherIs
<1>7. Tail(wire[n].up) = <<>>
  BY <1>6, OneFrame DEF Sent
<1>8. TogetherIs(n, "proof", exchanges[n[1]].step, <<>>, <<f>>, 0)
  BY <1>6 DEF TogetherIs
<1>9. <<f>> = Sent("response", L!Mac("launch", "server", n))
  BY <1>3 DEF Sent
<1> QED
  BY <1>1, <1>2, <1>4, <1>5, <1>6, <1>7, <1>8, <1>9, ReplyStep

LEMMA ReadProofKeeps ==
  ASSUME L!IpcAssumption, IpcSound, L!ReadProof
  PROVE  IpcSound'
<1>1. /\ L!Incoming /\ served.of # None /\ served.waits = "proof" /\ UNCHANGED handled
      /\ wire[served.of].up # <<>>
  BY DEF L!ReadProof, L!Incoming
<1>2. PICK n \in L!Connections : n = served.of /\ Together(n, served.waits)
  BY <1>1, ServedIs
<1>3. PICK f : f = L!Frame("ack", None)
  OBVIOUS
<1>4. f \in Frames
  BY <1>2, <1>3, FramesAre
<1>5. PICK mac : mac = L!Mac("launch", "client", n)
  OBVIOUS
<1>6. /\ exchanges[n[1]].step \in {"proof", "timeout"} /\ handled[n[1]] = 0
      /\ wire[n].up = Sent("proof", mac) /\ wire[n].down = <<>> /\ n[1] \in Informed
  BY <1>1, <1>2, <1>5 DEF Together, TogetherIs
<1>7. Tail(wire[n].up) = <<>> /\ Head(wire[n].up).mac = mac
  BY <1>6, OneFrame DEF Sent, L!Frame
<1>8. L!Proved(Head(wire[served.of].up))
  BY <1>2, <1>5, <1>7 DEF L!Proved
<1>9. L!Reply(f, "request")
  BY <1>3, <1>8 DEF L!ReadProof
<1>10. TogetherIs(n, "request", exchanges[n[1]].step, <<>>, <<f>>, 0)
  BY <1>6 DEF TogetherIs
<1>11. <<f>> = Sent("ack", None)
  BY <1>3 DEF Sent
<1> QED
  BY <1>1, <1>2, <1>4, <1>6, <1>7, <1>9, <1>10, <1>11, ReplyStep

(* The request is run, once for its call.                                  *)
LEMMA DispatchKeeps ==
  ASSUME L!IpcAssumption, IpcSound, L!Dispatch
  PROVE  IpcSound'
<1>1. /\ L!Incoming /\ served.of # None /\ served.waits = "request"
      /\ wire[served.of].up # <<>> /\ UNCHANGED <<companion, socket, backlog, exchanges>>
      /\ wire' = L!Take /\ served' = [served EXCEPT !.waits = "answer"]
      /\ handled' = [handled EXCEPT ![served.of[1]] = @ + 1]
  BY DEF L!Dispatch, L!Incoming
<1>2. PICK n \in L!Connections :
        /\ n = served.of /\ n[1] \in Clients /\ n = L!Connection(n[1])
        /\ Together(n, served.waits)
        /\ ExchangeIs(n, exchanges[n[1]].step, wire[n].down, "client" \in wire[n].ends,
                      handled[n[1]], Live(n), companion = "ended")
        /\ served = [of |-> n, waits |-> served.waits]
        /\ Live(n)
  BY <1>1, ServedIs
<1>3. /\ exchanges[n[1]].step \in {"request", "timeout"} /\ handled[n[1]] = 0
      /\ n[1] \in Informed /\ wire[n].up = Sent("request", None) /\ wire[n].down = <<>>
  BY <1>1, <1>2 DEF Together, TogetherIs
<1>4. PICK w : w = L!Take
  OBVIOUS
<1>5. /\ w \in Wires /\ \A m \in L!Connections \ {n} : w[m] = wire[m]
      /\ w[n].down = wire[n].down /\ w[n].ends = wire[n].ends
  BY <1>1, <1>2, <1>4, TakenIs
<1>6. wire' = w
  BY <1>1, <1>4
<1>7. /\ handled' \in [Clients -> Nat] /\ handled'[n[1]] = 1
      /\ \A d \in Clients \ {n[1]} : handled'[d] = handled[d]
  BY <1>1, <1>2, <1>3 DEF IpcSound, L!TypeOK
<1>8. TogetherIs(n, "answer", exchanges[n[1]].step, wire'[n].up, wire'[n].down, handled'[n[1]])
  BY <1>3, <1>5, <1>6, <1>7 DEF TogetherIs
<1>9. served' = [of |-> n, waits |-> "answer"]
  BY <1>1, <1>2
<1>10. Live(n)'
  BY <1>9 DEF Live
<1>11. ExchangeSound(n[1])'
  <2>1. L!Connection(n[1])' = n
    BY <1>1, <1>2 DEF L!Connection
  <2> QED
    BY <1>1, <1>2, <1>3, <1>5, <1>6, <1>7, <1>10, <2>1 DEF ExchangeSound, ExchangeIs
<1>12. /\ wire' \in Wires /\ \A m \in L!Connections \ {n} : wire'[m] = wire[m]
       /\ wire'[n].ends = wire[n].ends
  BY <1>5, <1>6
<1>13. UNCHANGED <<companion, socket, backlog, exchanges>> /\ served.of = n
  BY <1>1, <1>2
<1> QED
  BY <1>7, <1>8, <1>9, <1>11, <1>12, <1>13, ServerStep

LEMMA IpcAnswers ==
  ASSUME L!IpcAssumption, IpcSound, L!Answer
  PROVE  IpcSound'
<1>1. served.of # None /\ served.waits = "answer" /\ UNCHANGED handled
  BY DEF L!Answer
<1>2. PICK n \in L!Connections : n = served.of /\ Together(n, served.waits)
  BY <1>1, ServedIs
<1>3. PICK w \in Wires : w = wire
  BY DEF IpcSound
<1>4. wire[n].down = <<>>
  BY <1>1, <1>2 DEF Together, TogetherIs
<1>5. PICK kind \in {"answered", "remote_error"} :
        L!Drop(IF "client" \in wire[n].ends THEN Added(wire, n, L!Frame(kind, None)) ELSE wire)
  BY <1>2 DEF L!Answer, Added
<1>6. CASE "client" \in wire[n].ends
  <2>1. PICK f : f = L!Frame(kind, None)
    OBVIOUS
  <2>2. f \in Frames
    BY <2>1, FramesAre
  <2>3. PICK v : v = Added(w, n, f)
    OBVIOUS
  <2>4. /\ v \in Wires /\ \A m \in L!Connections \ {n} : v[m] = w[m]
        /\ v[n].up = w[n].up /\ v[n].ends = w[n].ends /\ v[n].down = <<f>>
    BY <1>3, <1>4, <2>2, <2>3, AddedIs
  <2>5. L!Drop(v)
    BY <1>3, <1>5, <1>6, <2>1, <2>3
  <2>6. v[n].down \in {Sent("answered", None), Sent("remote_error", None)}
    BY <2>1, <2>4 DEF Sent
  <2> QED
    BY <1>1, <1>2, <1>3, <2>4, <2>5, <2>6, DropStep
<1>7. CASE "client" \notin wire[n].ends
  <2>1. L!Drop(w)
    BY <1>3, <1>5, <1>7
  <2> QED
    BY <1>1, <1>2, <1>3, <1>7, <2>1, DropStep
<1> QED
  BY <1>6, <1>7

LEMMA ReadFailsKeeps ==
  ASSUME L!IpcAssumption, IpcSound, L!ReadFails
  PROVE  IpcSound'
<1>1. /\ served.of # None /\ served.waits \in {"challenge", "proof", "request"}
      /\ L!Drop(wire) /\ UNCHANGED handled
  BY DEF L!ReadFails
<1>2. PICK n \in L!Connections : n = served.of /\ Together(n, served.waits)
  BY <1>1, ServedIs
<1>3. PICK w \in Wires : w = wire
  BY DEF IpcSound
<1>4. handled[n[1]] = 0
  BY <1>1, <1>2 DEF Together, TogetherIs
<1> QED
  BY <1>1, <1>2, <1>3, <1>4, DropStep

LEMMA CrashKeeps ==
  ASSUME L!IpcAssumption, IpcSound, L!Crash
  PROVE  IpcSound'
<1>1. PICK w \in Wires : w = wire
  BY DEF IpcSound
<1>2. /\ companion' = "ended" /\ backlog' = <<>> /\ served' = L!NoConnection
      /\ wire' = L!HangUp(w) /\ UNCHANGED <<socket, exchanges, handled>>
  BY <1>1 DEF L!Crash
<1>3. /\ wire' \in Wires
      /\ \A m \in L!Connections :
           /\ wire'[m].up = w[m].up /\ wire'[m].down = w[m].down
           /\ "client" \in wire'[m].ends <=> "client" \in w[m].ends
  BY <1>2, HangUpIs
<1>4. socket' \in {"absent", "open", "private"}
  BY <1>2 DEF IpcSound, L!TypeOK
<1> QED
  BY <1>1, <1>2, <1>3, <1>4, AllEnds

(* The steps of the Companion that touch no connection.                    *)
LEMMA LaunchStep ==
  ASSUME IpcSound, UNCHANGED <<backlog, served, exchanges, wire, handled>>,
         companion # "ended",
         companion' \in {"launched", "serving", "stopping", "ended"},
         socket' \in {"absent", "open", "private"},
         companion' \in {"launched", "ended"} => served.of = None /\ backlog = <<>>,
         socket' = "private" => companion' # "launched"
  PROVE  IpcSound'
<1>1. \A m \in L!Connections : Live(m)' <=> Live(m)
  BY DEF Live
<1>2. ASSUME NEW d \in Clients
      PROVE  ExchangeSound(d)'
  <2>1. PICK m \in L!Connections : m = L!Connection(d)
    BY ConnectionsAre
  <2>2. m = L!Connection(d)'
    BY <2>1 DEF L!Connection
  <2>3. ExchangeSound(d)
    BY DEF IpcSound
  <2> QED
    BY <1>1, <2>1, <2>2, <2>3 DEF ExchangeSound, ExchangeIs
<1>3. \A m, waits : Together(m, waits) => Together(m, waits)'
  BY DEF Together
<1>4. LiveSound'
  <2>1. \A m \in L!Connections : served'.of = m => Together(m, served.waits)'
    <3> TAKE m \in L!Connections
    <3>1. HAVE served'.of = m
    <3>2. Together(m, served.waits)
      BY <3>1 DEF IpcSound, LiveSound
    <3> QED
      BY <3>2 DEF Together
  <2>2. ASSUME NEW j \in DOMAIN backlog
        PROVE  Together(backlog[j], "challenge")'
    <3>1. Together(backlog[j], "challenge")
      BY DEF IpcSound, LiveSound
    <3> QED
      BY <3>1 DEF Together
  <2> QED
    BY <1>1, <2>1, <2>2 DEF IpcSound, LiveSound
<1>5. L!TypeOK'
  BY DEF IpcSound, L!TypeOK
<1> QED
  BY <1>2, <1>4, <1>5 DEF IpcSound

LEMMA LaunchKeeps ==
  ASSUME L!IpcAssumption, IpcSound, L!Bind \/ L!SetPermissions \/ L!Signal
  PROVE  IpcSound'
BY LaunchStep DEF L!Bind, L!SetPermissions, L!Signal, IpcSound, LiveSound, L!TypeOK

LEMMA AcceptKeeps ==
  ASSUME L!IpcAssumption, IpcSound, L!Accept
  PROVE  IpcSound'
<1>1. /\ companion \in {"serving", "stopping"} /\ served = L!NoConnection /\ backlog # <<>>
      /\ served' = [of |-> Head(backlog), waits |-> "challenge"]
      /\ backlog' = Tail(backlog)
      /\ UNCHANGED <<companion, socket, exchanges, wire, handled>>
  BY DEF L!Accept
<1>2. backlog \in Seq(L!Connections) /\ Len(backlog) \in Nat \ {0}
  BY <1>1 DEF IpcSound, L!TypeOK
<1>3. PICK n \in L!Connections : n = backlog[1]
  BY <1>2
<1>4. served'.of = n /\ served'.waits = "challenge" /\ n = Head(backlog)
  BY <1>1, <1>2, <1>3
<1>5. /\ backlog' \in Seq(L!Connections) /\ Len(backlog') = Len(backlog) - 1
      /\ DOMAIN backlog' = 1..(Len(backlog) - 1) /\ DOMAIN backlog = 1..Len(backlog)
      /\ \A j \in 1..(Len(backlog) - 1) : backlog'[j] = backlog[j + 1]
  BY <1>1, <1>2
<1>6. served.of = None /\ None \notin L!Connections /\ n # None
  BY <1>1, <1>3 DEF L!NoConnection, L!IpcAssumption, L!Connections
<1>7. ASSUME NEW m \in L!Connections
      PROVE  Live(m)' <=> Live(m)
  <2>1. ASSUME Live(m)
        PROVE  Live(m)'
    <3>1. PICK j \in DOMAIN backlog : backlog[j] = m
      BY <1>6, <2>1 DEF Live
    <3>2. CASE j = 1
      BY <1>3, <1>4, <3>1, <3>2 DEF Live
    <3>3. CASE j # 1
      <4>1. j - 1 \in DOMAIN backlog' /\ backlog'[j - 1] = m
        BY <1>2, <1>5, <3>1, <3>3
      <4> QED
        BY <4>1 DEF Live
    <3> QED
      BY <3>2, <3>3
  <2>2. ASSUME Live(m)'
        PROVE  Live(m)
    <3>1. CASE m = n
      <4>1. 1 \in DOMAIN backlog /\ backlog[1] = m
        BY <1>2, <1>3, <1>5, <3>1
      <4> QED
        BY <4>1 DEF Live
    <3>2. CASE m # n
      <4>1. PICK j \in DOMAIN backlog' : backlog'[j] = m
        BY <1>4, <2>2, <3>2 DEF Live
      <4>2. j + 1 \in DOMAIN backlog /\ backlog[j + 1] = m
        BY <1>2, <1>5, <4>1
      <4> QED
        BY <4>2 DEF Live
    <3> QED
      BY <3>1, <3>2
  <2> QED
    BY <2>1, <2>2
<1>8. ASSUME NEW d \in Clients
      PROVE  ExchangeSound(d)'
  <2>1. PICK m \in L!Connections : m = L!Connection(d)
    BY ConnectionsAre
  <2>2. m = L!Connection(d)'
    BY <1>1, <2>1 DEF L!Connection
  <2>3. ExchangeSound(d)
    BY DEF IpcSound
  <2> QED
    BY <1>1, <1>7, <2>1, <2>2, <2>3 DEF ExchangeSound, ExchangeIs
<1>9. ASSUME NEW m \in L!Connections, Together(m, "challenge")
      PROVE  Together(m, "challenge")'
  BY <1>1, <1>9 DEF Together
<1>10. \A j \in 1..Len(backlog) : Together(backlog[j], "challenge")
  BY <1>5 DEF IpcSound, LiveSound
<1>11. \A j, k \in 1..Len(backlog) : backlog[j] = backlog[k] => j = k
  BY <1>5 DEF IpcSound, LiveSound
<1>12. Together(n, "challenge")'
  BY <1>2, <1>3, <1>9, <1>10
<1>13. ASSUME NEW j \in DOMAIN backlog'
       PROVE  /\ Together(backlog[j], "challenge")' /\ n # backlog'[j]
              /\ \A k \in DOMAIN backlog' : backlog'[j] = backlog'[k] => j = k
  <2>1. j + 1 \in 1..Len(backlog) /\ backlog'[j] = backlog[j + 1] /\ j + 1 # 1
    BY <1>2, <1>5
  <2>2. PICK m \in L!Connections : m = backlog[j + 1]
    BY <1>2, <2>1
  <2>3. Together(m, "challenge")'
    BY <1>9, <1>10, <2>1, <2>2
  <2>4. Together(backlog[j], "challenge")'
    BY <2>1, <2>2, <2>3 DEF Together
  <2>5. n # backlog'[j]
    BY <1>2, <1>3, <1>11, <2>1
  <2>6. ASSUME NEW k \in DOMAIN backlog', backlog'[j] = backlog'[k]
        PROVE  j = k
    <3>1. k + 1 \in 1..Len(backlog) /\ backlog'[k] = backlog[k + 1]
      BY <1>2, <1>5
    <3>2. j + 1 = k + 1
      BY <1>11, <2>1, <2>6, <3>1
    <3> QED
      BY <1>2, <1>5, <3>2
  <2> QED
    BY <2>4, <2>5, <2>6
<1>14. LiveSound'
  <2>1. ASSUME NEW m \in L!Connections, Live(m)'
        PROVE  m[2] = exchanges'[m[1]].attempt /\ "server" \in wire'[m].ends
    BY <1>1, <1>7, <2>1 DEF IpcSound, LiveSound
  <2>2. \A m \in L!Connections : served'.of = m => Together(m, served.waits)'
    BY <1>4, <1>12 DEF Together
  <2>3. companion' \notin {"launched", "ended"}
    BY <1>1
  <2> QED
    BY <1>4, <1>13, <2>1, <2>2, <2>3 DEF LiveSound
<1>15. L!TypeOK'
  BY <1>1, <1>4, <1>5, <1>6 DEF IpcSound, L!TypeOK
<1>16. served' \in [of : L!Connections \union {None},
                    waits : {"accept", "challenge", "proof", "request", "answer"}]
  BY <1>1, <1>4
<1> QED
  BY <1>1, <1>8, <1>14, <1>15, <1>16 DEF IpcSound

LEMMA IpcBegins ==
  ASSUME L!IpcAssumption, L!Init
  PROVE  IpcSound
<1>1. /\ companion = "launched" /\ socket = "absent" /\ backlog = <<>>
      /\ served = L!NoConnection
  BY DEF L!Init
<1>2. exchanges = [c \in Clients |-> [attempt |-> 1, step |-> "connect"]]
  BY DEF L!Init
<1>3. handled = [c \in Clients |-> 0]
  BY DEF L!Init
<1>4. wire \in Wires
  BY DEF L!Init, L!Silent, Wires
<1>5. exchanges \in [Clients -> L!PendingRequest]
  BY <1>2 DEF L!PendingRequest, L!IpcAssumption
<1>6. L!TypeOK
  BY <1>1, <1>3, <1>5 DEF L!TypeOK, L!NoConnection
<1>7. None \notin L!Connections /\ served.of = None
  BY <1>1 DEF L!IpcAssumption, L!Connections, L!NoConnection
<1>8. \A m \in L!Connections : ~Live(m)
  BY <1>1, <1>7 DEF Live
<1>9. LiveSound
  BY <1>1, <1>7, <1>8 DEF LiveSound
<1>10. \A c \in Clients : ExchangeSound(c)
  BY <1>2, <1>3 DEF ExchangeSound, ExchangeIs, Waiting
<1>11. served \in [of : L!Connections \union {None},
                   waits : {"accept", "challenge", "proof", "request", "answer"}]
  BY <1>1 DEF L!NoConnection
<1> QED
  BY <1>4, <1>6, <1>9, <1>10, <1>11 DEF IpcSound

(* What both sides know of a connection, and that no other of its caller   *)
(* is live, at every moment (ipc.ts, ipc.rs).                              *)
THEOREM IpcSoundAlways == L!IpcAssumption /\ L!Spec => []IpcSound
<1> SUFFICES ASSUME L!IpcAssumption
             PROVE  L!Spec => []IpcSound
  OBVIOUS
<1>1. L!Init => IpcSound
  BY IpcBegins
<1>2. IpcSound /\ [L!Next]_L!vars => IpcSound'
  <2> SUFFICES ASSUME IpcSound, [L!Next]_L!vars
               PROVE  IpcSound'
    OBVIOUS
  <2>1. CASE UNCHANGED L!vars
    <3>1. UNCHANGED <<companion, socket, backlog, served, exchanges, wire, handled>>
      BY <2>1 DEF L!vars, L!server
    <3>2. /\ IpcSound' <=> IpcSound
      BY <3>1 DEF IpcSound, LiveSound, ExchangeSound, Together, Live, L!TypeOK,
                  L!Connection, ExchangeIs, TogetherIs
    <3> QED
      BY <3>2
  <2>2. ASSUME NEW c \in Clients,
               L!Connect(c) \/ L!AcceptResponse(c) \/ L!ConnectionCloses(c) \/ L!TimeOut(c)
        PROVE  IpcSound'
    BY <2>2, ConnectKeeps, AcceptResponseKeeps, ConnectionClosesKeeps, TimeOutKeeps
  <2> QED
    BY <2>1, <2>2, LaunchKeeps, CrashKeeps, AcceptKeeps, ReadChallengeKeeps, ReadProofKeeps,
       DispatchKeeps, IpcAnswers, ReadFailsKeeps DEF L!Next
<1> QED
  BY <1>1, <1>2, PTL DEF L!Spec

LEMMA IpcPromises ==
  ASSUME IpcSound
  PROVE  L!TypeOK /\ L!OutcomesTellTruth
<1>1. L!TypeOK
  BY DEF IpcSound
<1>2. ASSUME NEW c \in Clients
      PROVE  /\ handled[c] <= 1
             /\ handled[c] = 1 => c \in Informed
             /\ exchanges[c].step \in {"answered", "remote_error"} => handled[c] = 1
             /\ exchanges[c].step \in {"peer_validation_failed", "authentication_failed"} =>
                  handled[c] = 0 \/ companion = "ended"
             /\ exchanges[c].step = "closed" /\ handled[c] = 1 => companion = "ended"
  <2>1. PICK n : n = L!Connection(c) /\ n[1] = c
    BY ConnectionsAre
  <2>2. ExchangeSound(c)
    BY DEF IpcSound
  <2> QED
    BY <2>1, <2>2 DEF ExchangeSound, ExchangeIs
<1> QED
  BY <1>1, <1>2 DEF L!OutcomesTellTruth

-----------------------------------------------------------------------------
Records == [action : W!Actions, actor : Users, target : Users \union Devices \union {None},
            value : W!Roles \union W!Decisions \union {"revoked"}]

(* A request that is under way.                                            *)
AskSound(r) ==
  r.step # "idle" =>
    /\ r.id \in 1..issued /\ r.id \notin comments
    /\ r.action \in W!Actions /\ r.actor \in Users
    /\ r.action = "manage_members" => r.target \in Users /\ r.value \in W!Roles
    /\ r.action = "approve" => r.value \in {"approved", "rejected"}
    /\ r.action = "manage_devices" => r.target \in Devices
    /\ r.step = "counting" => r.action = "manage_members"
    /\ r.step = "writing" =>
         /\ r.action = "approve" => approvals[r.actor] = "none"
         /\ r.action = "manage_devices" => r.target \notin revoked

(* Two requests make two comments, and lock two rows.                      *)
Apart(r, other) ==
  /\ r.step # "idle" /\ other.step # "idle" => r.id # other.id
  /\ /\ r.step \in {"counting", "writing"} /\ other.step \in {"counting", "writing"}
     /\ r.action = other.action
     => /\ r.action = "approve" => r.actor # other.actor
        /\ r.action \in {"manage_members", "manage_devices"} => r.target # other.target

ToldSound == \A s \in told : s.decision # "none" /\ approvals[s.by] = s.decision

CollaborationSound ==
  /\ W!TypeOK
  /\ comments \subseteq 1..issued
  /\ \A q \in Requests : AskSound(requests[q])
  /\ \A p, q \in Requests : p # q => Apart(requests[p], requests[q])
  /\ ToldSound
  /\ W!AuditIsExact

-----------------------------------------------------------------------------
(***************************************************************************)
(* The audit log: a record is added at its end.                            *)
(***************************************************************************)
Positions(log, set) == {i \in DOMAIN log : log[i] \in set}

Extends(longer, log, e) == longer = Append(log, e)

LEMMA PositionsGrow ==
  ASSUME NEW log \in Seq(Records), NEW e \in Records, NEW longer, Extends(longer, log, e),
         NEW set
  PROVE  /\ longer \in Seq(Records) /\ Len(log) \in Nat
         /\ Positions(log, set) \subseteq 1..Len(log)
         /\ e \notin set => Positions(longer, set) = Positions(log, set)
         /\ e \in set => Positions(longer, set) = Positions(log, set) \union {Len(log) + 1}
         /\ \A i \in 1..Len(log) : longer[i] = log[i]
         /\ longer[Len(log) + 1] = e
         /\ IsFiniteSet(Positions(log, set))
         /\ e \in set =>
              Cardinality(Positions(longer, set)) = Cardinality(Positions(log, set)) + 1
<1>1. /\ longer \in Seq(Records) /\ Len(longer) = Len(log) + 1 /\ Len(log) \in Nat
      /\ \A i \in 1..Len(log) : longer[i] = log[i]
      /\ longer[Len(log) + 1] = e
      /\ DOMAIN log = 1..Len(log) /\ DOMAIN longer = 1..(Len(log) + 1)
  BY AppendProperties DEF Extends
<1>2. Positions(log, set) \subseteq 1..Len(log)
  BY <1>1 DEF Positions
<1>3. e \notin set => Positions(longer, set) = Positions(log, set)
  BY <1>1 DEF Positions
<1>4. e \in set => Positions(longer, set) = Positions(log, set) \union {Len(log) + 1}
  BY <1>1 DEF Positions
<1>5. IsFiniteSet(Positions(log, set))
  <2>1. IsFiniteSet(1..Len(log))
    BY <1>1, FS_Interval
  <2> QED
    BY <1>2, <2>1, FS_Subset
<1>6. Len(log) + 1 \notin Positions(log, set)
  BY <1>1, <1>2
<1>7. e \in set =>
        Cardinality(Positions(longer, set)) = Cardinality(Positions(log, set)) + 1
  BY <1>4, <1>5, <1>6, FS_AddElement
<1> QED
  BY <1>1, <1>2, <1>3, <1>4, <1>5, <1>7

Decided(u) == {e \in Records : e.action = "approve" /\ e.actor = u}
Withdrawn(d) == {e \in Records : e.action = "manage_devices" /\ e.target = d}
Commented == {e \in Records : e.action = "comment"}
Changed(u) == {e \in Records : e.action = "manage_members" /\ e.target = u}

LEMMA AuditIs ==
  ASSUME NEW log \in Seq(Records), log = audit
  PROVE  /\ \A u : W!DecisionsOf(u) = Positions(log, Decided(u))
         /\ \A d : W!RevocationsOf(d) = Positions(log, Withdrawn(d))
         /\ W!CommentsMade = Positions(log, Commented)
         /\ \A u : W!RoleChanges(u) = Positions(log, Changed(u))
<1>1. \A i \in DOMAIN log : log[i] \in Records
  OBVIOUS
<1> QED
  BY <1>1 DEF W!DecisionsOf, W!RevocationsOf, W!CommentsMade, W!RoleChanges, Positions,
              Decided, Withdrawn, Commented, Changed

LEMMA CardinalityIs == \A s : W!Cardinality(s) = Cardinality(s)
BY DEF W!Cardinality, Cardinality

(* The exactness of a log for a state of the workspace.                    *)
Exact(log, mem, app, rev, com) ==
  /\ \A u \in Users :
       /\ Cardinality(Positions(log, Decided(u))) = (IF app[u] = "none" THEN 0 ELSE 1)
       /\ Positions(log, Changed(u)) = {} => mem[u] = InitialRoles[u]
       /\ \A i \in Positions(log, Changed(u)) :
            (\A j \in Positions(log, Changed(u)) : j <= i) => mem[u] = log[i].value
  /\ \A d \in Devices :
       Cardinality(Positions(log, Withdrawn(d))) = (IF d \in rev THEN 1 ELSE 0)
  /\ Cardinality(Positions(log, Commented)) = Cardinality(com)

LEMMA ExactIs ==
  ASSUME NEW log \in Seq(Records), log = audit
  PROVE  W!AuditIsExact <=> Exact(log, members, approvals, revoked, comments)
<1>1. /\ \A u : W!DecisionsOf(u) = Positions(log, Decided(u))
      /\ \A d : W!RevocationsOf(d) = Positions(log, Withdrawn(d))
      /\ W!CommentsMade = Positions(log, Commented)
      /\ \A u : W!RoleChanges(u) = Positions(log, Changed(u))
  BY AuditIs
<1>2. \A u, i : audit[i].value = log[i].value
  OBVIOUS
<1> QED
  BY <1>1, <1>2, CardinalityIs DEF W!AuditIsExact, Exact

LEMMA ExactAfter ==
  ASSUME NEW log \in Seq(Records), log = audit'
  PROVE  W!AuditIsExact' <=> Exact(log, members', approvals', revoked', comments')
<1>1. \A i \in DOMAIN log : log[i] \in Records
  OBVIOUS
<1>2. /\ \A u : W!DecisionsOf(u)' = Positions(log, Decided(u))
      /\ \A d : W!RevocationsOf(d)' = Positions(log, Withdrawn(d))
      /\ W!CommentsMade' = Positions(log, Commented)
      /\ \A u : W!RoleChanges(u)' = Positions(log, Changed(u))
  BY <1>1 DEF W!DecisionsOf, W!RevocationsOf, W!CommentsMade, W!RoleChanges, Positions,
              Decided, Withdrawn, Commented, Changed
<1>3. \A i : audit'[i].value = log[i].value
  OBVIOUS
<1> QED
  BY <1>2, <1>3, CardinalityIs DEF W!AuditIsExact, Exact

(* What a record says was changed.                                         *)
Writes(e, id, mem, app, rev, com, mem2, app2, rev2, com2) ==
  /\ mem2 = IF e.action = "manage_members" THEN [mem EXCEPT ![e.target] = e.value] ELSE mem
  /\ app2 = IF e.action = "approve" THEN [app EXCEPT ![e.actor] = e.value] ELSE app
  /\ rev2 = IF e.action = "manage_devices" THEN rev \union {e.target} ELSE rev
  /\ com2 = IF e.action = "comment" THEN com \union {id} ELSE com

New(e, id, app, rev, com) ==
  /\ e.action = "manage_members" => e.target \in Users
  /\ e.action = "approve" =>
       e.actor \in Users /\ e.value # "none" /\ app[e.actor] = "none"
  /\ e.action = "manage_devices" => e.target \notin rev
  /\ id \notin com

(* A change and its record keep the log exact.                             *)
LEMMA RecordedIsExact ==
  ASSUME NEW log \in Seq(Records), NEW e \in Records, NEW longer, Extends(longer, log, e),
         NEW mem \in [Users -> W!Roles \union {None}], NEW app \in [Users -> W!Decisions],
         NEW rev, NEW com, IsFiniteSet(com), Exact(log, mem, app, rev, com),
         NEW mem2, NEW app2, NEW rev2, NEW com2, NEW id,
         New(e, id, app, rev, com),
         Writes(e, id, mem, app, rev, com, mem2, app2, rev2, com2)
  PROVE  Exact(longer, mem2, app2, rev2, com2)
<1>1. \A set :
         /\ longer \in Seq(Records) /\ Len(log) \in Nat
         /\ Positions(log, set) \subseteq 1..Len(log)
         /\ e \notin set => Positions(longer, set) = Positions(log, set)
         /\ e \in set => Positions(longer, set) = Positions(log, set) \union {Len(log) + 1}
         /\ \A i \in 1..Len(log) : longer[i] = log[i]
         /\ longer[Len(log) + 1] = e
         /\ IsFiniteSet(Positions(log, set))
         /\ e \in set =>
              Cardinality(Positions(longer, set)) = Cardinality(Positions(log, set)) + 1
  <2> TAKE set
  <2> QED
    BY PositionsGrow
<1> DEFINE decides(u) == e.action = "approve" /\ e.actor = u
           moves(u) == e.action = "manage_members" /\ e.target = u
           withdraws(d) == e.action = "manage_devices" /\ e.target = d
<1>6. \A u \in Users :
        /\ decides(u) => app[u] = "none" /\ app2[u] # "none"
        /\ ~decides(u) => app2[u] = app[u]
  BY DEF New, Writes
<1>7. \A u \in Users :
        /\ moves(u) => mem2[u] = e.value
        /\ ~moves(u) => mem2[u] = mem[u]
  BY DEF New, Writes
<1>8. \A d \in Devices :
        /\ withdraws(d) => d \notin rev /\ d \in rev2
        /\ ~withdraws(d) => (d \in rev2 <=> d \in rev)
  BY DEF New, Writes
<1>9. /\ e.action = "comment" => com2 = com \union {id} /\ id \notin com
      /\ e.action # "comment" => com2 = com
  BY DEF New, Writes
<1>2. ASSUME NEW u \in Users
      PROVE  Cardinality(Positions(longer, Decided(u))) = (IF app2[u] = "none" THEN 0 ELSE 1)
  <2>1. Cardinality(Positions(log, Decided(u))) = (IF app[u] = "none" THEN 0 ELSE 1)
    BY DEF Exact
  <2>2. CASE e.action = "approve" /\ e.actor = u
    <3>1. e \in Decided(u) /\ app[u] = "none" /\ app2[u] # "none"
      BY <1>6, <2>2 DEF Decided
    <3> QED
      BY <1>1, <2>1, <3>1
  <2>3. CASE ~(e.action = "approve" /\ e.actor = u)
    <3>1. e \notin Decided(u) /\ app2[u] = app[u]
      BY <1>6, <2>3 DEF Decided
    <3> QED
      BY <1>1, <2>1, <3>1
  <2> QED
    BY <2>2, <2>3
<1>3. ASSUME NEW d \in Devices
      PROVE  Cardinality(Positions(longer, Withdrawn(d))) = (IF d \in rev2 THEN 1 ELSE 0)
  <2>1. Cardinality(Positions(log, Withdrawn(d))) = (IF d \in rev THEN 1 ELSE 0)
    BY DEF Exact
  <2>2. CASE e.action = "manage_devices" /\ e.target = d
    <3>1. e \in Withdrawn(d) /\ d \notin rev /\ d \in rev2
      BY <1>8, <2>2 DEF Withdrawn
    <3> QED
      BY <1>1, <2>1, <3>1
  <2>3. CASE ~(e.action = "manage_devices" /\ e.target = d)
    <3>1. e \notin Withdrawn(d) /\ (d \in rev2 <=> d \in rev)
      BY <1>8, <2>3 DEF Withdrawn
    <3> QED
      BY <1>1, <2>1, <3>1
  <2> QED
    BY <2>2, <2>3
<1>4. Cardinality(Positions(longer, Commented)) = Cardinality(com2)
  <2>1. Cardinality(Positions(log, Commented)) = Cardinality(com)
    BY DEF Exact
  <2>2. CASE e.action = "comment"
    <3>1. e \in Commented /\ com2 = com \union {id}
      BY <1>9, <2>2 DEF Commented
    <3>2. Cardinality(com2) = Cardinality(com) + 1
      BY <1>9, <2>2, FS_AddElement
    <3> QED
      BY <1>1, <2>1, <3>1, <3>2
  <2>3. CASE e.action # "comment"
    BY <1>1, <1>9, <2>1, <2>3 DEF Commented
  <2> QED
    BY <2>2, <2>3
<1>5. ASSUME NEW u \in Users
      PROVE  /\ Positions(longer, Changed(u)) = {} => mem2[u] = InitialRoles[u]
             /\ \A i \in Positions(longer, Changed(u)) :
                  (\A j \in Positions(longer, Changed(u)) : j <= i) =>
                    mem2[u] = longer[i].value
  <2>1. CASE e.action = "manage_members" /\ e.target = u
    <3>1. e \in Changed(u) /\ mem2[u] = e.value
      BY <1>7, <2>1 DEF Changed
    <3>2. Positions(longer, Changed(u)) = Positions(log, Changed(u)) \union {Len(log) + 1}
      BY <1>1, <3>1
    <3>3. PICK at \in Nat : at = Len(log) + 1
      BY <1>1
    <3>4. PICK before : before = Positions(log, Changed(u)) /\ before \subseteq 1..(at - 1)
      BY <1>1, <3>3
    <3>5. Positions(longer, Changed(u)) = before \union {at}
      BY <3>2, <3>3, <3>4
    <3>6. \A i \in before \union {at} : (\A j \in before \union {at} : j <= i) => i = at
      BY <3>3, <3>4
    <3>7. longer[at] = e
      BY <1>1, <3>3
    <3> QED
      BY <3>1, <3>5, <3>6, <3>7
  <2>2. CASE ~(e.action = "manage_members" /\ e.target = u)
    <3>1. e \notin Changed(u) /\ mem2[u] = mem[u]
      BY <1>7, <2>2 DEF Changed
    <3>2. Positions(longer, Changed(u)) = Positions(log, Changed(u))
      BY <1>1, <3>1
    <3>3. \A i \in Positions(log, Changed(u)) : longer[i] = log[i]
      BY <1>1
    <3>4. PICK same : same = Positions(log, Changed(u))
      OBVIOUS
    <3>5. /\ same = {} => mem[u] = InitialRoles[u]
          /\ \A i \in same : (\A j \in same : j <= i) => mem[u] = log[i].value
      BY <3>4 DEF Exact
    <3>6. \A i \in same : longer[i].value = log[i].value
      BY <3>3, <3>4
    <3>7. Positions(longer, Changed(u)) = same
      BY <3>2, <3>4
    <3> QED
      BY <3>1, <3>5, <3>6, <3>7
  <2> QED
    BY <2>1, <2>2
<1> QED
  BY <1>2, <1>3, <1>4, <1>5 DEF Exact

-----------------------------------------------------------------------------
(***************************************************************************)
(* The steps of a request.                                                 *)
(***************************************************************************)
LEMMA RequestMoves ==
  ASSUME W!CollaborationAssumption, CollaborationSound, NEW q \in Requests, NEW next \in W!Asked,
         requests' = [requests EXCEPT ![q] = next],
         UNCHANGED <<members, approvals, comments, revoked, audit>>,
         issued' \in 0..MaxIssued, issued <= issued', faults' \in 0..MaxFaults,
         told' \subseteq [by : Users, decision : W!Decisions], ToldSound', AskSound(next)',
         \A p \in Requests \ {q} : Apart(requests[p], next) /\ Apart(next, requests[p])
  PROVE  CollaborationSound'
<1>1. /\ requests' \in [Requests -> W!Asked] /\ requests'[q] = next
      /\ \A p \in Requests \ {q} : requests'[p] = requests[p]
  BY DEF CollaborationSound, W!TypeOK
<1>2. W!TypeOK'
  BY <1>1 DEF CollaborationSound, W!TypeOK
<1>3. issued \in Nat /\ issued' \in Nat /\ comments' \subseteq 1..issued'
  BY DEF CollaborationSound, W!TypeOK
<1>4. ASSUME NEW p \in Requests
      PROVE  AskSound(requests[p])'
  <2>1. CASE p = q
    BY <1>1, <2>1 DEF AskSound
  <2>2. CASE p # q
    <3>1. AskSound(requests[p]) /\ requests'[p] = requests[p]
      BY <1>1, <2>2 DEF CollaborationSound
    <3>2. \A i \in 1..issued : i \in 1..issued'
      BY <1>3
    <3> QED
      BY <3>1, <3>2 DEF AskSound
  <2> QED
    BY <2>1, <2>2
<1>5. ASSUME NEW p \in Requests, NEW o \in Requests, p # o
      PROVE  Apart(requests'[p], requests'[o])
  <2>1. Apart(requests[p], requests[o])
    BY <1>5 DEF CollaborationSound
  <2> QED
    BY <1>1, <1>5, <2>1
<1>6. W!AuditIsExact'
  <2>1. W!AuditIsExact
    BY DEF CollaborationSound
  <2> QED
    BY <2>1 DEF W!AuditIsExact, W!DecisionsOf, W!RevocationsOf, W!CommentsMade, W!RoleChanges
<1>7. \A p, o \in Requests : p # o => Apart(requests[p], requests[o])'
  BY <1>5 DEF Apart
<1> QED
  BY <1>2, <1>3, <1>4, <1>6, <1>7 DEF CollaborationSound

LEMMA RequestIs ==
  ASSUME CollaborationSound, NEW q \in Requests
  PROVE  /\ requests[q] \in W!Asked /\ AskSound(requests[q])
         /\ \A p \in Requests \ {q} :
              Apart(requests[p], requests[q]) /\ Apart(requests[q], requests[p])
BY DEF CollaborationSound, W!TypeOK

(* An answer, which ends the request.                                      *)
LEMMA EndsStep ==
  ASSUME W!CollaborationAssumption, CollaborationSound, NEW q \in Requests,
         requests[q].step # "idle", NEW answer, W!Answer(q, answer),
         UNCHANGED <<members, approvals, comments, revoked, audit, issued>>,
         faults' \in 0..MaxFaults,
         answer = "ok" /\ requests[q].action = "approve" =>
           approvals[requests[q].actor] = requests[q].value
  PROVE  CollaborationSound'
<1>1. PICK next : next = W!NoRequest
  OBVIOUS
<1>2. next \in W!Asked /\ next.step = "idle"
  BY <1>1 DEF W!NoRequest, W!Asked, W!CollaborationAssumption, W!Decisions
<1>3. requests' = [requests EXCEPT ![q] = next]
  BY <1>1 DEF W!Answer, W!Become
<1>4. AskSound(next)' /\ \A r : Apart(r, next) /\ Apart(next, r)
  BY <1>2 DEF AskSound, Apart
<1>5. requests[q] \in W!Asked /\ AskSound(requests[q])
  BY RequestIs
<1>6. told' \subseteq [by : Users, decision : W!Decisions] /\ ToldSound'
  <2>1. CASE told' = told
    BY <2>1 DEF CollaborationSound, W!TypeOK, ToldSound
  <2>2. CASE /\ answer = "ok" /\ requests[q].action = "approve"
             /\ told' = told \union {[by |-> requests[q].actor, decision |-> requests[q].value]}
    <3>1. PICK s : s = [by |-> requests[q].actor, decision |-> requests[q].value]
      OBVIOUS
    <3>2. s.by \in Users /\ s.decision \in {"approved", "rejected"}
      BY <1>5, <2>2, <3>1 DEF AskSound
    <3>3. approvals[s.by] = s.decision
      BY <2>2, <3>1
    <3>4. s \in [by : Users, decision : W!Decisions]
      BY <3>1, <3>2 DEF W!Decisions
    <3>5. told' = told \union {s}
      BY <2>2, <3>1
    <3> QED
      BY <3>2, <3>3, <3>4, <3>5 DEF CollaborationSound, W!TypeOK, ToldSound
  <2> QED
    BY <2>1, <2>2 DEF W!Answer
<1>7. issued' \in 0..MaxIssued /\ issued <= issued'
  BY DEF CollaborationSound, W!TypeOK
<1> QED
  BY <1>2, <1>3, <1>4, <1>6, <1>7, RequestMoves

(* Another step of the request.                                            *)
LEMMA GoesStep ==
  ASSUME W!CollaborationAssumption, CollaborationSound, NEW q \in Requests,
         requests[q].step # "idle", NEW s \in {"begin", "counting", "writing"}, W!Go(q, s),
         UNCHANGED <<members, approvals, comments, revoked, audit, issued, faults>>,
         s = "counting" => requests[q].action = "manage_members",
         s = "writing" =>
           /\ requests[q].action = "approve" => approvals[requests[q].actor] = "none"
           /\ requests[q].action = "manage_devices" => requests[q].target \notin revoked,
         s # "begin" /\ requests[q].step \notin {"counting", "writing"} =>
           W!Free(q) \/ requests[q].action = "comment"
  PROVE  CollaborationSound'
<1>1. PICK r \in W!Asked : r = requests[q]
  BY RequestIs
<1>2. AskSound(r) /\ \A p \in Requests \ {q} : Apart(requests[p], r) /\ Apart(r, requests[p])
  BY <1>1, RequestIs
<1>3. PICK next : next = [step |-> s, id |-> r.id, action |-> r.action, actor |-> r.actor,
                          target |-> r.target, value |-> r.value]
  OBVIOUS
<1>4. r = [step |-> r.step, id |-> r.id, action |-> r.action, actor |-> r.actor,
           target |-> r.target, value |-> r.value]
  BY DEF W!Asked
<1>5. [r EXCEPT !.step = s] = next
  BY <1>3, <1>4
<1>6. requests' = [requests EXCEPT ![q] = next] /\ told' = told
  BY <1>1, <1>5 DEF W!Go, W!Become
<1>7. /\ next \in W!Asked /\ next.step = s /\ next.id = r.id /\ next.action = r.action
      /\ next.actor = r.actor /\ next.target = r.target /\ next.value = r.value
  BY <1>1, <1>3 DEF W!Asked
<1>8. AskSound(next)'
  BY <1>1, <1>2, <1>7 DEF AskSound
<1>9. ASSUME NEW p \in Requests \ {q}
      PROVE  Apart(requests[p], next) /\ Apart(next, requests[p])
  <2>1. Apart(requests[p], r) /\ Apart(r, requests[p]) /\ AskSound(requests[p])
    BY <1>2, RequestIs
  <2>2. CASE s = "begin" \/ r.step \in {"counting", "writing"}
    BY <1>1, <1>7, <2>1, <2>2 DEF Apart
  <2>3. CASE W!Free(q)
    <3>1. requests[p].step \in {"counting", "writing"} => W!LockOf(p) # W!LockOf(q)
      BY <2>3 DEF W!Free
    <3> QED
      BY <1>1, <1>7, <2>1, <3>1 DEF Apart, W!LockOf
  <2>4. CASE r.action = "comment"
    BY <1>1, <1>7, <2>1, <2>4 DEF Apart
  <2> QED
    BY <1>1, <2>2, <2>3, <2>4
<1>10. /\ issued' \in 0..MaxIssued /\ issued <= issued' /\ faults' \in 0..MaxFaults
       /\ told' \subseteq [by : Users, decision : W!Decisions] /\ ToldSound'
  BY <1>6 DEF CollaborationSound, W!TypeOK, ToldSound
<1> QED
  BY <1>6, <1>7, <1>8, <1>9, <1>10, RequestMoves

LEMMA IssueKeeps ==
  ASSUME W!CollaborationAssumption, CollaborationSound, NEW q \in Requests, W!IssueAny(q)
  PROVE  CollaborationSound'
<1>1. PICK action \in W!Actions, actor \in Users, target \in Users \union Devices \union {None},
           value \in W!Roles \union W!Decisions \union {"revoked"} :
        /\ W!Issue(q, action, actor, target, value)
        /\ action = "manage_members" => target \in Users /\ value \in W!Roles
        /\ action = "approve" => value \in {"approved", "rejected"}
        /\ action = "manage_devices" => target \in Devices
  <2>1. PICK u \in Users :
          \/ \E t \in Users, role \in AskedRoles : W!Issue(q, "manage_members", u, t, role)
          \/ \E decision \in {"approved", "rejected"} : W!Issue(q, "approve", u, None, decision)
          \/ \E d \in Devices : W!Issue(q, "manage_devices", u, d, "revoked")
          \/ W!Issue(q, "comment", u, None, "none")
    BY DEF W!IssueAny
  <2>2. /\ {"manage_members", "approve", "manage_devices", "comment"} \subseteq W!Actions
        /\ AskedRoles \subseteq W!Roles /\ {"none", "approved", "rejected"} \subseteq W!Decisions
    BY DEF W!Actions, W!CollaborationAssumption, W!Decisions
  <2> QED
    BY <2>1, <2>2
<1>2. PICK number : number = issued'
  OBVIOUS
<1>3. /\ issued < MaxIssued /\ number = issued + 1
      /\ UNCHANGED <<members, approvals, comments, revoked, audit, told, faults>>
  BY <1>1, <1>2 DEF W!Issue, W!database
<1>4. issued \in Nat /\ number \in 1..MaxIssued /\ comments \subseteq 1..issued
  BY <1>3 DEF CollaborationSound, W!TypeOK, W!CollaborationAssumption
<1>5. PICK next : next = [step |-> "authorize", id |-> number, action |-> action,
                          actor |-> actor, target |-> target, value |-> value]
  OBVIOUS
<1>6. requests' = [requests EXCEPT ![q] = next]
  BY <1>1, <1>2, <1>5 DEF W!Issue, W!Become
<1>7. /\ next \in W!Asked /\ next.step = "authorize" /\ next.id = number
      /\ next.action = action /\ next.actor = actor /\ next.target = target
      /\ next.value = value
  BY <1>4, <1>5 DEF W!Asked
<1>8. AskSound(next)'
  BY <1>1, <1>2, <1>3, <1>4, <1>7 DEF AskSound
<1>9. ASSUME NEW p \in Requests \ {q}
      PROVE  Apart(requests[p], next) /\ Apart(next, requests[p])
  <2>1. requests[p].step # "idle" => requests[p].id \in 1..issued
    BY RequestIs DEF AskSound
  <2>2. requests[p].step # "idle" => requests[p].id # number
    BY <1>3, <1>4, <2>1
  <2> QED
    BY <1>7, <2>2 DEF Apart
<1>10. /\ issued' \in 0..MaxIssued /\ issued <= issued' /\ faults' \in 0..MaxFaults
       /\ told' \subseteq [by : Users, decision : W!Decisions] /\ ToldSound'
  BY <1>2, <1>3, <1>4 DEF CollaborationSound, W!TypeOK, ToldSound
<1> QED
  BY <1>3, <1>6, <1>7, <1>8, <1>9, <1>10, RequestMoves

LEMMA FaultsStay ==
  ASSUME W!CollaborationAssumption, CollaborationSound, UNCHANGED faults \/ W!Fault
  PROVE  faults' \in 0..MaxFaults
BY DEF CollaborationSound, W!TypeOK, W!Fault, W!CollaborationAssumption

LEMMA ServeKeeps ==
  ASSUME W!CollaborationAssumption, CollaborationSound, NEW q \in Requests,
         \/ W!Authorize(q) \/ W!LockMember(q) \/ W!CountOwners(q) \/ W!InsertApproval(q)
         \/ W!RevokeDevice(q) \/ W!InsertComment(q) \/ W!Rollback(q)
  PROVE  CollaborationSound'
<1>1. CASE W!Authorize(q)
  <2>1. /\ requests[q].step = "authorize"
        /\ UNCHANGED <<members, approvals, comments, revoked, audit, issued, faults>>
        /\ W!Go(q, "begin") \/ W!Answer(q, "forbidden")
    BY <1>1 DEF W!Authorize, W!database
  <2> QED
    BY <2>1, FaultsStay, EndsStep, GoesStep
<1>2. CASE W!LockMember(q)
  <2>1. /\ requests[q].step = "begin" /\ requests[q].action = "manage_members" /\ W!Free(q)
        /\ UNCHANGED <<members, approvals, comments, revoked, audit, issued, faults>>
        /\ W!Answer(q, "not_found") \/ W!Go(q, "counting") \/ W!Go(q, "writing")
    BY <1>2 DEF W!LockMember, W!At, W!database
  <2> QED
    BY <2>1, FaultsStay, EndsStep, GoesStep
<1>3. CASE W!CountOwners(q)
  <2>1. /\ requests[q].step = "counting" /\ requests[q].action = "manage_members"
        /\ UNCHANGED <<members, approvals, comments, revoked, audit, issued, faults>>
        /\ W!Answer(q, "last_owner") \/ W!Go(q, "writing")
    BY <1>3 DEF W!CountOwners, W!At, W!database
  <2> QED
    BY <2>1, FaultsStay, EndsStep, GoesStep
<1>4. CASE W!InsertApproval(q)
  <2>1. /\ requests[q].step = "begin" /\ requests[q].action = "approve" /\ W!Free(q)
        /\ UNCHANGED <<members, approvals, comments, revoked, audit, issued, faults>>
        /\ \/ approvals[requests[q].actor] = "none" /\ W!Go(q, "writing")
           \/ W!Answer(q, "ok") /\ approvals[requests[q].actor] = requests[q].value
           \/ W!Answer(q, "approval_conflict")
    BY <1>4 DEF W!InsertApproval, W!At, W!database, W!Agrees
  <2> QED
    BY <2>1, FaultsStay, EndsStep, GoesStep
<1>5. CASE W!RevokeDevice(q)
  <2>1. /\ requests[q].step = "begin" /\ requests[q].action = "manage_devices" /\ W!Free(q)
        /\ UNCHANGED <<members, approvals, comments, revoked, audit, issued, faults>>
        /\ \/ W!Answer(q, "not_found")
           \/ requests[q].target \notin revoked /\ W!Go(q, "writing")
    BY <1>5 DEF W!RevokeDevice, W!At, W!database
  <2> QED
    BY <2>1, FaultsStay, EndsStep, GoesStep
<1>6. CASE W!InsertComment(q)
  <2>1. /\ requests[q].step = "begin" /\ requests[q].action = "comment"
        /\ UNCHANGED <<members, approvals, comments, revoked, audit, issued, faults>>
        /\ W!Go(q, "writing")
    BY <1>6 DEF W!InsertComment, W!At, W!database
  <2> QED
    BY <2>1, GoesStep
<1>7. CASE W!Rollback(q)
  <2>1. /\ requests[q].step # "idle" /\ W!Answer(q, "lost") /\ W!Fault
        /\ UNCHANGED <<members, approvals, comments, revoked, audit, issued>>
    BY <1>7 DEF W!Rollback, W!database
  <2> QED
    BY <2>1, FaultsStay, EndsStep
<1> QED
  BY <1>1, <1>2, <1>3, <1>4, <1>5, <1>6, <1>7

(***************************************************************************)
(* COMMIT: the change, its record and the answer.                          *)
(***************************************************************************)
(* What the request under way commits, in rigid copies of the database.    *)
LEMMA CommitWrites ==
  ASSUME W!CollaborationAssumption, CollaborationSound, NEW q \in Requests, W!Commit(q),
         NEW r \in W!Asked, r = requests[q], NEW e \in Records,
         e.action = r.action, e.actor = r.actor, e.target = r.target, e.value = r.value,
         r.step = "writing", audit' = Append(audit, e)
  PROVE  /\ members' \in [Users -> W!Roles \union {None}]
         /\ approvals' \in [Users -> W!Decisions]
         /\ comments' \in SUBSET (1..issued) /\ revoked' \subseteq Devices
         /\ audit' \in Seq(Records) /\ W!AuditIsExact'
<1>1. AskSound(r)
  BY RequestIs
<1>2. /\ members \in [Users -> W!Roles \union {None}] /\ approvals \in [Users -> W!Decisions]
      /\ comments \subseteq 1..issued /\ revoked \subseteq Devices /\ issued \in 0..MaxIssued
  BY DEF CollaborationSound, W!TypeOK, W!Memberships, W!Approvals
<1>3. audit \in Seq(Records)
  BY DEF CollaborationSound, W!TypeOK, W!AuditLog, Records
<1>4. PICK log \in Seq(Records) : log = audit
  BY <1>3
<1>5. PICK longer : longer = audit'
  OBVIOUS
<1>6. Extends(longer, log, e)
  BY <1>4, <1>5 DEF Extends
<1>7. New(e, r.id, approvals, revoked, comments)
  BY <1>1 DEF New, AskSound
<1>8. Writes(e, r.id, members, approvals, revoked, comments,
             members', approvals', revoked', comments')
  BY DEF W!Commit, Writes
<1>9. IsFiniteSet(comments)
  <2>1. issued \in Nat
    BY <1>2 DEF W!CollaborationAssumption
  <2>2. IsFiniteSet(1..issued)
    BY <2>1, FS_Interval
  <2> QED
    BY <1>2, <2>2, FS_Subset
<1>10. Exact(log, members, approvals, revoked, comments)
  BY <1>4, ExactIs DEF CollaborationSound
<1>11. Exact(longer, members', approvals', revoked', comments')
  BY <1>2, <1>6, <1>7, <1>8, <1>9, <1>10, RecordedIsExact
<1>12. longer \in Seq(Records)
  BY <1>6, AppendProperties DEF Extends
<1>13. W!AuditIsExact'
  BY <1>5, <1>11, <1>12, ExactAfter
<1>14. /\ members' \in [Users -> W!Roles \union {None}]
       /\ approvals' \in [Users -> W!Decisions]
       /\ comments' \in SUBSET (1..issued) /\ revoked' \subseteq Devices
  BY <1>1, <1>2, <1>8 DEF Writes, AskSound, W!Decisions
<1> QED
  BY <1>5, <1>12, <1>13, <1>14

(* The requests that the one that commits leaves under way.                *)
LEMMA OthersStay ==
  ASSUME NEW r \in W!Asked, NEW other \in W!Asked, AskSound(other), AskSound(r),
         Apart(other, r), r.step = "writing",
         NEW app \in [Users -> W!Decisions], app = approvals,
         approvals' = IF r.action = "approve" THEN [app EXCEPT ![r.actor] = r.value] ELSE app,
         comments' = IF r.action = "comment" THEN comments \union {r.id} ELSE comments,
         revoked' = IF r.action = "manage_devices" THEN revoked \union {r.target} ELSE revoked,
         UNCHANGED issued
  PROVE  AskSound(other)'
<1>1. CASE other.step = "idle"
  BY <1>1 DEF AskSound
<1>2. CASE other.step # "idle"
  <2>1. other.id # r.id
    BY <1>2 DEF Apart
  <2>2. other.id \notin comments'
    BY <1>2, <2>1 DEF AskSound
  <2>3. other.step = "writing" /\ other.action = "approve" => approvals'[other.actor] = "none"
    <3> SUFFICES ASSUME other.step = "writing", other.action = "approve"
                 PROVE  approvals'[other.actor] = "none"
      OBVIOUS
    <3>1. other.actor \in Users /\ app[other.actor] = "none"
      BY DEF AskSound
    <3>2. r.action = "approve" => other.actor # r.actor
      BY DEF Apart
    <3> QED
      BY <3>1, <3>2
  <2>4. other.step = "writing" /\ other.action = "manage_devices" =>
          other.target \notin revoked'
    BY DEF AskSound, Apart
  <2> QED
    BY <1>2, <2>2, <2>3, <2>4 DEF AskSound
<1> QED
  BY <1>1, <1>2

LEMMA CommitKeeps ==
  ASSUME W!CollaborationAssumption, CollaborationSound, NEW q \in Requests, W!Commit(q)
  PROVE  CollaborationSound'
<1>1. PICK r \in W!Asked : r = requests[q]
  BY RequestIs
<1>2. AskSound(r) /\ \A p \in Requests \ {q} : Apart(requests[p], r) /\ Apart(r, requests[p])
  BY <1>1, RequestIs
<1>3. r.step = "writing"
  BY <1>1 DEF W!Commit
<1>4. PICK e : e = [action |-> r.action, actor |-> r.actor, target |-> r.target,
                    value |-> r.value]
  OBVIOUS
<1>5. /\ e \in Records /\ e.action = r.action /\ e.actor = r.actor /\ e.target = r.target
      /\ e.value = r.value
  BY <1>2, <1>3, <1>4 DEF Records, AskSound, W!Asked
<1>6. audit' = Append(audit, e)
  BY <1>1, <1>4 DEF W!Commit, W!AuditRecord
<1>7. /\ members' \in [Users -> W!Roles \union {None}]
      /\ approvals' \in [Users -> W!Decisions]
      /\ comments' \in SUBSET (1..issued) /\ revoked' \subseteq Devices
      /\ audit' \in Seq(Records) /\ W!AuditIsExact'
  BY <1>1, <1>3, <1>5, <1>6, CommitWrites
<1>8. /\ issued' = issued /\ issued \in 0..MaxIssued
      /\ approvals' = IF r.action = "approve"
                      THEN [approvals EXCEPT ![r.actor] = r.value] ELSE approvals
      /\ comments' = IF r.action = "comment" THEN comments \union {r.id} ELSE comments
      /\ revoked' = IF r.action = "manage_devices" THEN revoked \union {r.target} ELSE revoked
  BY <1>1 DEF W!Commit, CollaborationSound, W!TypeOK
<1>9. PICK next : next = W!NoRequest
  OBVIOUS
<1>10. next \in W!Asked /\ next.step = "idle"
  BY <1>9 DEF W!NoRequest, W!Asked, W!CollaborationAssumption, W!Decisions
<1>11. PICK answer \in {"ok", "lost"} :
         W!Answer(q, answer) /\ (UNCHANGED faults \/ W!Fault)
  BY DEF W!Commit
<1>12. requests' = [requests EXCEPT ![q] = next]
  BY <1>9, <1>11 DEF W!Answer, W!Become
<1>13. /\ requests' \in [Requests -> W!Asked] /\ requests'[q] = next
       /\ \A p \in Requests \ {q} : requests'[p] = requests[p]
  BY <1>10, <1>12 DEF CollaborationSound, W!TypeOK
<1>14. faults' \in 0..MaxFaults
  BY <1>11, FaultsStay
<1>15. PICK app \in [Users -> W!Decisions] : app = approvals
  BY DEF CollaborationSound, W!TypeOK, W!Approvals
<1>16. told' \subseteq [by : Users, decision : W!Decisions] /\ ToldSound'
  <2>1. \A s \in told : s \in [by : Users, decision : W!Decisions]
                        /\ s.decision # "none" /\ app[s.by] = s.decision
    BY <1>15 DEF CollaborationSound, W!TypeOK, ToldSound
  <2>2. \A s \in told : approvals'[s.by] = s.decision
    <3> TAKE s \in told
    <3>1. s.by \in Users /\ app[s.by] = s.decision /\ s.decision # "none"
      BY <2>1
    <3>2. r.action = "approve" => app[r.actor] = "none"
      BY <1>2, <1>3, <1>15 DEF AskSound
    <3>3. r.action = "approve" => s.by # r.actor
      BY <3>1, <3>2
    <3> QED
      BY <1>8, <1>15, <3>1, <3>3
  <2>3. CASE told' = told
    BY <2>1, <2>2, <2>3 DEF ToldSound
  <2>4. CASE /\ r.action = "approve"
             /\ told' = told \union {[by |-> r.actor, decision |-> r.value]}
    <3>1. PICK s : s = [by |-> r.actor, decision |-> r.value]
      OBVIOUS
    <3>2. s.by = r.actor /\ s.decision = r.value
      BY <3>1
    <3>3. r.actor \in Users /\ r.value \in {"approved", "rejected"}
      BY <1>2, <1>3, <2>4 DEF AskSound
    <3>4. approvals'[s.by] = s.decision
      BY <1>8, <1>15, <2>4, <3>2, <3>3
    <3>5. s \in [by : Users, decision : W!Decisions]
      BY <3>1, <3>3 DEF W!Decisions
    <3>6. told' = told \union {s}
      BY <2>4, <3>1
    <3> QED
      BY <2>1, <2>2, <3>2, <3>3, <3>4, <3>5, <3>6 DEF ToldSound
  <2> QED
    BY <1>1, <1>11, <2>3, <2>4 DEF W!Answer
<1>17. ASSUME NEW p \in Requests
       PROVE  AskSound(requests[p])'
  <2>1. CASE p = q
    BY <1>10, <1>13, <2>1 DEF AskSound
  <2>2. CASE p # q
    <3>1. PICK other \in W!Asked : other = requests[p]
      BY RequestIs
    <3>2. AskSound(other) /\ Apart(other, r) /\ requests'[p] = other
      BY <1>2, <1>13, <2>2, <3>1, RequestIs
    <3>3. AskSound(other)'
      BY <1>2, <1>3, <1>8, <1>15, <3>2, OthersStay
    <3> QED
      BY <3>2, <3>3 DEF AskSound
  <2> QED
    BY <2>1, <2>2
<1>18. \A p, o \in Requests : p # o => Apart(requests[p], requests[o])'
  <2> TAKE p, o \in Requests
  <2> HAVE p # o
  <2>1. Apart(requests[p], requests[o])
    BY DEF CollaborationSound
  <2>2. \A s : Apart(s, next) /\ Apart(next, s)
    BY <1>10 DEF Apart
  <2>3. Apart(requests'[p], requests'[o])
    BY <1>13, <2>1, <2>2
  <2> QED
    BY <2>3 DEF Apart
<1>19. W!TypeOK'
  BY <1>7, <1>8, <1>13, <1>14, <1>16 DEF W!TypeOK, W!Memberships, W!Approvals, W!Comments,
     W!AuditLog, Records, W!CollaborationAssumption
<1>20. comments' \subseteq 1..issued'
  BY <1>7, <1>8
<1> QED
  BY <1>7, <1>16, <1>17, <1>18, <1>19, <1>20 DEF CollaborationSound

LEMMA CollaborationBegins ==
  ASSUME W!CollaborationAssumption, W!Init
  PROVE  CollaborationSound
<1>1. PICK none : none = W!NoRequest
  OBVIOUS
<1>2. none \in W!Asked /\ none.step = "idle"
  BY <1>1 DEF W!NoRequest, W!Asked, W!CollaborationAssumption, W!Decisions
<1>3. requests = [q \in Requests |-> none]
  BY <1>1 DEF W!Init
<1>4. W!TypeOK
  <2>1. /\ members \in W!Memberships /\ approvals \in W!Approvals /\ comments = {}
        /\ revoked = {} /\ told = {}
    BY DEF W!Init, W!CollaborationAssumption, W!Memberships, W!Approvals, W!Decisions
  <2>2. issued \in 0..MaxIssued /\ faults \in 0..MaxFaults
    BY DEF W!Init, W!CollaborationAssumption
  <2>3. audit \in W!AuditLog
    BY DEF W!Init, W!AuditLog
  <2> QED
    BY <1>2, <1>3, <2>1, <2>2, <2>3 DEF W!TypeOK, W!Comments
<1>5. W!AuditIsExact
  <2>0. << >> \in Seq(Records)
    OBVIOUS
  <2>1. PICK log \in Seq(Records) : log = audit /\ log = <<>>
    BY <2>0 DEF W!Init
  <2>2. \A set : Positions(log, set) = {}
    BY <2>1 DEF Positions
  <2>3. Cardinality({}) = 0
    BY FS_EmptySet
  <2>4. Exact(log, members, approvals, revoked, comments)
    BY <2>2, <2>3 DEF Exact, W!Init
  <2> QED
    BY <2>1, <2>4, ExactIs
<1>6. \A q \in Requests : AskSound(requests[q])
  BY <1>2, <1>3 DEF AskSound
<1>7. \A p, q \in Requests : p # q => Apart(requests[p], requests[q])
  BY <1>2, <1>3 DEF Apart
<1>8. comments = {} /\ ToldSound
  BY DEF W!Init, ToldSound
<1> QED
  BY <1>4, <1>5, <1>6, <1>7, <1>8 DEF CollaborationSound

(* In every behaviour of the collaboration service the invariant holds.    *)
THEOREM CollaborationSoundAlways ==
  W!CollaborationAssumption /\ W!Spec => []CollaborationSound
<1> SUFFICES ASSUME W!CollaborationAssumption PROVE W!Spec => []CollaborationSound
  OBVIOUS
<1>1. W!Init => CollaborationSound
  BY CollaborationBegins
<1>2. CollaborationSound /\ [W!Next]_W!vars => CollaborationSound'
  <2> SUFFICES ASSUME CollaborationSound, [W!Next]_W!vars PROVE CollaborationSound'
    OBVIOUS
  <2>1. CASE W!Next
    <3>1. PICK q \in Requests : W!IssueAny(q) \/ W!Serve(q)
      BY <2>1 DEF W!Next
    <3> QED
      BY <3>1, IssueKeeps, ServeKeeps, CommitKeeps DEF W!Serve
  <2>2. CASE UNCHANGED W!vars
    BY <2>2 DEF W!vars, W!database, CollaborationSound, W!TypeOK, AskSound, Apart, ToldSound,
       W!AuditIsExact, W!DecisionsOf, W!RevocationsOf, W!CommentsMade, W!RoleChanges
  <2> QED
    BY <2>1, <2>2
<1> QED
  BY <1>1, <1>2, PTL DEF W!Spec

LEMMA CollaborationPromises ==
  ASSUME CollaborationSound
  PROVE  W!TypeOK /\ W!DecisionsHonoured /\ W!AuditIsExact
BY DEF CollaborationSound, ToldSound, W!DecisionsHonoured

-----------------------------------------------------------------------------
(***************************************************************************)
(* Owners.  Two transactions that demote different owners at once may      *)
(* leave none, because each counts rows that it has not locked.  That is   *)
(* the only way: the count of a demotion that overlaps no other stays true *)
(* until it commits.                                                       *)
(***************************************************************************)
OwnersIn(mem) == {u \in Users : mem[u] = "owner"}

(* A transaction that makes an owner something else.                       *)
Demotes(r, mem) ==
  /\ r.step \in {"counting", "writing"} /\ r.action = "manage_members"
  /\ r.value # "owner" /\ mem[r.target] = "owner"

DemotionsApart ==
  \A p, q \in Requests :
    Demotes(requests[p], members) /\ Demotes(requests[q], members) => p = q

LeavesOne(r, mem) ==
  r.step = "writing" /\ Demotes(r, mem) => Cardinality(OwnersIn(mem)) > 1

OwnersSound ==
  /\ OwnersIn(members) # {}
  /\ \A q \in Requests : LeavesOne(requests[q], members)

LEMMA OwnersAre == W!Owners = OwnersIn(members)
BY DEF W!Owners, OwnersIn

RoleChange(mem2, mem, t, role) == mem2 = [mem EXCEPT ![t] = role]

(* What a change of one role does to the owners.                           *)
LEMMA OwnersAfter ==
  ASSUME IsFiniteSet(Users), NEW mem \in [Users -> W!Roles \union {None}],
         NEW t \in Users, NEW role, NEW mem2, RoleChange(mem2, mem, t, role),
         OwnersIn(mem) # {},
         role # "owner" /\ mem[t] = "owner" => Cardinality(OwnersIn(mem)) > 1
  PROVE  /\ OwnersIn(mem2) # {}
         /\ ~(role # "owner" /\ mem[t] = "owner") =>
              Cardinality(OwnersIn(mem2)) >= Cardinality(OwnersIn(mem))
<1>1. IsFiniteSet(OwnersIn(mem)) /\ IsFiniteSet(OwnersIn(mem2))
  BY FS_Subset DEF OwnersIn
<1>2. CASE role # "owner" /\ mem[t] = "owner"
  <2>1. OwnersIn(mem) # {t}
    <3>1. Cardinality({t}) = 1
      BY FS_Singleton
    <3> QED
      BY <1>2, <3>1
  <2>2. PICK u \in Users : u # t /\ mem[u] = "owner"
    BY <1>2, <2>1 DEF OwnersIn
  <2> QED
    <3>1. mem2[u] = "owner"
      BY <2>2 DEF RoleChange
    <3>2. u \in OwnersIn(mem2)
      BY <2>2, <3>1 DEF OwnersIn
    <3> QED
      BY <1>2, <3>2
<1>3. CASE ~(role # "owner" /\ mem[t] = "owner")
  <2>1. OwnersIn(mem) \subseteq OwnersIn(mem2)
    BY <1>3 DEF OwnersIn, RoleChange
  <2>2. Cardinality(OwnersIn(mem)) <= Cardinality(OwnersIn(mem2))
    BY <1>1, <2>1, FS_Subset
  <2>3. Cardinality(OwnersIn(mem)) \in Nat /\ Cardinality(OwnersIn(mem2)) \in Nat
    BY <1>1, FS_CardinalityType
  <2> QED
    BY <1>3, <2>1, <2>2, <2>3
<1> QED
  BY <1>2, <1>3

(* Before COMMIT no role changes, and whoever comes to write has counted.  *)
LEMMA CountedBeforeWriting ==
  ASSUME IsFiniteSet(Users), CollaborationSound, NEW q \in Requests,
         \/ W!IssueAny(q) \/ W!Authorize(q) \/ W!LockMember(q) \/ W!CountOwners(q)
         \/ W!InsertApproval(q) \/ W!RevokeDevice(q) \/ W!InsertComment(q) \/ W!Rollback(q)
  PROVE  /\ members' = members
         /\ \E next : /\ requests' = [requests EXCEPT ![q] = next]
                      /\ LeavesOne(next, members)
<1>1. PICK r \in W!Asked : r = requests[q]
  BY RequestIs
<1>2. members' = members
  BY DEF W!IssueAny, W!Issue, W!Authorize, W!LockMember, W!CountOwners, W!InsertApproval,
         W!RevokeDevice, W!InsertComment, W!Rollback, W!database
<1> DEFINE Ends == requests' = [requests EXCEPT ![q] = W!NoRequest]
           Goes(step) == requests' = [requests EXCEPT ![q] = [r EXCEPT !.step = step]]
<1>3. ASSUME Ends PROVE \E next : /\ requests' = [requests EXCEPT ![q] = next]
                                  /\ LeavesOne(next, members)
  <2>1. PICK next : next = W!NoRequest
    OBVIOUS
  <2>2. next.step = "idle"
    BY <2>1 DEF W!NoRequest
  <2> QED
    BY <1>3, <2>1, <2>2 DEF LeavesOne
<1>4. ASSUME NEW step, Goes(step),
             step = "writing" /\ r.action = "manage_members" /\ r.value # "owner"
             /\ members[r.target] = "owner" => Cardinality(OwnersIn(members)) > 1
      PROVE  \E next : /\ requests' = [requests EXCEPT ![q] = next]
                       /\ LeavesOne(next, members)
  <2>1. PICK next : next = [r EXCEPT !.step = step]
    OBVIOUS
  <2>2. /\ next.step = step /\ next.action = r.action /\ next.value = r.value
        /\ next.target = r.target
    BY <2>1 DEF W!Asked
  <2>3. LeavesOne(next, members)
    BY <1>4, <2>2 DEF LeavesOne, Demotes
  <2> QED
    BY <1>4, <2>1, <2>3
<1>5. CASE W!IssueAny(q)
  <2>1. PICK next : /\ next.step = "authorize"
                    /\ requests' = [requests EXCEPT ![q] = next]
    BY <1>5 DEF W!IssueAny, W!Issue, W!Become
  <2> QED
    BY <1>2, <2>1 DEF LeavesOne
<1>6. CASE W!Authorize(q)
  BY <1>1, <1>2, <1>3, <1>4, <1>6 DEF W!Authorize, W!Go, W!Answer, W!Become
<1>7. CASE W!LockMember(q)
  BY <1>1, <1>2, <1>3, <1>4, <1>7 DEF W!LockMember, W!Go, W!Answer, W!Become
<1>8. CASE W!CountOwners(q)
  <2>1. PICK owners : owners = OwnersIn(members)
    OBVIOUS
  <2>2. W!Cardinality(W!Owners) = Cardinality(owners)
    BY <2>1, OwnersAre, CardinalityIs
  <2>3. Cardinality(owners) \in Nat
    BY <2>1, FS_Subset, FS_CardinalityType DEF OwnersIn
  <2>4. Ends \/ (Goes("writing") /\ Cardinality(owners) > 1)
    BY <1>1, <1>8, <2>2, <2>3 DEF W!CountOwners, W!Go, W!Answer, W!Become
  <2> QED
    BY <1>2, <1>3, <1>4, <2>1, <2>4
<1>9. CASE W!InsertApproval(q) \/ W!RevokeDevice(q) \/ W!InsertComment(q)
  BY <1>1, <1>2, <1>3, <1>4, <1>9 DEF W!InsertApproval, W!RevokeDevice, W!InsertComment,
     W!At, W!Go, W!Answer, W!Become
<1>10. CASE W!Rollback(q)
  BY <1>2, <1>3, <1>10 DEF W!Rollback, W!Answer, W!Become
<1> QED
  BY <1>5, <1>6, <1>7, <1>8, <1>9, <1>10

(* COMMIT of a demotion leaves the owner that was counted besides; that of *)
(* anything else leaves the count of a demotion under way.                 *)
LEMMA CommitLeavesOwner ==
  ASSUME IsFiniteSet(Users), CollaborationSound, DemotionsApart, OwnersSound,
         NEW q \in Requests, W!Commit(q)
  PROVE  OwnersSound'
<1>1. PICK r \in W!Asked : r = requests[q]
  BY RequestIs
<1>2. r.step = "writing" /\ AskSound(r) /\ LeavesOne(r, members)
  BY <1>1, RequestIs DEF W!Commit, OwnersSound
<1>3. PICK mem \in [Users -> W!Roles \union {None}] : mem = members
  BY DEF CollaborationSound, W!TypeOK, W!Memberships
<1>4. PICK mem2 : mem2 = members'
  OBVIOUS
<1>5. OwnersIn(mem) # {}
  BY <1>3 DEF OwnersSound
<1>6. PICK next : /\ next.step = "idle"
                  /\ requests' = [requests EXCEPT ![q] = next]
  BY DEF W!Commit, W!Answer, W!Become, W!NoRequest
<1>7. /\ \A p \in Requests \ {q} : requests'[p] = requests[p]
      /\ requests'[q] = next
  BY <1>6 DEF CollaborationSound, W!TypeOK
<1>8. CASE r.action # "manage_members"
  <2>1. mem2 = mem
    BY <1>1, <1>3, <1>4, <1>8 DEF W!Commit
  <2>2. ASSUME NEW p \in Requests PROVE LeavesOne(requests'[p], mem2)
    <3>1. CASE p = q
      BY <1>6, <1>7, <3>1 DEF LeavesOne
    <3>2. CASE p # q
      BY <1>3, <1>7, <2>1, <3>2 DEF OwnersSound
    <3> QED
      BY <3>1, <3>2
  <2> QED
    BY <1>4, <1>5, <2>1, <2>2 DEF OwnersSound, LeavesOne, Demotes, OwnersIn
<1>9. CASE r.action = "manage_members"
  <2>1. RoleChange(mem2, mem, r.target, r.value) /\ r.target \in Users
    BY <1>1, <1>2, <1>3, <1>4, <1>9 DEF W!Commit, AskSound, RoleChange
  <2>2. r.value # "owner" /\ mem[r.target] = "owner" => Cardinality(OwnersIn(mem)) > 1
    BY <1>2, <1>3, <1>9 DEF LeavesOne, Demotes
  <2>3. /\ OwnersIn(mem2) # {}
        /\ ~(r.value # "owner" /\ mem[r.target] = "owner") =>
             Cardinality(OwnersIn(mem2)) >= Cardinality(OwnersIn(mem))
    BY <1>5, <2>1, <2>2, OwnersAfter
  <2>4. ASSUME NEW p \in Requests, requests'[p].step = "writing", Demotes(requests'[p], mem2)
        PROVE  Cardinality(OwnersIn(mem2)) > 1
    <3>1. p # q /\ requests'[p] = requests[p]
      BY <1>6, <1>7, <2>4
    <3>2. PICK other \in W!Asked : other = requests[p]
      BY RequestIs
    <3>3. AskSound(other) /\ Apart(other, r) /\ LeavesOne(other, mem)
      BY <1>1, <1>3, <3>1, <3>2, RequestIs DEF OwnersSound
    <3>4. /\ other.step = "writing" /\ other.action = "manage_members"
          /\ other.value # "owner" /\ mem2[other.target] = "owner"
      BY <2>4, <3>1, <3>2 DEF Demotes
    <3>5. other.target # r.target /\ other.target \in Users
      BY <1>2, <1>9, <3>3, <3>4 DEF Apart, AskSound
    <3>6. mem[other.target] = "owner"
      BY <2>1, <3>4, <3>5 DEF RoleChange
    <3>7. Demotes(other, mem) /\ Cardinality(OwnersIn(mem)) > 1
      BY <3>3, <3>4, <3>6 DEF Demotes, LeavesOne
    <3>8. ~(r.value # "owner" /\ mem[r.target] = "owner")
      <4>1. ASSUME Demotes(r, mem) PROVE FALSE
        BY <1>1, <1>3, <3>1, <3>2, <3>7, <4>1 DEF DemotionsApart
      <4> QED
        BY <1>2, <1>9, <4>1 DEF Demotes
    <3>9. Cardinality(OwnersIn(mem)) \in Nat /\ Cardinality(OwnersIn(mem2)) \in Nat
      BY FS_Subset, FS_CardinalityType DEF OwnersIn
    <3> QED
      BY <2>3, <3>7, <3>8, <3>9
  <2>5. \A p \in Requests : LeavesOne(requests'[p], mem2)
    BY <2>4 DEF LeavesOne
  <2> QED
    BY <1>4, <2>3, <2>5 DEF OwnersSound, LeavesOne, Demotes, OwnersIn
<1> QED
  BY <1>8, <1>9

(* A workspace that has an owner keeps one as long as no two transactions  *)
(* that demote one overlap (changeMemberRole; the test of the service      *)
(* wants that of all role changes, which run last_owner refutes).          *)
THEOREM LoneDemotionsKeepAnOwner ==
  /\ W!CollaborationAssumption /\ IsFiniteSet(Users)
  /\ \E u \in Users : InitialRoles[u] = "owner"
  => (W!Spec /\ []DemotionsApart => []W!LastOwner)
<1> SUFFICES ASSUME W!CollaborationAssumption, IsFiniteSet(Users),
                    \E u \in Users : InitialRoles[u] = "owner"
             PROVE  W!Spec /\ []DemotionsApart => []W!LastOwner
  OBVIOUS
<1>1. W!Init => OwnersSound
  BY DEF W!Init, OwnersSound, OwnersIn, LeavesOne, W!NoRequest
<1>2. CollaborationSound /\ DemotionsApart /\ OwnersSound /\ [W!Next]_W!vars => OwnersSound'
  <2> SUFFICES ASSUME CollaborationSound, DemotionsApart, OwnersSound, [W!Next]_W!vars
               PROVE  OwnersSound'
    OBVIOUS
  <2>1. CASE W!Next
    <3>1. PICK q \in Requests : W!IssueAny(q) \/ W!Serve(q)
      BY <2>1 DEF W!Next
    <3>2. CASE W!Commit(q)
      BY <3>2, CommitLeavesOwner
    <3>3. CASE ~W!Commit(q)
      <4>1. PICK next : /\ members' = members
                        /\ requests' = [requests EXCEPT ![q] = next]
                        /\ LeavesOne(next, members)
        BY <3>1, <3>3, CountedBeforeWriting DEF W!Serve
      <4>2. \A p \in Requests : LeavesOne(requests'[p], members)
        BY <4>1 DEF OwnersSound, CollaborationSound, W!TypeOK
      <4> QED
        BY <4>1, <4>2 DEF OwnersSound, LeavesOne, Demotes, OwnersIn
    <3> QED
      BY <3>2, <3>3
  <2>2. CASE UNCHANGED W!vars
    BY <2>2 DEF W!vars, W!database, OwnersSound, OwnersIn, LeavesOne, Demotes
  <2> QED
    BY <2>1, <2>2
<1>3. OwnersSound => W!LastOwner
  BY OwnersAre DEF OwnersSound, W!LastOwner
<1> QED
  BY <1>1, <1>2, <1>3, CollaborationSoundAlways, PTL DEF W!Spec

-----------------------------------------------------------------------------
(***************************************************************************)
(* The components side by side.  Each theorem takes what it says of a      *)
(* component from the invariant of that component.                         *)
(***************************************************************************)
LEMMA CredentialMoves ==
  ASSUME C!TimesAssumption, CredentialSound, [C!Next]_C!vars
  PROVE  C!KeepsNewer /\ C!HandsOutStored /\ C!RevokesRefused
<1>1. CASE C!Next
  BY <1>1, CredentialStep
<1>2. CASE UNCHANGED C!vars
  BY <1>2 DEF C!vars, C!github, C!KeepsNewer, C!HandsOutStored, C!RevokesRefused, C!Live
<1> QED
  BY <1>1, <1>2

(* Every record and row of the seven components has its type.              *)
THEOREM AccessTyped == Spec => []TypeOK
<1>1. CredentialSound => C!TypeOK
  BY AccessAssumption, CredentialPromises
<1>2. AppSound => A!TypeOK
  BY AppPromises
<1>3. PullSound /\ PullBounds => P!TypeOK
  BY PullPromises
<1>4. RepositoriesSound => R!TypeOK
  BY AccessAssumption, RepositoriesPromise
<1>5. AccountsSound => S!TypeOK
  BY AccessAssumption, AccountsPromise
<1>6. IpcSound => L!TypeOK
  BY IpcPromises
<1>7. CollaborationSound => W!TypeOK
  BY CollaborationPromises
<1>8. C!Spec => []CredentialSound
  BY AccessAssumption, CredentialSoundAlways
<1>9. A!Spec => []AppSound
  BY AccessAssumption, AppSoundAlways
<1>10. P!Spec => [](PullSound /\ PullBounds)
  BY AccessAssumption, PullSoundAlways
<1>11. R!Spec => []RepositoriesSound
  BY AccessAssumption, RepositoriesSoundAlways
<1>12. S!Spec => []AccountsSound
  BY AccessAssumption, AccountsSoundAlways
<1>13. L!Spec => []IpcSound
  BY AccessAssumption, IpcSoundAlways
<1>14. W!Spec => []CollaborationSound
  BY AccessAssumption, CollaborationSoundAlways
<1> QED
  BY <1>1, <1>2, <1>3, <1>4, <1>5, <1>6, <1>7, <1>8, <1>9, <1>10, <1>11, <1>12, <1>13,
     <1>14, PTL DEF Spec, TypeOK

(* A grant that GitHub has replaced is gone for good, so the row holds one *)
(* it has spent only while the call that spent it still has the successor  *)
(* to store (REDACTED-lifecycle.ts), whatever calls, sign-ins and losses   *)
(* overlap.                                                                *)
THEOREM AccessRotationIsKept == Spec => []RotationIsKept
<1>1. CredentialSound => C!RotationIsKept
  BY AccessAssumption, CredentialPromises
<1>2. C!Spec => []CredentialSound
  BY AccessAssumption, CredentialSoundAlways
<1> QED
  BY <1>1, <1>2, PTL DEF Spec, RotationIsKept

(* Whatever fails, and however often GitHub delivers: what GitHub is told  *)
(* is enqueued, or a duplicate, is in the queue, and nothing is in the     *)
(* queue that the code refuses or ignores (webhook.ts).                    *)
THEOREM AccessDealtWith == Spec => []DealtWith
<1>1. AppSound => A!DealtWith
  BY AppPromises
<1>2. A!Spec => []AppSound
  BY AccessAssumption, AppSoundAlways
<1> QED
  BY <1>1, <1>2, PTL DEF Spec, DealtWith

(* No step of a call that comes late overwrites the credential another has *)
(* stored since, or hands out what is not stored; only a call that had read*)
(* or presented a grant that GitHub does not take, or that had outlived    *)
(* what its row said of it, revokes, be it another grant that is stored by *)
(* then (run github_credential_race); and an                               *)
(* installation that GitHub has told of as deleted stays deleted,          *)
(* whichever of its events comes late or again, with no credential asked   *)
(* for it after (REDACTED-lifecycle.ts,                                    *)
(* postgres-installation-state-store.ts).                                  *)
THEOREM AccessCredentialsAreKept == Spec => CredentialsAreKept
<1> DEFINE Sound == CredentialSound /\ AppSound
           Kept == C!KeepsNewer /\ C!HandsOutStored /\ C!RevokesRefused /\ A!KeepsDeleted
<1>1. Sound /\ [C!Next]_C!vars /\ [A!Next]_A!vars => [Kept]_<<C!vars, A!vars>>
  BY AccessAssumption, CredentialMoves, AppStep
<1>2. C!Spec => []CredentialSound
  BY AccessAssumption, CredentialSoundAlways
<1>3. A!Spec => []AppSound
  BY AccessAssumption, AppSoundAlways
<1>4. Spec => []Sound
  BY <1>2, <1>3, PTL DEF Spec
<1>5. Spec => [][C!Next]_C!vars /\ [][A!Next]_A!vars
  BY PTL DEF Spec, C!Spec, A!Spec
<1> HIDE DEF Sound
<1> QED
  BY <1>1, <1>4, <1>5, PTL DEF CredentialsAreKept

(* Whatever calls are made, repeated and lost, and whoever pushes: the     *)
(* branch of an operation holds one commit with the approved changes on    *)
(* the base they were verified on, its pull request offers that commit,    *)
(* and a call that is answered names both                                  *)
(* (applyExactChangesAndOpenPullRequest).                                  *)
THEOREM AccessOnlyTheVerified == Spec => []OnlyTheVerified
<1>1. PullSound /\ PullBounds => P!OnlyTheVerified
  BY PullPromises
<1>2. P!Spec => [](PullSound /\ PullBounds)
  BY AccessAssumption, PullSoundAlways
<1> QED
  BY <1>1, <1>2, PTL DEF Spec, OnlyTheVerified

(* What is out stays out: nobody who asked after the logout of a session   *)
(* or the revocation of a device is let in; and of a user's repositories   *)
(* only those are authorized that GitHub let the user have while it was    *)
(* asked, however many pages it was asked for                              *)
(* (repositories.ts, accounts of auth and devices).                        *)
THEOREM AccessOutIsOut == Spec => []OutIsOut
<1>1. AccountsSound => S!OutIsOut
  BY AccessAssumption, AccountsPromise
<1>2. RepositoriesSound => R!AuthorizedIsAccessible
  BY AccessAssumption, RepositoriesPromise
<1>3. S!Spec => []AccountsSound
  BY AccessAssumption, AccountsSoundAlways
<1>4. R!Spec => []RepositoriesSound
  BY AccessAssumption, RepositoriesSoundAlways
<1> QED
  BY <1>1, <1>2, <1>3, <1>4, PTL DEF Spec, OutIsOut

(* A grant serves one caller, in time and never its giver, and the device  *)
(* is that of the caller who consumed its enrolment.                       *)
THEOREM AccessRedeemedOnce == Spec => []RedeemedOnce
<1>1. AccountsSound => S!RedeemedOnce
  BY AccessAssumption, AccountsPromise
<1>2. S!Spec => []AccountsSound
  BY AccessAssumption, AccountsSoundAlways
<1> QED
  BY <1>1, <1>2, PTL DEF Spec, RedeemedOnce

(* What a caller of the local connection is told of a request is so: one   *)
(* that is said not to have been sent was not handled, and none is handled *)
(* twice (ipc.ts, ipc.rs), whichever side goes away and when.              *)
THEOREM AccessOutcomesTellTruth == Spec => []OutcomesTellTruth
<1>1. IpcSound => L!OutcomesTellTruth
  BY IpcPromises
<1>2. L!Spec => []IpcSound
  BY AccessAssumption, IpcSoundAlways
<1> QED
  BY <1>1, <1>2, PTL DEF Spec, OutcomesTellTruth

(* An approval that a user was told of stands, and the audit log has one   *)
(* record of everything that was done and of nothing else                  *)
(* (postgres-store.ts), however transactions overlap and answers are lost. *)
THEOREM AccessDecisionsHonoured == Spec => []DecisionsHonoured
<1>1. CollaborationSound => W!DecisionsHonoured /\ W!AuditIsExact
  BY CollaborationPromises
<1>2. W!Spec => []CollaborationSound
  BY AccessAssumption, CollaborationSoundAlways
<1> QED
  BY <1>1, <1>2, PTL DEF Spec, DecisionsHonoured
=============================================================================
