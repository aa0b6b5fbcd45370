-------------------------- MODULE StateTransitions --------------------------
(***************************************************************************)
(* How packages/db changes the state of a candidate, a validation job or a *)
(* recommendation (state-transitions.ts): one UPDATE that compares the     *)
(* expected state, and on a miss one SELECT that tells a repeat from a     *)
(* conflict.  Callers run side by side, and a caller that lost its answer  *)
(* repeats its call with the same idempotency key.                         *)
(*                                                                         *)
(* One row: calls for different rows share nothing.  It starts in any      *)
(* state: how it came there is earlier history, and its version counts     *)
(* from then on.  The text of a row is left out.                           *)
(***************************************************************************)
EXTENDS Naturals, Sequences

CONSTANTS
  Objects,     \* rows of candidates, validation_jobs and recommendations
  KindOf,      \* the table of each of them
  Callers,     \* calls that can be under way at a time
  Keys,        \* idempotency keys
  MaxChanges,  \* bound: changes of one row
  None

TransitionsAssumption ==
  /\ KindOf \in [Objects -> {"candidate", "job", "recommendation"}]
  /\ MaxChanges \in Nat
  /\ None \notin Keys

VARIABLES
  rows,   \* the rows, and the <<key, state>> of every change made to them
  calls   \* what each caller asks for and where its call is

vars == <<rows, calls>>

-----------------------------------------------------------------------------
candidateTransitions ==
  [draft |-> {"static_rejected", "ready_for_validation"},
   static_rejected |-> {},
   ready_for_validation |-> {"validating", "stale"},
   validating |-> {"validation_failed", "inconclusive", "verified", "stale"},
   validation_failed |-> {}, inconclusive |-> {},
   verified |-> {"approved", "stale"},
   stale |-> {},
   approved |-> {"applied", "stale"},
   applied |-> {}]

(* The phases of a job in order; each may be cut short by cleanup.         *)
validationJobTransitions ==
  [queued |-> {"provisioning"},
   provisioning |-> {"preflight", "cleanup"},
   preflight |-> {"source_prepare", "cleanup"},
   source_prepare |-> {"resolve", "cleanup"},
   resolve |-> {"install", "cleanup"},
   install |-> {"build", "cleanup"},
   build |-> {"test", "cleanup"},
   test |-> {"smoke", "cleanup"},
   smoke |-> {"benchmark", "evidence_persist", "cleanup"},
   benchmark |-> {"evidence_persist", "cleanup"},
   evidence_persist |-> {"cleanup"},
   cleanup |-> {"terminal"},
   terminal |-> {}]

recommendationTransitions ==
  [draft |-> {"reviewable", "invalidated", "rejected", "superseded"},
   reviewable |-> {"approved", "invalidated", "rejected", "superseded"},
   approved |-> {"applied", "invalidated", "superseded"},
   applied |-> {}, invalidated |-> {}, rejected |-> {}, superseded |-> {}]

Graph(o) == CASE KindOf[o] = "candidate" -> candidateTransitions
              [] KindOf[o] = "job" -> validationJobTransitions
              [] OTHER -> recommendationTransitions

States(o) == DOMAIN Graph(o)

(* assertAllowed, and for a job the outcome that goes with terminal.       *)
Allowed(o, from, to, outcome) ==
  /\ to \in Graph(o)[from]
  /\ KindOf[o] = "job" => ((to = "terminal") <=> outcome)

(* A row: the state it began in, the one it is in, how often and by which  *)
(* key it was changed last, and every change.                              *)
Row(o) == [first : States(o), state : States(o), version : Nat,
           key : Keys \union {None}, terminal : BOOLEAN,
           log : Seq(Keys \X States(o))]

AllStates == UNION {States(o) : o \in Objects}

(* What a caller passes, and what it was told.                             *)
Call == [step : {"idle", "update", "missed", "answered"}, object : Objects \union {None},
         from : AllStates \union {"none"}, to : AllStates \union {"none"},
         key : Keys \union {None}, answer : {"none", "ok", "conflict"}]

NoCall == [step |-> "idle", object |-> None, from |-> "none", to |-> "none",
           key |-> None, answer |-> "none"]

Init ==
  /\ \E o \in Objects : \E s \in States(o) \ {"terminal"} :
       rows = [x \in {o} |-> [state |-> s, first |-> s, version |-> 0, key |-> None,
                              terminal |-> FALSE, log |-> <<>>]]
  /\ calls = [c \in Callers |-> NoCall]

(* The states the row has been in.                                         *)
Seen(row) == {row.first} \union {row.log[i][2] : i \in 1..Len(row.log)}

(* The row after one more change of its state.                             *)
Changed(row, to, key) ==
  [row EXCEPT !.state = to, !.version = @ + 1, !.key = key,
              !.terminal = (to = "terminal"), !.log = Append(@, <<key, to>>)]

-----------------------------------------------------------------------------
(* A caller asks for a change from the state it last saw, however old.     *)
Ask(c) ==
  /\ calls[c].step = "idle"
  /\ \A o \in DOMAIN rows : rows[o].version < MaxChanges
  /\ \E o \in DOMAIN rows, key \in Keys, outcome \in BOOLEAN :
     \E from \in Seen(rows[o]), to \in States(o) :
       /\ Allowed(o, from, to, outcome)
       /\ calls' = [calls EXCEPT ![c] =
            [step |-> "update", object |-> o, from |-> from, to |-> to, key |-> key,
             answer |-> "none"]]
  /\ UNCHANGED rows

Answered(c, answer) ==
  calls' = [calls EXCEPT ![c].step = "answered", ![c].answer = answer]

(* The UPDATE: it changes the row only in the expected state.              *)
Update(c) ==
  LET call == calls[c]
      row == rows[call.object]
  IN /\ call.step = "update"
     /\ IF row.state = call.from
        THEN /\ rows' = [rows EXCEPT ![call.object] = Changed(row, call.to, call.key)]
             /\ Answered(c, "ok")
        ELSE calls' = [calls EXCEPT ![c].step = "missed"] /\ UNCHANGED rows

RepeatedByAnyone(row, call) == row.state = call.to

(* Whether a row that was not in the expected state is there by this call. *)
Repeated(row, call) == row.state = call.to /\ row.key = call.key

(* resolveTransitionMiss, on the row as the later SELECT finds it.         *)
Resolve(c) ==
  /\ calls[c].step = "missed"
  /\ Answered(c, IF Repeated(rows[calls[c].object], calls[c]) THEN "ok" ELSE "conflict")
  /\ UNCHANGED rows

(* The caller did not get its answer and repeats the call.                 *)
Retry(c) ==
  /\ calls[c].step = "answered"
  /\ calls' = [calls EXCEPT ![c].step = "update", ![c].answer = "none"]
  /\ UNCHANGED rows

Forget(c) ==
  /\ calls[c].step = "answered"
  /\ calls' = [calls EXCEPT ![c] = NoCall]
  /\ UNCHANGED rows

Next == \E c \in Callers :
          Ask(c) \/ Update(c) \/ Resolve(c) \/ Retry(c) \/ Forget(c)

Spec == Init /\ [][Next]_vars

-----------------------------------------------------------------------------
(* The rows and the calls have their types.                                *)
TypeOK ==
  /\ \A o \in DOMAIN rows :
       /\ rows[o] \in Row(o)
       /\ rows[o].version = Len(rows[o].log)
       /\ rows[o].version <= MaxChanges
  /\ calls \in [Callers -> Call]

(* A caller that is told its change is made finds it in the history of the *)
(* row under its own key; one that is told of a conflict finds that the    *)
(* row has left the state it expected; no row is ever in a state twice,    *)
(* however often calls are repeated; and a job has an outcome exactly when *)
(* it has ended (transitionCandidate, transitionValidationJob,             *)
(* transitionRecommendation, resolveTransitionMiss).                       *)
AnswersTrue ==
  /\ \A c \in Callers :
       LET call == calls[c] IN
       /\ call.answer = "ok" =>
            \E i \in 1..Len(rows[call.object].log) :
              rows[call.object].log[i] = <<call.key, call.to>>
       /\ call.answer = "conflict" => rows[call.object].state # call.from
  /\ \A o \in DOMAIN rows : \A i, j \in 1..Len(rows[o].log) :
       rows[o].log[i][2] = rows[o].log[j][2] => i = j

=============================================================================
