--------------------------- MODULE Reconciliation ---------------------------
(***************************************************************************)
(* ReconcileCheckpointService (services/reconcile-checkpoint.ts): a queue  *)
(* delivery loads a checkpoint, runs the rules, replaces the findings of   *)
(* the project and requests a candidate for each.  Deliveries are          *)
(* repeated, run beside each other and may be lost between two awaits.     *)
(* One project; the stores and the queue are ports without an              *)
(* implementation in the repository and do what their comments ask for.    *)
(***************************************************************************)
EXTENDS FiniteSets

CONSTANTS
  Checkpoints,  \* checkpoints to reconcile
  Found,        \* the findings the rules give for each
  Runs,         \* deliveries at a time
  None

Findings == UNION {Found[c] : c \in Checkpoints}
Requests == {q \in Checkpoints \X Findings : q[2] \in Found[q[1]]}

VARIABLES
  active,     \* findings of the project that are active
  runs,       \* deliveries under way
  requested,  \* candidate requests in the queue, by idempotency key
  done        \* checkpoints whose delivery has been acknowledged

vars == <<active, runs, requested, done>>

(* A delivery: the checkpoint it loaded, the findings that were active then*)
(* and those it has still to request candidates for.                       *)
Run == [step : {"idle", "replace", "request"}, checkpoint : Checkpoints \union {None},
        previous : SUBSET Findings, left : SUBSET Findings]

NoRun == [step |-> "idle", checkpoint |-> None, previous |-> {}, left |-> {}]

Init ==
  /\ active \in SUBSET Findings
  /\ runs = [r \in Runs |-> NoRun]
  /\ requested = {} /\ done = {}

-----------------------------------------------------------------------------
(* load, the graphs, the rules, and the read of activeFindingIds.          *)
Load(r) ==
  /\ runs[r].step = "idle"
  /\ \E c \in Checkpoints \ done :
       runs' = [runs EXCEPT ![r] =
         [step |-> "replace", checkpoint |-> c, previous |-> active, left |-> Found[c]]]
  /\ UNCHANGED <<active, requested, done>>

SupersededNow(r) == active \ Found[runs[r].checkpoint]

(* Of the findings that were read, those the rules no longer give.         *)
Superseded(r) == runs[r].previous \ Found[runs[r].checkpoint]

(* replaceProjectFindings.                                                 *)
Replace(r) ==
  /\ runs[r].step = "replace"
  /\ active' = (active \ Superseded(r)) \union Found[runs[r].checkpoint]
  /\ runs' = [runs EXCEPT ![r].step = "request"]
  /\ UNCHANGED <<requested, done>>

(* One of the enqueues of Promise.all; its key is the project, the         *)
(* checkpoint and the finding.                                             *)
Enqueue(r) ==
  /\ runs[r].step = "request"
  /\ \E f \in runs[r].left :
       /\ requested' = requested \union {<<runs[r].checkpoint, f>>}
       /\ runs' = [runs EXCEPT ![r].left = @ \ {f}]
  /\ UNCHANGED <<active, done>>

ReturnEarly(r) ==
  /\ runs[r].step = "request"
  /\ done' = done \union {runs[r].checkpoint}
  /\ runs' = [runs EXCEPT ![r] = NoRun]
  /\ UNCHANGED <<active, requested>>

(* When reconcile returns the delivery is acknowledged.                    *)
Return(r) ==
  /\ runs[r].step = "request" /\ runs[r].left = {}
  /\ done' = done \union {runs[r].checkpoint}
  /\ runs' = [runs EXCEPT ![r] = NoRun]
  /\ UNCHANGED <<active, requested>>

(* A step fails or the delivery is lost: the checkpoint is delivered again. *)
Lose(r) ==
  /\ runs[r].step # "idle"
  /\ runs' = [runs EXCEPT ![r] = NoRun]
  /\ UNCHANGED <<active, requested, done>>

Next == \E r \in Runs : Load(r) \/ Replace(r) \/ Enqueue(r) \/ Return(r) \/ Lose(r)

Spec == Init /\ [][Next]_vars

-----------------------------------------------------------------------------
(* The variables have their types.                                         *)
TypeOK ==
  /\ active \subseteq Findings /\ requested \subseteq Requests /\ done \subseteq Checkpoints
  /\ runs \in [Runs -> Run]

(* A candidate is requested for every finding of a reconciled checkpoint,  *)
(* and only for findings the rules gave for it, whatever was lost or       *)
(* repeated between the replacement of the findings and the last request   *)
(* (reconcile).                                                            *)
RequestsFollow == done \subseteq {c \in Checkpoints : \A f \in Found[c] : <<c, f>> \in requested}

(* Only a reconciliation changes which findings are active, and one that   *)
(* no other overtook between its read and its write leaves exactly the     *)
(* findings of its checkpoint; one that was overtaken leaves those at      *)
(* least, and supersedes only what it had read (reconcile,                 *)
(* replaceProjectFindings).                                                *)
ReplacesRead ==
  active' # active =>
    \E r \in Runs : runs[r].step = "replace" /\
      LET found == Found[runs[r].checkpoint] IN
      /\ found \subseteq active' /\ active \ active' \subseteq runs[r].previous
      /\ runs[r].previous = active => active' = found

ReplacesWhatItRead == [][ReplacesRead]_vars
=============================================================================
