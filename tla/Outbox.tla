------------------------------- MODULE Outbox -------------------------------
(***************************************************************************)
(* The Braintrust trace outbox (apps/worker/src/services/                  *)
(* braintrust-outbox.ts): a trace is stored as an encrypted object and a   *)
(* row, and drains claim due rows in batches, export each trace and record *)
(* the outcome.                                                            *)
(*                                                                         *)
(* Every await of drainDue is a point where another drain may act or the   *)
(* drain be lost.  The store of rows is external and is modelled from the  *)
(* contract in the code: claimDue takes due rows and stale claims and      *)
(* counts the attempt; an outcome is accepted only for the attempt that is *)
(* the row's latest.  The provider is external: it deduplicates by the     *)
(* row's key, so its traces are a set.                                     *)
(*                                                                         *)
(* Abstractions.  Time is the flag due of a row: set when the backoff of a *)
(* failed row is over or when the lease of a claim is, also while its      *)
(* drain is still at work.  Digests, pointers and summaries are left out.  *)
(***************************************************************************)
EXTENDS Integers, Sequences, FiniteSets, SequencesExt

CONSTANTS
  Rows,             \* traces to export
  Drains,           \* drains that can run at a time
  BatchSize,        \* configuration.batchSize
  MaximumAttempts,  \* configuration.maximumAttempts
  MaxFaults         \* bound: failed calls, lost drains, leases that expire
                    \* while their drain is at work

OutboxAssumption ==
  /\ IsFiniteSet(Rows) /\ BatchSize \in Nat /\ MaximumAttempts \in Nat \ {0}
  /\ MaxFaults \in Nat

VARIABLES
  objects,  \* encrypted payloads that were put
  rows,     \* state, attempt count, due, and the last failure
  traces,   \* traces the provider holds
  drains,   \* the records a drain has claimed and where it is
  stales,   \* per row: claims taken over as stale
  faults    \* faults so far

vars == <<objects, rows, traces, drains, stales, faults>>

-----------------------------------------------------------------------------
NoRow == [state |-> "none", attempt |-> 0, due |-> FALSE, failure |-> "none"]

NoDrain == [step |-> "idle", queue |-> <<>>, failure |-> "none"]

Init ==
  /\ objects = {}
  /\ rows = [r \in Rows |-> NoRow]
  /\ traces = {}
  /\ drains = [d \in Drains |-> NoDrain]
  /\ stales = [r \in Rows |-> 0]
  /\ faults = 0

Fault == faults < MaxFaults /\ faults' = faults + 1

Head1(d) == Head(drains[d].queue)

RestKept(d) == [drains[d] EXCEPT !.step = "export", !.queue = Tail(@)]

Rest(d) == IF Len(drains[d].queue) = 1 THEN NoDrain
           ELSE [drains[d] EXCEPT !.step = "export", !.queue = Tail(@)]

Go(d, next) == drains' = [drains EXCEPT ![d] = next]

(* The claims drains hold of a row at this attempt.                        *)
Held(r) == \E d \in Drains :
             \E i \in DOMAIN drains[d].queue :
               drains[d].queue[i] = [row |-> r, attempt |-> rows[r].attempt]

-----------------------------------------------------------------------------
(* enqueue: the object first, then the row that points to it.              *)
PutObject(r) ==
  /\ r \notin objects
  /\ objects' = objects \union {r}
  /\ UNCHANGED <<rows, traces, drains, stales, faults>>

InsertRow(r) ==
  /\ r \in objects /\ rows[r].state = "none"
  /\ rows' = [rows EXCEPT ![r].state = "pending", ![r].due = TRUE]
  /\ UNCHANGED <<objects, traces, drains, stales, faults>>

NeverStale == {r \in Rows : rows[r].due /\ rows[r].state \in {"pending", "failed"}}

Claimable ==
  {r \in Rows : rows[r].due /\ rows[r].state \in {"pending", "failed", "exporting"}}

(* claimDue, at most BatchSize rows, in the order it returns them.         *)
ClaimDue(d) ==
  /\ drains[d] = NoDrain
  /\ \E claimed \in SUBSET Claimable :
       /\ claimed # {}
       /\ \/ Cardinality(claimed) = BatchSize
          \/ Cardinality(claimed) < BatchSize /\ claimed = Claimable
       /\ rows' = [r \in Rows |->
            IF r \in claimed
            THEN [rows[r] EXCEPT !.state = "exporting", !.attempt = @ + 1, !.due = FALSE]
            ELSE rows[r]]
       /\ stales' = [r \in Rows |->
            IF r \in claimed /\ rows[r].state = "exporting" THEN stales[r] + 1
            ELSE stales[r]]
       /\ \E order \in SetToSeqs(claimed) :
            Go(d, [NoDrain EXCEPT !.step = "export",
                     !.queue = [i \in DOMAIN order |->
                       [row |-> order[i], attempt |-> rows'[order[i]].attempt]]])
  /\ UNCHANGED <<objects, traces, faults>>

(* BraintrustOutboxExportError says of itself whether it may be retried;   *)
(* of the other errors normalizeExportFailure makes final ones, of a bad   *)
(* pointer, and retryable ones, of the rest.  Its class decides nothing.   *)
Failures == {"retryable", "final"}

Failing(d, failure) ==
  Go(d, [drains[d] EXCEPT !.step = "failing", !.failure = failure])

MarksFirst(d) ==
  /\ drains[d].step = "export"
  /\ rows' = [rows EXCEPT ![Head1(d).row].state = "exported"]
  /\ Go(d, [drains[d] EXCEPT !.step = "mark"])
  /\ UNCHANGED <<objects, traces, stales, faults>>

(* The object is resolved and the trace exported; a failure leaves open    *)
(* whether the provider has the trace: that of a missing object or of a    *)
(* bad pointer, which are final, comes before the export.                  *)
ExportEncryptedTrace(d) ==
  /\ drains[d].step = "export"
  /\ \/ /\ traces' = traces \union {Head1(d).row}
        /\ Go(d, [drains[d] EXCEPT !.step = "mark"])
        /\ UNCHANGED faults
     \/ /\ traces' \in {traces, traces \union {Head1(d).row}}
        /\ \E failure \in Failures : Failing(d, failure)
        /\ Fault
  /\ UNCHANGED <<objects, rows, stales>>

(* The store accepts an outcome only for the row's latest attempt.         *)
Latest(d) == rows[Head1(d).row].attempt = Head1(d).attempt

(* markExported is inside the try block: its failure is a retryable one,   *)
(* although the trace is exported, and perhaps marked.                     *)
MarkExported(d) ==
  /\ drains[d].step = "mark"
  /\ LET marked == [rows EXCEPT ![Head1(d).row].state = "exported",
                                ![Head1(d).row].due = FALSE]
     IN \/ Latest(d) /\ rows' = marked /\ Go(d, Rest(d)) /\ UNCHANGED faults
        \/ ~Latest(d) /\ Failing(d, "retryable") /\ UNCHANGED <<rows, faults>>
        \/ /\ rows' \in {rows} \union (IF Latest(d) THEN {marked} ELSE {})
           /\ Failing(d, "retryable") /\ Fault
  /\ UNCHANGED <<objects, traces, stales>>

TerminalTooLate(record, failure) ==
  failure = "final" \/ record.attempt > MaximumAttempts

Terminal(record, failure) ==
  failure = "final" \/ record.attempt >= MaximumAttempts

(* recordFailure; when it is refused or fails, drainDue throws and leaves  *)
(* the rest of its batch exporting.                                        *)
RecordFailure(d) ==
  /\ drains[d].step = "failing"
  /\ LET record == Head1(d)
         failure == drains[d].failure
         failed == [rows EXCEPT ![record.row] =
                      [@ EXCEPT !.state = IF Terminal(record, failure)
                                          THEN "abandoned" ELSE "failed",
                                !.due = FALSE, !.failure = failure]]
     IN \/ Latest(d) /\ rows' = failed /\ Go(d, Rest(d)) /\ UNCHANGED faults
        \/ ~Latest(d) /\ Go(d, NoDrain) /\ UNCHANGED <<rows, faults>>
        \/ /\ rows' \in {rows} \union (IF Latest(d) THEN {failed} ELSE {})
           /\ Go(d, NoDrain) /\ Fault
  /\ UNCHANGED <<objects, traces, stales>>

Lose(d) ==
  /\ drains[d] # NoDrain
  /\ Go(d, NoDrain) /\ Fault
  /\ UNCHANGED <<objects, rows, traces, stales>>

(* The backoff of a failed row is over.                                    *)
BackoffEnds(r) ==
  /\ rows[r].state = "failed" /\ ~rows[r].due
  /\ rows' = [rows EXCEPT ![r].due = TRUE]
  /\ UNCHANGED <<objects, traces, drains, stales, faults>>

(* The lease of a claim is over; a fault if its drain is still at work.    *)
LeaseEnds(r) ==
  /\ rows[r].state = "exporting" /\ ~rows[r].due
  /\ rows' = [rows EXCEPT ![r].due = TRUE]
  /\ IF Held(r) THEN Fault ELSE UNCHANGED faults
  /\ UNCHANGED <<objects, traces, drains, stales>>

Work(d) ==
  ExportEncryptedTrace(d) \/ MarkExported(d) \/ RecordFailure(d)

LostClaimEnds(r) == LeaseEnds(r) /\ ~Held(r)

Next ==
  \/ \E r \in Rows : PutObject(r) \/ InsertRow(r) \/ BackoffEnds(r) \/ LeaseEnds(r)
  \/ \E d \in Drains : ClaimDue(d) \/ Work(d) \/ Lose(d)

Spec == Init /\ [][Next]_vars

(* Drains are started again and again and their calls are answered or      *)
(* fail, and time passes.  Lost drains and overrun leases are bounded.     *)
Fairness ==
  /\ \A d \in Drains : WF_vars(ClaimDue(d)) /\ WF_vars(Work(d))
  /\ \A r \in Rows : WF_vars(BackoffEnds(r)) /\ WF_vars(LostClaimEnds(r))

-----------------------------------------------------------------------------
(* TraceOutboxRecord as the store keeps it, and as a drain has claimed it. *)
TraceOutboxRecord ==
  [state : {"none", "pending", "exporting", "failed", "exported", "abandoned"},
   attempt : 0..(MaximumAttempts + MaxFaults), due : BOOLEAN,
   failure : Failures \union {"none"}]

Claims == [row : Rows, attempt : 1..(MaximumAttempts + MaxFaults)]

(* Every variable has its type.                                            *)
TypeOK ==
  /\ objects \subseteq Rows
  /\ rows \in [Rows -> TraceOutboxRecord]
  /\ traces \subseteq Rows
  /\ \A d \in Drains :
       /\ drains[d].step \in {"idle", "export", "mark", "failing"}
       /\ Range(drains[d].queue) \subseteq Claims
       /\ drains[d].step = "idle" <=> drains[d].queue = <<>>
  /\ stales \in [Rows -> 0..MaxFaults]
  /\ faults \in 0..MaxFaults

(* The limit on attempts binds every row: each attempt beyond it took over *)
(* a claim whose drain left no outcome.                                    *)
AttemptsBounded ==
  \A r \in Rows : rows[r].attempt <= MaximumAttempts + stales[r]

(* The state of a settled row is true: an exported row is a trace that the *)
(* provider holds, and a row is given up only because of its latest        *)
(* failure, one that a retry cannot mend or the last that is allowed.      *)
OutcomesTrue ==
  \A r \in Rows :
    /\ rows[r].state = "exported" => r \in traces
    /\ rows[r].state = "abandoned" =>
         \/ rows[r].failure = "final"
         \/ rows[r].attempt >= MaximumAttempts

(* Every row that was inserted ends exported or abandoned.                 *)
Settles ==
  \A r \in Rows :
    rows[r].state # "none" ~> rows[r].state \in {"exported", "abandoned"}
=============================================================================
