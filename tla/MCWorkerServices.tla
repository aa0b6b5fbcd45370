-------------------------- MODULE MCWorkerServices --------------------------
(***************************************************************************)
(* WorkerServices for TLC: behaviours in which one service moves and the   *)
(* others stay as they begin, so that no state of one is multiplied with   *)
(* another's.  Ingestion is here for what must happen in the end (the run  *)
(* ingestion has larger uploads).                                          *)
(***************************************************************************)
EXTENDS WorkerServices, TLC

CONSTANTS e, d1, d2, d3

VARIABLE part

batch == [first |-> 1, last |-> 1, previous |-> <<>>, head |-> <<e>>, signer |-> 1]

MCBatches == {batch}

vVars == <<accepted, planned, reservation, delivery, runs, sandboxes, late, touched,
           summaries, runFaults>>
oVars == <<payloads, rows, traces, drains, stales, drainFaults>>
pVars == <<version, effect, polls, view, pollFailures>>
iVars == <<deviceKey, stream, stored, objects, requests, failures, queue, deadLetters,
           anchors, receipts>>
vars == <<part, vVars, oVars, pVars, iVars>>

-----------------------------------------------------------------------------
(* The plan of a validation has commands for both runs or for none.        *)
MCInit ==
  /\ part \in {"validation", "outbox", "polling", "ingestion"}
  /\ V!Init /\ planned \in {V!Kinds, {}}
  /\ (part # "validation" => accepted /\ planned = {})
  /\ O!Init /\ P!Init /\ I!Init

Drain(step) == part = "outbox" /\ step /\ UNCHANGED <<part, vVars, pVars, iVars>>

PollStep(step) == part = "polling" /\ step /\ UNCHANGED <<part, vVars, oVars, iVars>>

Ingest(step) == part = "ingestion" /\ step /\ UNCHANGED <<part, vVars, oVars, pVars>>

(* Deliveries begin in their order, they are alike; and a third one only   *)
(* after two that asked for no sandbox for the candidate: the two kinds    *)
(* share nothing but the delivery, and what three deliveries do to one is  *)
(* seen in the baseline's.                                                 *)
InOrder ==
  /\ delivery[d2] # "new" => delivery[d1] # "new"
  /\ delivery[d3] # "new" =>
       /\ delivery[d2] # "new"
       /\ \A d \in {d1, d2} : runs[<<d, "candidate">>].step = "find"

MCNext ==
  \/ part = "validation" /\ V!Next /\ InOrder' /\ UNCHANGED <<part, oVars, pVars, iVars>>
  \/ Drain(O!Next)
  \/ PollStep(P!Next)
  \/ Ingest(I!Next)

(* The fairness of the services, as their modules state it.                *)
Fairness ==
  /\ \A d \in Drains : WF_vars(Drain(O!ClaimDue(d))) /\ WF_vars(Drain(O!Work(d)))
  /\ \A r \in OutboxRows : WF_vars(Drain(O!BackoffEnds(r))) /\ WF_vars(Drain(O!LostClaimEnds(r)))
  /\ WF_vars(PollStep(P!Poll))
  /\ \A r \in P!Runs : WF_vars(PollStep(P!Serve(r) \/ P!Answer(r) \/ P!Fail(r)))
  /\ \A r \in Requests : WF_vars(Ingest(I!Serve(r)))
  /\ SF_vars(Ingest(\E r \in Requests : I!Receive(r, batch)))
  /\ \A m \in I!Messages :
       WF_vars(Ingest(m \in queue /\ (I!Consume(m) \/ I!ConsumeFails(m))))

MCSpec == MCInit /\ [][MCNext]_vars /\ Fairness

-----------------------------------------------------------------------------
(* Outbox: every row ends exported or abandoned.  WorkspacePolling: what   *)
(* is shown catches up with the project.                                   *)
Settles ==
  /\ \A r \in OutboxRows :
       (part = "outbox" /\ rows[r].state # "none") ~>
         (part = "outbox" /\ rows[r].state \in {"exported", "abandoned"})
  /\ <>[](part = "polling" => P!Shown)

(* Ingestion: what was committed is consumed or held as a dead letter.     *)
CommittedIsProcessed ==
  (part = "ingestion" /\ I!Committed(batch)) ~>
    (part = "ingestion" /\ I!Processed(batch))
=============================================================================
