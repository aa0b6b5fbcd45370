---------------------------- MODULE WorkerServices ----------------------------
(***************************************************************************)
(* Services of the worker: validation, the Braintrust outbox, the updates  *)
(* the web app polls, and ingestion.  They share no state here: a          *)
(* behaviour of this module is one of each of them.                        *)
(***************************************************************************)
EXTENDS Integers, Sequences, FiniteSets

CONSTANTS
  None,
  (* Validation *)
  Deliveries, MaxRunFaults,
  (* Outbox *)
  OutboxRows, Drains, BatchSize, MaximumAttempts, MaxDrainFaults,
  (* WorkspacePolling *)
  MaxVersion, MaxRuns, MaxPollFailures, PartialAt,
  (* Ingestion *)
  Events, Batches, Requests, MaxKey, MaxSeals, MaxFailures, MaxRetries

VARIABLES
  accepted, planned, reservation, delivery, runs, sandboxes, late, touched, summaries, runFaults,
  payloads, rows, traces, drains, stales, drainFaults,
  version, effect, polls, view, pollFailures,
  deviceKey, stream, stored, objects, requests, failures, queue, deadLetters, anchors,
  receipts

-----------------------------------------------------------------------------
V == INSTANCE Validation WITH MaxFaults <- MaxRunFaults, faults <- runFaults

O == INSTANCE Outbox WITH
       Rows <- OutboxRows, MaxFaults <- MaxDrainFaults, objects <- payloads, faults <- drainFaults

P == INSTANCE WorkspacePolling WITH
       MaxFailures <- MaxPollFailures, requests <- polls, failures <- pollFailures

I == INSTANCE Ingestion

ASSUME WorkerServicesAssumption ==
  /\ V!ValidationAssumption /\ O!OutboxAssumption
  /\ P!PollingAssumption /\ I!IngestionAssumption

Spec == V!Spec /\ O!Spec /\ P!Spec /\ I!Spec

-----------------------------------------------------------------------------
(* The variables of every service have their types.                        *)
TypeOK == V!TypeOK /\ O!TypeOK /\ P!TypeOK /\ I!TypeOK

(* Validation: the confirmed end of every sandbox of a batch.              *)
Accounted == V!Accounted

(* Validation: what a verdict rests on.                                    *)
VerdictIsEarned == V!VerdictIsEarned

(* Outbox: the limit on attempts, and what the state of a settled row      *)
(* says.  WorkspacePolling: the page shown is the one its etag names.      *)
OutcomesTrue == O!AttemptsBounded /\ O!OutcomesTrue /\ P!ShownIsAnswered
=============================================================================
