------------------------------- MODULE Control -------------------------------
(***************************************************************************)
(* The services that decide about candidates, from a checkpoint to a       *)
(* verified change, side by side.  They share no state here: a behaviour   *)
(* of this module is one of each of them.                                  *)
(***************************************************************************)
EXTENDS Integers, Sequences, FiniteSets

CONSTANTS
  None, Callers, Workers,
  (* StateTransitions *)
  Objects, KindOf, TransitionKeys, MaxTransitions,
  (* Ledger *)
  Writers, OperationKeys, Ids, Bindings,
  (* Configuration *)
  RoleOf, Steps, Checks, Edits, Candidate, CandidateCallers, CandidateKeys,
  MaxRevisions, MaxChanges, AllSound,
  (* Reconciliation *)
  Checkpoints, Found, Runs,
  (* Generation *)
  CandidateRequests, PacketOf, Files, Plans, MaxGenerations, MaxTransportAttempts,
  (* ModelRegistry *)
  ModelVersions, Templates, MaxPromotions,
  (* Materializer *)
  Headers, MaxHeaders, MaxEntries, MaxFile, MaxBytes, Packages, PackageVersions,
  Operation,
  (* Verification *)
  Targets, CodeUnitOrder, LocaleOrder, TargetRequests, Faults, MaxActive, MaxCost,
  MaxAttempts, MaxVersion

VARIABLES
  rows, transitions,
  entries, writes,
  revisions, edits, candidates, calls,
  active, reconciliations, requested, done,
  ops, workers, posts, started, answered,
  versions, evidence, promotions,
  archive, pending, paths, root, bytes, step, uploaded, tree, baseline, original,
  contract, subject, asked, plan, runs, cost, cache, attestation

-----------------------------------------------------------------------------
T == INSTANCE StateTransitions WITH
       Keys <- TransitionKeys, MaxChanges <- MaxTransitions, calls <- transitions

L == INSTANCE Ledger WITH Keys <- OperationKeys

E == INSTANCE Configuration WITH Callers <- CandidateCallers, Keys <- CandidateKeys

R == INSTANCE Reconciliation WITH runs <- reconciliations

G == INSTANCE Generation WITH Requests <- CandidateRequests, MaxAttempts <- MaxGenerations

P == INSTANCE ModelRegistry WITH Versions <- ModelVersions, Contents <- Templates,
       MaxRevision <- MaxPromotions, calls <- promotions

M == INSTANCE Materializer WITH Versions <- PackageVersions

V == INSTANCE Verification WITH Requests <- TargetRequests

ASSUME ControlAssumption ==
  /\ T!TransitionsAssumption /\ L!LedgerAssumption /\ E!ConfigurationAssumption
  /\ G!GenerationAssumption /\ M!MaterializerAssumption /\ V!VerificationAssumption

Spec ==
  /\ T!Spec /\ L!Spec /\ E!Spec /\ R!Spec
  /\ G!Spec /\ P!Spec /\ M!Spec /\ V!Spec

-----------------------------------------------------------------------------
(* The variables of every component have their types.                      *)
TypeOK ==
  /\ T!TypeOK /\ L!TypeOK /\ E!TypeOK /\ R!TypeOK
  /\ G!TypeOK /\ P!TypeOK /\ M!TypeOK /\ V!TypeOK

(* A call that is repeated, for a change of state or for an entry that a   *)
(* key stands for, is told what happened, though others write beside it.   *)
AnswersTrue == T!AnswersTrue /\ L!OneBindingPerKey /\ E!AnswersTrue

(* Configuration: no edit is lost, no approval is of what nobody saw, and  *)
(* a candidate goes stale with what it was made under.                     *)
EditsHold == E!EditsBuildOnEachOther /\ E!NothingStandsOnReplaced

(* Generation: what is validated was guarded, what is answered is settled  *)
(* for good, and what it may cost.  Registry: the one active version       *)
(* passed the gate as it is.                                               *)
GuardedAndEvaluated ==
  /\ G!ValidatedIsGuarded /\ G!AnsweredIsSettled /\ G!PostsBounded
  /\ P!ActiveIsEvaluated

(* Reconciliation: which findings a checkpoint replaces, and that every    *)
(* finding of a checkpoint that is done has been requested a candidate.    *)
(* Registry: the retirement of a version is final.                         *)
NothingIsUndone ==
  [][R!ReplacesRead /\ R!RequestsFollow' /\ P!KeepsRetired]_<<R!vars, P!vars>>

(* Materializer: tar extracts what was inspected, and the result differs   *)
(* from the archive by the operation alone.                                *)
OnlyTheOperation == M!InspectedIsExtracted /\ M!OnlyTheOperation

(* Verification: what a verified candidate has passed.                     *)
VerifiedIsEarned == V!VerifiedIsEarned
=============================================================================
