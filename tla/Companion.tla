------------------------------ MODULE Companion ------------------------------
(***************************************************************************)
(* The Companion and the extension that drives it: the lease of an         *)
(* observation, and the commands of the extension with the evidence they   *)
(* leave.  They share no state here: a behaviour of this module is one of  *)
(* each of them.                                                           *)
(***************************************************************************)
EXTENDS Integers, Sequences, FiniteSets

CONSTANTS
  None,
  (* ObservationLease *)
  Root, Descendants, Foreign, QuietPeriod, HardTimeout, MaxDelay, MaxTime,
  (* CaptureSession *)
  Commands, Kinds, Companions, MaxIssued, MaxCrashes, MaxRestarts

VARIABLES
  now, parent, running, starts, exits, state, deadline, quietSince, known, live, gaps,
  stored, child, ipc, proc, signalled, active, log, inbox, commands, issued, faults

-----------------------------------------------------------------------------
L == INSTANCE ObservationLease WITH Processes <- Descendants

C == INSTANCE CaptureSession WITH Processes <- Companions

ASSUME CompanionAssumption == L!PolicyAssumption /\ C!CaptureAssumption

Spec == L!Spec /\ C!Spec

-----------------------------------------------------------------------------
(* The variables of both have their types.                                 *)
TypeOK == L!TypeOK /\ C!TypeOK

(* Lease: a drain can always finish.                                       *)
DrainCanFinish == L!DrainCanFinish

(* Lease: what the end of a drain says of the processes of the session.    *)
NothingMissed == [][L!MissesNothing /\ L!TimesOutRightly]_L!vars

(* Commands: the evidence of a session, and the checkpoint that is shown.  *)
CheckpointIsEvidence == C!SessionsWellFormed /\ C!CheckpointIsEvidence

(* Commands: no Companion is lost sight of.                                *)
NoOrphan == C!NoOrphan
=============================================================================
