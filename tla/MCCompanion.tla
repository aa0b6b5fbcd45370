----------------------------- MODULE MCCompanion -----------------------------
(***************************************************************************)
(* Companion for TLC: behaviours in which the lease moves or the commands  *)
(* do, and the other stays as it begins.  Commands overlap in the part     *)
(* capture, where the third process is never launched and the host never   *)
(* restarts; in the part serial one follows the other, nothing crashes and *)
(* nothing is connected or linked.                                         *)
(***************************************************************************)
EXTENDS Companion

CONSTANTS c1, c2, p1, p2, p3

ASSUME MCAssumption == c1 \in Commands

VARIABLE part

lVars == <<now, parent, running, starts, exits, state, deadline, quietSince, known,
           live, gaps>>
cVars == <<stored, child, ipc, proc, signalled, active, log, inbox, commands, issued,
           faults>>
vars == <<part, lVars, cVars>>

-----------------------------------------------------------------------------
MCInit == part \in {"lease", "capture", "serial"} /\ L!Init /\ C!Init

Lease(step) == part = "lease" /\ step /\ UNCHANGED <<part, cVars>>

(* Processes are interchangeable: they are launched in this order.         *)
InOrder ==
  /\ proc[p1] = "unborn" => proc[p2] = "unborn"
  /\ proc[p2] = "unborn" => proc[p3] = "unborn"

Overlapping == issued <= 3 /\ proc[p3] = "unborn" /\ faults.restart = 0

Capture(step) ==
  part = "capture" /\ step /\ (InOrder /\ Overlapping)' /\ UNCHANGED <<part, lVars>>

OneAtATime ==
  /\ faults'.crash = 0
  /\ \A c \in Commands \ {c1} : commands'[c] = C!Idle
  /\ issued' # issued => commands' # commands

MCNext ==
  \/ Lease(L!Next)
  \/ Capture(C!Next)
  \/ part = "serial" /\ C!Next /\ InOrder' /\ OneAtATime /\ UNCHANGED <<part, lVars>>

(* The fairness of ObservationLease and of CaptureSession.                 *)
Fairness ==
  /\ WF_vars(Lease(L!Tick))
  /\ WF_vars(Lease(L!RecordProcessStart))
  /\ WF_vars(Lease(\E e \in exits : L!RecordProcessExit(e)))
  /\ WF_vars(Lease(L!Poll))
  /\ WF_vars(Capture(C!Continue(c1)))
  /\ WF_vars(Capture(C!Continue(c2)))

MCSpec == MCInit /\ [][MCNext]_vars /\ Fairness

-----------------------------------------------------------------------------
(* Commands that never overlap: between them the saved capture is what is  *)
(* observed.                                                               *)
ClaimIsTrue == part = "serial" => C!ClaimIsTrue

(* A lease that drains stops draining, and a Companion that is told to end *)
(* does end.                                                               *)
EndsWhenTold ==
  /\ (part = "lease" /\ L!Draining) ~> ~(part = "lease" /\ L!Draining)
  /\ \A p \in {p1, p2} :
       (part = "capture" /\ C!Ending(p)) ~> ~(part = "capture" /\ C!Ending(p))
=============================================================================
