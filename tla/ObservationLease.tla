-------------------------- MODULE ObservationLease --------------------------
(***************************************************************************)
(* One session's observation lease (crates/companion/src/                  *)
(* observation_lease.rs): it follows the provider's descendant processes,  *)
(* and when the session ends waits for them to finish, for a quiet period  *)
(* and never past a hard deadline, before the closing checkpoint.          *)
(*                                                                         *)
(* The host and its process observer are external.  On the host, processes *)
(* of the lineage start others and exit; the observer reports each start   *)
(* and each exit once, up to MaxDelay after it happened: starts in the     *)
(* order they happened, an exit after the start of the same process, and   *)
(* otherwise in any order, so that a child's start may be reported after   *)
(* its parent's exit.  The root starts nothing after the end boundary.     *)
(* Times are ticks of one monotonic clock.                                 *)
(***************************************************************************)
EXTENDS Integers, Sequences, FiniteSets

CONSTANTS
  Root,            \* the provider's process
  Processes,       \* identities its descendants may have
  Foreign,         \* those of them that carry another boot id
  QuietPeriod,     \* DescendantDrainPolicy.quiet_period_nanos
  HardTimeout,     \* DescendantDrainPolicy.hard_timeout_nanos
  MaxDelay,        \* how late the observer may report
  MaxTime,         \* bound: the clock
  None             \* an Option that is None

(* DescendantDrainPolicy::new rejects any other policy; a report must be   *)
(* in before the quiet period can end.                                     *)
PolicyAssumption ==
  /\ HardTimeout \in Nat \ {0}
  /\ QuietPeriod \in 0..HardTimeout
  /\ MaxDelay \in Nat /\ MaxDelay < QuietPeriod
  /\ MaxTime \in Nat
  /\ Foreign \subseteq Processes
  /\ Root \notin Processes
  /\ None \notin Nat

VARIABLES
  now,             \* the clock
  parent,          \* host: parent of every process started
  running,         \* host: processes that have not exited
  starts,          \* observer: starts to report, oldest first, with their time
  exits,           \* observer: exits to report, with their time
  state,           \* ObservationLeaseState
  deadline,        \* drain_deadline_monotonic_nanos
  quietSince,      \* quiet_since_monotonic_nanos
  known,           \* known_lineage
  live,            \* live_descendants
  gaps             \* ObservationLeaseGap

host  == <<parent, running, starts, exits>>
lease == <<state, deadline, quietSince, known, live, gaps>>
vars  == <<now, host, lease>>

Open == {"observing", "draining", "checkpointing"}

-----------------------------------------------------------------------------
Init ==
  /\ now = 0
  /\ parent = <<>> /\ running = {Root}
  /\ starts = <<>> /\ exits = {}
  /\ state = "observing"
  /\ deadline = None /\ quietSince = None
  /\ known = {Root} /\ live = {} /\ gaps = {}

(* A process starts another; the root only while the session lasts.  One   *)
(* that is reported under another boot id starts nothing.                  *)
Fork(p, child) ==
  /\ p \in running \ Foreign
  /\ p = Root => state = "observing"
  /\ child \in Processes \ DOMAIN parent
  /\ parent' = [q \in DOMAIN parent \union {child} |->
                  IF q = child THEN p ELSE parent[q]]
  /\ running' = running \union {child}
  /\ starts' = Append(starts, [process |-> child, at |-> now])
  /\ UNCHANGED <<now, exits, lease>>

Exit(p) ==
  /\ p \in running \ {Root}
  /\ running' = running \ {p}
  /\ exits' = exits \union {[process |-> p, at |-> now]}
  /\ UNCHANGED <<now, parent, starts, lease>>

(* Time passes, but not while a report is due.                             *)
Tick ==
  /\ now < MaxTime
  /\ \A e \in exits : now < e.at + MaxDelay
  /\ \A i \in 1..Len(starts) : now < starts[i].at + MaxDelay
  /\ now' = now + 1
  /\ UNCHANGED <<host, lease>>

-----------------------------------------------------------------------------
QuietElapsedUnchecked(quiet) == quiet # None

(* The quiet barrier, if it was ever raised, has lasted long enough.       *)
QuietElapsed(quiet) == quiet # None /\ now - quiet >= QuietPeriod

ExpiredEarly(due) == now + 1 >= due

ExpiredNever(due) == FALSE

Expired(due) == now >= due

(* advance with a healthy observer, from a lease whose drain has the given *)
(* deadline, quiet barrier and live set.                                   *)
Advance(due, quiet, alive) ==
  /\ state' = IF Expired(due)
              THEN IF alive = {} THEN "checkpointing" ELSE "partial_capture"
              ELSE IF alive = {} /\ QuietElapsed(quiet)
                   THEN "checkpointing" ELSE "draining"
  /\ gaps' = IF Expired(due) /\ alive # {}
             THEN gaps \union {"descendant_drain_timeout"} ELSE gaps

Admissible(p) ==
  /\ state \in {"observing", "draining"}
  /\ p \notin Foreign
  /\ parent[p] \in known

AdmitToLive(p) == live' = live \union {p} /\ UNCHANGED known

Admit(p) == live' = live \union {p} /\ known' = known \union {p}

(* record_process_start of the oldest start to report.  Activity while     *)
(* draining lowers the quiet barrier.                                      *)
RecordProcessStart ==
  LET p == Head(starts).process
  IN /\ starts # <<>>
     /\ starts' = Tail(starts)
     /\ IF Admissible(p)
        THEN /\ Admit(p)
             /\ IF state = "draining"
                THEN quietSince' = None /\ Advance(deadline, None, live')
                ELSE UNCHANGED <<state, quietSince, gaps>>
        ELSE UNCHANGED <<state, quietSince, known, live, gaps>>
     /\ UNCHANGED <<now, parent, running, exits, deadline>>

QuietAfterExitForgotten(p) == quietSince

(* The last live process to exit raises the quiet barrier again.           *)
QuietAfterExit(p) ==
  IF p \in live /\ live = {p} /\ state = "draining" THEN now ELSE quietSince

(* record_process_exit; the lineage keeps the process.                     *)
RecordProcessExit(e) ==
  /\ e \in exits
  /\ \A i \in 1..Len(starts) : starts[i].process # e.process
  /\ exits' = exits \ {e}
  /\ live' = live \ {e.process}
  /\ quietSince' = QuietAfterExit(e.process)
  /\ IF state = "draining"
     THEN Advance(deadline, quietSince', live')
     ELSE UNCHANGED <<state, gaps>>
  /\ UNCHANGED <<now, parent, running, starts, deadline, known>>

Endable == state = "observing"

(* request_end; in any other state it returns at once.                     *)
RequestEnd ==
  /\ Endable
  /\ now + HardTimeout < MaxTime
  /\ deadline' = now + HardTimeout
  /\ quietSince' = IF live = {} THEN now ELSE None
  /\ Advance(deadline', quietSince', live)
  /\ UNCHANGED <<now, host, known, live>>

(* The caller's poll of a draining lease with a healthy observer.          *)
Poll ==
  /\ state = "draining"
  /\ Advance(deadline, quietSince, live)
  /\ UNCHANGED <<now, host, deadline, quietSince, known, live>>

(* A poll that found the observer lost.                                    *)
PollLost ==
  /\ state = "draining"
  /\ state' = "partial_capture"
  /\ gaps' = gaps \union {"observer_loss"}
  /\ UNCHANGED <<now, host, deadline, quietSince, known, live>>

CheckpointCompleted ==
  /\ state = "checkpointing"
  /\ state' = "ended"
  /\ UNCHANGED <<now, host, deadline, quietSince, known, live, gaps>>

Next ==
  \/ \E p \in running, child \in Processes : Fork(p, child)
  \/ \E p \in running : Exit(p)
  \/ Tick
  \/ RecordProcessStart
  \/ \E e \in exits : RecordProcessExit(e)
  \/ RequestEnd
  \/ Poll \/ PollLost
  \/ CheckpointCompleted

Spec == Init /\ [][Next]_vars

(* Time passes, the observer reports and the lease is polled.              *)
Fairness ==
  /\ WF_vars(Tick)
  /\ WF_vars(RecordProcessStart)
  /\ WF_vars(\E e \in exits : RecordProcessExit(e))
  /\ WF_vars(Poll)

FairSpec == Spec /\ Fairness

-----------------------------------------------------------------------------
Reports == [process : Processes, at : Nat]

(* Every variable has its type.                                           *)
TypeOK ==
  /\ now \in 0..MaxTime
  /\ DOMAIN parent \subseteq Processes
  /\ \A p \in DOMAIN parent : parent[p] \in Processes \union {Root}
  /\ running \subseteq DOMAIN parent \union {Root}
  /\ starts \in Seq(Reports) /\ exits \subseteq Reports
  /\ state \in Open \union {"ended", "partial_capture"}
  /\ deadline \in Nat \union {None} /\ quietSince \in Nat \union {None}
  /\ known \subseteq DOMAIN parent \union {Root}
  /\ live \subseteq known \ {Root}
  /\ gaps \subseteq {"descendant_drain_timeout", "observer_loss"}

(* While the lease drains it can always finish: it has a deadline, and     *)
(* whenever no descendant is live the quiet barrier is up, whatever order  *)
(* starts and exits were reported in.  Outside the drain no gap is open.   *)
DrainCanFinish ==
  /\ state = "observing" <=> deadline = None
  /\ state = "draining" /\ live = {} => quietSince \in 0..now
  /\ live # {} => quietSince = None
  /\ gaps # {} <=> state = "partial_capture"

(* The comment on the quiet period: a set of processes that is empty for a *)
(* moment does not close the lease while a child of it is still to be      *)
(* reported.  A drain that ends before its deadline missed no process of   *)
(* the session.                                                            *)
MissesNothing ==
  state # "checkpointing" /\ state' = "checkpointing" /\ now < deadline'
    => running' \subseteq {Root} \union Foreign

(* What a drain may never do, of every step (observation_lease.rs tick).   *)
NothingMissed == [][MissesNothing]_vars

(* A drain is called timed out only if a process of the session still ran  *)
(* at the deadline, or had exited too late for the observer to say so.     *)
TimesOutRightly ==
  gaps' \ gaps = {"descendant_drain_timeout"}
    => \/ running' \ Foreign # {Root}
       \/ \E e \in exits' : e.at + MaxDelay >= deadline'

TimeoutMeansRunning == [][TimesOutRightly]_vars

(* Observation is bounded: a lease that drains stops draining.             *)
Draining == state = "draining"

DrainEnds == Draining ~> ~Draining
=============================================================================
