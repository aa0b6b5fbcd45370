--------------------------- MODULE CompanionProofs ---------------------------
(***************************************************************************)
(* Theorems about the Companion and the commands that drive it, for every  *)
(* set of processes and commands, every policy of the drain, every delay   *)
(* of the observer and every bound.                                        *)
(*                                                                         *)
(* LeaseSound    the lease sees reports only, and the invariant relates    *)
(*               them to the host: a process the lease may observe is to   *)
(*               be reported or is known, its parent is reported before    *)
(*               it, a known process that runs is live, and nothing is     *)
(*               reported later than MaxDelay.  Whoever could still fork   *)
(*               when the quiet barrier rose was live or not yet reported: *)
(*               a process to be reported whose parent is known and gone   *)
(*               started before the barrier (QuietCovers), so a quiet      *)
(*               period longer than MaxDelay leaves none.                  *)
(* CaptureSound  a process is active exactly between the start and the     *)
(*               stop of its session in the log, and has one request to    *)
(*               start; a checkpoint that is replied or saved names an     *)
(*               event; whoever waits for an exit has sent the signal.     *)
(* SerialSound   of commands that never overlap: what the command under    *)
(*               way has done of what it will do, and that a request which *)
(*               comes late reaches nobody who is observed.                *)
(***************************************************************************)
EXTENDS MCCompanion, FiniteSetTheorems, WellFoundedInduction, TLAPS

-----------------------------------------------------------------------------

Started(i) == starts[i].process

Listening == state \in {"observing", "draining"}

(* What the host does, and what its observer still has to report.          *)
Lineage ==
  \A p \in DOMAIN parent : parent[p] = Root \/ parent[p] \in DOMAIN parent \ Foreign

ExitsPending ==
  \A e \in exits :
    /\ e.process \in DOMAIN parent \ running
    /\ e.at <= now /\ now <= e.at + MaxDelay

Alive(p) == p \in running \/ \E e \in exits : e.process = p

StartsPending ==
  \A i \in 1..Len(starts) :
    /\ Started(i) \in DOMAIN parent /\ Alive(Started(i))
    /\ starts[i].at <= now /\ now <= starts[i].at + MaxDelay

StartsOrdered ==
  \A i, j \in 1..Len(starts) :
    /\ Started(i) = Started(j) => i = j
    /\ parent[Started(i)] = Started(j) => j < i

HostSound == Lineage /\ ExitsPending /\ StartsPending /\ StartsOrdered

(* What the lease knows of it.                                             *)
LineageKnown ==
  /\ Root \in known
  /\ Listening => \A p \in DOMAIN parent \ Foreign :
                    p \in known \/ \E i \in 1..Len(starts) : Started(i) = p
  /\ running \intersect known \subseteq live \union {Root}
  /\ \A p \in live : p \notin Foreign /\ Alive(p)

QuietCovers ==
  /\ state = "observing" => quietSince = None
  /\ state = "draining" /\ quietSince # None =>
       \A i \in 1..Len(starts) :
         parent[Started(i)] \in known \ live => starts[i].at <= quietSince

LeaseSound == L!TypeOK /\ L!DrainCanFinish /\ HostSound /\ LineageKnown /\ QuietCovers

-----------------------------------------------------------------------------
LEMMA FirstNatural ==
  ASSUME NEW S \in SUBSET Nat, S # {}
  PROVE  \E m \in S : \A n \in S : m <= n
<1>1. PICK m \in S : \A n \in S : ~ (<<n, m>> \in OpToRel(<, Nat))
  BY WFMin, NatLessThanWellFounded, Zenon
<1>2. \A n \in S : ~ (n < m)
  BY <1>1 DEF OpToRel
<1> QED
  BY <1>2

(* The quiet period is over and nothing is live: nobody is left.           *)
LEMMA QuietMeansAlone ==
  ASSUME L!PolicyAssumption, LeaseSound, state = "draining", live = {}, L!QuietElapsed(quietSince)
  PROVE  running \subseteq {Root} \union Foreign
<1> SUFFICES ASSUME NEW p \in running, p # Root, p \notin Foreign
             PROVE  FALSE
  OBVIOUS
<1> USE DEF LeaseSound
<1>1. starts \in Seq(L!Reports) /\ now \in Nat /\ quietSince \in Nat
  BY DEF L!TypeOK, L!QuietElapsed, L!PolicyAssumption
<1>2. \A i \in 1..Len(starts) : starts[i].at \in Nat
  <2>1. \A i \in 1..Len(starts) : starts[i] \in L!Reports
    BY <1>1
  <2> QED
    BY <2>1 DEF L!Reports
<1> DEFINE Unreported == {i \in 1..Len(starts) : Started(i) \notin Foreign}
<1>3. Unreported # {}
  <2>1. p \in DOMAIN parent \ Foreign /\ p \notin known
    BY DEF L!TypeOK, LineageKnown
  <2> QED
    BY <2>1 DEF LineageKnown, Listening
<1>4. Unreported \in SUBSET Nat
  BY <1>1
<1>5. PICK first \in Unreported : \A i \in Unreported : first <= i
  BY <1>3, <1>4, FirstNatural
<1>6. first \in 1..Len(starts) /\ Started(first) \notin Foreign
  BY <1>5
<1>7. /\ Started(first) \in DOMAIN parent
      /\ now <= starts[first].at + MaxDelay
      /\ \A j \in 1..Len(starts) : parent[Started(first)] = Started(j) => j < first
  <2>1. Started(first) \in DOMAIN parent /\ now <= starts[first].at + MaxDelay
    BY <1>6 DEF HostSound, StartsPending
  <2>2. \A i, j \in 1..Len(starts) : parent[Started(i)] = Started(j) => j < i
    BY DEF HostSound, StartsOrdered
  <2> QED
    BY <1>6, <2>1, <2>2
<1>8. parent[Started(first)] \in known
  <2>1. CASE parent[Started(first)] = Root
    BY <2>1 DEF LineageKnown
  <2>2. CASE parent[Started(first)] # Root
    <3>1. parent[Started(first)] \in DOMAIN parent \ Foreign
      BY <1>7, <2>2 DEF HostSound, Lineage
    <3>2. ~ \E j \in 1..Len(starts) : Started(j) = parent[Started(first)]
      <4> SUFFICES ASSUME NEW j \in 1..Len(starts), Started(j) = parent[Started(first)]
                   PROVE  FALSE
        OBVIOUS
      <4>1. j \in Unreported
        BY <3>1
      <4>2. j < first /\ first <= j
        BY <1>5, <1>7, <4>1
      <4> QED
        BY <1>1, <1>6, <4>2
    <3> QED
      BY <3>1, <3>2 DEF LineageKnown, Listening
  <2> QED
    BY <2>1, <2>2
<1>9. starts[first].at <= quietSince
  BY <1>1, <1>6, <1>8, <1>7 DEF QuietCovers, L!QuietElapsed
<1>10. now - quietSince > MaxDelay
  BY <1>1 DEF L!QuietElapsed, L!PolicyAssumption
<1> QED
  BY <1>1, <1>2, <1>6, <1>7, <1>9, <1>10 DEF L!PolicyAssumption

-----------------------------------------------------------------------------
(* A report, as the steps below use it.                                    *)
LEMMA ReportTyped ==
  ASSUME L!TypeOK, L!PolicyAssumption
  PROVE  /\ starts \in Seq(L!Reports) /\ now \in Nat /\ Len(starts) \in Nat
         /\ \A i \in 1..Len(starts) :
              starts[i] \in L!Reports /\ Started(i) \in Descendants /\ starts[i].at \in Nat
         /\ \A e \in exits : e.process \in Descendants /\ e.at \in Nat
<1>1. starts \in Seq(L!Reports) /\ now \in Nat /\ exits \subseteq L!Reports
  BY DEF L!TypeOK, L!PolicyAssumption
<1>2. \A i \in 1..Len(starts) : starts[i] \in L!Reports
  BY <1>1
<1>3. \A r \in L!Reports : r.process \in Descendants /\ r.at \in Nat
  BY DEF L!Reports
<1> QED
  BY <1>1, <1>2, <1>3 DEF Started

LEMMA LeaseBegins == ASSUME L!PolicyAssumption, L!Init PROVE LeaseSound
<1> USE DEF L!Init, L!PolicyAssumption
<1>1. L!TypeOK
  <2>1. starts \in Seq(L!Reports) /\ exits \subseteq L!Reports
    BY DEF L!Reports
  <2> QED
    BY <2>1 DEF L!TypeOK, L!Open
<1>2. HostSound /\ LineageKnown
  BY DEF HostSound, Lineage, ExitsPending, StartsPending, StartsOrdered, LineageKnown, Listening
<1>3. L!DrainCanFinish /\ QuietCovers
  BY DEF L!DrainCanFinish, QuietCovers
<1> QED
  BY <1>1, <1>2, <1>3 DEF LeaseSound

(* A process that forks is live, not yet reported, or the root before the  *)
(* end of the session.                                                     *)
LEMMA ForkSound ==
  ASSUME L!PolicyAssumption, LeaseSound, NEW p \in running, NEW born \in Descendants,
         L!Fork(p, born)
  PROVE  LeaseSound'
<1> DEFINE report == [process |-> born, at |-> now]
           n == Len(starts) + 1
<1>1. /\ starts \in Seq(L!Reports) /\ now \in Nat /\ Len(starts) \in Nat
      /\ \A i \in 1..Len(starts) : starts[i] \in L!Reports /\ starts[i].at \in Nat
  BY ReportTyped DEF LeaseSound
<1>2. report \in L!Reports /\ report.process = born /\ report.at = now
  BY <1>1 DEF L!Reports
<1>3. /\ starts' = Append(starts, report)
      /\ p \in running \ Foreign
      /\ p = Root => state = "observing"
      /\ born \notin DOMAIN parent
      /\ running' = running \union {born}
      /\ UNCHANGED <<now, exits, L!lease>>
  BY DEF L!Fork
<1>4. UNCHANGED <<state, deadline, quietSince, known, live, gaps, now, exits>>
  BY <1>3 DEF L!lease
<1>5. /\ DOMAIN parent' = DOMAIN parent \union {born}
      /\ parent'[born] = p
      /\ \A q \in DOMAIN parent : parent'[q] = parent[q]
  BY <1>3 DEF L!Fork
<1>6. p = Root \/ p \in DOMAIN parent \ Foreign
  BY <1>3 DEF LeaseSound, L!TypeOK
<1>7. born # Root /\ born # p
  BY <1>3, <1>6 DEF L!PolicyAssumption
<1> HIDE DEF report
<1>8. /\ starts' \in Seq(L!Reports) /\ Len(starts') = n
      /\ \A i \in 1..Len(starts) : starts'[i] = starts[i]
      /\ starts'[n] = report
      /\ \A i \in 1..n : i \in 1..Len(starts) \/ i = n
  BY <1>1, <1>2, <1>3
<1>9. \A i \in 1..Len(starts) : Started(i) \in DOMAIN parent /\ Started(i) # born
  BY <1>3 DEF LeaseSound, HostSound, StartsPending
<1>10. L!TypeOK'
  <2>1. \A q \in DOMAIN parent' : parent'[q] \in Descendants \union {Root}
    BY <1>5, <1>6 DEF LeaseSound, L!TypeOK
  <2>2. DOMAIN parent' \subseteq Descendants /\ running' \subseteq DOMAIN parent' \union {Root}
    BY <1>3, <1>5 DEF LeaseSound, L!TypeOK
  <2> QED
    BY <1>4, <1>5, <1>8, <2>1, <2>2 DEF LeaseSound, L!TypeOK
<1>11. L!DrainCanFinish'
  BY <1>4 DEF LeaseSound, L!DrainCanFinish
<1>12. HostSound'
  <2> USE DEF LeaseSound, HostSound
  <2>1. Lineage'
    BY <1>5, <1>6 DEF Lineage
  <2>2. ExitsPending'
    BY <1>3, <1>4, <1>5 DEF ExitsPending
  <2>3. \A q : Alive(q) => Alive(q)'
    BY <1>3, <1>4 DEF Alive
  <2>4. StartsPending'
    <3> SUFFICES ASSUME NEW i \in 1..n
                 PROVE  /\ Started(i)' \in DOMAIN parent' /\ Alive(Started(i))'
                        /\ starts'[i].at <= now' /\ now' <= starts'[i].at + MaxDelay
      BY <1>8 DEF StartsPending
    <3>1. CASE i \in 1..Len(starts)
      BY <1>4, <1>5, <1>8, <2>3, <3>1 DEF StartsPending, Started
    <3>2. CASE i = n
      BY <1>1, <1>2, <1>3, <1>4, <1>5, <1>8, <3>2 DEF Started, Alive, L!PolicyAssumption
    <3> QED
      BY <1>8, <3>1, <3>2
  <2>5. StartsOrdered'
    <3> SUFFICES ASSUME NEW i \in 1..n, NEW j \in 1..n
                 PROVE  /\ starts'[i].process = starts'[j].process => i = j
                        /\ parent'[starts'[i].process] = starts'[j].process => j < i
      BY <1>8 DEF StartsOrdered, Started
    <3>1. CASE i \in 1..Len(starts) /\ j \in 1..Len(starts)
      BY <1>5, <1>8, <1>9, <3>1 DEF StartsOrdered, Started
    <3>2. CASE i = n /\ j \in 1..Len(starts)
      BY <1>1, <1>2, <1>8, <1>9, <3>2 DEF Started
    <3>3. CASE i \in 1..Len(starts) /\ j = n
      <4>1. parent[Started(i)] # born /\ Started(i) # born
        BY <1>3, <1>7, <1>9, <3>3 DEF L!TypeOK, Lineage
      <4> QED
        BY <1>2, <1>5, <1>8, <1>9, <3>3, <4>1 DEF Started
    <3>4. CASE i = n /\ j = n
      BY <1>2, <1>5, <1>7, <1>8, <3>4
    <3> QED
      BY <1>8, <3>1, <3>2, <3>3, <3>4
  <2> QED
    BY <2>1, <2>2, <2>4, <2>5
<1>13. LineageKnown'
  <2>1. \A q : Alive(q) => Alive(q)'
    BY <1>3, <1>4 DEF Alive
  <2>2. born \notin known
    BY <1>3, <1>7 DEF LeaseSound, L!TypeOK
  <2>3. running' \intersect known' \subseteq live' \union {Root}
    BY <1>3, <1>4, <2>2 DEF LeaseSound, LineageKnown
  <2>4. \A q \in live' : q \notin Foreign /\ Alive(q)'
    BY <1>4, <2>1 DEF LeaseSound, LineageKnown
  <2>5. ASSUME NEW q \in DOMAIN parent' \ Foreign, Listening
        PROVE  q \in known \/ \E i \in 1..n : starts'[i].process = q
    <3>1. CASE q = born
      BY <1>1, <1>2, <1>8, <3>1
    <3>2. CASE q \in DOMAIN parent
      <4>1. q \in known \/ \E i \in 1..Len(starts) : Started(i) = q
        BY <2>5, <3>2 DEF LeaseSound, LineageKnown
      <4>2. 1..Len(starts) \subseteq 1..n
        BY <1>1
      <4> QED
        BY <1>8, <4>1, <4>2 DEF Started
    <3> QED
      BY <1>5, <3>1, <3>2
  <2> QED
    BY <1>4, <1>8, <2>3, <2>4, <2>5 DEF LeaseSound, LineageKnown, Listening, Started
<1>14. QuietCovers'
  <2>1. ASSUME NEW i \in 1..n, state = "draining", quietSince # None,
               parent'[starts'[i].process] \in known \ live
        PROVE  starts'[i].at <= quietSince
    <3>1. CASE i \in 1..Len(starts)
      BY <1>5, <1>8, <1>9, <2>1, <3>1 DEF LeaseSound, QuietCovers, Started
    <3>2. CASE i = n
      <4>1. p \in known \ live
        BY <1>2, <1>5, <1>8, <2>1, <3>2
      <4> QED
        BY <1>3, <2>1, <4>1 DEF LeaseSound, LineageKnown
    <3> QED
      BY <1>8, <3>1, <3>2
  <2> QED
    BY <1>4, <1>8, <2>1 DEF LeaseSound, QuietCovers, Started
<1> QED
  BY <1>10, <1>11, <1>12, <1>13, <1>14 DEF LeaseSound

(* Whoever exits is reported to have, within MaxDelay.                     *)
LEMMA ExitSound ==
  ASSUME L!PolicyAssumption, LeaseSound, NEW p \in running, L!Exit(p)
  PROVE  LeaseSound'
<1> DEFINE report == [process |-> p, at |-> now]
<1>1. /\ p # Root /\ running' = running \ {p}
      /\ exits' = exits \union {report}
      /\ UNCHANGED <<now, parent, starts, L!lease>>
  BY DEF L!Exit
<1>2. UNCHANGED <<state, deadline, quietSince, known, live, gaps>>
  BY <1>1 DEF L!lease
<1>3. p \in DOMAIN parent /\ p \in Descendants /\ now \in Nat /\ MaxDelay \in Nat
  BY <1>1, ReportTyped DEF LeaseSound, L!TypeOK, L!PolicyAssumption
<1>4. report \in L!Reports /\ report.process = p /\ report.at = now
  BY <1>3 DEF L!Reports
<1> HIDE DEF report
<1>5. \A q : Alive(q) => Alive(q)'
  BY <1>1, <1>4 DEF Alive
<1>6. L!TypeOK'
  BY <1>1, <1>2, <1>4 DEF LeaseSound, L!TypeOK
<1>7. L!DrainCanFinish'
  BY <1>1, <1>2 DEF LeaseSound, L!DrainCanFinish
<1>8. Lineage' /\ StartsOrdered'
  BY <1>1 DEF LeaseSound, HostSound, Lineage, StartsOrdered, Started
<1>9. ExitsPending'
  BY <1>1, <1>3, <1>4 DEF LeaseSound, HostSound, ExitsPending
<1>10. StartsPending'
  BY <1>1, <1>5 DEF LeaseSound, HostSound, StartsPending, Started
<1>11. LineageKnown'
  BY <1>1, <1>2, <1>5 DEF LeaseSound, LineageKnown, Listening, Started
<1>12. QuietCovers'
  BY <1>1, <1>2 DEF LeaseSound, QuietCovers, Started
<1> QED
  BY <1>6, <1>7, <1>8, <1>9, <1>10, <1>11, <1>12 DEF LeaseSound, HostSound

(* Time waits for what is due to be reported.                              *)
LEMMA TickSound == ASSUME L!PolicyAssumption, LeaseSound, L!Tick PROVE LeaseSound'
<1>1. /\ now < MaxTime /\ now' = now + 1
      /\ \A e \in exits : now < e.at + MaxDelay
      /\ \A i \in 1..Len(starts) : now < starts[i].at + MaxDelay
      /\ UNCHANGED <<parent, running, starts, exits>>
      /\ UNCHANGED <<state, deadline, quietSince, known, live, gaps>>
  BY DEF L!Tick, L!host, L!lease
<1>2. /\ now \in Nat /\ MaxTime \in Nat /\ MaxDelay \in Nat
      /\ \A i \in 1..Len(starts) : starts[i].at \in Nat
      /\ \A e \in exits : e.at \in Nat
  BY ReportTyped DEF LeaseSound, L!PolicyAssumption
<1>3. \A q : Alive(q)' = Alive(q)
  BY <1>1 DEF Alive
<1>4. L!TypeOK'
  BY <1>1, <1>2 DEF LeaseSound, L!TypeOK
<1>5. L!DrainCanFinish'
  BY <1>1, <1>2 DEF LeaseSound, L!DrainCanFinish
<1>6. Lineage' /\ StartsOrdered'
  BY <1>1 DEF LeaseSound, HostSound, Lineage, StartsOrdered, Started
<1>7. ExitsPending'
  BY <1>1, <1>2 DEF LeaseSound, HostSound, ExitsPending
<1>8. StartsPending'
  BY <1>1, <1>2, <1>3 DEF LeaseSound, HostSound, StartsPending, Started
<1>9. LineageKnown'
  BY <1>1, <1>3 DEF LeaseSound, LineageKnown, Listening, Started
<1>10. QuietCovers'
  BY <1>1 DEF LeaseSound, QuietCovers, Started
<1> QED
  BY <1>4, <1>5, <1>6, <1>7, <1>8, <1>9, <1>10 DEF LeaseSound, HostSound

-----------------------------------------------------------------------------
(* Where advance leaves the lease, and the gap it opens.                   *)
LEMMA AdvanceEffect ==
  ASSUME NEW due, NEW quiet, NEW alive, L!Advance(due, quiet, alive),
         gaps = {}
  PROVE  /\ state' \in {"draining", "checkpointing", "partial_capture"}
         /\ gaps' \subseteq {"descendant_drain_timeout"}
         /\ gaps' # {} <=> state' = "partial_capture"
         /\ gaps' # {} => L!Expired(due) /\ alive # {}
         /\ state' = "checkpointing" => alive = {} /\ (L!Expired(due) \/ L!QuietElapsed(quiet))
BY DEF L!Advance

(* The steps of the lease that read no report.                             *)
LEMMA HostRests ==
  ASSUME L!PolicyAssumption, LeaseSound, UNCHANGED <<now, L!host, known, live>>,
         state \in {"observing", "draining"} \/ state' \notin {"observing", "draining"}
  PROVE  HostSound' /\ LineageKnown'
<1>1. UNCHANGED <<now, parent, running, starts, exits, known, live>>
  BY DEF L!host
<1>2. \A q : Alive(q)' = Alive(q)
  BY <1>1 DEF Alive
<1>3. HostSound'
  BY <1>1, <1>2
  DEF LeaseSound, HostSound, Lineage, ExitsPending, StartsPending, StartsOrdered, Started
<1>4. LineageKnown'
  BY <1>1, <1>2 DEF LeaseSound, LineageKnown, Listening, Started
<1> QED
  BY <1>3, <1>4

(* The end of the session raises the barrier at once if nothing is live.   *)
LEMMA EndSound == ASSUME L!PolicyAssumption, LeaseSound, L!RequestEnd PROVE LeaseSound'
<1>1. /\ state = "observing"
      /\ deadline' = now + HardTimeout
      /\ quietSince' = IF live = {} THEN now ELSE None
      /\ L!Advance(deadline', quietSince', live)
      /\ UNCHANGED <<now, parent, running, starts, exits, known, live>>
  BY DEF L!RequestEnd, L!Endable, L!host
<1>2. /\ now \in Nat /\ HardTimeout \in Nat \ {0} /\ QuietPeriod \in Nat /\ QuietPeriod > 0
      /\ None \notin Nat /\ MaxTime \in Nat
  BY ReportTyped DEF LeaseSound, L!PolicyAssumption
<1>3. gaps = {}
  BY <1>1 DEF LeaseSound, L!DrainCanFinish
<1>4. ~L!Expired(deadline')
  BY <1>1, <1>2 DEF L!Expired
<1>5. ~L!QuietElapsed(quietSince')
  BY <1>1, <1>2 DEF L!QuietElapsed
<1>6. state' = "draining" /\ gaps' = {}
  BY <1>1, <1>3, <1>4, <1>5 DEF L!Advance
<1>7. L!TypeOK'
  BY <1>1, <1>2, <1>6 DEF LeaseSound, L!TypeOK, L!Open
<1>8. L!DrainCanFinish'
  BY <1>1, <1>2, <1>6 DEF LeaseSound, L!DrainCanFinish
<1>9. HostSound' /\ LineageKnown'
  BY <1>1, HostRests DEF L!RequestEnd
<1>10. QuietCovers'
  <2>1. \A i \in 1..Len(starts) : starts[i].at <= now
    BY DEF LeaseSound, HostSound, StartsPending
  <2> QED
    BY <1>1, <1>6, <2>1 DEF QuietCovers, Started
<1> QED
  BY <1>7, <1>8, <1>9, <1>10 DEF LeaseSound

(* A poll ends the drain or leaves it as it is.                            *)
LEMMA PollSound ==
  ASSUME L!PolicyAssumption, LeaseSound, L!Poll \/ L!PollLost \/ L!CheckpointCompleted
  PROVE  LeaseSound'
<1>1. /\ UNCHANGED <<now, parent, running, starts, exits, deadline, quietSince, known, live>>
      /\ UNCHANGED <<now, L!host, known, live>>
  BY DEF L!Poll, L!PollLost, L!CheckpointCompleted, L!host
<1>2. /\ state \in {"draining", "checkpointing"}
      /\ state' \in {"draining", "checkpointing", "partial_capture", "ended"}
      /\ state' = "draining" => state = "draining"
      /\ gaps = {}
      /\ gaps' \subseteq {"descendant_drain_timeout", "observer_loss"}
      /\ gaps' # {} <=> state' = "partial_capture"
  <2>1. state \in {"draining", "checkpointing"}
    BY DEF L!Poll, L!PollLost, L!CheckpointCompleted
  <2>2. gaps = {}
    BY <2>1 DEF LeaseSound, L!DrainCanFinish
  <2>3. CASE L!Poll
    BY <2>1, <2>2, <2>3 DEF L!Poll, L!Advance
  <2>4. CASE L!PollLost \/ L!CheckpointCompleted
    BY <2>1, <2>2, <2>4 DEF L!PollLost, L!CheckpointCompleted
  <2> QED
    BY <2>3, <2>4
<1>3. L!TypeOK'
  BY <1>1, <1>2 DEF LeaseSound, L!TypeOK, L!Open
<1>4. L!DrainCanFinish'
  BY <1>1, <1>2 DEF LeaseSound, L!DrainCanFinish
<1>5. HostSound' /\ LineageKnown'
  BY <1>1, <1>2, HostRests
<1>6. QuietCovers'
  BY <1>1, <1>2 DEF LeaseSound, QuietCovers, Started
<1> QED
  BY <1>3, <1>4, <1>5, <1>6 DEF LeaseSound

(* The observer tells of the oldest start: its parent is known by then, so *)
(* that a process of the session is admitted.                              *)
LEMMA StartSound ==
  ASSUME L!PolicyAssumption, LeaseSound, L!RecordProcessStart
  PROVE  LeaseSound'
<1>0. PICK p : p = Head(starts).process
  OBVIOUS
<1>1. /\ starts # <<>> /\ starts' = Tail(starts)
      /\ UNCHANGED <<now, parent, running, exits, deadline>>
  BY DEF L!RecordProcessStart
<1>2. /\ starts \in Seq(L!Reports) /\ now \in Nat /\ Len(starts) \in Nat \ {0}
      /\ p = Started(1) /\ p \in Descendants
  BY <1>0, <1>1, ReportTyped DEF LeaseSound, Started
<1>3. /\ starts' \in Seq(L!Reports) /\ Len(starts') = Len(starts) - 1
      /\ \A i \in 1..Len(starts') : i + 1 \in 1..Len(starts) /\ starts'[i] = starts[i + 1]
  BY <1>1, <1>2
<1>4. \A i \in 1..Len(starts) : i # 1 => i - 1 \in 1..Len(starts') /\ starts'[i - 1] = starts[i]
  BY <1>1, <1>2, <1>3
<1>5. /\ p \in DOMAIN parent /\ Alive(p) /\ p # Root
      /\ \A q : Alive(q)' = Alive(q)
  <2>1. p \in DOMAIN parent /\ Alive(p)
    BY <1>2 DEF LeaseSound, HostSound, StartsPending
  <2>2. \A q : Alive(q)' = Alive(q)
    BY <1>1 DEF Alive
  <2>3. p # Root
    BY <1>2 DEF L!PolicyAssumption
  <2> QED
    BY <2>1, <2>2, <2>3
<1>6. Listening /\ p \notin Foreign => parent[p] \in known
  <2> SUFFICES ASSUME Listening, parent[p] # Root PROVE parent[p] \in known
    BY DEF LeaseSound, LineageKnown
  <2>1. parent[p] \in DOMAIN parent \ Foreign
    BY <1>5 DEF LeaseSound, HostSound, Lineage
  <2>2. \A i \in 1..Len(starts) : Started(i) # parent[p]
    <3>1. \A i, j \in 1..Len(starts) : parent[Started(i)] = Started(j) => j < i
      BY DEF LeaseSound, HostSound, StartsOrdered
    <3> QED
      BY <1>2, <3>1
  <2> QED
    BY <2>1, <2>2 DEF LeaseSound, LineageKnown
<1>7. \/ /\ Listening /\ p \notin Foreign
         /\ live' = live \union {p} /\ known' = known \union {p}
         /\ \/ /\ state = "draining" /\ quietSince' = None /\ L!Advance(deadline, None, live')
            \/ /\ state = "observing" /\ UNCHANGED <<state, quietSince, gaps>>
      \/ /\ ~Listening \/ p \in Foreign
         /\ UNCHANGED <<state, quietSince, known, live, gaps>>
  BY <1>0, <1>6 DEF L!RecordProcessStart, L!Admissible, L!Admit, Listening
<1>8. /\ state' \in {"observing", "draining"} => state = state'
      /\ state' \in L!Open \union {"ended", "partial_capture"}
      /\ gaps' \subseteq {"descendant_drain_timeout", "observer_loss"}
      /\ gaps' # {} <=> state' = "partial_capture"
      /\ state' = "observing" <=> state = "observing"
      /\ quietSince' \in {quietSince, None}
      /\ live' # live => quietSince' = None
  BY <1>7 DEF LeaseSound, L!TypeOK, L!DrainCanFinish, QuietCovers, L!Advance, L!Open, Listening
<1>9. /\ live' \subseteq known' \ {Root} /\ live \subseteq live' /\ known \subseteq known'
      /\ known' \subseteq known \union {p}
      /\ live' \subseteq live \union {p}
      /\ known' \ live' \subseteq known \ live
  BY <1>5, <1>7 DEF LeaseSound, L!TypeOK
<1>10. L!TypeOK'
  BY <1>1, <1>3, <1>5, <1>8, <1>9 DEF LeaseSound, L!TypeOK
<1>11. L!DrainCanFinish'
  <2>1. live' # {} => quietSince' = None
    BY <1>8 DEF LeaseSound, L!DrainCanFinish
  <2>2. state' = "draining" /\ live' = {} => quietSince' \in 0..now'
    BY <1>1, <1>7, <1>8 DEF LeaseSound, L!DrainCanFinish
  <2> QED
    BY <1>1, <1>8, <2>1, <2>2 DEF LeaseSound, L!DrainCanFinish
<1>12. Lineage' /\ ExitsPending'
  BY <1>1 DEF LeaseSound, HostSound, Lineage, ExitsPending
<1>13. StartsPending'
  BY <1>1, <1>3, <1>5 DEF LeaseSound, HostSound, StartsPending, Started
<1>14. StartsOrdered'
  <2> SUFFICES ASSUME NEW i \in 1..Len(starts'), NEW j \in 1..Len(starts')
               PROVE  /\ starts'[i].process = starts'[j].process => i = j
                      /\ parent[starts'[i].process] = starts'[j].process => j < i
    BY <1>1 DEF StartsOrdered, Started
  <2>1. /\ Started(i + 1) = Started(j + 1) => i + 1 = j + 1
        /\ parent[Started(i + 1)] = Started(j + 1) => j + 1 < i + 1
    BY <1>3 DEF LeaseSound, HostSound, StartsOrdered
  <2> QED
    BY <1>2, <1>3, <2>1 DEF Started
<1>15. LineageKnown'
  <2>1. running' \intersect known' \subseteq live' \union {Root}
    BY <1>1, <1>7, <1>9 DEF LeaseSound, LineageKnown
  <2>2. \A q \in live' : q \notin Foreign /\ Alive(q)'
    BY <1>5, <1>7 DEF LeaseSound, LineageKnown
  <2>3. ASSUME NEW q \in DOMAIN parent \ Foreign, Listening'
        PROVE  q \in known' \/ \E i \in 1..Len(starts') : starts'[i].process = q
    <3>1. Listening
      BY <1>8, <2>3 DEF Listening
    <3>2. CASE q = p
      BY <1>7, <2>3, <3>1, <3>2
    <3>3. CASE q \in known
      BY <1>9, <3>3
    <3>4. CASE q # p /\ q \notin known
      <4>1. PICK i \in 1..Len(starts) : Started(i) = q
        BY <3>1, <3>4 DEF LeaseSound, LineageKnown
      <4>2. i # 1
        BY <1>2, <3>4, <4>1
      <4> QED
        BY <1>4, <4>1, <4>2 DEF Started
    <3> QED
      BY <3>2, <3>3, <3>4
  <2> QED
    BY <1>1, <1>9, <2>1, <2>2, <2>3 DEF LeaseSound, LineageKnown, Started
<1>16. QuietCovers'
  <2>1. ASSUME NEW i \in 1..Len(starts'), state' = "draining", quietSince' # None,
               parent[starts'[i].process] \in known' \ live'
        PROVE  starts'[i].at <= quietSince'
    <3>1. quietSince' = quietSince /\ state = "draining" /\ quietSince # None
      BY <1>8, <2>1
    <3>2. parent[Started(i + 1)] \in known \ live /\ i + 1 \in 1..Len(starts)
      BY <1>3, <1>9, <2>1 DEF Started
    <3> QED
      BY <1>3, <3>1, <3>2 DEF LeaseSound, QuietCovers
  <2>2. state' = "observing" => quietSince' = None
    BY <1>8 DEF LeaseSound, QuietCovers
  <2> QED
    BY <1>1, <2>1, <2>2 DEF QuietCovers, Started
<1> QED
  BY <1>10, <1>11, <1>12, <1>13, <1>14, <1>15, <1>16 DEF LeaseSound, HostSound

(* The observer tells of an exit.  If the process was the last one live,   *)
(* the barrier rises now: whatever is still to be reported started before. *)
LEMMA RecordExitSound ==
  ASSUME L!PolicyAssumption, LeaseSound, NEW e \in exits, L!RecordProcessExit(e)
  PROVE  LeaseSound'
<1> DEFINE p == e.process
<1>1. /\ \A i \in 1..Len(starts) : Started(i) # p
      /\ exits' = exits \ {e} /\ live' = live \ {p}
      /\ quietSince' = IF p \in live /\ live = {p} /\ state = "draining" THEN now ELSE quietSince
      /\ \/ state = "draining" /\ L!Advance(deadline, quietSince', live')
         \/ state # "draining" /\ UNCHANGED <<state, gaps>>
      /\ UNCHANGED <<now, parent, running, starts, deadline, known>>
  BY DEF L!RecordProcessExit, L!QuietAfterExit, Started
<1>2. p \in DOMAIN parent \ running /\ now \in Nat /\ p # Root
  BY ReportTyped DEF LeaseSound, HostSound, ExitsPending, L!PolicyAssumption
<1> HIDE DEF p
<1>3. \A q : q # p /\ Alive(q) => Alive(q)'
  BY <1>1 DEF Alive, p
<1>4. /\ state' \in {"observing", "draining"} => state = state'
      /\ state' = "observing" <=> state = "observing"
      /\ state' \in L!Open \union {"ended", "partial_capture"}
      /\ gaps' \subseteq {"descendant_drain_timeout", "observer_loss"}
      /\ gaps' # {} <=> state' = "partial_capture"
  BY <1>1 DEF LeaseSound, L!TypeOK, L!DrainCanFinish, L!Advance, L!Open
<1>5. L!TypeOK'
  <2>1. quietSince' \in Nat \union {None}
    BY <1>1, <1>2 DEF LeaseSound, L!TypeOK
  <2> QED
    BY <1>1, <1>4, <2>1 DEF LeaseSound, L!TypeOK
<1>6. L!DrainCanFinish'
  <2>1. live' # {} => quietSince' = None
    BY <1>1 DEF LeaseSound, L!DrainCanFinish
  <2>2. ASSUME state' = "draining", live' = {} PROVE quietSince' \in 0..now
    <3>1. CASE live = {p}
      BY <1>1, <1>2, <1>4, <2>2, <3>1
    <3>2. CASE live # {p}
      <4>1. live = {} /\ quietSince' = quietSince /\ state = "draining"
        BY <1>1, <1>4, <2>2, <3>2
      <4> QED
        BY <4>1 DEF LeaseSound, L!DrainCanFinish
    <3> QED
      BY <3>1, <3>2
  <2> QED
    BY <1>1, <1>4, <2>1, <2>2 DEF LeaseSound, L!DrainCanFinish
<1>7. Lineage' /\ StartsOrdered' /\ ExitsPending'
  BY <1>1 DEF LeaseSound, HostSound, Lineage, StartsOrdered, ExitsPending, Started
<1>8. StartsPending'
  BY <1>1, <1>3 DEF LeaseSound, HostSound, StartsPending, Started
<1>9. LineageKnown'
  <2>1. running' \intersect known' \subseteq live' \union {Root}
    BY <1>1, <1>2 DEF LeaseSound, LineageKnown
  <2>2. \A q \in live' : q \notin Foreign /\ Alive(q)'
    BY <1>1, <1>3 DEF LeaseSound, LineageKnown
  <2> QED
    BY <1>1, <1>4, <2>1, <2>2 DEF LeaseSound, LineageKnown, Listening, Started
<1>10. QuietCovers'
  <2>1. ASSUME NEW i \in 1..Len(starts), state' = "draining", quietSince' # None,
               parent[Started(i)] \in known \ live'
        PROVE  starts[i].at <= quietSince'
    <3>1. CASE p \in live /\ live = {p} /\ state = "draining"
      <4>1. quietSince' = now
        BY <1>1, <3>1
      <4> QED
        BY <4>1 DEF LeaseSound, HostSound, StartsPending
    <3>2. CASE ~ (p \in live /\ live = {p} /\ state = "draining")
      <4>1. quietSince' = quietSince /\ state = "draining"
        BY <1>1, <1>4, <2>1, <3>2
      <4>2. live = {}
        BY <2>1, <4>1 DEF LeaseSound, L!DrainCanFinish
      <4> QED
        BY <2>1, <4>1, <4>2 DEF LeaseSound, QuietCovers
    <3> QED
      BY <3>1, <3>2
  <2>2. state' = "observing" => quietSince' = None
    BY <1>1, <1>4 DEF LeaseSound, QuietCovers
  <2> QED
    BY <1>1, <2>1, <2>2 DEF QuietCovers, Started
<1> QED
  BY <1>5, <1>6, <1>7, <1>8, <1>9, <1>10 DEF LeaseSound, HostSound

LEMMA LeaseStep == ASSUME L!PolicyAssumption, LeaseSound, [L!Next]_L!vars PROVE LeaseSound'
<1>1. CASE UNCHANGED L!vars
  <2>1. /\ UNCHANGED <<now, L!host, known, live>>
        /\ UNCHANGED <<now, parent, running, starts, exits, state, deadline, quietSince,
                       known, live, gaps>>
    BY <1>1 DEF L!vars, L!host, L!lease
  <2>2. HostSound' /\ LineageKnown'
    <3>1. state \in {"observing", "draining"} \/ state' \notin {"observing", "draining"}
      BY <2>1
    <3> QED
      BY <2>1, <3>1, HostRests
  <2>3. L!TypeOK' /\ L!DrainCanFinish' /\ QuietCovers'
    BY <2>1 DEF LeaseSound, L!TypeOK, L!DrainCanFinish, QuietCovers, Started
  <2> QED
    BY <2>2, <2>3 DEF LeaseSound
<1>2. CASE L!Next
  BY <1>2, ForkSound, ExitSound, TickSound, StartSound, RecordExitSound, EndSound, PollSound
  DEF L!Next
<1> QED
  BY <1>1, <1>2

(* Lease, host and observer agree in every state (observation_lease.rs).   *)
THEOREM LeaseSoundAlways == L!PolicyAssumption /\ L!Spec => []LeaseSound
<1> SUFFICES ASSUME L!PolicyAssumption PROVE L!Spec => []LeaseSound
  OBVIOUS
<1>1. L!Init => LeaseSound
  BY LeaseBegins
<1>2. LeaseSound /\ [L!Next]_L!vars => LeaseSound'
  BY LeaseStep
<1> QED
  BY <1>1, <1>2, PTL DEF L!Spec

LEMMA EndingMissesNothing ==
  ASSUME L!PolicyAssumption, LeaseSound, [L!Next]_L!vars
  PROVE  L!MissesNothing
<1> SUFFICES ASSUME state # "checkpointing", state' = "checkpointing", now < deadline'
             PROVE  running' \subseteq {Root} \union Foreign
  BY DEF L!MissesNothing
<1>1. QuietPeriod \in Nat /\ QuietPeriod > 0 /\ now \in Nat /\ HardTimeout \in Nat \ {0}
      /\ None \notin Nat
  BY ReportTyped DEF LeaseSound, L!PolicyAssumption
<1>2. CASE L!RequestEnd
  <2>1. ~L!QuietElapsed(quietSince')
    BY <1>1, <1>2 DEF L!RequestEnd, L!QuietElapsed
  <2>2. ~L!Expired(deadline')
    BY <1>1, <1>2 DEF L!RequestEnd, L!Expired
  <2> QED
    BY <1>2, <2>1, <2>2 DEF L!RequestEnd, L!Advance
<1>3. CASE L!Poll
  <2>1. deadline' = deadline /\ running' = running /\ state = "draining"
    BY <1>3 DEF L!Poll, L!host
  <2>2. deadline \in Nat
    BY <2>1 DEF LeaseSound, L!TypeOK, L!DrainCanFinish
  <2>3. ~L!Expired(deadline)
    BY <1>1, <2>1, <2>2 DEF L!Expired
  <2>4. live = {} /\ L!QuietElapsed(quietSince)
    BY <1>3, <2>3 DEF L!Poll, L!Advance
  <2> QED
    BY <2>1, <2>4, QuietMeansAlone
<1>4. CASE L!RecordProcessStart
  <2>1. deadline' = deadline /\ state = "draining" /\ L!Advance(deadline, None, live')
    BY <1>4 DEF L!RecordProcessStart
  <2>2. deadline \in Nat
    BY <2>1 DEF LeaseSound, L!TypeOK, L!DrainCanFinish
  <2>3. ~L!Expired(deadline) /\ ~L!QuietElapsed(None)
    BY <1>1, <2>1, <2>2 DEF L!Expired, L!QuietElapsed
  <2> QED
    BY <2>1, <2>3 DEF L!Advance
<1>5. ASSUME NEW e \in exits, L!RecordProcessExit(e)
      PROVE  running' \subseteq {Root} \union Foreign
  <2>1. deadline' = deadline /\ running' = running /\ state = "draining"
        /\ L!Advance(deadline, quietSince', live') /\ live' = live \ {e.process}
        /\ quietSince' = IF e.process \in live /\ live = {e.process} THEN now ELSE quietSince
    BY <1>5 DEF L!RecordProcessExit, L!QuietAfterExit
  <2>2. deadline \in Nat
    BY <2>1 DEF LeaseSound, L!TypeOK, L!DrainCanFinish
  <2>3. ~L!Expired(deadline)
    BY <1>1, <2>1, <2>2 DEF L!Expired
  <2>4. live' = {} /\ L!QuietElapsed(quietSince')
    BY <2>1, <2>3 DEF L!Advance
  <2>5. quietSince' # now
    BY <1>1, <2>4 DEF L!QuietElapsed
  <2>6. live = {} /\ quietSince' = quietSince
    BY <2>1, <2>4, <2>5
  <2>7. L!QuietElapsed(quietSince)
    BY <2>4, <2>6 DEF L!QuietElapsed
  <2> QED
    BY <2>1, <2>6, <2>7, QuietMeansAlone
<1>6. CASE \E p \in running, born \in Descendants : L!Fork(p, born)
  BY <1>6 DEF L!Fork, L!lease
<1>7. CASE (\E p \in running : L!Exit(p)) \/ L!Tick \/ L!PollLost \/ L!CheckpointCompleted
  BY <1>7 DEF L!Exit, L!Tick, L!PollLost, L!CheckpointCompleted, L!lease
<1>8. CASE UNCHANGED L!vars
  BY <1>8 DEF L!vars, L!lease
<1> QED
  BY <1>2, <1>3, <1>4, <1>5, <1>6, <1>7, <1>8 DEF L!Next

LEMMA TimeoutIsRight ==
  ASSUME L!PolicyAssumption, LeaseSound, LeaseSound', [L!Next]_L!vars
  PROVE  L!TimesOutRightly
<1> SUFFICES ASSUME gaps' \ gaps = {"descendant_drain_timeout"}
             PROVE  \/ running' \ Foreign # {Root}
                    \/ \E e \in exits' : e.at + MaxDelay >= deadline'
  BY DEF L!TimesOutRightly
<1>1. \/ L!RequestEnd \/ L!Poll \/ L!RecordProcessStart \/ \E e \in exits : L!RecordProcessExit(e)
  BY DEF L!Next, L!Fork, L!Exit, L!Tick, L!PollLost, L!CheckpointCompleted, L!vars, L!lease
<1>2. /\ now' = now /\ \E quiet : L!Advance(deadline', quiet, live')
  <2>1. CASE L!RequestEnd
    BY <2>1 DEF L!RequestEnd
  <2>2. CASE L!Poll
    BY <2>2 DEF L!Poll
  <2>3. CASE L!RecordProcessStart
    BY <2>3 DEF L!RecordProcessStart
  <2>4. CASE \E e \in exits : L!RecordProcessExit(e)
    BY <2>4 DEF L!RecordProcessExit
  <2> QED
    BY <1>1, <2>1, <2>2, <2>3, <2>4
<1>3. now' >= deadline' /\ live' # {}
  BY <1>2 DEF L!Advance, L!Expired
<1>4. PICK p : p \in live'
  BY <1>3
<1>5. p # Root /\ p \notin Foreign /\ (p \in running' \/ \E e \in exits' : e.process = p)
  BY <1>4 DEF LeaseSound, L!TypeOK, LineageKnown, Alive
<1>6. CASE p \in running'
  BY <1>5, <1>6
<1>7. ASSUME NEW e \in exits', e.process = p
      PROVE  e.at + MaxDelay >= deadline'
  <2>1. now' <= e.at + MaxDelay
    BY <1>7 DEF LeaseSound, HostSound, ExitsPending
  <2>2. /\ e.at \in Nat /\ MaxDelay \in Nat /\ now' \in Nat
        /\ deadline' \in Nat
    <3>1. e \in L!Reports /\ now' \in Nat /\ MaxDelay \in Nat
      BY <1>7 DEF LeaseSound, L!TypeOK, L!PolicyAssumption
    <3>2. deadline' # None
      <4>1. gaps' # {}
        OBVIOUS
      <4> QED
        BY <4>1 DEF LeaseSound, L!DrainCanFinish
    <3> QED
      BY <3>1, <3>2 DEF LeaseSound, L!TypeOK, L!Reports
  <2> QED
    BY <1>3, <2>1, <2>2
<1> QED
  BY <1>5, <1>6, <1>7

-----------------------------------------------------------------------------
(***************************************************************************)
(* The commands of the extension.  A number that was issued is used for    *)
(* one request, and a request leaves one event at most, which bounds the   *)
(* log (Unserved).  A process is launched once and so has one request to   *)
(* start: while it is under way, or the process is not born, the log has   *)
(* nothing of the session (SessionsSound).                                 *)
(***************************************************************************)
OfSession(p, action) == \E i \in 1..Len(log) : log[i].session = p /\ log[i].action = action

Silent(p) == \A i \in 1..Len(log) : log[i].session # p

IsEvidence(point, events) ==
  /\ point.at \in 1..Len(events)
  /\ events[point.at].session = point.session
  /\ events[point.at].action # "start"

(* Whoever waits for an exit has sent the signal.                          *)
ToldToEnd ==
  \A c \in Commands :
    commands[c].step \in {"exiting", "killing"} => commands[c].target \in signalled

RequestsSound ==
  /\ \A r, q \in inbox : r.id = q.id => r = q
  /\ \A r \in inbox : r.id <= issued
  /\ \A c \in Commands : commands[c].step = "ready" =>
       /\ commands[c].id \in 1..issued
       /\ \A r \in inbox : r.id # commands[c].id
       /\ \A d \in Commands :
            commands[d].step = "ready" /\ commands[d].id = commands[c].id => d = c

Unserved ==
  {i \in 1..MaxIssued :
     \/ i > issued
     \/ \E r \in inbox : r.id = i
     \/ \E c \in Commands : commands[c].step = "ready" /\ commands[c].id = i}

LogBounded == Len(log) + Cardinality(Unserved) <= MaxIssued

SessionsSound ==
  /\ \A p \in Companions : p \in active <=> OfSession(p, "start") /\ ~OfSession(p, "stop")
  /\ \A r \in inbox : r.request = "start" => Silent(r.process)
  /\ \A r, q \in inbox :
       r.request = "start" /\ q.request = "start" /\ r.process = q.process => r = q
  /\ \A p \in Companions : proc[p] = "unborn" =>
       Silent(p) /\ p # child /\ \A r \in inbox : r.process # p

CheckpointsSound ==
  /\ stored.checkpoint # None => IsEvidence(stored.checkpoint, log)
  /\ \A c \in Commands :
       commands[c].reply.checkpoint # None => IsEvidence(commands[c].reply.checkpoint, log)

CaptureSound ==
  /\ C!TypeOK /\ log \in Seq(C!Event)
  /\ C!SessionsWellFormed /\ C!NoOrphan
  /\ ToldToEnd /\ RequestsSound /\ LogBounded /\ SessionsSound /\ CheckpointsSound

-----------------------------------------------------------------------------
(***************************************************************************)
(* Most steps ask nothing more of a Companion and leave no evidence: a     *)
(* command goes on or ends, what is saved is forgotten or is what a reply  *)
(* said, a process ends, the controller lets go of one that may go.        *)
(***************************************************************************)
QuietCommands ==
  /\ commands' \in [Commands -> C!Command]
  /\ \A d \in Commands :
       /\ commands'[d].step = "ready" => commands'[d] = commands[d]
       /\ commands'[d].step \in {"exiting", "killing"} => commands'[d].target \in signalled'
       /\ commands'[d].reply \in {commands[d].reply, C!NoReply}

QuietStore ==
  /\ stored' \in C!PersistentExtensionState
  /\ stored'.checkpoint \in
       {None, stored.checkpoint} \union {commands[d].reply.checkpoint : d \in Commands}

QuietController ==
  /\ child' \in {None, child} /\ ipc' \in {None, child'}
  /\ child' # child =>
       proc'[child] # "up" \/ child \in signalled' \/ faults'.restart # 0

QuietProcesses ==
  /\ proc' \in [Companions -> {"unborn", "up", "dead", "gone"}]
  /\ \A p \in Companions :
       /\ proc'[p] = "unborn" <=> proc[p] = "unborn"
       /\ proc'[p] = "up" => proc[p] = "up"
  /\ signalled \subseteq signalled' /\ signalled' \subseteq Companions

QuietCounters ==
  /\ issued' \in issued..MaxIssued
  /\ faults' \in [crash : 0..MaxCrashes, restart : 0..MaxRestarts]
  /\ faults'.restart = 0 => faults.restart = 0

LEMMA CaptureTyped ==
  ASSUME C!CaptureAssumption, CaptureSound
  PROVE  /\ stored \in C!PersistentExtensionState
         /\ child \in Companions \union {None} /\ ipc \in {None, child}
         /\ proc \in [Companions -> {"unborn", "up", "dead", "gone"}]
         /\ signalled \subseteq Companions /\ active \subseteq Companions
         /\ inbox \subseteq C!Request
         /\ commands \in [Commands -> C!Command]
         /\ issued \in 0..MaxIssued /\ MaxIssued \in Nat /\ issued \in Nat
         /\ faults \in [crash : 0..MaxCrashes, restart : 0..MaxRestarts]
         /\ log \in Seq(C!Event) /\ Len(log) \in Nat /\ DOMAIN log = 1..Len(log)
         /\ None \notin Companions
BY DEF C!CaptureAssumption, CaptureSound, C!TypeOK

LEMMA UnservedFinite ==
  ASSUME MaxIssued \in Nat
  PROVE  IsFiniteSet(Unserved) /\ Cardinality(Unserved) \in Nat
<1>1. IsFiniteSet(1..MaxIssued)
  BY FS_Interval
<1>2. IsFiniteSet(Unserved)
  BY <1>1, FS_Subset, Unserved \subseteq 1..MaxIssued DEF Unserved
<1> QED
  BY <1>2, FS_CardinalityType

LEMMA QuietSound ==
  ASSUME C!CaptureAssumption, CaptureSound, UNCHANGED <<active, log>>,
         inbox' \subseteq inbox, QuietCommands, QuietStore, QuietController,
         QuietProcesses, QuietCounters
  PROVE  CaptureSound'
<1>1. C!TypeOK' /\ log' \in Seq(C!Event)
  <2>1. child' \in Companions \union {None}
    BY CaptureTyped DEF QuietController
  <2>2. issued' \in 0..MaxIssued
    BY CaptureTyped DEF QuietCounters
  <2>3. inbox' \subseteq C!Request
    BY CaptureTyped
  <2>4. {log'[i] : i \in DOMAIN log'} \subseteq C!Event
    BY DEF CaptureSound, C!TypeOK
  <2> QED
    BY <2>1, <2>2, <2>3, <2>4, CaptureTyped
    DEF C!TypeOK, QuietCommands, QuietStore, QuietController, QuietProcesses, QuietCounters
<1>2. C!SessionsWellFormed'
  BY DEF CaptureSound, C!SessionsWellFormed
<1>3. C!NoOrphan'
  <2> SUFFICES ASSUME faults'.restart = 0, NEW p \in Companions, proc'[p] = "up"
               PROVE  p = child' \/ p \in signalled'
    BY DEF C!NoOrphan
  <2>1. p = child \/ p \in signalled
    BY DEF CaptureSound, C!NoOrphan, QuietCounters, QuietProcesses
  <2> QED
    BY <2>1 DEF QuietController, QuietProcesses
<1>4. ToldToEnd'
  BY DEF ToldToEnd, QuietCommands
<1>5. RequestsSound'
  <2>1. \A r \in inbox' : r.id <= issued'
    <3> TAKE r \in inbox'
    <3>1. r \in C!Request /\ r.id <= issued
      BY CaptureTyped DEF CaptureSound, RequestsSound
    <3> QED
      BY <3>1, CaptureTyped DEF C!Request, QuietCounters
  <2>2. \A c \in Commands : commands'[c].step = "ready" => commands'[c].id \in 1..issued'
    BY CaptureTyped DEF QuietCommands, QuietCounters, CaptureSound, RequestsSound
  <2> QED
    BY <2>1, <2>2 DEF CaptureSound, RequestsSound, QuietCommands
<1>6. LogBounded'
  <2>1. Unserved' \subseteq Unserved
    <3> SUFFICES ASSUME NEW i \in Unserved' PROVE i \in Unserved
      OBVIOUS
    <3>1. i > issued' => i > issued
      BY CaptureTyped DEF Unserved, QuietCounters
    <3> QED
      BY <3>1 DEF Unserved, QuietCommands
  <2>2. Cardinality(Unserved') <= Cardinality(Unserved)
    BY <2>1, UnservedFinite, CaptureTyped, FS_Subset
  <2>3. Cardinality(Unserved') \in Nat /\ Cardinality(Unserved) \in Nat
    BY <2>1, UnservedFinite, CaptureTyped, FS_Subset, FS_CardinalityType
  <2> QED
    BY <2>2, <2>3, CaptureTyped DEF LogBounded, CaptureSound
<1>7. SessionsSound'
  BY CaptureTyped DEF CaptureSound, SessionsSound, Silent, OfSession, QuietProcesses, QuietController
<1>8. CheckpointsSound'
  <2>1. log' = log
    OBVIOUS
  <2>2. \A c \in Commands : commands[c].reply.checkpoint # None =>
                           IsEvidence(commands[c].reply.checkpoint, log)
    BY DEF CaptureSound, CheckpointsSound
  <2>3. stored'.checkpoint # None => IsEvidence(stored'.checkpoint, log)
    BY <2>2 DEF QuietStore, CaptureSound, CheckpointsSound
  <2>4. ASSUME NEW c \in Commands, commands'[c].reply.checkpoint # None
        PROVE  IsEvidence(commands'[c].reply.checkpoint, log)
    <3>1. commands'[c].reply = commands[c].reply
      BY <2>4 DEF QuietCommands, C!NoReply
    <3> QED
      BY <2>2, <2>4, <3>1
  <2> HIDE DEF IsEvidence
  <2> QED
    BY <2>1, <2>3, <2>4 DEF CheckpointsSound
<1> QED
  BY <1>1, <1>2, <1>3, <1>4, <1>5, <1>6, <1>7, <1>8 DEF CaptureSound

-----------------------------------------------------------------------------
(* One command goes on as it may.                                          *)
GoesOn(c, next, told) ==
  /\ next \in C!Command /\ next.step # "ready"
  /\ next.step \in {"exiting", "killing"} => next.target \in told
  /\ next.reply \in {commands[c].reply, C!NoReply}

LEMMA IdleIsCommand ==
  ASSUME MaxIssued \in Nat
  PROVE  /\ C!Idle \in C!Command /\ C!Idle.step = "idle" /\ C!Idle.reply = C!NoReply
         /\ C!NoReply \in [ok : BOOLEAN, checkpoint : C!Checkpoints \union {None}]
<1>1. C!NoReply \in [ok : BOOLEAN, checkpoint : C!Checkpoints \union {None}]
  BY DEF C!NoReply
<1> HIDE DEF C!NoReply, C!Checkpoints
<1> QED
  BY <1>1 DEF C!Idle, C!Command

LEMMA BecomeQuiet ==
  ASSUME C!CaptureAssumption, CaptureSound, NEW c \in Commands, NEW next,
         signalled \subseteq signalled', GoesOn(c, next, signalled'), C!Become(c, next)
  PROVE  QuietCommands
<1>1. commands' = [commands EXCEPT ![c] = next]
  BY DEF C!Become
<1>2. commands' \in [Commands -> C!Command]
  BY <1>1, CaptureTyped DEF GoesOn
<1>3. ASSUME NEW d \in Commands
      PROVE  /\ commands'[d].step = "ready" => commands'[d] = commands[d]
             /\ commands'[d].step \in {"exiting", "killing"} =>
                  commands'[d].target \in signalled'
             /\ commands'[d].reply \in {commands[d].reply, C!NoReply}
  <2>1. CASE d = c
    BY <1>1, <2>1, CaptureTyped DEF GoesOn
  <2>2. CASE d # c
    BY <1>1, <2>2, CaptureTyped DEF CaptureSound, ToldToEnd
  <2> QED
    BY <2>1, <2>2
<1> QED
  BY <1>2, <1>3 DEF QuietCommands

LEMMA BecomeIdleQuiet ==
  ASSUME C!CaptureAssumption, CaptureSound, NEW c \in Commands,
         signalled \subseteq signalled', C!Become(c, C!Idle)
  PROVE  QuietCommands
<1>1. PICK next : next = C!Idle
  OBVIOUS
<1>2. C!Become(c, next)
  BY <1>1
<1>3. GoesOn(c, next, signalled')
  BY <1>1, IdleIsCommand, CaptureTyped DEF GoesOn
<1> QED
  BY <1>2, <1>3, BecomeQuiet

LEMMA RestQuiet ==
  ASSUME C!CaptureAssumption, CaptureSound
  PROVE  /\ UNCHANGED stored => QuietStore
         /\ UNCHANGED C!controller => QuietController
         /\ UNCHANGED <<proc, signalled>> => QuietProcesses
         /\ UNCHANGED <<issued, faults>> => QuietCounters
         /\ UNCHANGED <<commands, signalled>> => QuietCommands
<1>1. UNCHANGED stored => QuietStore
  BY CaptureTyped DEF QuietStore
<1>2. UNCHANGED C!controller => QuietController
  BY CaptureTyped DEF QuietController, C!controller
<1>3. UNCHANGED <<proc, signalled>> => QuietProcesses
  BY CaptureTyped DEF QuietProcesses
<1>4. UNCHANGED <<issued, faults>> => QuietCounters
  BY CaptureTyped DEF QuietCounters
<1>5. UNCHANGED <<commands, signalled>> => QuietCommands
  BY CaptureTyped DEF QuietCommands, CaptureSound, ToldToEnd
<1> QED
  BY <1>1, <1>2, <1>3, <1>4, <1>5

(* What is saved in the memento after a step.                              *)
LEMMA SavesQuiet ==
  ASSUME C!CaptureAssumption, CaptureSound, NEW capture \in Companions \union {None},
         \/ stored' = [stored EXCEPT !.capture = capture]
         \/ stored' = C!EmptyState
         \/ stored' = [C!EmptyState EXCEPT !.connected = TRUE]
         \/ stored' = [stored EXCEPT !.linked = TRUE, !.capture = capture]
  PROVE  QuietStore
<1>1. stored \in C!PersistentExtensionState
  BY CaptureTyped
<1>2. C!EmptyState \in C!PersistentExtensionState /\ C!EmptyState.checkpoint = None
  BY DEF C!PersistentExtensionState, C!EmptyState
<1> HIDE DEF C!EmptyState
<1>3. ASSUME NEW old \in C!PersistentExtensionState
      PROVE  /\ [old EXCEPT !.capture = capture] \in C!PersistentExtensionState
             /\ [old EXCEPT !.capture = capture].checkpoint = old.checkpoint
             /\ [old EXCEPT !.connected = TRUE] \in C!PersistentExtensionState
             /\ [old EXCEPT !.connected = TRUE].checkpoint = old.checkpoint
             /\ [old EXCEPT !.linked = TRUE, !.capture = capture]
                  \in C!PersistentExtensionState
             /\ [old EXCEPT !.linked = TRUE, !.capture = capture].checkpoint = old.checkpoint
  BY DEF C!PersistentExtensionState
<1> QED
  BY <1>1, <1>2, <1>3 DEF QuietStore

(* stop() returns to the commands of W.                                    *)
LEMMA StopReturnsQuiet ==
  ASSUME C!CaptureAssumption, CaptureSound, NEW W \in SUBSET Commands,
         signalled \subseteq signalled', C!StopReturns(W)
  PROVE  QuietCommands /\ QuietStore /\ ipc' = None
<1>1. QuietStore
  <2>1. CASE stored' = [stored EXCEPT !.capture = None]
    BY <2>1, SavesQuiet
  <2>2. CASE stored' = stored
    BY <2>2, RestQuiet
  <2> QED
    BY <2>1, <2>2 DEF C!StopReturns
<1>2. ASSUME NEW d \in Commands
      PROVE  /\ commands'[d] \in C!Command
             /\ commands'[d].step = "ready" => commands'[d] = commands[d]
             /\ commands'[d].step \in {"exiting", "killing"} =>
                  commands'[d].target \in signalled'
             /\ commands'[d].reply \in {commands[d].reply, C!NoReply}
  <2>1. commands[d] \in C!Command
    BY CaptureTyped
  <2>2. CASE commands'[d] = commands[d]
    BY <2>1, <2>2 DEF CaptureSound, ToldToEnd
  <2>3. CASE commands'[d] = C!Idle
    BY <2>3, IdleIsCommand, CaptureTyped
  <2>4. CASE commands'[d] = [commands[d] EXCEPT !.step = "clear"]
    BY <2>1, <2>4 DEF C!Command
  <2> QED
    BY <2>2, <2>3, <2>4 DEF C!StopReturns
<1>3. commands' = [d \in Commands |-> commands'[d]]
  BY DEF C!StopReturns
<1> QED
  BY <1>1, <1>2, <1>3 DEF QuietCommands, C!StopReturns

(* stop(), as far as it goes at once.                                      *)
LEMMA StopCompanionQuiet ==
  ASSUME C!CaptureAssumption, CaptureSound, NEW c \in Commands, C!StopCompanion(c),
         UNCHANGED <<proc, faults>>
  PROVE  QuietCommands /\ QuietStore /\ QuietController /\ QuietProcesses
<1>1. CASE child = None
  <2>1. C!StopReturns({c}) /\ UNCHANGED <<child, signalled>>
    BY <1>1 DEF C!StopCompanion
  <2>2. QuietCommands /\ QuietStore /\ ipc' = None
    BY <2>1, StopReturnsQuiet
  <2> QED
    BY <2>1, <2>2, RestQuiet DEF QuietController
<1>2. CASE child # None
  <2>1. /\ signalled' = signalled \union {child} /\ UNCHANGED <<C!controller, stored>>
        /\ C!Become(c, [commands[c] EXCEPT !.step = "exiting", !.target = child])
    BY <1>2 DEF C!StopCompanion
  <2>2. PICK next : next = [commands[c] EXCEPT !.step = "exiting", !.target = child]
    OBVIOUS
  <2>3. commands[c] \in C!Command /\ child \in Companions
    BY <1>2, CaptureTyped
  <2>4. GoesOn(c, next, signalled')
    BY <2>1, <2>2, <2>3 DEF GoesOn, C!Command
  <2>5. QuietCommands
    BY <2>1, <2>2, <2>4, BecomeQuiet
  <2>6. QuietProcesses
    BY <2>1, <2>3, CaptureTyped DEF QuietProcesses
  <2> QED
    BY <2>1, <2>5, <2>6, RestQuiet
<1> QED
  BY <1>1, <1>2

-----------------------------------------------------------------------------
(* The quiet steps, one by one.                                            *)
LEMMA DismissSound ==
  ASSUME C!CaptureAssumption, CaptureSound, NEW c \in Commands, C!Dismiss(c)
  PROVE  CaptureSound'
<1>1. C!Become(c, C!Idle) /\ UNCHANGED <<stored, C!controller, C!companion, inbox, issued, faults>>
  BY DEF C!Dismiss
<1>2. QuietCommands
  BY <1>1, BecomeIdleQuiet DEF C!companion
<1> QED
  BY <1>1, <1>2, RestQuiet, QuietSound DEF C!companion

LEMMA StopSound ==
  ASSUME C!CaptureAssumption, CaptureSound, NEW c \in Commands, C!StopCompanion(c),
         inbox' \subseteq inbox, UNCHANGED <<proc, active, log, issued, faults>>
  PROVE  CaptureSound'
BY StopCompanionQuiet, RestQuiet, QuietSound

LEMMA FailSound ==
  ASSUME C!CaptureAssumption, CaptureSound, NEW c \in Commands, C!Fail(c),
         inbox' \subseteq inbox, UNCHANGED <<proc, active, log, issued, faults>>
  PROVE  CaptureSound'
<1>1. CASE C!StopCompanion(c)
  BY <1>1, StopSound
<1>2. CASE C!Become(c, C!Idle) /\ UNCHANGED <<stored, C!controller, signalled>>
  BY <1>2, BecomeIdleQuiet, RestQuiet, QuietSound
<1> QED
  BY <1>1, <1>2 DEF C!Fail

LEMMA DisconnectSound ==
  ASSUME C!CaptureAssumption, CaptureSound, NEW c \in Commands, C!Disconnect(c)
  PROVE  CaptureSound'
BY StopSound DEF C!Disconnect

LEMMA ReceiveSound ==
  ASSUME C!CaptureAssumption, CaptureSound, NEW c \in Commands, C!Receive(c)
  PROVE  CaptureSound'
<1>1. UNCHANGED <<proc, active, log, inbox, issued, faults>>
  BY DEF C!Receive
<1>2. CASE C!Fail(c)
  BY <1>1, <1>2, FailSound
<1>3. CASE /\ stored' = [stored EXCEPT !.capture = commands[c].target]
           /\ C!Become(c, C!Idle) /\ UNCHANGED <<C!controller, signalled>>
  <2>1. QuietStore
    <3>1. commands[c].target \in Companions \union {None}
      BY CaptureTyped DEF C!Command
    <3>2. PICK capture \in Companions \union {None} : capture = commands[c].target
      BY <3>1
    <3> QED
      BY <1>3, <3>2, SavesQuiet
  <2> QED
    BY <1>1, <1>3, <2>1, BecomeIdleQuiet, RestQuiet, QuietSound
<1>4. CASE /\ stored' = [stored EXCEPT !.checkpoint = commands[c].reply.checkpoint]
           /\ C!Become(c, [commands[c] EXCEPT !.step = "saved"])
           /\ UNCHANGED <<C!controller, signalled>>
  <2>1. commands[c] \in C!Command /\ stored \in C!PersistentExtensionState
    BY CaptureTyped
  <2>2. commands[c].reply.checkpoint \in C!Checkpoints \union {None}
    BY <2>1 DEF C!Command
  <2>3. QuietStore
    <3>1. stored' \in C!PersistentExtensionState
      BY <1>4, <2>1, <2>2 DEF C!PersistentExtensionState
    <3>2. stored'.checkpoint = commands[c].reply.checkpoint
      BY <1>4, <2>1, <2>2 DEF C!PersistentExtensionState
    <3> QED
      BY <3>1, <3>2 DEF QuietStore
  <2>4. PICK next : next = [commands[c] EXCEPT !.step = "saved"]
    OBVIOUS
  <2>5. GoesOn(c, next, signalled')
    BY <2>1, <2>4 DEF GoesOn, C!Command
  <2>6. QuietCommands
    BY <1>4, <2>4, <2>5, BecomeQuiet
  <2> QED
    BY <1>1, <1>4, <2>3, <2>6, RestQuiet, QuietSound
<1> QED
  BY <1>2, <1>3, <1>4 DEF C!Receive

LEMMA RequestFailsSound ==
  ASSUME C!CaptureAssumption, CaptureSound, NEW c \in Commands, C!RequestFails(c)
  PROVE  CaptureSound'
<1>1. inbox' \subseteq inbox
  BY DEF C!RequestFails
<1> QED
  BY <1>1, FailSound DEF C!RequestFails

LEMMA CheckpointSavedSound ==
  ASSUME C!CaptureAssumption, CaptureSound, NEW c \in Commands, C!CheckpointSaved(c)
  PROVE  CaptureSound'
<1>1. UNCHANGED <<proc, active, log, inbox, issued, faults>>
  BY DEF C!CheckpointSaved
<1>2. CASE C!StopCompanion(c)
  BY <1>1, <1>2, StopSound
<1>3. CASE /\ stored' = [stored EXCEPT !.capture = commands[c].capture]
           /\ C!Become(c, C!Idle) /\ UNCHANGED <<C!controller, signalled>>
  <2>1. commands[c].capture \in Companions \union {None}
    BY CaptureTyped DEF C!Command
  <2>2. PICK capture \in Companions \union {None} : capture = commands[c].capture
    BY <2>1
  <2>3. QuietStore
    BY <1>3, <2>2, SavesQuiet
  <2> QED
    BY <1>1, <1>3, <2>3, BecomeIdleQuiet, RestQuiet, QuietSound
<1> QED
  BY <1>2, <1>3 DEF C!CheckpointSaved

LEMMA ProcessEndsSound ==
  ASSUME C!CaptureAssumption, CaptureSound, NEW p \in Companions,
         C!Terminate(p) \/ C!Crash(p)
  PROVE  CaptureSound'
<1>1. /\ proc[p] = "up" /\ proc' = [proc EXCEPT ![p] = "dead"]
      /\ UNCHANGED <<stored, C!controller, signalled, active, log, inbox, commands, issued>>
  BY DEF C!Terminate, C!Crash
<1>2. QuietProcesses
  BY <1>1, CaptureTyped DEF QuietProcesses
<1>3. QuietCounters
  <2>1. CASE UNCHANGED faults
    BY <1>1, <2>1, RestQuiet
  <2>2. CASE faults.crash < MaxCrashes /\ faults' = [faults EXCEPT !.crash = @ + 1]
    BY <1>1, <2>2, CaptureTyped DEF QuietCounters, C!CaptureAssumption
  <2> QED
    BY <2>1, <2>2 DEF C!Terminate, C!Crash
<1> QED
  BY <1>1, <1>2, <1>3, RestQuiet, QuietSound

LEMMA ExitEventSound ==
  ASSUME C!CaptureAssumption, CaptureSound, NEW p \in Companions, C!ExitEvent(p)
  PROVE  CaptureSound'
<1>1. /\ proc[p] = "dead" /\ proc' = [proc EXCEPT ![p] = "gone"]
      /\ child' = IF child = p THEN None ELSE child
      /\ UNCHANGED <<signalled, active, log, inbox, issued, faults>>
  BY DEF C!ExitEvent, C!ChildWithout
<1>2. QuietProcesses
  BY <1>1, CaptureTyped DEF QuietProcesses
<1>3. child' \in {None, child} /\ (child' # child => proc'[child] # "up")
  BY <1>1, CaptureTyped
<1>4. CASE C!StopReturns(C!Waiting(p))
  <2>1. PICK W \in SUBSET Commands : W = C!Waiting(p)
    BY DEF C!Waiting
  <2>2. QuietCommands /\ QuietStore /\ ipc' = None
    BY <1>1, <1>4, <2>1, StopReturnsQuiet
  <2> QED
    BY <1>1, <1>2, <1>3, <2>2, RestQuiet, QuietSound DEF QuietController
<1>5. CASE ipc' = (IF child = p THEN None ELSE ipc) /\ UNCHANGED <<stored, commands>>
  <2>1. ipc' \in {None, child'}
    BY <1>1, <1>5, CaptureTyped
  <2> QED
    BY <1>1, <1>2, <1>3, <1>5, <2>1, RestQuiet, QuietSound DEF QuietController
<1> QED
  BY <1>4, <1>5 DEF C!ExitEvent

LEMMA KillSound ==
  ASSUME C!CaptureAssumption, CaptureSound, NEW c \in Commands, C!Kill(c)
  PROVE  CaptureSound'
<1>1. /\ commands[c].step = "exiting"
      /\ C!Become(c, [commands[c] EXCEPT !.step = "killing"])
      /\ UNCHANGED <<stored, C!controller, signalled, active, log, inbox, issued, faults>>
  BY DEF C!Kill
<1>2. commands[c] \in C!Command /\ commands[c].target \in signalled
  BY <1>1, CaptureTyped DEF CaptureSound, ToldToEnd
<1>3. QuietProcesses
  BY <1>1, <1>2, CaptureTyped DEF C!Kill, QuietProcesses
<1>4. PICK next : next = [commands[c] EXCEPT !.step = "killing"]
  OBVIOUS
<1>5. GoesOn(c, next, signalled')
  BY <1>1, <1>2, <1>4 DEF GoesOn, C!Command
<1>6. QuietCommands
  BY <1>1, <1>4, <1>5, BecomeQuiet
<1> QED
  BY <1>1, <1>3, <1>6, RestQuiet, QuietSound

LEMMA KillWaitEndsSound ==
  ASSUME C!CaptureAssumption, CaptureSound, NEW c \in Commands, C!KillWaitEnds(c)
  PROVE  CaptureSound'
<1>1. /\ commands[c].step = "killing"
      /\ child' = IF child = commands[c].target THEN None ELSE child
      /\ C!StopReturns({c}) /\ UNCHANGED <<C!companion, inbox, issued, faults>>
  BY DEF C!KillWaitEnds, C!ChildWithout
<1>2. commands[c].target \in signalled
  BY <1>1 DEF CaptureSound, ToldToEnd
<1>3. QuietCommands /\ QuietStore /\ ipc' = None
  BY <1>1, StopReturnsQuiet DEF C!companion
<1>4. QuietController
  BY <1>1, <1>2, <1>3 DEF QuietController, C!companion
<1> QED
  BY <1>1, <1>3, <1>4, RestQuiet, QuietSound DEF C!companion

LEMMA ClearSound ==
  ASSUME C!CaptureAssumption, CaptureSound, NEW c \in Commands, C!Clear(c)
  PROVE  CaptureSound'
<1>1. /\ stored' = C!EmptyState /\ C!Become(c, C!Idle)
      /\ UNCHANGED <<C!controller, C!companion, inbox, issued, faults>>
  BY DEF C!Clear
<1>2. QuietStore
  BY <1>1, SavesQuiet
<1> QED
  BY <1>1, <1>2, BecomeIdleQuiet, RestQuiet, QuietSound DEF C!companion

LEMMA SavesSound ==
  ASSUME C!CaptureAssumption, CaptureSound, C!SaveEnrollment \/ C!SaveProject
  PROVE  CaptureSound'
<1>1. /\ issued < MaxIssued /\ issued' = issued + 1
      /\ UNCHANGED <<C!controller, C!companion, inbox, commands, faults>>
  BY DEF C!SaveEnrollment, C!SaveProject
<1>2. QuietStore
  <2>1. \/ stored' = [C!EmptyState EXCEPT !.connected = TRUE]
        \/ stored' = [stored EXCEPT !.linked = TRUE, !.capture = None]
    BY DEF C!SaveEnrollment, C!SaveProject
  <2> QED
    BY <2>1, SavesQuiet
<1>3. QuietCounters
  BY <1>1, CaptureTyped DEF QuietCounters
<1> QED
  BY <1>1, <1>2, <1>3, RestQuiet, QuietSound DEF C!companion

LEMMA HostRestartSound ==
  ASSUME C!CaptureAssumption, CaptureSound, C!HostRestart
  PROVE  CaptureSound'
<1>1. /\ faults.restart < MaxRestarts /\ faults' = [faults EXCEPT !.restart = @ + 1]
      /\ child' = None /\ ipc' = None
      /\ commands' = [c \in Commands |-> C!Idle]
      /\ stored' = [stored EXCEPT !.capture = None]
      /\ signalled' \in {signalled, signalled \union ({child} \ {None})}
      /\ UNCHANGED <<proc, active, log, inbox, issued>>
  BY DEF C!HostRestart
<1>2. QuietStore
  BY <1>1, SavesQuiet
<1>3. QuietCommands
  BY <1>1, IdleIsCommand, CaptureTyped DEF QuietCommands
<1>4. QuietProcesses
  BY <1>1, CaptureTyped DEF QuietProcesses
<1>5. faults'.restart # 0 /\ QuietCounters
  BY <1>1, CaptureTyped DEF QuietCounters, C!CaptureAssumption
<1>6. QuietController
  BY <1>1, <1>5 DEF QuietController
<1> QED
  BY <1>1, <1>2, <1>3, <1>4, <1>5, <1>6, QuietSound

LEMMA RefuseSound ==
  ASSUME C!CaptureAssumption, CaptureSound, NEW r \in inbox, C!Refuse(r)
  PROVE  CaptureSound'
<1>1. /\ inbox' = inbox \ {r} /\ UNCHANGED <<active, log>>
      /\ proc[r.process] = "up"
      /\ UNCHANGED <<stored, C!controller, signalled, issued, faults>>
  BY DEF C!Refuse, C!Reply
<1>2. QuietProcesses
  BY <1>1, CaptureTyped DEF C!Refuse, C!Reply, QuietProcesses
<1>3. ASSUME NEW d \in Commands
      PROVE  /\ commands'[d] \in C!Command
             /\ commands'[d].step = "ready" => commands'[d] = commands[d]
             /\ commands'[d].step \in {"exiting", "killing"} =>
                  commands'[d].target \in signalled'
             /\ commands'[d].reply \in {commands[d].reply, C!NoReply}
  <2>1. commands[d] \in C!Command
    BY CaptureTyped
  <2>2. CASE commands'[d] = commands[d]
    BY <1>1, <2>1, <2>2 DEF CaptureSound, ToldToEnd
  <2>3. CASE commands'[d] = [commands[d] EXCEPT !.step = "replied", !.reply = C!NoReply]
    BY <2>1, <2>3, IdleIsCommand, CaptureTyped DEF C!Command
  <2> QED
    BY <2>2, <2>3 DEF C!Refuse, C!Reply
<1>4. commands' = [d \in Commands |-> commands'[d]]
  BY DEF C!Refuse, C!Reply
<1>5. QuietCommands
  BY <1>3, <1>4 DEF QuietCommands
<1> QED
  BY <1>1, <1>2, <1>5, RestQuiet, QuietSound

-----------------------------------------------------------------------------
(* A command is issued: its number is new, and no longer to be issued.     *)
LEMMA IssueSound ==
  ASSUME C!CaptureAssumption, CaptureSound, NEW c \in Commands,
         NEW kind \in Kinds, C!Issue(c, kind)
  PROVE  CaptureSound'
<1> DEFINE next == [C!Idle EXCEPT !.kind = kind, !.step = "ready", !.id = issued + 1,
                                  !.capture = stored.capture]
<1>1. /\ issued < MaxIssued /\ issued' = issued + 1 /\ commands[c] = C!Idle
      /\ commands' = [commands EXCEPT ![c] = next]
      /\ UNCHANGED <<stored, child, ipc, proc, signalled, active, log, inbox, faults>>
  BY DEF C!Issue, C!Become, C!controller, C!companion
<1>2. /\ next \in C!Command /\ next.step = "ready" /\ next.id = issued + 1
      /\ next.reply = C!NoReply
  <2>1. stored.capture \in Companions \union {None} /\ issued + 1 \in 0..MaxIssued
    BY <1>1, CaptureTyped DEF C!PersistentExtensionState
  <2>2. C!NoReply \in [ok : BOOLEAN, checkpoint : C!Checkpoints \union {None}]
    BY IdleIsCommand, CaptureTyped
  <2> HIDE DEF C!NoReply, C!Checkpoints
  <2> QED
    BY <2>1, <2>2 DEF C!Idle, C!Command
<1> HIDE DEF next
<1>3. /\ commands' \in [Commands -> C!Command] /\ commands'[c] = next
      /\ \A d \in Commands : d # c => commands'[d] = commands[d]
  BY <1>1, <1>2, CaptureTyped
<1>4. C!TypeOK' /\ log' \in Seq(C!Event)
  <2>1. {log'[i] : i \in DOMAIN log'} \subseteq C!Event
    BY <1>1 DEF CaptureSound, C!TypeOK
  <2> QED
    BY <1>1, <1>3, <2>1, CaptureTyped DEF C!TypeOK
<1>5. C!SessionsWellFormed' /\ C!NoOrphan'
  BY <1>1 DEF CaptureSound, C!SessionsWellFormed, C!NoOrphan
<1>6. ToldToEnd'
  BY <1>1, <1>2, <1>3 DEF CaptureSound, ToldToEnd
<1>7. RequestsSound'
  <2>1. \A r \in inbox : r.id <= issued /\ r.id \in Nat
    BY CaptureTyped DEF CaptureSound, RequestsSound, C!Request
  <2>2. ASSUME NEW d \in Commands, commands'[d].step = "ready"
        PROVE  /\ commands'[d].id \in 1..issued'
               /\ \A r \in inbox' : r.id # commands'[d].id
               /\ \A e \in Commands :
                    commands'[e].step = "ready" /\ commands'[e].id = commands'[d].id => e = d
    <3>1. \A e \in Commands : e # c /\ commands'[e].step = "ready" =>
            commands'[e].id \in 1..issued
      BY <1>3 DEF CaptureSound, RequestsSound
    <3>2. CASE d = c
      BY <1>1, <1>2, <1>3, <2>1, <3>1, <3>2, CaptureTyped
    <3>3. CASE d # c
      BY <1>1, <1>2, <1>3, <2>2, <3>1, <3>3, CaptureTyped DEF CaptureSound, RequestsSound
    <3> QED
      BY <3>2, <3>3
  <2>3. \A r, q \in inbox' : r.id = q.id => r = q
    BY <1>1 DEF CaptureSound, RequestsSound
  <2>4. \A r \in inbox' : r.id <= issued'
    BY <1>1, <2>1, CaptureTyped
  <2> QED
    BY <2>2, <2>3, <2>4 DEF RequestsSound
<1>8. LogBounded'
  <2>1. Unserved' \subseteq Unserved
    BY <1>1, <1>2, <1>3, CaptureTyped DEF Unserved
  <2>2. /\ Cardinality(Unserved') <= Cardinality(Unserved)
        /\ Cardinality(Unserved') \in Nat /\ Cardinality(Unserved) \in Nat
    BY <2>1, UnservedFinite, CaptureTyped, FS_Subset, FS_CardinalityType
  <2> QED
    BY <1>1, <2>2, CaptureTyped DEF LogBounded, CaptureSound
<1>9. SessionsSound'
  BY <1>1 DEF CaptureSound, SessionsSound, Silent, OfSession
<1>10. CheckpointsSound'
  <2>1. next.reply.checkpoint = None
    BY <1>2 DEF C!NoReply
  <2> QED
    BY <1>1, <1>3, <2>1 DEF CaptureSound, CheckpointsSound, IsEvidence
<1> QED
  BY <1>4, <1>5, <1>6, <1>7, <1>8, <1>9, <1>10 DEF CaptureSound

(* A request is sent, to a process that is launched for it or to one that  *)
(* was launched before.                                                    *)
LEMMA SendSound ==
  ASSUME C!CaptureAssumption, CaptureSound, NEW c \in Commands,
         NEW p \in Companions, NEW request \in {"start", "checkpoint", "stop"},
         NEW session \in Companions \union {None},
         commands[c].step = "ready", C!Send(c, p, request, session),
         UNCHANGED <<stored, signalled, active, log, issued, faults>>,
         child' \in {child, p}, ipc' \in {None, child'},
         proc' \in [Companions -> {"unborn", "up", "dead", "gone"}],
         proc'[p] # "unborn", \A q \in Companions : q # p => proc'[q] = proc[q],
         request = "start" => proc[p] = "unborn",
         C!NoOrphan'
  PROVE  CaptureSound'
<1> DEFINE r == [id |-> commands[c].id, process |-> p, request |-> request,
                 session |-> session]
           next == [commands[c] EXCEPT !.step = "await", !.target = p]
<1>1. inbox' = inbox \union {r} /\ commands' = [commands EXCEPT ![c] = next]
  BY DEF C!Send, C!Become
<1>2. commands[c] \in C!Command /\ commands[c].id \in 1..issued
  BY CaptureTyped DEF CaptureSound, RequestsSound
<1>3. next \in C!Command /\ next.step = "await" /\ next.reply = commands[c].reply
  BY <1>2 DEF C!Command
<1>4. /\ r \in C!Request /\ r.id = commands[c].id /\ r.process = p /\ r.request = request
  BY <1>2, CaptureTyped DEF C!Request
<1> HIDE DEF r, next
<1>5. /\ commands' \in [Commands -> C!Command] /\ commands'[c] = next
      /\ \A d \in Commands : d # c => commands'[d] = commands[d]
  BY <1>1, <1>3, CaptureTyped
<1>6. C!TypeOK' /\ log' \in Seq(C!Event)
  <2>1. {log'[i] : i \in DOMAIN log'} \subseteq C!Event
    BY DEF CaptureSound, C!TypeOK
  <2>2. inbox' \subseteq C!Request /\ child' \in Companions \union {None}
    BY <1>1, <1>4, CaptureTyped
  <2> QED
    BY <1>5, <2>1, <2>2, CaptureTyped DEF C!TypeOK
<1>7. C!SessionsWellFormed'
  BY DEF CaptureSound, C!SessionsWellFormed
<1>8. ToldToEnd'
  BY <1>3, <1>5 DEF CaptureSound, ToldToEnd
<1>9. RequestsSound'
  <2>1. \A q \in inbox : q.id # r.id
    BY <1>4 DEF CaptureSound, RequestsSound
  <2>2. r.id <= issued
    BY <1>2, <1>4, CaptureTyped
  <2>3. \A d \in Commands : commands'[d].step = "ready" =>
          d # c /\ commands[d].step = "ready" /\ commands'[d].id = commands[d].id
    BY <1>3, <1>5
  <2>4. \A d \in Commands : commands'[d].step = "ready" => r.id # commands[d].id
    BY <1>4, <2>3 DEF CaptureSound, RequestsSound
  <2> QED
    BY <1>1, <2>1, <2>2, <2>3, <2>4 DEF CaptureSound, RequestsSound
<1>10. LogBounded'
  <2>1. Unserved' \subseteq Unserved
    BY <1>1, <1>3, <1>4, <1>5 DEF Unserved
  <2>2. /\ Cardinality(Unserved') <= Cardinality(Unserved)
        /\ Cardinality(Unserved') \in Nat /\ Cardinality(Unserved) \in Nat
    BY <2>1, UnservedFinite, CaptureTyped, FS_Subset, FS_CardinalityType
  <2> QED
    BY <2>2, CaptureTyped DEF LogBounded, CaptureSound
<1>11. SessionsSound'
  <2>1. request = "start" => Silent(p) /\ \A q \in inbox : q.process # p
    BY DEF CaptureSound, SessionsSound
  <2>2. \A q \in Companions : proc'[q] = "unborn" =>
          Silent(q) /\ q # child' /\ \A s \in inbox' : s.process # q
    BY <1>1, <1>4 DEF CaptureSound, SessionsSound
  <2>3. \A q, s \in inbox' :
          q.request = "start" /\ s.request = "start" /\ q.process = s.process => q = s
    BY <1>1, <1>4, <2>1 DEF CaptureSound, SessionsSound
  <2>4. \A q \in inbox' : q.request = "start" => Silent(q.process)
    BY <1>1, <1>4, <2>1 DEF CaptureSound, SessionsSound
  <2>5. \A q \in Companions : q \in active <=> OfSession(q, "start") /\ ~OfSession(q, "stop")
    BY DEF CaptureSound, SessionsSound
  <2> QED
    BY <2>2, <2>3, <2>4, <2>5 DEF SessionsSound, Silent, OfSession
<1>12. CheckpointsSound'
  <2>1. \A d \in Commands : commands'[d].reply = commands[d].reply
    BY <1>3, <1>5
  <2> QED
    BY <2>1 DEF CaptureSound, CheckpointsSound, IsEvidence
<1> QED
  BY <1>6, <1>7, <1>8, <1>9, <1>10, <1>11, <1>12 DEF CaptureSound

LEMMA LaunchSound ==
  ASSUME C!CaptureAssumption, CaptureSound, NEW c \in Commands, C!Launch(c)
  PROVE  CaptureSound'
<1>1. UNCHANGED <<stored, signalled, active, log, issued, faults>> /\ commands[c].step = "ready"
  BY DEF C!Launch
<1>2. CASE C!Become(c, C!Idle) /\ UNCHANGED <<C!controller, proc, inbox>>
  BY <1>1, <1>2, BecomeIdleQuiet, RestQuiet, QuietSound
<1>3. ASSUME NEW p \in Companions, ~C!Running, proc[p] = "unborn",
             proc' = [proc EXCEPT ![p] = "up"], child' = p, ipc' = p,
             C!Send(c, p, "start", None)
      PROVE  CaptureSound'
  <2>1. /\ proc' \in [Companions -> {"unborn", "up", "dead", "gone"}] /\ proc'[p] = "up"
        /\ \A q \in Companions : q # p => proc'[q] = proc[q]
    BY <1>3, CaptureTyped
  <2>2. C!NoOrphan'
    <3>1. child = None \/ child \in signalled
      BY <1>3 DEF C!Running
    <3> QED
      BY <1>1, <1>3, <2>1, <3>1, CaptureTyped DEF CaptureSound, C!NoOrphan
  <2>3. None \in Companions \union {None} /\ "start" \in {"start", "checkpoint", "stop"}
    OBVIOUS
  <2>4. proc'[p] # "unborn" /\ child' \in {child, p} /\ ipc' \in {None, child'}
    BY <1>3, <2>1
  <2> QED
    BY <1>1, <1>3, <2>1, <2>2, <2>3, <2>4, SendSound
<1> QED
  BY <1>2, <1>3 DEF C!Launch

(* The process asked for a checkpoint or a stop has been launched.         *)
LEMMA AskSound ==
  ASSUME C!CaptureAssumption, CaptureSound, NEW c \in Commands,
         NEW request \in {"checkpoint", "stop"}, NEW session \in Companions \union {None},
         commands[c].step = "ready", ipc # None, C!Send(c, ipc, request, session),
         UNCHANGED <<stored, child, ipc, proc, signalled, active, log, issued, faults>>
  PROVE  CaptureSound'
<1>1. PICK p \in Companions : p = ipc /\ p = child
  BY CaptureTyped
<1>2. C!Send(c, p, request, session)
  BY <1>1
<1>3. proc'[p] # "unborn"
  BY <1>1 DEF CaptureSound, SessionsSound
<1>4. C!NoOrphan'
  BY DEF CaptureSound, C!NoOrphan
<1>5. request # "start" /\ request \in {"start", "checkpoint", "stop"}
  OBVIOUS
<1>6. /\ child' \in {child, p} /\ ipc' \in {None, child'}
      /\ proc' \in [Companions -> {"unborn", "up", "dead", "gone"}]
      /\ \A q \in Companions : q # p => proc'[q] = proc[q]
  BY CaptureTyped
<1> QED
  BY <1>2, <1>3, <1>4, <1>5, <1>6, SendSound

LEMMA RequestCheckpointSound ==
  ASSUME C!CaptureAssumption, CaptureSound, NEW c \in Commands, C!RequestCheckpoint(c)
  PROVE  CaptureSound'
<1>1. /\ UNCHANGED <<stored, child, ipc, proc, signalled, active, log, issued, faults>>
      /\ UNCHANGED C!controller /\ commands[c].step = "ready"
  BY DEF C!RequestCheckpoint, C!controller, C!companion
<1>2. CASE C!Become(c, C!Idle) /\ UNCHANGED inbox
  BY <1>1, <1>2, BecomeIdleQuiet, RestQuiet, QuietSound
<1>3. CASE ipc # None /\ C!Send(c, ipc, "checkpoint", None)
  <2>1. None \in Companions \union {None} /\ "checkpoint" \in {"checkpoint", "stop"}
    OBVIOUS
  <2> QED
    BY <1>1, <1>3, <2>1, AskSound
<1> QED
  BY <1>2, <1>3 DEF C!RequestCheckpoint

LEMMA RequestStopSound ==
  ASSUME C!CaptureAssumption, CaptureSound, NEW c \in Commands, C!RequestStop(c)
  PROVE  CaptureSound'
<1>1. UNCHANGED <<proc, active, log, issued, faults>> /\ commands[c].step = "ready"
  BY DEF C!RequestStop
<1>2. CASE C!StopCompanion(c) /\ UNCHANGED inbox
  BY <1>1, <1>2, StopSound
<1>3. CASE /\ ipc # None /\ C!Send(c, ipc, "stop", stored.capture)
           /\ UNCHANGED <<stored, C!controller, signalled>>
  <2>1. PICK session \in Companions \union {None} : session = stored.capture
    BY CaptureTyped DEF C!PersistentExtensionState
  <2>2. C!Send(c, ipc, "stop", session)
    BY <1>3, <2>1
  <2>3. "stop" \in {"checkpoint", "stop"}
    OBVIOUS
  <2> QED
    BY <1>1, <1>3, <2>2, <2>3, AskSound DEF C!controller
<1> QED
  BY <1>2, <1>3 DEF C!RequestStop

-----------------------------------------------------------------------------
(* What SessionsWellFormed says of each event, and of the events before it.*)
Orderly(events) ==
  \A i \in 1..Len(events) :
    /\ \A j \in 1..(i - 1) :
         events[j].session = events[i].session => events[j].action # "stop"
    /\ events[i].action = "start" <=>
         \A j \in 1..(i - 1) :
           events[j].session = events[i].session => events[j].action # "start"

LEMMA OneMoreIsOrderly ==
  ASSUME NEW events \in Seq(C!Event), NEW event \in C!Event, Orderly(events),
         \A j \in 1..Len(events) :
           events[j].session = event.session => events[j].action # "stop",
         event.action = "start" <=>
           \A j \in 1..Len(events) :
             events[j].session = event.session => events[j].action # "start"
  PROVE  Orderly(Append(events, event))
<1> DEFINE more == Append(events, event)
<1>1. /\ Len(events) \in Nat /\ Len(more) = Len(events) + 1
      /\ more[Len(events) + 1] = event
      /\ \A i \in 1..Len(events) : more[i] = events[i]
  OBVIOUS
<1> HIDE DEF more
<1>2. ASSUME NEW i \in 1..Len(more)
      PROVE  /\ \A j \in 1..(i - 1) :
                  more[j].session = more[i].session => more[j].action # "stop"
             /\ more[i].action = "start" <=>
                  \A j \in 1..(i - 1) :
                    more[j].session = more[i].session => more[j].action # "start"
  <2>1. CASE i \in 1..Len(events)
    <3>1. more[i] = events[i] /\ \A j \in 1..(i - 1) : more[j] = events[j]
      BY <1>1, <2>1
    <3> QED
      BY <2>1, <3>1 DEF Orderly
  <2>2. CASE i = Len(events) + 1
    <3>1. more[i] = event /\ 1..(i - 1) = 1..Len(events)
      BY <1>1, <2>2
    <3>2. \A j \in 1..(i - 1) : more[j] = events[j]
      BY <1>1, <3>1
    <3> QED
      BY <3>1, <3>2
  <2> QED
    BY <1>1, <2>1, <2>2
<1>3. Orderly(more)
  BY <1>2 DEF Orderly
<1> QED
  BY <1>3 DEF more

(* A request that is served leaves one event, and the evidence of its      *)
(* session is what it is served by.                                        *)
LEMMA EvidenceIsOne ==
  ASSUME C!CaptureAssumption, CaptureSound, NEW r \in inbox, C!Serve(r)
  PROVE  /\ [action |-> r.request, session |-> r.process] \in C!Event
         /\ log' = Append(log, [action |-> r.request, session |-> r.process])
         /\ r.request \in {"start", "checkpoint", "stop"} /\ r.process \in Companions
         /\ r.request = "start" => Silent(r.process)
         /\ r.request # "start" =>
              r.process \in active /\ OfSession(r.process, "start")
              /\ ~OfSession(r.process, "stop")
         /\ active' = IF r.request = "start" THEN active \union {r.process}
                      ELSE IF r.request = "stop" THEN active \ {r.process} ELSE active
<1>1. r \in C!Request
  BY CaptureTyped
<1>2. r.request \in {"start", "checkpoint", "stop"} /\ r.process \in Companions
  BY <1>1 DEF C!Request
<1>3. r.request = "start" => Silent(r.process) /\ r.process \notin active
  BY <1>2 DEF CaptureSound, SessionsSound, Silent, OfSession
<1>4. r.request # "start" => r.process \in active
  BY <1>2 DEF C!Serve, C!Accepts
<1>5. C!Evidence(r) = <<[action |-> r.request, session |-> r.process]>>
  BY <1>3 DEF C!Evidence
<1>6. [action |-> r.request, session |-> r.process] \in C!Event
  BY <1>2 DEF C!Event
<1>7. log' = Append(log, [action |-> r.request, session |-> r.process])
  <2>1. log' = log \o <<[action |-> r.request, session |-> r.process]>>
    BY <1>5 DEF C!Serve
  <2> QED
    BY <1>6, <2>1, CaptureTyped
<1>8. active' = IF r.request = "start" THEN active \union {r.process}
                ELSE IF r.request = "stop" THEN active \ {r.process} ELSE active
  BY <1>2 DEF C!Serve, C!ActiveAfter
<1> QED
  BY <1>2, <1>3, <1>4, <1>6, <1>7, <1>8 DEF CaptureSound, SessionsSound

LEMMA ServeSessionsSound ==
  ASSUME C!CaptureAssumption, CaptureSound, NEW r \in inbox, C!Serve(r)
  PROVE  C!SessionsWellFormed' /\ SessionsSound'
<1> DEFINE event == [action |-> r.request, session |-> r.process]
<1>1. event \in C!Event /\ log' = Append(log, event)
  BY EvidenceIsOne
<1>2. event.action = r.request /\ event.session = r.process
  OBVIOUS
<1> HIDE DEF event
<1>3. /\ Len(log) \in Nat /\ Len(log') = Len(log) + 1 /\ log'[Len(log) + 1] = event
      /\ \A i \in 1..Len(log) : log'[i] = log[i]
      /\ log \in Seq(C!Event) /\ log' \in Seq(C!Event)
      /\ DOMAIN log = 1..Len(log) /\ DOMAIN log' = 1..Len(log')
  BY <1>1, CaptureTyped
<1>4. C!SessionsWellFormed'
  <2>1. C!SessionsWellFormed <=> Orderly(log)
    BY <1>3 DEF C!SessionsWellFormed, Orderly
  <2>2. Orderly(log') <=> C!SessionsWellFormed'
    BY <1>3 DEF C!SessionsWellFormed, Orderly
  <2>3. \A j \in 1..Len(log) : log[j].session = event.session => log[j].action # "stop"
    BY <1>2, EvidenceIsOne DEF Silent, OfSession
  <2>4. event.action = "start" <=>
          \A j \in 1..Len(log) : log[j].session = event.session => log[j].action # "start"
    BY <1>2, EvidenceIsOne DEF Silent, OfSession
  <2>5. PICK events \in Seq(C!Event) : events = log
    BY <1>3
  <2>6. PICK last \in C!Event : last = event
    BY <1>1
  <2>7. Orderly(Append(events, last))
    BY <2>1, <2>3, <2>4, <2>5, <2>6, OneMoreIsOrderly DEF CaptureSound
  <2> QED
    BY <1>1, <2>2, <2>5, <2>6, <2>7
<1>5. \A q \in Companions :
        /\ OfSession(q, "start")' <=>
             OfSession(q, "start") \/ (q = r.process /\ r.request = "start")
        /\ OfSession(q, "stop")' <=>
             OfSession(q, "stop") \/ (q = r.process /\ r.request = "stop")
        /\ Silent(q)' <=> Silent(q) /\ q # r.process
  <2>1. 1..Len(log') = (1..Len(log)) \union {Len(log) + 1}
    BY <1>3
  <2> QED
    BY <1>2, <1>3, <2>1 DEF OfSession, Silent
<1>6. \A q \in Companions : Silent(q) => ~OfSession(q, "start") /\ ~OfSession(q, "stop")
  BY DEF Silent, OfSession
<1>7. ASSUME NEW q \in Companions
      PROVE  q \in active' <=> OfSession(q, "start")' /\ ~OfSession(q, "stop")'
  <2>1. q \in active <=> OfSession(q, "start") /\ ~OfSession(q, "stop")
    BY DEF CaptureSound, SessionsSound
  <2> QED
    BY <1>5, <1>6, <2>1, EvidenceIsOne
<1>8. inbox' = inbox \ {r} /\ UNCHANGED child /\ proc[r.process] = "up"
  BY DEF C!Serve, C!Reply, C!controller
<1>9. \A q \in Companions : proc'[q] = "unborn" => proc[q] = "unborn" /\ q # r.process
  BY CaptureTyped, EvidenceIsOne DEF C!Serve, C!Reply
<1>10. ASSUME NEW q \in inbox', q.request = "start"
       PROVE  Silent(q.process)'
  <2>1. q.process \in Companions /\ Silent(q.process)
    BY <1>8, <1>10, CaptureTyped DEF CaptureSound, SessionsSound, C!Request
  <2>2. q.process # r.process
    BY <1>6, <1>8, <1>10, <2>1, EvidenceIsOne DEF CaptureSound, SessionsSound
  <2>3. PICK p \in Companions : p = q.process
    BY <2>1
  <2> QED
    BY <1>3, <1>2, <2>1, <2>2 DEF Silent
<1>11. ASSUME NEW q \in Companions, proc'[q] = "unborn"
       PROVE  Silent(q)' /\ q # child' /\ \A s \in inbox' : s.process # q
  BY <1>5, <1>8, <1>9, <1>11 DEF CaptureSound, SessionsSound
<1>12. \A q, s \in inbox' :
         q.request = "start" /\ s.request = "start" /\ q.process = s.process => q = s
  BY <1>8 DEF CaptureSound, SessionsSound
<1> QED
  BY <1>4, <1>7, <1>10, <1>11, <1>12 DEF SessionsSound

(* Its number is served, and the reply names the event as evidence.        *)
LEMMA ServeSound ==
  ASSUME C!CaptureAssumption, CaptureSound, NEW r \in inbox, C!Serve(r)
  PROVE  CaptureSound'
<1> DEFINE event == [action |-> r.request, session |-> r.process]
<1>1. /\ event \in C!Event /\ log' = Append(log, event)
      /\ event.action = r.request /\ event.session = r.process
  BY EvidenceIsOne
<1> HIDE DEF event
<1>2. /\ Len(log) \in Nat /\ Len(log') = Len(log) + 1 /\ log'[Len(log) + 1] = event
      /\ \A i \in 1..Len(log) : log'[i] = log[i]
      /\ log' \in Seq(C!Event) /\ DOMAIN log' = 1..Len(log')
  BY <1>1, CaptureTyped
<1>3. /\ inbox' = inbox \ {r} /\ UNCHANGED <<stored, child, ipc, signalled, issued, faults>>
      /\ r \in C!Request /\ r.id <= issued
  BY CaptureTyped DEF C!Serve, C!Reply, C!controller, CaptureSound, RequestsSound
<1>4. /\ r.id \in 1..MaxIssued /\ r.process \in Companions
      /\ r.request \in {"start", "checkpoint", "stop"}
  BY <1>3 DEF C!Request
<1>5. LogBounded' /\ Len(log') <= MaxIssued
  <2>1. r.id \in Unserved
    BY <1>4 DEF Unserved
  <2>2. \A d \in Commands : commands'[d].step = "ready" =>
          commands[d].step = "ready" /\ commands'[d].id = commands[d].id
    <3> TAKE d \in Commands
    <3>1. commands[d] \in C!Command
      BY CaptureTyped
    <3> QED
      BY <3>1 DEF C!Serve, C!Reply, C!Command
  <2>3. r.id \notin Unserved'
    BY <1>3, <1>4, <2>2, CaptureTyped DEF Unserved, CaptureSound, RequestsSound
  <2>4. Unserved' \subseteq Unserved \ {r.id}
    <3>1. Unserved' \subseteq Unserved
      BY <1>3, <2>2 DEF Unserved
    <3> QED
      BY <2>3, <3>1
  <2>5. /\ IsFiniteSet(Unserved \ {r.id})
        /\ Cardinality(Unserved \ {r.id}) = Cardinality(Unserved) - 1
    BY <2>1, UnservedFinite, CaptureTyped, FS_RemoveElement
  <2>6. Cardinality(Unserved') \in Nat /\ Cardinality(Unserved') <= Cardinality(Unserved) - 1
    BY <2>4, <2>5, FS_Subset, FS_CardinalityType
  <2>7. Cardinality(Unserved) \in Nat /\ Len(log) + Cardinality(Unserved) <= MaxIssued
    BY UnservedFinite, CaptureTyped DEF CaptureSound, LogBounded
  <2> QED
    BY <1>2, <2>6, <2>7, CaptureTyped DEF LogBounded
<1> DEFINE reply == [ok |-> TRUE, checkpoint |-> C!Checkpoint(r)]
<1>6. /\ reply \in [ok : BOOLEAN, checkpoint : C!Checkpoints \union {None}]
      /\ reply.checkpoint # None => IsEvidence(reply.checkpoint, log')
  <2>1. CASE r.request = "start"
    BY <2>1 DEF C!Checkpoint
  <2>2. CASE r.request # "start"
    <3>1. C!Checkpoint(r) = [at |-> Len(log) + 1, session |-> r.process]
      BY <2>2 DEF C!Checkpoint
    <3>2. Len(log) + 1 \in 1..MaxIssued /\ Len(log) + 1 \in 1..Len(log')
      BY <1>2, <1>5, CaptureTyped
    <3>3. C!Checkpoint(r) \in C!Checkpoints
      BY <1>4, <3>1, <3>2 DEF C!Checkpoints
    <3>4. IsEvidence(C!Checkpoint(r), log')
      <4>1. C!Checkpoint(r).at = Len(log) + 1 /\ C!Checkpoint(r).session = r.process
        BY <3>1
      <4>2. log'[C!Checkpoint(r).at] = event
        BY <1>2, <4>1
      <4> QED
        BY <1>1, <2>2, <3>2, <4>1, <4>2 DEF IsEvidence
    <3> QED
      BY <3>3, <3>4
  <2> QED
    BY <2>1, <2>2
<1>7. \A d \in Commands :
        \/ commands'[d] = commands[d]
        \/ commands'[d] = [commands[d] EXCEPT !.step = "replied", !.reply = reply]
  BY DEF C!Serve, C!Reply
<1> HIDE DEF reply
<1>8. ASSUME NEW d \in Commands
      PROVE  /\ commands'[d] \in C!Command
             /\ commands'[d].step = "ready" => commands'[d] = commands[d]
             /\ commands'[d].step \in {"exiting", "killing"} => commands'[d] = commands[d]
             /\ commands'[d].reply \in {commands[d].reply, reply}
  <2>1. commands[d] \in C!Command
    BY CaptureTyped
  <2>2. CASE commands'[d] = [commands[d] EXCEPT !.step = "replied", !.reply = reply]
    BY <1>6, <2>1, <2>2 DEF C!Command
  <2> QED
    BY <1>7, <2>1, <2>2
<1>9. commands' \in [Commands -> C!Command]
  <2>1. commands' = [d \in Commands |-> commands'[d]]
    BY DEF C!Serve, C!Reply
  <2> QED
    BY <1>8, <2>1
<1>10. /\ proc' \in [Companions -> {"unborn", "up", "dead", "gone"}]
       /\ \A p \in Companions : proc'[p] = "up" => proc[p] = "up"
  BY <1>4, CaptureTyped DEF C!Serve, C!Reply
<1>11. C!TypeOK' /\ log' \in Seq(C!Event)
  <2>1. {log'[i] : i \in DOMAIN log'} \subseteq C!Event
    BY <1>2
  <2>2. active' \subseteq Companions
    BY <1>4, CaptureTyped, EvidenceIsOne
  <2> QED
    BY <1>2, <1>3, <1>9, <1>10, <2>1, <2>2, CaptureTyped DEF C!TypeOK
<1>12. C!NoOrphan' /\ ToldToEnd'
  BY <1>3, <1>8, <1>10 DEF CaptureSound, C!NoOrphan, ToldToEnd
<1>13. RequestsSound'
  BY <1>3, <1>8 DEF CaptureSound, RequestsSound
<1>14. CheckpointsSound'
  <2>1. ASSUME NEW point, IsEvidence(point, log) PROVE IsEvidence(point, log')
    BY <1>2, <2>1 DEF IsEvidence
  <2>2. stored'.checkpoint # None => IsEvidence(stored'.checkpoint, log')
    BY <2>1, <1>3 DEF CaptureSound, CheckpointsSound
  <2>3. ASSUME NEW d \in Commands, commands'[d].reply.checkpoint # None
        PROVE  IsEvidence(commands'[d].reply.checkpoint, log')
    <3>1. CASE commands'[d].reply = commands[d].reply
      BY <2>1, <2>3, <3>1 DEF CaptureSound, CheckpointsSound
    <3>2. CASE commands'[d].reply = reply
      BY <1>6, <2>3, <3>2
    <3> QED
      BY <1>8, <3>1, <3>2
  <2> HIDE DEF IsEvidence
  <2> QED
    BY <2>2, <2>3 DEF CheckpointsSound
<1> QED
  BY <1>5, <1>11, <1>12, <1>13, <1>14, ServeSessionsSound DEF CaptureSound

LEMMA CaptureInitSound == ASSUME C!CaptureAssumption, C!Init PROVE CaptureSound
<1>1. C!TypeOK /\ log \in Seq(C!Event)
  <2>1. commands \in [Commands -> C!Command]
    BY IdleIsCommand DEF C!Init, C!CaptureAssumption
  <2>2. stored \in C!PersistentExtensionState
    BY DEF C!Init, C!EmptyState, C!PersistentExtensionState
  <2>3. log \in Seq(C!Event) /\ {log[i] : i \in DOMAIN log} \subseteq C!Event
    BY DEF C!Init
  <2> QED
    BY <2>1, <2>2, <2>3 DEF C!Init, C!TypeOK, C!CaptureAssumption
<1>2. log = <<>> /\ Len(log) = 0 /\ 1..Len(log) = {}
  BY DEF C!Init
<1>3. \A c \in Commands : commands[c].step = "idle" /\ commands[c].reply.checkpoint = None
  BY DEF C!Init, C!Idle, C!NoReply
<1>4. LogBounded
  <2>1. Unserved = 1..MaxIssued
    BY <1>3 DEF Unserved, C!Init
  <2>2. Cardinality(1..MaxIssued) = MaxIssued
    BY FS_Interval DEF C!CaptureAssumption
  <2> QED
    BY <1>2, <2>1, <2>2 DEF LogBounded, C!CaptureAssumption
<1>5. C!SessionsWellFormed /\ C!NoOrphan
  BY DEF C!Init, C!SessionsWellFormed, C!NoOrphan
<1>6. ToldToEnd /\ RequestsSound
  BY <1>3 DEF C!Init, ToldToEnd, RequestsSound
<1>7. SessionsSound
  BY <1>2 DEF C!Init, SessionsSound, Silent, OfSession, C!CaptureAssumption
<1>8. CheckpointsSound
  BY <1>3 DEF C!Init, C!EmptyState, CheckpointsSound
<1> QED
  BY <1>1, <1>4, <1>5, <1>6, <1>7, <1>8 DEF CaptureSound

LEMMA CaptureStep ==
  ASSUME C!CaptureAssumption, CaptureSound, [C!Next]_C!vars
  PROVE  CaptureSound'
<1>1. CASE UNCHANGED C!vars
  <2>1. /\ UNCHANGED <<stored, C!controller, proc, signalled, active, log, inbox,
                       commands, issued, faults>>
    BY <1>1 DEF C!vars, C!companion
  <2> QED
    BY <2>1, RestQuiet, QuietSound
<1>2. ASSUME NEW c \in Commands, C!CommandSteps(c) PROVE CaptureSound'
  BY <1>2, IssueSound, DismissSound, LaunchSound, RequestCheckpointSound,
     RequestStopSound, DisconnectSound, ReceiveSound, RequestFailsSound,
     CheckpointSavedSound, KillSound, KillWaitEndsSound, ClearSound
  DEF C!CommandSteps, C!Continue
<1>3. ASSUME NEW r \in inbox, C!Serve(r) \/ C!Refuse(r) PROVE CaptureSound'
  BY <1>3, ServeSound, RefuseSound
<1>4. ASSUME NEW p \in Companions, C!Terminate(p) \/ C!Crash(p) \/ C!ExitEvent(p)
      PROVE  CaptureSound'
  BY <1>4, ProcessEndsSound, ExitEventSound
<1>5. CASE C!SaveEnrollment \/ C!SaveProject \/ C!HostRestart
  BY <1>5, SavesSound, HostRestartSound
<1> QED
  BY <1>1, <1>2, <1>3, <1>4, <1>5 DEF C!Next

(* Evidence, requests and processes agree in every state                   *)
(* (extension.ts, controller.ts, main.rs).                                 *)
THEOREM CaptureSoundAlways == C!CaptureAssumption /\ C!Spec => []CaptureSound
<1> SUFFICES ASSUME C!CaptureAssumption PROVE C!Spec => []CaptureSound
  OBVIOUS
<1>1. C!Init => CaptureSound
  BY CaptureInitSound
<1>2. CaptureSound /\ [C!Next]_C!vars => CaptureSound'
  BY CaptureStep
<1> QED
  BY <1>1, <1>2, PTL DEF C!Spec

-----------------------------------------------------------------------------
(***************************************************************************)
(* Commands that never overlap (the part serial of MCCompanion): only c1   *)
(* is ever under way, and nothing crashes.                                 *)
(***************************************************************************)
Claim ==
  \A p \in Companions :
    stored.capture = p <=> C!Observing(p) /\ child = p /\ ipc = p

(* The request of a command, while the command waits for it.               *)
Awaited(r) == commands[c1].step = "await" /\ commands[c1].id = r.id

Asked(r, x) ==
  /\ r.process = x.target
  /\ x.kind = "start" <=> r.request = "start"
  /\ x.kind = "scan" => r.request = "checkpoint"

Starting(x) ==
  /\ x.target = child /\ ipc = child /\ child \in Companions \ signalled
  /\ x.step = "replied" /\ x.reply.ok => child \in active

(* What the command under way has done of what it will do.                 *)
Stage(x) ==
  /\ x.step \in {"idle", "ready"} \/ x.kind = "scan" => Claim
  /\ x.step \notin {"idle", "ready"} => x.kind \in {"start", "stop", "scan", "disconnect"}
  /\ x.kind = "scan" =>
       x.capture = stored.capture /\ x.step \in {"ready", "await", "replied", "saved"}
  /\ x.kind = "start" /\ x.step # "ready" =>
       stored.capture = None /\ x.step \in {"await", "replied", "exiting", "killing"}
  /\ x.kind = "start" /\ x.step \in {"await", "replied"} => Starting(x)
  /\ x.step = "clear" => ipc = None

(* A request that does more than ask for a checkpoint comes late only to a *)
(* process that nobody observes any more.                                  *)
LateIsHarmless ==
  \A r \in inbox :
    r.request # "checkpoint" => r.process \in signalled \/ r.process # child \/ Awaited(r)

SerialSound ==
  /\ \A c \in Commands \ {c1} : commands[c] = C!Idle
  /\ \A p \in Companions : proc[p] \in {"dead", "gone"} => p \in signalled
  /\ \A p \in signalled : proc[p] # "unborn"
  /\ \A r \in inbox : Awaited(r) => Asked(r, commands[c1])
  /\ LateIsHarmless
  /\ Stage(commands[c1])

LEMMA OnlyOneMoves ==
  ASSUME SerialSound, NEW c \in Commands, commands[c].step # "idle"
  PROVE  c = c1
BY DEF SerialSound, C!Idle

LEMMA ClaimTyped ==
  ASSUME C!CaptureAssumption, CaptureSound
  PROVE  /\ commands[c1] \in C!Command
         /\ stored.capture \in Companions \union {None}
         /\ child # None => proc[child] # "unborn"
BY MCAssumption, CaptureTyped DEF CaptureSound, SessionsSound, C!PersistentExtensionState

(* Steps of the command alone.  Nothing new is asked, and whoever waited   *)
(* no longer does only with the signal sent.                               *)
LEMMA SerialGoesOn ==
  ASSUME C!CaptureAssumption, CaptureSound, SerialSound, NEW x,
         commands' = [commands EXCEPT ![c1] = x],
         inbox' \subseteq inbox, signalled \subseteq signalled', UNCHANGED <<active, log>>,
         child' \in {None, child},
         \A p \in Companions : proc'[p] \in {"dead", "gone"} =>
           proc[p] \in {"dead", "gone"} \/ p \in signalled,
         \A p \in Companions : proc'[p] = "unborn" => proc[p] = "unborn",
         signalled' \subseteq signalled \union ({child} \ {None}),
         x.step # "await",
         \A r \in inbox : r.request # "checkpoint" /\ Awaited(r) =>
           r.process \in signalled' \/ r.process # child' \/ r \notin inbox',
         Stage(x)'
  PROVE  SerialSound'
<1>1. commands'[c1] = x /\ \A c \in Commands \ {c1} : commands'[c] = commands[c]
  BY MCAssumption, CaptureTyped
<1>2. \A c \in Commands \ {c1} : commands'[c] = C!Idle
  BY <1>1 DEF SerialSound
<1>3. \A p \in Companions : proc'[p] \in {"dead", "gone"} => p \in signalled'
  BY DEF SerialSound
<1>4. \A r \in inbox' : ~Awaited(r)'
  BY <1>1 DEF Awaited
<1>7. \A p \in signalled' : proc'[p] # "unborn"
  BY ClaimTyped, CaptureTyped DEF SerialSound
<1>5. LateIsHarmless'
  <2> SUFFICES ASSUME NEW r \in inbox', r.request # "checkpoint"
               PROVE  r.process \in signalled' \/ r.process # child'
    BY DEF LateIsHarmless
  <2>1. r.process \in Companions
    BY CaptureTyped DEF C!Request
  <2> QED
    BY <2>1, CaptureTyped DEF SerialSound, LateIsHarmless
<1>6. Stage(commands[c1])'
  BY <1>1
<1> QED
  BY <1>2, <1>3, <1>4, <1>5, <1>6, <1>7 DEF SerialSound

(* stop() returns: nothing is reached, and what was saved is forgotten, or *)
(* is about to be.                                                         *)
Stopping(x) ==
  /\ x.kind \in {"start", "stop", "disconnect"}
  /\ x.kind = "start" => stored.capture = None

LEMMA SerialReturns ==
  ASSUME C!CaptureAssumption, CaptureSound, Stopping(commands[c1]), C!StopReturns({c1})
  PROVE  \E x : /\ commands' = [commands EXCEPT ![c1] = x]
                /\ x.step # "await" /\ Stage(x)'
<1>1. /\ ipc' = None /\ commands[c1] \in C!Command
      /\ commands[c1].kind = "stop" => stored' = [stored EXCEPT !.capture = None]
      /\ commands[c1].kind = "start" => stored' = stored
  BY ClaimTyped DEF C!StopReturns
<1>2. PICK x : x = IF commands[c1].kind = "disconnect"
                   THEN [commands[c1] EXCEPT !.step = "clear"] ELSE C!Idle
  OBVIOUS
<1>3. commands' = [commands EXCEPT ![c1] = x]
  <2>1. commands' = [c \in Commands |-> IF c = c1 THEN x ELSE commands[c]]
    BY <1>2 DEF C!StopReturns
  <2> QED
    BY <2>1, CaptureTyped
<1>4. x.step # "await" /\ Stage(x)'
  <2>1. CASE commands[c1].kind = "disconnect"
    <3>1. x.step = "clear" /\ x.kind = "disconnect"
      BY <1>1, <1>2, <2>1 DEF C!Command
    <3> QED
      BY <1>1, <3>1 DEF Stage
  <2>2. CASE commands[c1].kind # "disconnect"
    <3>1. x.step = "idle" /\ x.kind = "none"
      BY <1>2, <2>2 DEF C!Idle
    <3>2. stored'.capture = None
      BY <1>1, <2>2, CaptureTyped DEF Stopping, C!PersistentExtensionState
    <3>3. Claim'
      BY <1>1, <3>2, CaptureTyped DEF Claim
    <3> QED
      BY <3>1, <3>3 DEF Stage
  <2> QED
    BY <2>1, <2>2
<1> QED
  BY <1>3, <1>4

LEMMA SerialStops ==
  ASSUME C!CaptureAssumption, CaptureSound, SerialSound, Stopping(commands[c1]),
         C!StopCompanion(c1), inbox' \subseteq inbox, UNCHANGED <<proc, active, log>>
  PROVE  SerialSound'
<1>1. /\ child' = child /\ signalled \subseteq signalled'
      /\ signalled' \subseteq signalled \union ({child} \ {None})
      /\ child # None => child \in signalled'
      /\ \E x : /\ commands' = [commands EXCEPT ![c1] = x]
                /\ x.step # "await" /\ Stage(x)'
  <2>1. CASE child = None
    <3>1. C!StopReturns({c1}) /\ UNCHANGED <<child, signalled>>
      BY <2>1 DEF C!StopCompanion
    <3> QED
      BY <2>1, <3>1, SerialReturns
  <2>2. CASE child # None
    <3>1. /\ signalled' = signalled \union {child}
          /\ UNCHANGED <<child, ipc, stored>>
          /\ commands' = [commands EXCEPT ![c1] = [commands[c1] EXCEPT !.step = "exiting",
                                                                       !.target = child]]
      BY <2>2 DEF C!StopCompanion, C!Become, C!controller
    <3>2. PICK x : x = [commands[c1] EXCEPT !.step = "exiting", !.target = child]
      OBVIOUS
    <3>3. x.step = "exiting" /\ x.kind = commands[c1].kind
      BY <3>2, ClaimTyped DEF C!Command
    <3>4. Stage(x)'
      BY <3>1, <3>3 DEF Stage, Stopping
    <3>5. commands' = [commands EXCEPT ![c1] = x] /\ x.step # "await"
      BY <3>1, <3>2, <3>3
    <3>6. \E y : /\ commands' = [commands EXCEPT ![c1] = y]
                 /\ y.step # "await" /\ Stage(y)'
      BY <3>4, <3>5
    <3> QED
      BY <2>2, <3>1, <3>6
  <2> QED
    BY <2>1, <2>2
<1>2. PICK x : commands' = [commands EXCEPT ![c1] = x] /\ x.step # "await" /\ Stage(x)'
  BY <1>1
<1>3. \A r \in inbox : r.process \in signalled' \/ r.process # child'
  BY <1>1, CaptureTyped DEF C!Request
<1> QED
  BY <1>1, <1>2, <1>3, SerialGoesOn

(* The steps of the command, one by one.                                   *)
LEMMA SerialEnds ==
  ASSUME C!CaptureAssumption, CaptureSound, SerialSound,
         C!Become(c1, C!Idle), Claim', inbox' \subseteq inbox,
         UNCHANGED <<child, signalled, proc, active, log>>,
         \A r \in inbox : r.request # "checkpoint" => ~Awaited(r)
  PROVE  SerialSound'
<1>1. PICK x : x = C!Idle
  OBVIOUS
<1>2. x.step = "idle" /\ x.kind = "none" /\ commands' = [commands EXCEPT ![c1] = x]
  BY <1>1 DEF C!Idle, C!Become
<1>3. Stage(x)'
  BY <1>2 DEF Stage
<1> QED
  BY <1>2, <1>3, SerialGoesOn

LEMMA SerialFails ==
  ASSUME C!CaptureAssumption, CaptureSound, SerialSound, C!Fail(c1),
         commands[c1].step \in {"await", "replied"},
         inbox' \subseteq inbox, UNCHANGED <<proc, active, log>>
  PROVE  SerialSound'
<1>1. Stage(commands[c1])
  BY DEF SerialSound
<1>2. CASE commands[c1].kind = "scan"
  <2>1. C!Become(c1, C!Idle) /\ UNCHANGED <<stored, child, ipc, signalled>>
    BY <1>2 DEF C!Fail, C!controller
  <2>2. Claim'
    BY <1>1, <1>2, <2>1 DEF Stage, Claim, C!Observing
  <2>3. \A r \in inbox : r.request # "checkpoint" => ~Awaited(r)
    BY <1>2 DEF SerialSound, Asked
  <2> QED
    BY <2>1, <2>2, <2>3, SerialEnds
<1>3. CASE commands[c1].kind # "scan"
  <2>1. Stopping(commands[c1])
    BY <1>1, <1>3 DEF Stage, Stopping
  <2> QED
    BY <1>3, <2>1, SerialStops DEF C!Fail
<1> QED
  BY <1>2, <1>3

LEMMA SerialReady ==
  ASSUME C!CaptureAssumption, CaptureSound, SerialSound, commands[c1].step # "await"
  PROVE  \A r \in inbox : ~Awaited(r)
BY DEF Awaited

LEMMA SerialIssue ==
  ASSUME C!CaptureAssumption, CaptureSound, SerialSound,
         NEW kind \in Kinds, C!Issue(c1, kind)
  PROVE  SerialSound'
<1>1. /\ commands[c1] = C!Idle
      /\ commands' = [commands EXCEPT ![c1] =
           [C!Idle EXCEPT !.kind = kind, !.step = "ready", !.id = issued',
                          !.capture = stored.capture]]
      /\ UNCHANGED <<stored, child, ipc, proc, signalled, active, log, inbox>>
  BY DEF C!Issue, C!Become, C!controller, C!companion
<1>2. PICK x : x = [C!Idle EXCEPT !.kind = kind, !.step = "ready", !.id = issued',
                                  !.capture = stored.capture]
  OBVIOUS
<1>3. x.step = "ready" /\ x.capture = stored.capture /\ x.kind = kind
  BY <1>2 DEF C!Idle
<1>4. Claim
  BY <1>1 DEF SerialSound, Stage, C!Idle
<1>5. Stage(x)'
  BY <1>1, <1>3, <1>4 DEF Stage, Claim, C!Observing
<1>6. commands[c1].step # "await"
  BY <1>1 DEF C!Idle
<1> QED
  BY <1>1, <1>2, <1>3, <1>5, <1>6, SerialReady, SerialGoesOn

LEMMA SerialSends ==
  ASSUME C!CaptureAssumption, CaptureSound, SerialSound, NEW p \in Companions,
         NEW request \in {"start", "checkpoint", "stop"}, NEW session \in Companions \union {None},
         commands[c1].step = "ready", C!Send(c1, p, request, session),
         commands[c1].kind = "start" <=> request = "start",
         commands[c1].kind = "scan" <=> request = "checkpoint",
         commands[c1].kind = "stop" <=> request = "stop",
         UNCHANGED <<stored, signalled, active, log>>, child' = p, ipc' = p,
         request = "start" => proc[p] = "unborn" /\ proc' = [proc EXCEPT ![p] = "up"]
                              /\ stored.capture = None /\ p \notin signalled,
         request # "start" => UNCHANGED <<proc, child, ipc>>
  PROVE  SerialSound'
<1> DEFINE r == [id |-> commands[c1].id, process |-> p, request |-> request,
                 session |-> session]
<1>1. /\ inbox' = inbox \union {r}
      /\ commands' = [commands EXCEPT ![c1] = [commands[c1] EXCEPT !.step = "await",
                                                                   !.target = p]]
  BY DEF C!Send, C!Become
<1>2. PICK x : x = [commands[c1] EXCEPT !.step = "await", !.target = p]
  OBVIOUS
<1>3. /\ x.step = "await" /\ x.target = p /\ x.kind = commands[c1].kind
      /\ x.id = commands[c1].id /\ x.capture = commands[c1].capture
  BY <1>2, ClaimTyped DEF C!Command
<1>4. commands'[c1] = x /\ \A c \in Commands \ {c1} : commands'[c] = commands[c]
  BY <1>1, <1>2, MCAssumption, CaptureTyped
<1>5. r.request = request /\ r.process = p /\ r.id = x.id
  BY <1>3
<1> HIDE DEF r
<1>6. Stage(commands[c1])
  BY DEF SerialSound
<1>7. /\ request # "start" => UNCHANGED proc
      /\ request = "start" => \A q \in Companions : q # p => proc'[q] = proc[q]
      /\ \A q \in Companions : proc'[q] \in {"dead", "gone"} => proc[q] \in {"dead", "gone"}
  BY CaptureTyped
<1>8. Stage(x)'
  <2>1. CASE request = "start"
    BY <1>3, <2>1 DEF Stage, Starting
  <2>2. CASE request = "checkpoint"
    BY <1>3, <1>6, <2>2 DEF Stage, Claim, C!Observing
  <2>3. CASE request = "stop"
    BY <1>3, <2>3 DEF Stage
  <2> QED
    BY <2>1, <2>2, <2>3
<1>9. \A q \in inbox' : Awaited(q)' => q = r
  <2>1. \A q \in inbox : q.id # commands[c1].id
    BY MCAssumption DEF CaptureSound, RequestsSound
  <2> QED
    BY <1>1, <1>3, <1>4, <2>1 DEF Awaited
<1>10. Asked(r, commands'[c1])
  BY <1>3, <1>4, <1>5 DEF Asked
<1>12. \A q \in signalled' : proc'[q] # "unborn"
  BY <1>7, CaptureTyped DEF SerialSound
<1>11. LateIsHarmless'
  <2> SUFFICES ASSUME NEW q \in inbox', q.request # "checkpoint"
               PROVE  q.process \in signalled' \/ q.process # child' \/ Awaited(q)'
    BY DEF LateIsHarmless
  <2>1. CASE q = r
    BY <1>3, <1>4, <1>5, <2>1 DEF Awaited
  <2>2. CASE q # r
    <3>1. q \in inbox /\ (q.process \in signalled \/ q.process # child \/ Awaited(q))
      BY <1>1, <2>2 DEF SerialSound, LateIsHarmless
    <3>2. ~Awaited(q)
      BY DEF Awaited
    <3>3. request = "start" => q.process # p
      BY <3>1 DEF CaptureSound, SessionsSound
    <3> QED
      BY <3>1, <3>2, <3>3
  <2> QED
    BY <2>1, <2>2
<1> QED
  BY <1>4, <1>7, <1>8, <1>9, <1>10, <1>11, <1>12 DEF SerialSound

LEMMA SerialLaunch ==
  ASSUME C!CaptureAssumption, CaptureSound, SerialSound, C!Launch(c1)
  PROVE  SerialSound'
<1>1. /\ commands[c1].step = "ready" /\ commands[c1].kind = "start"
      /\ UNCHANGED <<stored, signalled, active, log>>
  BY DEF C!Launch
<1>2. Claim
  BY <1>1 DEF SerialSound, Stage
<1>3. CASE C!Become(c1, C!Idle) /\ UNCHANGED <<C!controller, proc, inbox>>
  <2>1. UNCHANGED <<child, ipc>>
    BY <1>3 DEF C!controller
  <2>2. Claim'
    BY <1>1, <1>2, <1>3, <2>1 DEF Claim, C!Observing
  <2>3. \A r \in inbox : ~Awaited(r)
    BY <1>1, SerialReady
  <2> QED
    BY <1>1, <1>3, <2>1, <2>2, <2>3, SerialEnds
<1>4. ASSUME NEW p \in Companions, ~C!Running, proc[p] = "unborn",
             proc' = [proc EXCEPT ![p] = "up"], child' = p, ipc' = p,
             C!Send(c1, p, "start", None)
      PROVE  SerialSound'
  <2>1. stored.capture = None
    BY <1>2, <1>4, ClaimTyped DEF Claim, C!Running, C!Observing
  <2>2. p \notin signalled
    BY <1>4 DEF SerialSound
  <2>3. None \in Companions \union {None} /\ "start" \in {"start", "checkpoint", "stop"}
    OBVIOUS
  <2> QED
    BY <1>1, <1>4, <2>1, <2>2, <2>3, SerialSends
<1> QED
  BY <1>3, <1>4 DEF C!Launch

LEMMA SerialRequestCheckpoint ==
  ASSUME C!CaptureAssumption, CaptureSound, SerialSound, C!RequestCheckpoint(c1)
  PROVE  SerialSound'
<1>1. /\ commands[c1].step = "ready" /\ commands[c1].kind = "scan"
      /\ UNCHANGED <<stored, child, ipc, signalled, proc, active, log>>
  BY DEF C!RequestCheckpoint, C!controller, C!companion
<1>2. Claim
  BY <1>1 DEF SerialSound, Stage
<1>3. CASE C!Become(c1, C!Idle) /\ UNCHANGED inbox
  <2>1. Claim'
    BY <1>1, <1>2 DEF Claim, C!Observing
  <2>2. \A r \in inbox : ~Awaited(r)
    BY <1>1, SerialReady
  <2> QED
    BY <1>1, <1>3, <2>1, <2>2, SerialEnds
<1>4. CASE ipc # None /\ C!Send(c1, ipc, "checkpoint", None)
  <2>1. PICK p \in Companions : p = ipc /\ p = child
    BY <1>4, CaptureTyped
  <2>2. None \in Companions \union {None} /\ "checkpoint" \in {"start", "checkpoint", "stop"}
    OBVIOUS
  <2>3. C!Send(c1, p, "checkpoint", None)
    BY <1>4, <2>1
  <2> QED
    BY <1>1, <2>1, <2>2, <2>3, SerialSends
<1> QED
  BY <1>3, <1>4 DEF C!RequestCheckpoint

LEMMA SerialRequestStop ==
  ASSUME C!CaptureAssumption, CaptureSound, SerialSound, C!RequestStop(c1)
  PROVE  SerialSound'
<1>1. /\ commands[c1].step = "ready" /\ commands[c1].kind = "stop"
      /\ UNCHANGED <<proc, active, log>>
  BY DEF C!RequestStop
<1>2. CASE C!StopCompanion(c1) /\ UNCHANGED inbox
  <2>1. Stopping(commands[c1])
    BY <1>1 DEF Stopping
  <2> QED
    BY <1>1, <1>2, <2>1, SerialStops
<1>3. CASE /\ ipc # None /\ C!Send(c1, ipc, "stop", stored.capture)
           /\ UNCHANGED <<stored, C!controller, signalled>>
  <2>1. PICK p \in Companions : p = ipc /\ p = child
    BY <1>3, CaptureTyped
  <2>2. PICK session \in Companions \union {None} : session = stored.capture
    BY ClaimTyped
  <2>3. UNCHANGED <<stored, child, ipc, signalled>> /\ C!Send(c1, p, "stop", session)
    BY <1>3, <2>1, <2>2 DEF C!controller
  <2>4. "stop" \in {"start", "checkpoint", "stop"}
    OBVIOUS
  <2> QED
    BY <1>1, <2>1, <2>3, <2>4, SerialSends
<1> QED
  BY <1>2, <1>3 DEF C!RequestStop

LEMMA SerialDismiss ==
  ASSUME C!CaptureAssumption, CaptureSound, SerialSound, C!Dismiss(c1)
  PROVE  SerialSound'
<1>1. /\ commands[c1].step = "ready" /\ C!Become(c1, C!Idle)
      /\ UNCHANGED <<stored, child, ipc, signalled, proc, active, log, inbox>>
  BY DEF C!Dismiss, C!controller, C!companion
<1>2. Claim'
  BY <1>1 DEF SerialSound, Stage, Claim, C!Observing
<1>3. \A r \in inbox : ~Awaited(r)
  BY <1>1, SerialReady
<1> QED
  BY <1>1, <1>2, <1>3, SerialEnds

LEMMA SerialDisconnect ==
  ASSUME C!CaptureAssumption, CaptureSound, SerialSound, C!Disconnect(c1)
  PROVE  SerialSound'
<1>1. Stopping(commands[c1])
  BY DEF C!Disconnect, Stopping
<1> QED
  BY <1>1, SerialStops DEF C!Disconnect

LEMMA SerialReceive ==
  ASSUME C!CaptureAssumption, CaptureSound, SerialSound, C!Receive(c1)
  PROVE  SerialSound'
<1>1. /\ commands[c1].step = "replied" /\ UNCHANGED <<proc, active, log, inbox>>
      /\ Stage(commands[c1])
  BY DEF C!Receive, SerialSound
<1>2. CASE C!Fail(c1)
  BY <1>1, <1>2, SerialFails
<1>3. \A r \in inbox : ~Awaited(r)
  BY <1>1, SerialReady
<1>4. CASE /\ commands[c1].reply.ok /\ commands[c1].kind = "start"
           /\ stored' = [stored EXCEPT !.capture = commands[c1].target]
           /\ C!Become(c1, C!Idle) /\ UNCHANGED <<C!controller, signalled>>
  <2>1. UNCHANGED <<child, ipc>>
    BY <1>4 DEF C!controller
  <2>2. stored'.capture = commands[c1].target
    BY <1>4, CaptureTyped DEF C!PersistentExtensionState
  <2>3. Starting(commands[c1])
    BY <1>1, <1>4 DEF Stage
  <2>4. proc[child] = "up"
    BY <2>3, ClaimTyped, CaptureTyped DEF Starting, SerialSound
  <2>5. Claim'
    BY <1>1, <1>4, <2>1, <2>2, <2>3, <2>4, CaptureTyped DEF Starting, Claim, C!Observing
  <2> QED
    BY <1>1, <1>3, <1>4, <2>1, <2>5, SerialEnds
<1>5. CASE /\ commands[c1].kind # "start"
           /\ stored' = [stored EXCEPT !.checkpoint = commands[c1].reply.checkpoint]
           /\ C!Become(c1, [commands[c1] EXCEPT !.step = "saved"])
           /\ UNCHANGED <<C!controller, signalled>>
  <2>1. PICK x : x = [commands[c1] EXCEPT !.step = "saved"]
    OBVIOUS
  <2>2. /\ x.step = "saved" /\ x.kind = commands[c1].kind
        /\ x.capture = commands[c1].capture
    BY <2>1, ClaimTyped DEF C!Command
  <2>3. UNCHANGED <<child, ipc>> /\ commands' = [commands EXCEPT ![c1] = x]
    BY <1>5, <2>1 DEF C!controller, C!Become
  <2>4. stored'.capture = stored.capture
    BY <1>5, CaptureTyped DEF C!PersistentExtensionState
  <2>5. Stage(x)'
    BY <1>1, <1>5, <2>2, <2>3, <2>4 DEF Stage, Claim, C!Observing
  <2> QED
    BY <1>1, <1>3, <1>5, <2>2, <2>3, <2>5, SerialGoesOn
<1> QED
  BY <1>2, <1>4, <1>5 DEF C!Receive

LEMMA SerialRequestFails ==
  ASSUME C!CaptureAssumption, CaptureSound, SerialSound, C!RequestFails(c1)
  PROVE  SerialSound'
<1>1. inbox' \subseteq inbox
  BY DEF C!RequestFails
<1> QED
  BY <1>1, SerialFails DEF C!RequestFails

LEMMA SerialCheckpointSaved ==
  ASSUME C!CaptureAssumption, CaptureSound, SerialSound, C!CheckpointSaved(c1)
  PROVE  SerialSound'
<1>1. /\ commands[c1].step = "saved" /\ UNCHANGED <<proc, active, log, inbox>>
      /\ Stage(commands[c1])
  BY DEF C!CheckpointSaved, SerialSound
<1>2. CASE commands[c1].kind = "scan"
  <2>1. /\ stored' = [stored EXCEPT !.capture = commands[c1].capture]
        /\ C!Become(c1, C!Idle) /\ UNCHANGED <<child, ipc, signalled>>
    BY <1>2 DEF C!CheckpointSaved, C!controller
  <2>2. stored'.capture = stored.capture
    BY <1>1, <1>2, <2>1, CaptureTyped DEF Stage, C!PersistentExtensionState
  <2>3. Claim'
    BY <1>1, <1>2, <2>1, <2>2 DEF Stage, Claim, C!Observing
  <2>4. \A r \in inbox : ~Awaited(r)
    BY <1>1, SerialReady
  <2> QED
    BY <1>1, <2>1, <2>3, <2>4, SerialEnds
<1>3. CASE commands[c1].kind # "scan"
  <2>1. Stopping(commands[c1])
    BY <1>1, <1>3 DEF Stage, Stopping
  <2> QED
    BY <1>1, <1>3, <2>1, SerialStops DEF C!CheckpointSaved
<1> QED
  BY <1>2, <1>3

LEMMA SerialKill ==
  ASSUME C!CaptureAssumption, CaptureSound, SerialSound, C!Kill(c1)
  PROVE  SerialSound'
<1>1. /\ commands[c1].step = "exiting" /\ commands[c1].target \in signalled
      /\ C!Become(c1, [commands[c1] EXCEPT !.step = "killing"])
      /\ UNCHANGED <<stored, child, ipc, signalled, active, log, inbox>>
      /\ Stage(commands[c1])
  BY MCAssumption DEF C!Kill, C!controller, CaptureSound, ToldToEnd, SerialSound
<1>2. PICK x : x = [commands[c1] EXCEPT !.step = "killing"]
  OBVIOUS
<1>3. x.step = "killing" /\ x.kind = commands[c1].kind
  BY <1>2, ClaimTyped DEF C!Command
<1>4. Stage(x)'
  BY <1>1, <1>3 DEF Stage
<1>5. \A p \in Companions :
        /\ proc'[p] \in {"dead", "gone"} => proc[p] \in {"dead", "gone"} \/ p \in signalled
        /\ proc'[p] = "unborn" => proc[p] = "unborn"
  BY <1>1, CaptureTyped DEF C!Kill
<1>6. \A r \in inbox : ~Awaited(r)
  BY <1>1, SerialReady
<1>7. commands' = [commands EXCEPT ![c1] = x]
  BY <1>1, <1>2 DEF C!Become
<1> QED
  BY <1>1, <1>3, <1>4, <1>5, <1>6, <1>7, SerialGoesOn

LEMMA SerialKillWaitEnds ==
  ASSUME C!CaptureAssumption, CaptureSound, SerialSound, C!KillWaitEnds(c1)
  PROVE  SerialSound'
<1>1. /\ commands[c1].step = "killing" /\ C!StopReturns({c1})
      /\ UNCHANGED <<proc, signalled, active, log, inbox>>
      /\ child' \in {None, child} /\ Stage(commands[c1])
  BY DEF C!KillWaitEnds, C!companion, C!ChildWithout, SerialSound
<1>2. Stopping(commands[c1])
  BY <1>1 DEF Stage, Stopping
<1>3. PICK x : commands' = [commands EXCEPT ![c1] = x] /\ x.step # "await" /\ Stage(x)'
  BY <1>1, <1>2, SerialReturns
<1>4. \A r \in inbox : ~Awaited(r)
  BY <1>1, SerialReady
<1> QED
  BY <1>1, <1>3, <1>4, SerialGoesOn

LEMMA SerialClear ==
  ASSUME C!CaptureAssumption, CaptureSound, SerialSound, C!Clear(c1)
  PROVE  SerialSound'
<1>1. /\ commands[c1].step = "clear" /\ stored' = C!EmptyState /\ C!Become(c1, C!Idle)
      /\ UNCHANGED <<child, ipc, signalled, proc, active, log, inbox>>
  BY DEF C!Clear, C!controller, C!companion
<1>2. ipc' = None /\ stored'.capture = None
  BY <1>1 DEF SerialSound, Stage, C!EmptyState
<1>3. Claim'
  BY <1>2, CaptureTyped DEF Claim
<1>4. \A r \in inbox : ~Awaited(r)
  BY <1>1, SerialReady
<1> QED
  BY <1>1, <1>3, <1>4, SerialEnds

-----------------------------------------------------------------------------
(* The steps of a Companion and of the host.                               *)
LEMMA SerialReply ==
  ASSUME C!CaptureAssumption, CaptureSound, SerialSound, NEW r \in inbox, NEW reply,
         C!Reply(r, reply),
         \A p \in Companions \ {r.process} : p \in active' <=> p \in active,
         r.request = "checkpoint" => active' = active,
         r.request = "start" /\ reply.ok => r.process \in active'
  PROVE  SerialSound'
<1>1. /\ inbox' = inbox \ {r} /\ UNCHANGED <<stored, child, ipc, signalled>>
      /\ Stage(commands[c1])
  BY DEF C!Reply, C!controller, SerialSound
<1>2. PICK x : x = commands'[c1]
  OBVIOUS
<1>3. /\ x = IF Awaited(r)
             THEN [commands[c1] EXCEPT !.step = "replied", !.reply = reply]
             ELSE commands[c1]
      /\ \A c \in Commands \ {c1} : commands'[c] = C!Idle
  <2>1. \A c \in Commands :
          commands'[c] = IF commands[c].step = "await" /\ commands[c].id = r.id
                         THEN [commands[c] EXCEPT !.step = "replied", !.reply = reply]
                         ELSE commands[c]
    BY DEF C!Reply
  <2>2. C!Idle.step = "idle" /\ \A c \in Commands \ {c1} : commands[c] = C!Idle
    BY DEF SerialSound, C!Idle
  <2>3. \A c \in Commands \ {c1} : commands'[c] = C!Idle
    BY <2>1, <2>2
  <2>4. commands'[c1] = IF Awaited(r)
                        THEN [commands[c1] EXCEPT !.step = "replied", !.reply = reply]
                        ELSE commands[c1]
    BY <2>1, MCAssumption DEF Awaited
  <2> QED
    BY <1>2, <2>3, <2>4
<1>4. /\ x.kind = commands[c1].kind /\ x.capture = commands[c1].capture
      /\ x.target = commands[c1].target /\ x.id = commands[c1].id
      /\ Awaited(r) => x.step = "replied" /\ x.reply = reply
                       /\ commands[c1].step = "await"
      /\ ~Awaited(r) => x = commands[c1]
  BY <1>3, ClaimTyped DEF C!Command, Awaited
<1>5. r.process \in Companions /\ \A q \in inbox : q.process \in Companions
  BY CaptureTyped DEF C!Request
<1>6. /\ \A p \in Companions \ signalled : proc'[p] = proc[p]
      /\ \A p \in Companions :
           /\ proc'[p] \in {"dead", "gone"} => proc[p] \in {"dead", "gone"} \/ p \in signalled
           /\ proc'[p] = "unborn" => proc[p] = "unborn"
  BY <1>5, CaptureTyped DEF C!Reply
<1>7. ~Awaited(r) \/ commands[c1].kind = "scan" =>
        \A p \in Companions \ signalled : p = child => (p \in active' <=> p \in active)
  BY <1>5 DEF SerialSound, LateIsHarmless, Asked
<1>8. Stage(x)'
  <2>1. (~Awaited(r) \/ commands[c1].kind = "scan") /\ Claim => Claim'
    BY <1>1, <1>6, <1>7 DEF Claim, C!Observing
  <2>2. CASE ~Awaited(r)
    BY <1>1, <1>4, <1>7, <2>1, <2>2 DEF Stage, Starting
  <2>3. CASE Awaited(r)
    <3>1. r.process = commands[c1].target /\ (commands[c1].kind = "start" <=> r.request = "start")
      BY <2>3 DEF SerialSound, Asked
    <3> QED
      BY <1>1, <1>4, <2>1, <2>3, <3>1 DEF Stage, Starting
  <2> QED
    BY <2>2, <2>3
<1>9. \A q \in inbox' : Awaited(q) => ~Awaited(r)
  BY <1>1 DEF Awaited, CaptureSound, RequestsSound
<1>10. \A q \in inbox' : Awaited(q)' <=> Awaited(q)
  BY <1>2, <1>4, <1>9 DEF Awaited
<1>11. \A q \in inbox' : Awaited(q)' => Asked(q, commands'[c1])
  BY <1>1, <1>2, <1>4, <1>9, <1>10 DEF SerialSound
<1>12. LateIsHarmless'
  BY <1>1, <1>10 DEF SerialSound, LateIsHarmless
<1>13. \A p \in Companions : proc'[p] \in {"dead", "gone"} => p \in signalled'
  BY <1>1, <1>6 DEF SerialSound
<1>14. \A p \in signalled' : proc'[p] # "unborn"
  BY <1>1, <1>6, CaptureTyped DEF SerialSound
<1> QED
  BY <1>2, <1>3, <1>8, <1>11, <1>12, <1>13, <1>14 DEF SerialSound

LEMMA SerialServe ==
  ASSUME C!CaptureAssumption, CaptureSound, SerialSound, NEW r \in inbox,
         C!Serve(r) \/ C!Refuse(r)
  PROVE  SerialSound'
<1>1. CASE C!Serve(r)
  <2>1. PICK reply : reply = [ok |-> TRUE, checkpoint |-> C!Checkpoint(r)]
    OBVIOUS
  <2>2. C!Reply(r, reply)
    BY <1>1, <2>1 DEF C!Serve
  <2>3. active' = IF r.request = "start" THEN active \union {r.process}
                  ELSE IF r.request = "stop" THEN active \ {r.process} ELSE active
    BY <1>1, EvidenceIsOne
  <2> QED
    BY <2>2, <2>3, SerialReply
<1>2. CASE C!Refuse(r)
  <2>1. PICK reply : reply = C!NoReply
    OBVIOUS
  <2>2. C!Reply(r, reply) /\ active' = active /\ ~reply.ok
    BY <1>2, <2>1 DEF C!Refuse, C!NoReply
  <2> QED
    BY <2>2, SerialReply
<1> QED
  BY <1>1, <1>2

(* A process that was told to end ends.                                    *)
LEMMA SerialRests ==
  ASSUME C!CaptureAssumption, CaptureSound, SerialSound,
         UNCHANGED <<stored, signalled, active, inbox, commands>>,
         \A p \in Companions \ signalled : proc'[p] = proc[p],
         \A p \in Companions : proc'[p] = "unborn" => proc[p] = "unborn",
         child' \in {None, child}, child' # child => child \in signalled,
         ipc' = IF child' = child THEN ipc ELSE None
  PROVE  SerialSound'
<1>1. Stage(commands[c1])
  BY DEF SerialSound
<1>2. Claim => Claim'
  BY ClaimTyped, CaptureTyped DEF Claim, C!Observing
<1>3. Stage(commands'[c1])
  BY <1>1
<1>4. Stage(commands[c1])'
  BY <1>1, <1>2, CaptureTyped DEF Stage, Starting
<1>5. LateIsHarmless'
  BY CaptureTyped DEF SerialSound, LateIsHarmless, Awaited, C!Request
<1>6. \A r \in inbox' : Awaited(r)' => Asked(r, commands'[c1])
  BY DEF SerialSound, Awaited
<1>7. \A p \in Companions : proc'[p] \in {"dead", "gone"} => p \in signalled'
  BY DEF SerialSound
<1>8. \A p \in signalled' : proc'[p] # "unborn"
  BY CaptureTyped DEF SerialSound
<1> QED
  BY <1>4, <1>5, <1>6, <1>7, <1>8 DEF SerialSound

LEMMA SerialTerminate ==
  ASSUME C!CaptureAssumption, CaptureSound, SerialSound, NEW p \in Companions, C!Terminate(p)
  PROVE  SerialSound'
<1>1. /\ UNCHANGED <<stored, child, ipc, signalled, active, inbox, commands>>
      /\ p \in signalled /\ proc' = [proc EXCEPT ![p] = "dead"]
  BY DEF C!Terminate, C!controller
<1>2. \A q \in Companions :
        (q # p => proc'[q] = proc[q]) /\ (proc'[q] = "unborn" => proc[q] = "unborn")
  BY <1>1, CaptureTyped
<1> QED
  BY <1>1, <1>2, SerialRests

LEMMA SerialExitEvent ==
  ASSUME C!CaptureAssumption, CaptureSound, SerialSound, NEW p \in Companions, C!ExitEvent(p)
  PROVE  SerialSound'
<1>1. /\ proc[p] = "dead" /\ proc' = [proc EXCEPT ![p] = "gone"]
      /\ child' = IF child = p THEN None ELSE child
      /\ UNCHANGED <<signalled, active, log, inbox>>
  BY DEF C!ExitEvent, C!ChildWithout
<1>2. p \in signalled
  BY <1>1 DEF SerialSound
<1>3. \A q \in Companions :
        /\ q # p => proc'[q] = proc[q]
        /\ proc'[q] = "unborn" => proc[q] = "unborn"
        /\ proc'[q] \in {"dead", "gone"} => proc[q] \in {"dead", "gone"} \/ q \in signalled
  BY <1>1, <1>2, CaptureTyped
<1>4. CASE C!Waiting(p) = {}
  <2>1. UNCHANGED <<stored, commands>> /\ ipc' = IF child = p THEN None ELSE ipc
    BY <1>4 DEF C!ExitEvent
  <2>2. child' = child <=> child # p
    BY <1>1, CaptureTyped
  <2> QED
    BY <1>1, <1>2, <1>3, <2>1, <2>2, SerialRests
<1>5. CASE C!Waiting(p) # {}
  <2>1. C!Waiting(p) = {c1} /\ commands[c1].step \in {"exiting", "killing"}
    BY <1>5, OnlyOneMoves DEF C!Waiting
  <2>2. C!StopReturns({c1})
    BY <1>5, <2>1 DEF C!ExitEvent
  <2>3. Stopping(commands[c1])
    BY <2>1 DEF SerialSound, Stage, Stopping
  <2>4. PICK x : commands' = [commands EXCEPT ![c1] = x] /\ x.step # "await" /\ Stage(x)'
    BY <2>2, <2>3, SerialReturns
  <2>5. \A r \in inbox : ~Awaited(r)
    BY <2>1, SerialReady
  <2> QED
    BY <1>1, <1>3, <2>4, <2>5, SerialGoesOn
<1> QED
  BY <1>4, <1>5

LEMMA SerialHostRestart ==
  ASSUME C!CaptureAssumption, CaptureSound, SerialSound, C!HostRestart
  PROVE  SerialSound'
<1>1. /\ child' = None /\ ipc' = None
      /\ commands' = [c \in Commands |-> C!Idle]
      /\ stored' = [stored EXCEPT !.capture = None]
      /\ signalled' \in {signalled, signalled \union ({child} \ {None})}
      /\ UNCHANGED <<proc, active, log, inbox>>
  BY DEF C!HostRestart
<1>2. stored'.capture = None
  BY <1>1, CaptureTyped DEF C!PersistentExtensionState
<1>3. commands'[c1] = C!Idle /\ C!Idle.step = "idle" /\ C!Idle.kind = "none"
  BY <1>1, MCAssumption DEF C!Idle
<1>4. Claim'
  BY <1>1, <1>2, CaptureTyped DEF Claim
<1>5. Stage(commands[c1])'
  BY <1>3, <1>4 DEF Stage
<1>6. LateIsHarmless'
  BY <1>1, CaptureTyped DEF LateIsHarmless, C!Request
<1>7. \A p \in signalled' : proc'[p] # "unborn"
  BY <1>1, ClaimTyped DEF SerialSound
<1> QED
  BY <1>1, <1>3, <1>5, <1>6, <1>7 DEF SerialSound, Awaited

LEMMA SerialBegins ==
  ASSUME C!CaptureAssumption, C!Init PROVE SerialSound
<1>1. commands[c1] = C!Idle /\ C!Idle.step = "idle" /\ C!Idle.kind = "none"
  BY MCAssumption DEF C!Init, C!Idle
<1>2. Claim
  BY DEF C!Init, C!EmptyState, Claim, C!CaptureAssumption
<1>3. Stage(commands[c1])
  BY <1>1, <1>2 DEF Stage
<1> QED
  BY <1>3 DEF C!Init, SerialSound, LateIsHarmless

LEMMA SerialStep ==
  ASSUME C!CaptureAssumption, CaptureSound, SerialSound, C!Next, OneAtATime
  PROVE  SerialSound'
<1>1. ASSUME NEW c \in Commands, NEW kind \in Kinds, C!Issue(c, kind)
      PROVE  SerialSound'
  <2>1. c = c1
    <3>1. commands'[c] = [C!Idle EXCEPT !.kind = kind, !.step = "ready", !.id = issued',
                                        !.capture = stored.capture]
      BY <1>1, CaptureTyped DEF C!Issue, C!Become
    <3>2. commands'[c].step = "ready"
      BY <3>1 DEF C!Idle
    <3> QED
      BY <3>2 DEF OneAtATime, C!Idle
  <2> QED
    BY <1>1, <2>1, SerialIssue
<1>2. ASSUME NEW c \in Commands,
             \/ C!Dismiss(c) \/ C!Launch(c) \/ C!RequestCheckpoint(c)
             \/ C!RequestStop(c) \/ C!Disconnect(c) \/ C!Continue(c)
      PROVE  SerialSound'
  <2>1. commands[c].step # "idle"
    BY <1>2 DEF C!Dismiss, C!Launch, C!RequestCheckpoint, C!RequestStop, C!Disconnect,
         C!Continue, C!Receive, C!RequestFails, C!CheckpointSaved, C!Kill, C!KillWaitEnds,
         C!Clear
  <2>2. c = c1
    BY <2>1, OnlyOneMoves
  <2> QED
    BY <1>2, <2>2, SerialDismiss, SerialLaunch, SerialRequestCheckpoint, SerialRequestStop,
       SerialDisconnect, SerialReceive, SerialRequestFails, SerialCheckpointSaved,
       SerialKill, SerialKillWaitEnds, SerialClear
    DEF C!Continue
<1>3. ASSUME NEW p \in Companions, C!Terminate(p) \/ C!Crash(p) \/ C!ExitEvent(p)
      PROVE  SerialSound'
  <2>1. ~C!Crash(p)
    <3> SUFFICES ASSUME C!Crash(p) PROVE FALSE
      OBVIOUS
    <3>1. faults.crash \in Nat /\ faults'.crash = faults.crash + 1
      BY CaptureTyped DEF C!Crash, C!CaptureAssumption
    <3> QED
      BY <3>1 DEF OneAtATime
  <2> QED
    BY <1>3, <2>1, SerialTerminate, SerialExitEvent
<1>4. ~C!SaveEnrollment /\ ~C!SaveProject
  BY CaptureTyped DEF C!SaveEnrollment, C!SaveProject, OneAtATime
<1> QED
  BY <1>1, <1>2, <1>3, <1>4, SerialServe, SerialHostRestart DEF C!Next, C!CommandSteps

-----------------------------------------------------------------------------
(* Every variable of the lease and of the commands has its type.           *)
THEOREM CompanionTyped == Spec => []TypeOK
<1>1. LeaseSound => L!TypeOK
  BY DEF LeaseSound
<1>2. CaptureSound => C!TypeOK
  BY DEF CaptureSound
<1>3. L!Spec => []LeaseSound
  BY CompanionAssumption, LeaseSoundAlways
<1>4. C!Spec => []CaptureSound
  BY CompanionAssumption, CaptureSoundAlways
<1> QED
  BY <1>1, <1>2, <1>3, <1>4, PTL DEF Spec, TypeOK

(* A drain always has a deadline and, when nothing is live, a quiet        *)
(* barrier that lets it finish, whatever order starts and exits are        *)
(* reported in (record_process_start, record_process_exit, request_end).   *)
THEOREM DrainCanFinishAlways == Spec => []DrainCanFinish
<1>1. LeaseSound => L!DrainCanFinish
  BY DEF LeaseSound
<1>2. L!Spec => []LeaseSound
  BY CompanionAssumption, LeaseSoundAlways
<1> QED
  BY <1>1, <1>2, PTL DEF Spec, DrainCanFinish

(* A drain that ends before its deadline has missed no process of the      *)
(* session, and one is called timed out only if a process still runs or    *)
(* its exit could not be reported by the deadline (advance, tick, with the *)
(* quiet period of DescendantDrainPolicy).                                 *)
THEOREM NothingMissedAlways == Spec => NothingMissed
<1>1. LeaseSound /\ LeaseSound' /\ [L!Next]_L!vars
        => [L!MissesNothing /\ L!TimesOutRightly]_L!vars
  BY CompanionAssumption, EndingMissesNothing, TimeoutIsRight
<1>2. L!Spec => []LeaseSound
  BY CompanionAssumption, LeaseSoundAlways
<1> QED
  BY <1>1, <1>2, PTL DEF Spec, L!Spec, NothingMissed

(* The evidence of a session starts with its one start and nothing follows *)
(* its stop, and a checkpoint that the extension shows is evidence of its  *)
(* session, whatever was retried, timed out, crashed or came late          *)
(* (extension.ts, controller.ts, RuntimeIpcHandler of main.rs).            *)
THEOREM CheckpointIsEvidenceAlways == Spec => []CheckpointIsEvidence
<1>1. ASSUME CompanionAssumption, CaptureSound PROVE CheckpointIsEvidence
  <2>1. DOMAIN log = 1..Len(log)
    BY <1>1, CaptureTyped DEF CompanionAssumption
  <2> QED
    BY <1>1, <2>1
    DEF CaptureSound, CheckpointsSound, IsEvidence, CheckpointIsEvidence, C!CheckpointIsEvidence
<1>2. CaptureSound => CheckpointIsEvidence
  BY <1>1, CompanionAssumption
<1>3. C!Spec => []CaptureSound
  BY CompanionAssumption, CaptureSoundAlways
<1> QED
  BY <1>2, <1>3, PTL DEF Spec

(* While the extension host lives, a Companion that runs is its child or   *)
(* has been told to end, however its commands overlap (controller.ts).     *)
THEOREM NoOrphanAlways == Spec => []NoOrphan
<1>1. CaptureSound => NoOrphan
  BY DEF CaptureSound, NoOrphan
<1>2. C!Spec => []CaptureSound
  BY CompanionAssumption, CaptureSoundAlways
<1> QED
  BY <1>1, <1>2, PTL DEF Spec

(* The behaviours TLC searches are behaviours of the commands, in which    *)
(* these never overlap while part is serial.                               *)
LEMMA SerialSoundAlways == MCSpec => [](CaptureSound /\ (part = "serial" => SerialSound))
<1> DEFINE Inv == CaptureSound /\ (part = "serial" => SerialSound)
<1>1. MCInit => Inv
  BY CompanionAssumption, CaptureInitSound, SerialBegins DEF MCInit, CompanionAssumption
<1>2. Inv /\ [MCNext]_vars => Inv'
  <2> SUFFICES ASSUME Inv, [MCNext]_vars PROVE Inv'
    OBVIOUS
  <2> USE CompanionAssumption DEF CompanionAssumption
  <2>1. CASE part = "serial" /\ C!Next /\ OneAtATime /\ UNCHANGED part
    BY <2>1, CaptureStep, SerialStep
  <2>2. CASE part # "serial" /\ C!Next /\ UNCHANGED part
    BY <2>2, CaptureStep
  <2>3. CASE UNCHANGED <<part, cVars>>
    <3>1. UNCHANGED <<stored, child, ipc, proc, signalled, active, log, inbox, commands,
                      issued, faults>>
      BY <2>3 DEF cVars
    <3>2. UNCHANGED C!vars
      BY <3>1 DEF C!vars, C!controller, C!companion
    <3>3. CaptureSound'
      BY <3>2, CaptureStep
    <3>4. SerialSound => SerialSound'
      <4> SUFFICES ASSUME SerialSound PROVE SerialSound'
        OBVIOUS
      <4> QED
        BY <3>1, SerialRests
    <3> QED
      BY <2>3, <3>3, <3>4
  <2> QED
    BY <2>1, <2>2, <2>3 DEF MCNext, Lease, Capture, vars
<1> QED
  BY <1>1, <1>2, PTL DEF MCSpec

(* Commands that never overlap: between them the saved capture is exactly  *)
(* the session that the controller's Companion observes, also across       *)
(* failed and late requests and restarts of the host (extension.ts,        *)
(* storage.ts).                                                            *)
THEOREM ClaimIsTrueAlways == MCSpec => []ClaimIsTrue
<1>1. SerialSound => C!ClaimIsTrue
  <2> SUFFICES ASSUME SerialSound, C!AllIdle PROVE Claim
    BY DEF C!ClaimIsTrue, Claim
  <2>1. commands[c1].step = "idle"
    BY MCAssumption DEF C!AllIdle, C!Idle
  <2> QED
    BY <2>1 DEF SerialSound, Stage
<1> QED
  BY <1>1, SerialSoundAlways, PTL DEF ClaimIsTrue
=============================================================================
