------------------------- MODULE WorkerServicesProofs -------------------------
(***************************************************************************)
(* Theorems about the services of the worker, for every set of deliveries, *)
(* drains, rows, runs and invocations and every bound.                     *)
(*                                                                         *)
(* Each service has an invariant of its own, stronger than what it         *)
(* promises:                                                               *)
(*                                                                         *)
(* ValidationSound  one delivery owns the reservation, and the verdict is  *)
(*                  the status its runs came to; besides one, a kind has   *)
(*                  no more sandboxes alive than came late                 *)
(* Ran              a run that came through its commands ran one exactly   *)
(*                  if its plan has any                                    *)
(* OutboxSound      a claim that is still the latest of its row is one     *)
(*                  drain's; a claim taken over as stale, and one that     *)
(*                  nobody guards any more, each stand for a fault         *)
(* PollingSound     what a run of the effect closes over is what its       *)
(*                  request asks with and what the page shows              *)
(* SealsSound       what a row records, or a commit is about to, is the    *)
(*                  seal of the object that is stored; without it there    *)
(*                  need not be another seal to draw                       *)
(***************************************************************************)
EXTENDS WorkerServices, FiniteSetTheorems, TLAPS

-----------------------------------------------------------------------------
(* The states a sandbox goes through, and that it goes on by one of them.  *)
Gone(box) == box \in {"live", "deleted"}

Later(box, next) ==
  \/ next = box
  \/ box = "requested" /\ next = "live"
  \/ box = "live" /\ next = "deleted"

NewAt(step) == [V!NewRun EXCEPT !.step = step]

(* A run: what its step says of its record, of the sandboxes, and of what  *)
(* was put into its own.                                                   *)
RunSound(r, x, boxes, put) ==
  /\ x \in V!Run /\ put \subseteq {r}
  /\ x.step \in {"find", "provision"} =>
       x.sandbox = None /\ ~x.infrastructure /\ ~x.provisioned /\ boxes[r] = "none"
  /\ x.step = "provisioning" =>
       x.sandbox = None /\ ~x.infrastructure /\ ~x.provisioned /\ boxes[r] # "none"
  /\ x.step \in {"inspect", "source", "candidate", "commands"} =>
       x.sandbox = r /\ ~x.infrastructure
  /\ x.step \in {"source", "candidate", "commands"} => x.provisioned
  /\ x.step \in {"candidate", "commands"} => r \in put
  /\ x.step \notin {"cleanup", "done"} => x.commands = "none"
  /\ x.step # "done" => ~x.cleaned
  /\ x.step = "cleanup" => x.sandbox # None
  /\ x.step \in {"cleanup", "done"} /\ ~x.infrastructure =>
       r \in put /\ x.provisioned /\ x.sandbox = r
  /\ x.commands # "none" => r \in put /\ x.sandbox = r
  /\ x.sandbox # None => Gone(boxes[x.sandbox]) /\ x.sandbox[2] = r[2]
  /\ x.sandbox \notin {None, r} => x.infrastructure /\ boxes[r] = "none"
  /\ x.cleaned => x.sandbox # None /\ boxes[x.sandbox] = "deleted"

(* One delivery owns the batch; the others have yet to begin, have done    *)
(* nothing or are over.                                                    *)
Untouched(d) ==
  \A k \in V!Kinds : runs[<<d, k>>] = V!NewRun /\ sandboxes[<<d, k>>] = "none"

OwnerSound ==
  /\ \A d \in Deliveries : delivery[d] = "validating" => 
       reservation.owner = d /\ reservation.status = None
  /\ \A d \in Deliveries : delivery[d] = "linking" => reservation.status # None
  /\ \A d \in Deliveries : delivery[d] # "over" /\ d # reservation.owner => Untouched(d)
  /\ ~accepted => \A d \in Deliveries : Untouched(d)
  /\ reservation.owner # None => delivery[reservation.owner] # "new"
  /\ reservation.status # None =>
       /\ reservation.owner # None
       /\ delivery[reservation.owner] # "validating"
       /\ accepted => \A k \in V!Kinds : runs[<<reservation.owner, k>>].step = "done"
       /\ reservation.status = V!Status(reservation.owner)

(* A set with no more elements than another.                               *)
AsFew(few, many) ==
  IsFiniteSet(few) /\ IsFiniteSet(many) /\ Cardinality(few) <= Cardinality(many)

(* Of a kind, one sandbox may live that is not made up for by one that     *)
(* came late: once the owner has looked, the one the owner knows of.       *)
Looked(r) ==
  runs[r].step \in {"provision", "provisioning"} \/ sandboxes[r] # "none" \/ runs[r].sandbox # None

Mine(r) == IF runs[r].sandbox = None THEN r ELSE runs[r].sandbox

LateOnes(k) == {s \in late : s[2] = k}

LiveOnes ==
  /\ \A s \in late : Gone(sandboxes[s])
  /\ \A k \in V!Kinds : \E s : AsFew(V!Labelled(k) \ {s}, LateOnes(k))
  /\ reservation.owner # None =>
       \A k \in V!Kinds :
         Looked(<<reservation.owner, k>>) =>
           AsFew(V!Labelled(k) \ {Mine(<<reservation.owner, k>>)}, LateOnes(k))

Recorded ==
  /\ summaries \subseteq {reservation.status} \ {None}

ValidationSound ==
  /\ V!TypeOK
  /\ \A r \in V!Runs : RunSound(r, runs[r], sandboxes, touched[r])
  /\ OwnerSound /\ LiveOnes /\ Recorded

-----------------------------------------------------------------------------
LEMMA FewerAsFew ==
  ASSUME NEW few, NEW many, AsFew(few, many), NEW fewer, fewer \subseteq few
  PROVE  AsFew(fewer, many)
<1>1. IsFiniteSet(fewer) /\ Cardinality(fewer) <= Cardinality(few)
  BY FS_Subset DEF AsFew
<1>2. Cardinality(fewer) \in Nat /\ Cardinality(few) \in Nat /\ Cardinality(many) \in Nat
  BY <1>1, FS_CardinalityType DEF AsFew
<1> QED
  BY <1>1, <1>2 DEF AsFew

LEMMA OneMoreOfBoth ==
  ASSUME NEW few, NEW many, AsFew(few, many), NEW s, s \notin many
  PROVE  AsFew(few \union {s}, many \union {s})
<1>1. /\ IsFiniteSet(few \union {s}) /\ IsFiniteSet(many \union {s})
      /\ \/ Cardinality(few \union {s}) = Cardinality(few)
         \/ Cardinality(few \union {s}) = Cardinality(few) + 1
      /\ Cardinality(many \union {s}) = Cardinality(many) + 1
  BY FS_AddElement DEF AsFew
<1>2. Cardinality(few) \in Nat /\ Cardinality(many) \in Nat
  BY FS_CardinalityType DEF AsFew
<1> QED
  BY <1>1, <1>2 DEF AsFew

LEMMA AnyOneSpared ==
  ASSUME NEW all, NEW many, NEW t, AsFew(all \ {t}, many), NEW s \in all
  PROVE  AsFew(all \ {s}, many)
<1>1. IsFiniteSet(all)
  <2>1. IsFiniteSet((all \ {t}) \union {t})
    BY FS_AddElement DEF AsFew
  <2>2. all \subseteq (all \ {t}) \union {t}
    OBVIOUS
  <2> QED
    BY <2>1, <2>2, FS_Subset
<1>2. /\ IsFiniteSet(all \ {s}) /\ Cardinality(all \ {s}) = Cardinality(all) - 1
      /\ \/ Cardinality(all \ {t}) = Cardinality(all)
         \/ Cardinality(all \ {t}) = Cardinality(all) - 1
  BY <1>1, FS_RemoveElement
<1>3. Cardinality(all) \in Nat /\ Cardinality(many) \in Nat
  BY <1>1, FS_CardinalityType DEF AsFew
<1> QED
  BY <1>2, <1>3 DEF AsFew

(* What a run has come to stays so while others move, sandboxes go on and  *)
(* source is put into its own.                                             *)
LEMMA RunKeeps ==
  ASSUME NEW r, NEW x, NEW boxes, NEW next, NEW put, NEW more,
         RunSound(r, x, boxes, put), put \subseteq more, more \subseteq {r},
         Later(boxes[r], next[r]),
         x.sandbox # None /\ Gone(boxes[x.sandbox]) =>
           Later(boxes[x.sandbox], next[x.sandbox])
  PROVE  RunSound(r, x, next, more)
BY DEF RunSound, Later, Gone

LEMMA StatusKept ==
  ASSUME NEW d \in Deliveries, accepted' = accepted,
         \A k \in V!Kinds : runs'[<<d, k>>] = runs[<<d, k>>]
  PROVE  V!Status(d)' = V!Status(d)
BY DEF V!Status, V!TerminalClass, V!ControlCanaryPassed, V!Kinds

(* One run moves on: the rest of the invariant is that of the others.      *)
RunGoes(r, next) ==
  /\ accepted /\ delivery[r[1]] = "validating"
  /\ UNCHANGED <<accepted, planned, reservation, delivery, summaries, late>>
  /\ runFaults' \in 0..MaxRunFaults
  /\ runs' = [runs EXCEPT ![r] = next]
  /\ sandboxes' \in [V!Runs -> {"none", "requested", "live", "deleted"}]
  /\ touched' \in [V!Runs -> SUBSET V!Runs]
  /\ \A s \in V!Runs :
       /\ s # r \/ sandboxes[s] # "none" => Later(sandboxes[s], sandboxes'[s])
       /\ sandboxes'[s] = "live" => sandboxes[s] = "live"
       /\ touched[s] \subseteq touched'[s]
       /\ s # r => touched'[s] = touched[s]

LEMMA RunGoesOn ==
  ASSUME V!ValidationAssumption, ValidationSound, NEW r \in V!Runs, NEW next, RunGoes(r, next),
         RunSound(r, next, sandboxes', touched'[r]),
         Looked(r)' => AsFew(V!Labelled(r[2])' \ {Mine(r)'}, LateOnes(r[2]))
  PROVE  ValidationSound'
<1>1. /\ r[1] \in Deliveries /\ r[2] \in V!Kinds /\ r = <<r[1], r[2]>>
      /\ \A s \in V!Runs : s[1] \in Deliveries /\ s[2] \in V!Kinds /\ s = <<s[1], s[2]>>
      /\ \A d \in Deliveries, k \in V!Kinds : <<d, k>> \in V!Runs
  BY DEF V!Runs
<1>2. next \in V!Run
  BY DEF RunSound
<1>3. /\ runs \in [V!Runs -> V!Run] /\ runs'[r] = next
      /\ \A s \in V!Runs : s # r => runs'[s] = runs[s]
      /\ runs' \in [V!Runs -> V!Run]
  BY <1>2 DEF RunGoes, ValidationSound, V!TypeOK
<1>4. V!TypeOK'
  BY <1>3 DEF RunGoes, ValidationSound, V!TypeOK
<1>5. ASSUME NEW s \in V!Runs
      PROVE  RunSound(s, runs[s], sandboxes, touched[s])' 
  <2>1. CASE s = r
    BY <2>1, <1>3
  <2>2. CASE s # r
    <3> DEFINE x == runs[s]
    <3>1. RunSound(s, x, sandboxes, touched[s])
      BY DEF ValidationSound
    <3>2. Later(sandboxes[s], sandboxes'[s]) /\ touched'[s] = touched[s] /\ touched[s] \subseteq {s}
      BY <2>2, <3>1 DEF RunGoes, RunSound
    <3>3. x.sandbox # None /\ Gone(sandboxes[x.sandbox]) =>
            Later(sandboxes[x.sandbox], sandboxes'[x.sandbox])
      <4>1. x.sandbox # None => x.sandbox \in V!Runs
        BY <3>1 DEF RunSound, V!Run
      <4> QED
        BY <4>1 DEF RunGoes, Gone
    <3> HIDE DEF x
    <3>4. RunSound(s, x, sandboxes', touched'[s])
      BY <3>1, <3>2, <3>3, RunKeeps
    <3> USE DEF x
    <3> QED
      BY <3>4, <1>3, <2>2
  <2> QED
    BY <2>1, <2>2
<1>6. reservation.owner = r[1] /\ reservation.status = None
  BY <1>1 DEF RunGoes, ValidationSound, OwnerSound
<1>7. \A d \in Deliveries : Untouched(d) /\ d # r[1] => Untouched(d)'
  BY <1>1, <1>3 DEF Untouched, RunGoes, Later
<1>8. OwnerSound'
  BY <1>6, <1>7 DEF ValidationSound, OwnerSound, RunGoes
<1>9. \A k \in V!Kinds : V!Labelled(k)' \subseteq V!Labelled(k)
  BY DEF V!Labelled, RunGoes
<1>10. ASSUME NEW k \in V!Kinds, Looked(<<r[1], k>>)'
       PROVE  AsFew(V!Labelled(k)' \ {Mine(<<r[1], k>>)'}, LateOnes(k))
  <2>1. CASE k = r[2]
    BY <1>1, <1>10, <2>1
  <2>2. CASE k # r[2]
    <3> DEFINE q == <<r[1], k>>
    <3>1. q \in V!Runs /\ q # r
      BY <1>1, <2>2
    <3>2. Looked(q) /\ Mine(q)' = Mine(q)
      BY <3>1, <1>3, <1>10 DEF Looked, Mine, RunGoes, Later
    <3>3. reservation.owner # None
      BY <1>1, <1>6 DEF V!ValidationAssumption
    <3>4. AsFew(V!Labelled(k) \ {Mine(q)}, LateOnes(k))
      BY <1>6, <1>10, <3>2, <3>3 DEF ValidationSound, LiveOnes
    <3>5. V!Labelled(k)' \ {Mine(q)} \subseteq V!Labelled(k) \ {Mine(q)}
      BY <1>9
    <3>6. AsFew(V!Labelled(k)' \ {Mine(q)}, LateOnes(k))
      BY <3>4, <3>5, FewerAsFew
    <3> QED
      BY <3>2, <3>6
  <2> QED
    BY <2>1, <2>2
<1>11. LiveOnes'
  <2>1. late' = late /\ reservation' = reservation /\ \A k : LateOnes(k)' = LateOnes(k)
    BY DEF RunGoes, LateOnes
  <2>2. \A s \in late : Gone(sandboxes'[s])
    BY DEF ValidationSound, LiveOnes, V!TypeOK, RunGoes, Later, Gone
  <2>3. ASSUME NEW k \in V!Kinds
        PROVE  \E s : AsFew(V!Labelled(k)' \ {s}, LateOnes(k))
    <3>1. PICK s : AsFew(V!Labelled(k) \ {s}, LateOnes(k))
      BY DEF ValidationSound, LiveOnes
    <3>2. V!Labelled(k)' \ {s} \subseteq V!Labelled(k) \ {s}
      BY <1>9
    <3> QED
      BY <3>1, <3>2, FewerAsFew
  <2>4. \A k \in V!Kinds : Looked(<<r[1], k>>)' =>
          AsFew(V!Labelled(k)' \ {Mine(<<r[1], k>>)'}, LateOnes(k))
    BY <1>10
  <2> QED
    BY <2>1, <2>2, <2>3, <2>4, <1>6 DEF LiveOnes
<1>12. Recorded'
  BY DEF ValidationSound, Recorded, RunGoes
<1> QED
  BY <1>4, <1>5, <1>8, <1>11, <1>12 DEF ValidationSound

(* What is known of a run that is about to move.                           *)
LEMMA RunBefore ==
  ASSUME V!ValidationAssumption, ValidationSound, NEW r \in V!Runs,
         delivery[r[1]] = "validating"
  PROVE  /\ RunSound(r, runs[r], sandboxes, touched[r]) /\ runs[r] \in V!Run
         /\ sandboxes \in [V!Runs -> {"none", "requested", "live", "deleted"}]
         /\ touched \in [V!Runs -> SUBSET V!Runs]
         /\ runFaults \in 0..MaxRunFaults
         /\ None \notin V!Runs /\ r[2] \in V!Kinds
         /\ \E s : AsFew(V!Labelled(r[2]) \ {s}, LateOnes(r[2]))
         /\ Looked(r) => AsFew(V!Labelled(r[2]) \ {Mine(r)}, LateOnes(r[2]))
<1>1. RunSound(r, runs[r], sandboxes, touched[r])
  BY DEF ValidationSound
<1>2. r[1] \in Deliveries /\ r[2] \in V!Kinds /\ r = <<r[1], r[2]>>
  BY DEF V!Runs
<1>3. reservation.owner = r[1] /\ r[1] # None
  BY <1>2 DEF ValidationSound, OwnerSound, V!ValidationAssumption
<1>4. \E s : AsFew(V!Labelled(r[2]) \ {s}, LateOnes(r[2]))
  BY <1>2 DEF ValidationSound, LiveOnes
<1>5. Looked(<<r[1], r[2]>>) =>
        AsFew(V!Labelled(r[2]) \ {Mine(<<r[1], r[2]>>)}, LateOnes(r[2]))
  BY <1>2, <1>3 DEF ValidationSound, LiveOnes
<1>6. runs[r] \in V!Run
  BY <1>1 DEF RunSound
<1>7. Looked(r) => AsFew(V!Labelled(r[2]) \ {Mine(r)}, LateOnes(r[2]))
  BY <1>2, <1>5
<1> QED
  BY <1>1, <1>2, <1>4, <1>6, <1>7 DEF ValidationSound, V!TypeOK, V!ValidationAssumption

(* A run puts source into its sandbox, or does not.                        *)
Puts(r) == touched' = touched \/ touched' = [touched EXCEPT ![r] = @ \union {r}]

(* A run moves on and the sandboxes stay.                                  *)
LEMMA RunOnly ==
  ASSUME V!ValidationAssumption, ValidationSound, NEW r \in V!Runs, NEW next,
         accepted, delivery[r[1]] = "validating",
         UNCHANGED <<accepted, planned, reservation, delivery, summaries, late, sandboxes>>,
         runFaults' \in 0..MaxRunFaults,
         runs' = [runs EXCEPT ![r] = next],
         Puts(r),
         RunSound(r, next, sandboxes, touched'[r]),
         \/ Looked(r) /\ next.sandbox = runs[r].sandbox
         \/ Looked(r) /\ runs[r].sandbox = None /\ next.sandbox = r
         \/ V!Labelled(r[2]) = {}
         \/ next.step = "done" /\ next.sandbox = None /\ runs[r].sandbox = None
         \/ next.sandbox \in V!Labelled(r[2])
  PROVE  ValidationSound'
<1>1. runs \in [V!Runs -> V!Run] /\ runs'[r] = next
  BY DEF ValidationSound, V!TypeOK
<1>2. touched' \in [V!Runs -> SUBSET V!Runs]
  <2>1. touched \in [V!Runs -> SUBSET V!Runs]
    BY DEF ValidationSound, V!TypeOK
  <2> QED
    BY <2>1 DEF Puts
<1>3. RunGoes(r, next)
  BY <1>2, RunBefore DEF RunGoes, Later, Puts
<1>4. ASSUME Looked(r)'
      PROVE  AsFew(V!Labelled(r[2])' \ {Mine(r)'}, LateOnes(r[2]))
  <2>1. V!Labelled(r[2])' = V!Labelled(r[2])
    BY DEF V!Labelled
  <2>2. CASE /\ Looked(r)
             /\ \/ next.sandbox = runs[r].sandbox
                \/ runs[r].sandbox = None /\ next.sandbox = r
    <3>1. AsFew(V!Labelled(r[2]) \ {Mine(r)}, LateOnes(r[2]))
      BY <2>2, RunBefore
    <3>2. Mine(r)' = Mine(r)
      BY <1>1, <2>2, RunBefore DEF Mine
    <3> QED
      BY <2>1, <3>1, <3>2
  <2>3. CASE V!Labelled(r[2]) = {}
    <3>1. PICK s : AsFew(V!Labelled(r[2]) \ {s}, LateOnes(r[2]))
      BY RunBefore
    <3>2. V!Labelled(r[2])' \ {Mine(r)'} \subseteq V!Labelled(r[2]) \ {s}
      BY <2>1, <2>3
    <3> QED
      BY <3>1, <3>2, FewerAsFew
  <2>4. CASE next.step = "done" /\ next.sandbox = None /\ runs[r].sandbox = None
    <3>1. sandboxes[r] # "none"
      BY <1>1, <1>4, <2>4 DEF Looked
    <3>2. Looked(r)
      BY <3>1 DEF Looked
    <3>3. Mine(r)' = r /\ Mine(r) = r
      BY <1>1, <2>4 DEF Mine
    <3>4. AsFew(V!Labelled(r[2]) \ {Mine(r)}, LateOnes(r[2]))
      BY <3>2, RunBefore
    <3> QED
      BY <2>1, <3>3, <3>4
  <2>5. CASE next.sandbox \in V!Labelled(r[2])
    <3>1. next.sandbox # None
      BY <2>5, RunBefore DEF V!Labelled
    <3>2. Mine(r)' = next.sandbox
      BY <1>1, <3>1 DEF Mine
    <3>3. PICK s : AsFew(V!Labelled(r[2]) \ {s}, LateOnes(r[2]))
      BY RunBefore
    <3>4. AsFew(V!Labelled(r[2]) \ {next.sandbox}, LateOnes(r[2]))
      BY <2>5, <3>3, AnyOneSpared
    <3> QED
      BY <2>1, <3>2, <3>4
  <2> QED
    BY <2>2, <2>3, <2>4, <2>5
<1>5. RunSound(r, next, sandboxes', touched'[r])
  OBVIOUS
<1> QED
  BY <1>3, <1>4, <1>5, RunGoesOn

LEMMA FindSound ==
  ASSUME V!ValidationAssumption, ValidationSound, NEW r \in V!Runs, V!Find(r)
  PROVE  ValidationSound'
<1> DEFINE x == runs[r]
<1>1. /\ accepted /\ delivery[r[1]] = "validating" /\ x.step = "find"
      /\ UNCHANGED <<accepted, planned, reservation, delivery, summaries, late, sandboxes, touched>>
  BY DEF V!Find, V!At, V!Step, V!provider
<1>2. RunSound(r, x, sandboxes, touched[r]) /\ x \in V!Run /\ None \notin V!Runs
  BY <1>1, RunBefore
<1>3. runFaults \in 0..MaxRunFaults /\ (runFaults' = runFaults \/ V!Fault)
  BY <1>1, RunBefore DEF V!Find
<1>4. runFaults' \in 0..MaxRunFaults
  BY <1>3 DEF V!Fault, V!ValidationAssumption
<1>5. CASE \E s \in V!Labelled(r[2]) : V!Become(r, V!Recovered(runs[r], s))
  <2>1. PICK s \in V!Labelled(r[2]) : V!Become(r, V!Recovered(x, s))
    BY <1>5
  <2>2. s \in V!Runs /\ s[2] = r[2] /\ sandboxes[s] = "live"
    BY <2>1 DEF V!Labelled
  <2> DEFINE next == V!Recovered(x, s)
  <2>3. /\ next \in V!Run /\ next.step = "cleanup" /\ next.sandbox = s /\ next.infrastructure
        /\ next.commands = x.commands /\ next.cleaned = x.cleaned
    BY <1>2, <2>2 DEF V!Recovered, V!Caught, V!Run
  <2>4. runs' = [runs EXCEPT ![r] = next]
    BY <2>1 DEF V!Become
  <2> HIDE DEF next, x
  <2>5. RunSound(r, next, sandboxes, touched[r])
    BY <1>1, <1>2, <2>2, <2>3 DEF RunSound, Gone
  <2> QED
    BY <1>1, <1>4, <2>1, <2>3, <2>4, <2>5, RunOnly DEF Puts
<1>6. CASE V!Labelled(r[2]) = {} /\ V!Become(r, [runs[r] EXCEPT !.step = "provision"])
  <2> DEFINE next == [x EXCEPT !.step = "provision"]
  <2>1. /\ next \in V!Run /\ next.step = "provision" /\ next.sandbox = x.sandbox
        /\ next.infrastructure = x.infrastructure /\ next.provisioned = x.provisioned
        /\ next.commands = x.commands /\ next.cleaned = x.cleaned
    BY <1>2 DEF V!Run
  <2>2. runs' = [runs EXCEPT ![r] = next]
    BY <1>6 DEF V!Become
  <2> HIDE DEF next, x
  <2>3. RunSound(r, next, sandboxes, touched[r])
    BY <1>1, <1>2, <2>1 DEF RunSound
  <2> QED
    BY <1>1, <1>4, <1>6, <2>2, <2>3, RunOnly DEF Puts
<1>7. CASE V!Throw(r)
  <2> DEFINE next == V!Caught(x)
  <2>1. /\ next \in V!Run /\ next.step = "done" /\ next.sandbox = None /\ next.infrastructure
        /\ next.commands = x.commands /\ next.cleaned = x.cleaned
    BY <1>1, <1>2 DEF V!Caught, V!Run, RunSound
  <2>2. runs' = [runs EXCEPT ![r] = next]
    BY <1>7 DEF V!Throw, V!Become
  <2>3. x.sandbox = None
    BY <1>1, <1>2 DEF RunSound
  <2> HIDE DEF next
  <2>4. RunSound(r, next, sandboxes, touched[r])
    BY <1>1, <1>2, <2>1 DEF RunSound
  <2> QED
    BY <1>1, <1>4, <2>1, <2>2, <2>3, <2>4, RunOnly DEF Puts
<1> QED
  BY <1>5, <1>6, <1>7 DEF V!Find

(* An exception before the run has ended.                                  *)
LEMMA ThrowSound ==
  ASSUME V!ValidationAssumption, ValidationSound, NEW r \in V!Runs,
         accepted, delivery[r[1]] = "validating",
         runs[r].step \in {"find", "provisioning", "inspect", "source", "candidate", "commands"},
         V!Throw(r),
         UNCHANGED <<accepted, planned, reservation, delivery, summaries, late, sandboxes>>,
         runFaults' \in 0..MaxRunFaults,
         Puts(r)
  PROVE  ValidationSound'
<1> DEFINE x == runs[r]
           next == V!Caught(x)
<1>1. /\ RunSound(r, x, sandboxes, touched[r]) /\ x \in V!Run /\ None \notin V!Runs
      /\ touched \in [V!Runs -> SUBSET V!Runs]
  BY RunBefore
<1>2. /\ next \in V!Run /\ next.sandbox = x.sandbox /\ next.infrastructure
      /\ next.step = IF x.sandbox = None THEN "done" ELSE "cleanup"
      /\ next.commands = x.commands /\ next.cleaned = x.cleaned
  BY <1>1 DEF V!Caught, V!Run
<1>3. runs' = [runs EXCEPT ![r] = next]
  BY DEF V!Throw, V!Become
<1>4. touched[r] \subseteq touched'[r] /\ touched'[r] \subseteq {r}
  BY <1>1 DEF RunSound, Puts
<1>5. \/ Looked(r)
      \/ next.step = "done" /\ next.sandbox = None /\ x.sandbox = None
  BY <1>2 DEF Looked
<1> HIDE DEF next
<1>6. RunSound(r, next, sandboxes, touched'[r])
  BY <1>1, <1>2, <1>4 DEF RunSound
<1> QED
  BY <1>2, <1>3, <1>5, <1>6, RunOnly DEF Puts

LEMMA ProvisionedSound ==
  ASSUME V!ValidationAssumption, ValidationSound, NEW r \in V!Runs, V!Provisioned(r)
  PROVE  ValidationSound'
<1> DEFINE x == runs[r]
           next == [x EXCEPT !.step = "inspect", !.sandbox = r]
<1>1. /\ accepted /\ delivery[r[1]] = "validating" /\ x.step = "provisioning"
      /\ sandboxes[r] \in {"live", "deleted"}
      /\ UNCHANGED <<accepted, planned, reservation, delivery, summaries, late, sandboxes, touched, runFaults>>
      /\ runs' = [runs EXCEPT ![r] = next]
  BY DEF V!Provisioned, V!At, V!Step, V!provider, V!Become
<1>2. /\ RunSound(r, x, sandboxes, touched[r]) /\ x \in V!Run /\ None \notin V!Runs
      /\ runFaults \in 0..MaxRunFaults
  BY <1>1, RunBefore
<1>3. /\ next \in V!Run /\ next.step = "inspect" /\ next.sandbox = r
      /\ next.infrastructure = x.infrastructure /\ next.provisioned = x.provisioned
      /\ next.commands = x.commands /\ next.cleaned = x.cleaned
  BY <1>2 DEF V!Run
<1>4. Looked(r) /\ x.sandbox = None
  BY <1>1, <1>2 DEF Looked, RunSound
<1> HIDE DEF next
<1>5. RunSound(r, next, sandboxes, touched[r])
  BY <1>1, <1>2, <1>3 DEF RunSound, Gone
<1> QED
  BY <1>1, <1>2, <1>3, <1>4, <1>5, RunOnly DEF Puts

LEMMA ProvisionFailsSound ==
  ASSUME V!ValidationAssumption, ValidationSound, NEW r \in V!Runs, V!ProvisionFails(r)
  PROVE  ValidationSound'
<1>1. /\ accepted /\ delivery[r[1]] = "validating" /\ runs[r].step = "provisioning"
      /\ UNCHANGED <<accepted, planned, reservation, delivery, summaries, late, sandboxes, touched>>
      /\ V!Throw(r) /\ V!Fault
  BY DEF V!ProvisionFails, V!At, V!Step, V!provider
<1>2. runFaults' \in 0..MaxRunFaults
  <2>1. runFaults \in 0..MaxRunFaults
    BY DEF ValidationSound, V!TypeOK
  <2> QED
    BY <1>1, <2>1 DEF V!Fault, V!ValidationAssumption
<1> QED
  BY <1>1, <1>2, ThrowSound DEF Puts

(* A call on the sandbox of the run: it throws, or the run goes on.        *)
LEMMA CallSound ==
  ASSUME V!ValidationAssumption, ValidationSound, NEW r \in V!Runs, NEW step, NEW next,
         step \in {"inspect", "source", "candidate", "commands"}, V!Call(r, step, next),
         UNCHANGED <<accepted, planned, reservation, delivery, summaries, late, sandboxes>>,
         Puts(r),
         next \in V!Run, next.sandbox = r, ~next.infrastructure, next.provisioned, ~next.cleaned,
         next.step \in {"source", "candidate", "commands", "cleanup"},
         next.step \in {"candidate", "commands", "cleanup"} => r \in touched'[r],
         next.commands # "none" => next.step = "cleanup"
  PROVE  ValidationSound'
<1> DEFINE x == runs[r]
<1>1. accepted /\ delivery[r[1]] = "validating" /\ x.step = step
  BY DEF V!Call, V!At
<1>2. /\ RunSound(r, x, sandboxes, touched[r]) /\ x \in V!Run /\ None \notin V!Runs
      /\ runFaults \in 0..MaxRunFaults /\ touched \in [V!Runs -> SUBSET V!Runs]
  BY <1>1, RunBefore
<1>3. runFaults' \in 0..MaxRunFaults
  BY <1>2 DEF V!Call, V!Fault, V!ValidationAssumption
<1>4. x.sandbox = r /\ Looked(r)
  BY <1>1, <1>2 DEF RunSound, Looked
<1>5. CASE V!Throw(r)
  BY <1>1, <1>3, <1>5, ThrowSound DEF Puts
<1>6. CASE V!Become(r, next)
  <2>1. touched'[r] \subseteq {r}
    BY <1>2 DEF RunSound, Puts
  <2>2. RunSound(r, next, sandboxes, touched'[r])
    BY <1>2, <1>4, <2>1 DEF RunSound
  <2>3. runs' = [runs EXCEPT ![r] = next]
    BY <1>6 DEF V!Become
  <2> QED
    BY <1>1, <1>3, <1>4, <2>2, <2>3, RunOnly DEF Puts
<1> QED
  BY <1>5, <1>6 DEF V!Call

LEMMA CallsSound ==
  ASSUME V!ValidationAssumption, ValidationSound, NEW r \in V!Runs,
         \/ V!Inspect(r) \/ V!MaterializeSource(r) \/ V!MaterializeCandidate(r)
         \/ V!RunCommands(r)
  PROVE  ValidationSound'
<1> DEFINE x == runs[r]
<1>1. /\ accepted /\ delivery[r[1]] = "validating"
      /\ x.step \in {"inspect", "source", "candidate", "commands"}
      /\ UNCHANGED <<accepted, planned, reservation, delivery, summaries, late, sandboxes>>
  BY DEF V!Inspect, V!MaterializeSource, V!MaterializeCandidate, V!RunCommands,
         V!ExecuteCommand, V!Call, V!At, V!Step, V!provider
<1>2. /\ RunSound(r, x, sandboxes, touched[r]) /\ x \in V!Run
      /\ touched \in [V!Runs -> SUBSET V!Runs] /\ None \notin V!Runs
  BY <1>1, RunBefore
<1>3. x.sandbox = r /\ ~x.infrastructure /\ ~x.cleaned /\ x.commands = "none"
  BY <1>1, <1>2 DEF RunSound
<1>4. CASE V!Inspect(r)
  <2> DEFINE next == [x EXCEPT !.step = "source", !.provisioned = TRUE]
  <2>1. /\ next \in V!Run /\ next.step = "source" /\ next.sandbox = r /\ ~next.infrastructure
        /\ next.provisioned /\ next.commands = "none" /\ ~next.cleaned
    BY <1>2, <1>3 DEF V!Run
  <2>2. V!Call(r, "inspect", next) /\ touched' = touched
    BY <1>4 DEF V!Inspect, V!Step, V!provider
  <2> HIDE DEF next
  <2> QED
    BY <1>1, <2>1, <2>2, CallSound DEF Puts
<1>5. CASE V!MaterializeSource(r)
  <2> DEFINE next == [x EXCEPT !.step = IF r[2] = "candidate" THEN "candidate" ELSE "commands"]
  <2>1. V!Call(r, "source", next) /\ touched' = [touched EXCEPT ![r] = @ \union {r}]
    BY <1>3, <1>5 DEF V!MaterializeSource, V!Touch
  <2>2. x.provisioned
    BY <1>2, <2>1 DEF V!Call, V!At, RunSound
  <2>3. /\ next \in V!Run /\ next.step \in {"candidate", "commands"} /\ next.sandbox = r
        /\ ~next.infrastructure /\ next.provisioned /\ next.commands = "none" /\ ~next.cleaned
    BY <1>2, <1>3, <2>2 DEF V!Run
  <2>4. r \in touched'[r]
    BY <1>2, <2>1
  <2>5. next.step \in {"source", "candidate", "commands", "cleanup"}
    BY <2>3
  <2>6. next.commands # "none" => next.step = "cleanup"
    BY <2>3
  <2>7. Puts(r)
    BY <2>1 DEF Puts
  <2> HIDE DEF next, x
  <2> QED
    BY <1>1, <2>1, <2>3, <2>4, <2>5, <2>6, <2>7, CallSound
<1>6. CASE V!MaterializeCandidate(r)
  <2> DEFINE next == [x EXCEPT !.step = "commands"]
  <2>1. V!Call(r, "candidate", next) /\ touched' = [touched EXCEPT ![r] = @ \union {r}]
    BY <1>3, <1>6 DEF V!MaterializeCandidate, V!Touch
  <2>2. x.provisioned
    BY <1>2, <2>1 DEF V!Call, V!At, RunSound
  <2>3. /\ next \in V!Run /\ next.step = "commands" /\ next.sandbox = r
        /\ ~next.infrastructure /\ next.provisioned /\ next.commands = "none" /\ ~next.cleaned
    BY <1>2, <1>3, <2>2 DEF V!Run
  <2>4. r \in touched'[r]
    BY <1>2, <2>1
  <2>5. next.step \in {"source", "candidate", "commands", "cleanup"}
    BY <2>3
  <2>6. next.commands # "none" => next.step = "cleanup"
    BY <2>3
  <2>7. Puts(r)
    BY <2>1 DEF Puts
  <2> HIDE DEF next, x
  <2> QED
    BY <1>1, <2>1, <2>3, <2>4, <2>5, <2>6, <2>7, CallSound
<1>7. CASE V!RunCommands(r) /\ \E result \in {"passed", "failed", "timed_out"} :
                                 V!ExecuteCommand(r, result)
  <2>1. PICK result \in {"passed", "failed", "timed_out"} : V!ExecuteCommand(r, result)
    BY <1>7
  <2> DEFINE next == [x EXCEPT !.step = "cleanup", !.commands = result]
  <2>2. V!Call(r, "commands", next) /\ touched' = touched
    BY <1>7, <2>1 DEF V!RunCommands, V!ExecuteCommand, V!Step, V!provider
  <2>3. x.provisioned /\ r \in touched[r]
    BY <1>2, <2>2 DEF V!Call, V!At, RunSound
  <2>4. /\ next \in V!Run /\ next.step = "cleanup" /\ next.sandbox = r
        /\ ~next.infrastructure /\ next.provisioned /\ next.commands # "none" /\ ~next.cleaned
    BY <1>2, <1>3, <2>3 DEF V!Run
  <2>5. next.step \in {"source", "candidate", "commands", "cleanup"}
    BY <2>4
  <2>6. next.commands # "none" => next.step = "cleanup"
    BY <2>4
  <2>7. r \in touched'[r]
    BY <2>2, <2>3
  <2>8. Puts(r)
    BY <2>2 DEF Puts
  <2> HIDE DEF next, x
  <2> QED
    BY <1>1, <2>2, <2>4, <2>5, <2>6, <2>7, <2>8, CallSound
<1>8. CASE V!RunCommands(r) /\ V!At(r, "commands")
             /\ V!Become(r, [runs[r] EXCEPT !.step = "cleanup"]) /\ runFaults' = runFaults
  <2> DEFINE next == [x EXCEPT !.step = "cleanup"]
  <2>1. runs' = [runs EXCEPT ![r] = next] /\ touched' = touched /\ x.step = "commands"
    BY <1>8 DEF V!RunCommands, V!At, V!Become, V!Step, V!provider
  <2>2. x.provisioned /\ r \in touched[r] /\ runFaults' \in 0..MaxRunFaults
    BY <1>1, <1>2, <1>8, <2>1, RunBefore DEF RunSound
  <2>3. /\ next \in V!Run /\ next.step = "cleanup" /\ next.sandbox = r
        /\ ~next.infrastructure /\ next.provisioned /\ next.commands = "none" /\ ~next.cleaned
    BY <1>2, <1>3, <2>2 DEF V!Run
  <2>4. Looked(r)
    BY <1>2, <1>3, RunBefore, <1>1 DEF Looked
  <2> HIDE DEF next
  <2>5. RunSound(r, next, sandboxes, touched'[r])
    BY <1>2, <1>3, <2>1, <2>2, <2>3 DEF RunSound
  <2> HIDE DEF x
  <2> QED
    BY <1>1, <1>3, <2>1, <2>2, <2>3, <2>4, <2>5, RunOnly DEF Puts, x
<1>9. V!RunCommands(r) =>
        \/ \E result \in {"passed", "failed", "timed_out"} : V!ExecuteCommand(r, result)
        \/ /\ V!At(r, "commands") /\ V!Become(r, [runs[r] EXCEPT !.step = "cleanup"])
           /\ runFaults' = runFaults
  BY DEF V!RunCommands
<1> QED
  BY <1>4, <1>5, <1>6, <1>7, <1>8, <1>9

LEMMA RequestSandboxSound ==
  ASSUME V!ValidationAssumption, ValidationSound, NEW r \in V!Runs, V!RequestSandbox(r)
  PROVE  ValidationSound'
<1> DEFINE x == runs[r]
           next == [x EXCEPT !.step = "provisioning"]
<1>1. /\ accepted /\ delivery[r[1]] = "validating" /\ x.step = "provision"
      /\ UNCHANGED <<accepted, planned, reservation, delivery, summaries, late, touched, runFaults>>
      /\ runs' = [runs EXCEPT ![r] = next]
      /\ sandboxes' = [sandboxes EXCEPT ![r] = "requested"]
  BY DEF V!RequestSandbox, V!At, V!Step, V!Become
<1>2. /\ RunSound(r, x, sandboxes, touched[r]) /\ x \in V!Run /\ None \notin V!Runs
      /\ runFaults \in 0..MaxRunFaults
      /\ sandboxes \in [V!Runs -> {"none", "requested", "live", "deleted"}]
      /\ touched \in [V!Runs -> SUBSET V!Runs]
      /\ runs \in [V!Runs -> V!Run]
  BY <1>1, RunBefore DEF ValidationSound, V!TypeOK
<1>3. /\ next \in V!Run /\ next.step = "provisioning" /\ next.sandbox = x.sandbox
      /\ next.infrastructure = x.infrastructure /\ next.provisioned = x.provisioned
      /\ next.commands = x.commands /\ next.cleaned = x.cleaned
  BY <1>2 DEF V!Run
<1>4. Looked(r) /\ x.sandbox = None /\ sandboxes[r] = "none"
  BY <1>1, <1>2 DEF Looked, RunSound
<1> HIDE DEF next
<1>5. RunSound(r, next, sandboxes', touched'[r])
  BY <1>1, <1>2, <1>3 DEF RunSound
<1>6. RunGoes(r, next)
  BY <1>1, <1>2, <1>4 DEF RunGoes, Later
<1>7. V!Labelled(r[2])' = V!Labelled(r[2])
  BY <1>1, <1>2, <1>4 DEF V!Labelled
<1>8. Mine(r)' = Mine(r)
  BY <1>1, <1>2, <1>3 DEF Mine
<1>9. AsFew(V!Labelled(r[2]) \ {Mine(r)}, LateOnes(r[2]))
  BY <1>1, <1>4, RunBefore
<1> QED
  BY <1>5, <1>6, <1>7, <1>8, <1>9, RunGoesOn

LEMMA CleanupSound ==
  ASSUME V!ValidationAssumption, ValidationSound, NEW r \in V!Runs, V!Cleanup(r)
  PROVE  ValidationSound'
<1> DEFINE x == runs[r]
           s == x.sandbox
<1>1. /\ accepted /\ delivery[r[1]] = "validating" /\ x.step = "cleanup"
      /\ UNCHANGED <<accepted, planned, reservation, delivery, summaries, late, touched>>
  BY DEF V!Cleanup, V!At, V!Step
<1>2. /\ RunSound(r, x, sandboxes, touched[r]) /\ x \in V!Run /\ None \notin V!Runs
      /\ runFaults \in 0..MaxRunFaults
      /\ sandboxes \in [V!Runs -> {"none", "requested", "live", "deleted"}]
      /\ touched \in [V!Runs -> SUBSET V!Runs]
      /\ runs \in [V!Runs -> V!Run]
  BY <1>1, RunBefore DEF ValidationSound, V!TypeOK
<1>3. s \in V!Runs /\ s # None
  BY <1>1, <1>2 DEF RunSound, V!Run
<1>4. runFaults' \in 0..MaxRunFaults
  <2>1. runFaults' = runFaults \/ V!Fault
    BY DEF V!Cleanup
  <2> QED
    BY <1>2, <2>1 DEF V!Fault, V!ValidationAssumption
<1>5. PICK gone \in BOOLEAN :
        /\ V!Become(r, V!Cleaned(x, gone))
        /\ \/ sandboxes' = sandboxes /\ ~gone
           \/ sandboxes[s] = "live" /\ sandboxes' = [sandboxes EXCEPT ![s] = "deleted"]
  BY DEF V!Cleanup, V!Ready
<1> DEFINE next == V!Cleaned(x, gone)
<1>6. /\ next \in V!Run /\ next.step = "done" /\ next.sandbox = s /\ next.cleaned = gone
      /\ next.infrastructure = (x.infrastructure \/ ~gone)
      /\ next.provisioned = x.provisioned /\ next.commands = x.commands
  BY <1>2 DEF V!Cleaned, V!Run
<1>7. runs' = [runs EXCEPT ![r] = next]
  BY <1>5 DEF V!Become
<1> HIDE DEF next
<1>8. /\ sandboxes' \in [V!Runs -> {"none", "requested", "live", "deleted"}]
      /\ \A t \in V!Runs : /\ Later(sandboxes[t], sandboxes'[t])
                           /\ sandboxes'[t] = "live" => sandboxes[t] = "live"
      /\ gone => sandboxes'[s] = "deleted"
  BY <1>2, <1>3, <1>5 DEF Later
<1>9. RunSound(r, next, sandboxes', touched'[r])
  <2>1. RunSound(r, x, sandboxes', touched'[r])
    <3>1. touched'[r] = touched[r] /\ touched[r] \subseteq {r}
      BY <1>1, <1>2 DEF RunSound
    <3>2. Later(sandboxes[r], sandboxes'[r]) /\ Later(sandboxes[s], sandboxes'[s])
      BY <1>3, <1>8
    <3> HIDE DEF x
    <3> QED
      BY <1>2, <3>1, <3>2, RunKeeps
  <2> HIDE DEF x
  <2> QED
    BY <1>1, <1>2, <1>3, <1>6, <1>8, <2>1 DEF RunSound
<1>10. RunGoes(r, next)
  BY <1>1, <1>2, <1>4, <1>7, <1>8 DEF RunGoes
<1>11. V!Labelled(r[2])' \subseteq V!Labelled(r[2])
  BY <1>8 DEF V!Labelled
<1>12. Mine(r)' = Mine(r) /\ Looked(r)
  BY <1>2, <1>3, <1>6, <1>7 DEF Mine, Looked
<1>13. AsFew(V!Labelled(r[2]) \ {Mine(r)}, LateOnes(r[2]))
  BY <1>1, <1>12, RunBefore
<1>14. V!Labelled(r[2])' \ {Mine(r)} \subseteq V!Labelled(r[2]) \ {Mine(r)}
  BY <1>11
<1>15. AsFew(V!Labelled(r[2])' \ {Mine(r)}, LateOnes(r[2]))
  BY <1>13, <1>14, FewerAsFew
<1> QED
  BY <1>9, <1>10, <1>12, <1>15, RunGoesOn

-----------------------------------------------------------------------------
(* Deliveries, with every run and sandbox as it is.                        *)
LEMMA BeginSound ==
  ASSUME V!ValidationAssumption, ValidationSound, NEW d \in Deliveries, V!Begin(d)
  PROVE  ValidationSound'
<1>1. /\ V!TypeOK /\ OwnerSound /\ LiveOnes /\ Recorded
      /\ \A r \in V!Runs : RunSound(r, runs[r], sandboxes, touched[r])
  BY DEF ValidationSound
<1>2. /\ UNCHANGED <<accepted, planned, runs, sandboxes, late, touched, summaries, runFaults>>
      /\ delivery[d] = "new"
  BY DEF V!Begin, V!provider
<1>3. \A k \in V!Kinds : V!Labelled(k)' = V!Labelled(k) /\ <<d, k>> \in V!Runs
  BY <1>2 DEF V!Labelled, V!Runs
<1>4. \A r \in V!Runs : RunSound(r, runs[r], sandboxes, touched[r])'
  BY <1>1, <1>2
<1>5. \A q : Untouched(q)' = Untouched(q)
  BY <1>2 DEF Untouched
<1>6. d # None
  BY DEF V!ValidationAssumption
<1>7. CASE /\ reservation.status = None
           /\ reservation.owner = None \/ delivery[reservation.owner] = "over"
           /\ reservation' = [reservation EXCEPT !.owner = d]
           /\ delivery' = [delivery EXCEPT ![d] = "validating"]
  <2>1. reservation' = [owner |-> d, status |-> None]
    BY <1>1, <1>7 DEF V!TypeOK, V!Reservation
  <2>2. delivery'[d] = "validating" /\ \A q \in Deliveries \ {d} : delivery'[q] = delivery[q]
    BY <1>1, <1>7 DEF V!TypeOK
  <2>3. V!TypeOK'
    BY <1>1, <1>2, <1>7, <2>1 DEF V!TypeOK, V!Reservation
  <2>4. \A q \in Deliveries : delivery[q] \notin {"validating", "linking"}
    BY <1>1, <1>7 DEF OwnerSound, V!ValidationAssumption
  <2>5. Untouched(d)
    BY <1>1, <1>2, <1>7, <1>6 DEF OwnerSound
  <2>6. OwnerSound'
    <3>1. \A q \in Deliveries : delivery'[q] = "validating" => q = d
      BY <2>2, <2>4
    <3>2. \A q \in Deliveries : delivery'[q] # "linking"
      BY <2>2, <2>4
    <3>3. \A q \in Deliveries : delivery'[q] # "over" /\ q # d => Untouched(q)'
      BY <1>1, <1>2, <1>5, <1>7, <2>2 DEF OwnerSound, V!ValidationAssumption
    <3>4. ~accepted' => \A q \in Deliveries : Untouched(q)'
      BY <1>1, <1>2, <1>5 DEF OwnerSound
    <3> QED
      BY <2>1, <2>2, <3>1, <3>2, <3>3, <3>4 DEF OwnerSound
  <2>7. LiveOnes'
    <3>1. \A k \in V!Kinds : ~Looked(<<d, k>>)'
      BY <1>2, <2>5 DEF Untouched, Looked, V!NewRun
    <3> QED
      BY <1>1, <1>2, <1>3, <2>1, <3>1 DEF LiveOnes, LateOnes
  <2>8. Recorded'
    BY <1>1, <1>2, <1>7, <2>1 DEF Recorded
  <2> QED
    BY <1>4, <2>3, <2>6, <2>7, <2>8 DEF ValidationSound
<1>8. CASE /\ reservation' = reservation
           /\ \/ delivery' = [delivery EXCEPT ![d] = "over"] /\ reservation.owner # None
              \/ delivery' = [delivery EXCEPT ![d] = "linking"] /\ reservation.status # None
  <2>1. /\ delivery'[d] \in {"over", "linking"}
        /\ delivery'[d] = "linking" => reservation.status # None
        /\ \A q \in Deliveries \ {d} : delivery'[q] = delivery[q]
    BY <1>1, <1>8 DEF V!TypeOK
  <2>2. reservation.owner # d
    BY <1>1, <1>2, <1>6 DEF OwnerSound
  <2>3. V!TypeOK'
    BY <1>1, <1>2, <1>8 DEF V!TypeOK
  <2>4. \A q \in Deliveries : V!Status(q)' = V!Status(q)
    BY <1>2, StatusKept
  <2>5. \A q \in Deliveries : delivery'[q] # "over" /\ q # reservation.owner => Untouched(q)'
    BY <1>1, <1>2, <1>5, <2>1, <2>2 DEF OwnerSound
  <2>6. OwnerSound'
    <3>1. reservation.owner # None => reservation.owner \in Deliveries
      BY <1>1 DEF V!TypeOK, V!Reservation
    <3>2. reservation.owner # None => delivery'[reservation.owner] = delivery[reservation.owner]
      BY <2>1, <2>2, <3>1
    <3>3. ~accepted' => \A q \in Deliveries : Untouched(q)'
      BY <1>1, <1>2, <1>5 DEF OwnerSound
    <3> QED
      BY <1>1, <1>2, <1>8, <2>1, <2>4, <2>5, <3>1, <3>2, <3>3 DEF OwnerSound
  <2>7. LiveOnes'
    BY <1>1, <1>2, <1>3, <1>8 DEF LiveOnes, LateOnes, Looked, Mine
  <2>8. Recorded'
    BY <1>1, <1>2, <1>8 DEF Recorded
  <2> QED
    BY <1>4, <2>3, <2>6, <2>7, <2>8 DEF ValidationSound
<1> QED
  BY <1>7, <1>8 DEF V!Begin

(* The runs of a delivery are over when it has a status to store.          *)
LEMMA CompleteSound ==
  ASSUME V!ValidationAssumption, ValidationSound, NEW d \in Deliveries, V!Complete(d)
  PROVE  ValidationSound'
<1>1. /\ V!TypeOK /\ OwnerSound /\ LiveOnes /\ Recorded
      /\ \A r \in V!Runs : RunSound(r, runs[r], sandboxes, touched[r])
  BY DEF ValidationSound
<1>2. /\ UNCHANGED <<accepted, planned, runs, sandboxes, late, touched, summaries>>
      /\ delivery[d] = "validating"
      /\ accepted => \A k \in V!Kinds : runs[<<d, k>>].step = "done"
  BY DEF V!Complete, V!provider
<1>3. \A k \in V!Kinds : V!Labelled(k)' = V!Labelled(k)
  BY <1>2 DEF V!Labelled
<1>4. \A r \in V!Runs : RunSound(r, runs[r], sandboxes, touched[r])'
  BY <1>1, <1>2
<1>5. \A q : Untouched(q)' = Untouched(q)
  BY <1>2 DEF Untouched
<1>6. reservation = [owner |-> d, status |-> None] /\ d # None
  BY <1>1, <1>2 DEF OwnerSound, V!TypeOK, V!Reservation, V!ValidationAssumption
<1>7. V!Status(d) \in V!Statuses
  BY DEF V!Status, V!Statuses
<1>8. PICK to \in {"linking", "over"} :
        /\ delivery' = [delivery EXCEPT ![d] = to]
        /\ \/ reservation' = [reservation EXCEPT !.status = V!Status(d)]
           \/ to = "over" /\ reservation' = reservation
        /\ runFaults' = runFaults \/ V!Fault
  BY DEF V!Complete
<1>9. runFaults' \in 0..MaxRunFaults
  BY <1>1, <1>8 DEF V!Fault, V!TypeOK, V!ValidationAssumption
<1>10. PICK status \in {None, V!Status(d)} :
         /\ reservation' = [owner |-> d, status |-> status]
         /\ to = "linking" => status # None
  BY <1>6, <1>7, <1>8 DEF V!ValidationAssumption
<1>11. status \in V!Statuses \union {None}
  BY <1>7, <1>10
<1>12. delivery'[d] = to /\ \A q \in Deliveries \ {d} : delivery'[q] = delivery[q]
  BY <1>1, <1>8 DEF V!TypeOK
<1>13. \A q \in Deliveries \ {d} : delivery[q] \notin {"validating", "linking"}
  BY <1>1, <1>6 DEF OwnerSound
<1>14. V!TypeOK'
  BY <1>1, <1>2, <1>8, <1>9, <1>10, <1>11 DEF V!TypeOK, V!Reservation
<1>15. V!Status(d)' = V!Status(d)
  BY <1>2, StatusKept
<1>16. OwnerSound'
  <2>1. \A q \in Deliveries : delivery'[q] # "validating"
    BY <1>12, <1>13
  <2>2. \A q \in Deliveries : delivery'[q] = "linking" => status # None
    BY <1>10, <1>12, <1>13
  <2>3. \A q \in Deliveries : delivery'[q] # "over" /\ q # d => Untouched(q)'
    BY <1>1, <1>5, <1>6, <1>12 DEF OwnerSound
  <2>4. ~accepted' => \A q \in Deliveries : Untouched(q)'
    BY <1>1, <1>2, <1>5 DEF OwnerSound
  <2>5. accepted' => \A k \in V!Kinds : runs'[<<d, k>>].step = "done"
    BY <1>2
  <2>6. status # None => status = V!Status(d)'
    BY <1>10, <1>15
  <2> QED
    BY <1>6, <1>10, <1>12, <2>1, <2>2, <2>3, <2>4, <2>5, <2>6 DEF OwnerSound
<1>17. LiveOnes'
  BY <1>1, <1>2, <1>3, <1>6, <1>10 DEF LiveOnes, LateOnes, Looked, Mine
<1>18. Recorded'
  BY <1>1, <1>2, <1>6 DEF Recorded
<1> QED
  BY <1>4, <1>14, <1>16, <1>17, <1>18 DEF ValidationSound

(* A delivery is over, with or without a summary of the stored status.     *)
LEMMA EndSound ==
  ASSUME V!ValidationAssumption, ValidationSound, NEW d \in Deliveries,
         V!LinkSummaryBestEffort(d) \/ V!Lose(d)
  PROVE  ValidationSound'
<1>1. /\ V!TypeOK /\ OwnerSound /\ LiveOnes /\ Recorded
      /\ \A r \in V!Runs : RunSound(r, runs[r], sandboxes, touched[r])
  BY DEF ValidationSound
<1>2. /\ UNCHANGED <<accepted, planned, reservation, runs, sandboxes, late, touched>>
      /\ delivery[d] \in {"validating", "linking"}
      /\ delivery' = [delivery EXCEPT ![d] = "over"]
      /\ \/ summaries' = summaries
         \/ delivery[d] = "linking" /\ summaries' = summaries \union {reservation.status}
      /\ runFaults' = runFaults \/ V!Fault
  BY DEF V!LinkSummaryBestEffort, V!Lose, V!provider
<1>3. \A k \in V!Kinds : V!Labelled(k)' = V!Labelled(k)
  BY <1>2 DEF V!Labelled
<1>4. \A r \in V!Runs : RunSound(r, runs[r], sandboxes, touched[r])'
  BY <1>1, <1>2
<1>5. \A q : Untouched(q)' = Untouched(q)
  BY <1>2 DEF Untouched
<1>6. runFaults' \in 0..MaxRunFaults
  BY <1>1, <1>2 DEF V!Fault, V!TypeOK, V!ValidationAssumption
<1>7. delivery'[d] = "over" /\ \A q \in Deliveries \ {d} : delivery'[q] = delivery[q]
  BY <1>1, <1>2 DEF V!TypeOK
<1>8. delivery[d] = "linking" => reservation.status \in V!Statuses
  BY <1>1 DEF OwnerSound, V!TypeOK, V!Reservation
<1>9. V!TypeOK'
  BY <1>1, <1>2, <1>6, <1>8 DEF V!TypeOK
<1>10. \A q \in Deliveries : V!Status(q)' = V!Status(q)
  BY <1>2, StatusKept
<1>11. OwnerSound'
  <2>1. reservation.owner # None => reservation.owner \in Deliveries
    BY <1>1 DEF V!TypeOK, V!Reservation
  <2>2. /\ \A q \in Deliveries : delivery'[q] # "over" /\ q # reservation.owner => Untouched(q)'
        /\ ~accepted' => \A q \in Deliveries : Untouched(q)'
    BY <1>1, <1>2, <1>5, <1>7 DEF OwnerSound
  <2>3. \A q \in Deliveries :
          /\ delivery'[q] = "validating" => reservation.owner = q /\ reservation.status = None
          /\ delivery'[q] = "linking" => reservation.status # None
    BY <1>1, <1>7 DEF OwnerSound
  <2>4. reservation.owner # None => delivery'[reservation.owner] # "new"
    BY <1>1, <1>7, <2>1 DEF OwnerSound
  <2> QED
    BY <1>1, <1>2, <1>7, <1>10, <2>1, <2>2, <2>3, <2>4 DEF OwnerSound
<1>12. LiveOnes'
  BY <1>1, <1>2, <1>3 DEF LiveOnes, LateOnes, Looked, Mine
<1>13. Recorded'
  BY <1>1, <1>2, <1>8 DEF Recorded, V!ValidationAssumption
<1> QED
  BY <1>4, <1>9, <1>11, <1>12, <1>13 DEF ValidationSound

-----------------------------------------------------------------------------
(* What the provider does on its own.                                      *)
LEMMA ProviderSound ==
  ASSUME V!ValidationAssumption, ValidationSound, NEW s \in V!Runs, V!Appear(s) \/ V!Expire(s)
  PROVE  ValidationSound'
<1>1. /\ V!TypeOK /\ OwnerSound /\ LiveOnes /\ Recorded
      /\ \A r \in V!Runs : RunSound(r, runs[r], sandboxes, touched[r])
  BY DEF ValidationSound
<1>2. PICK to \in {"live", "deleted"} :
        /\ UNCHANGED <<accepted, planned, reservation, delivery, runs, touched, summaries>>
        /\ sandboxes' = [sandboxes EXCEPT ![s] = to]
        /\ \/ /\ sandboxes[s] = "requested" /\ to = "live"
              /\ late' = IF delivery[s[1]] = "over" THEN late \union {s} ELSE late
           \/ sandboxes[s] = "live" /\ to = "deleted" /\ late' = late
        /\ runFaults' = runFaults \/ V!Fault
  BY DEF V!Appear, V!Expire
<1>3. /\ sandboxes \in [V!Runs -> {"none", "requested", "live", "deleted"}]
      /\ runs \in [V!Runs -> V!Run] /\ touched \in [V!Runs -> SUBSET V!Runs]
  BY <1>1 DEF V!TypeOK
<1>4. /\ sandboxes'[s] = to /\ \A t \in V!Runs : t # s => sandboxes'[t] = sandboxes[t]
      /\ \A t \in V!Runs : Later(sandboxes[t], sandboxes'[t]) /\ (sandboxes'[t] = "none" <=> sandboxes[t] = "none")
  BY <1>2, <1>3 DEF Later
<1>5. ASSUME NEW r \in V!Runs
      PROVE  RunSound(r, runs[r], sandboxes, touched[r])'
  <2> DEFINE x == runs[r]
  <2>1. RunSound(r, x, sandboxes, touched[r])
    BY <1>1
  <2>2. x.sandbox # None => x.sandbox \in V!Runs
    BY <2>1 DEF RunSound, V!Run
  <2>3. x.sandbox # None /\ Gone(sandboxes[x.sandbox]) =>
          Later(sandboxes[x.sandbox], sandboxes'[x.sandbox])
    BY <1>4, <2>2
  <2>4. Later(sandboxes[r], sandboxes'[r]) /\ touched'[r] = touched[r] /\ touched[r] \subseteq {r}
    BY <1>2, <1>4, <2>1 DEF RunSound
  <2> HIDE DEF x
  <2>5. RunSound(r, x, sandboxes', touched'[r])
    BY <2>1, <2>3, <2>4, RunKeeps
  <2> USE DEF x
  <2> QED
    BY <1>2, <2>5
<1>6. runFaults' \in 0..MaxRunFaults
  BY <1>1, <1>2 DEF V!Fault, V!TypeOK, V!ValidationAssumption
<1>7. V!TypeOK'
  BY <1>1, <1>2, <1>3, <1>6 DEF V!TypeOK
<1>8. \A q \in Deliveries : V!Status(q)' = V!Status(q)
  BY <1>2, StatusKept
<1>9. \A q \in Deliveries : Untouched(q)' = Untouched(q)
  BY <1>2, <1>4 DEF Untouched, V!Runs
<1>10. OwnerSound'
  <2>1. reservation.owner # None => reservation.owner \in Deliveries
    BY <1>1 DEF V!TypeOK, V!Reservation
  <2> QED
    BY <1>1, <1>2, <1>8, <1>9, <2>1 DEF OwnerSound
<1>11. Recorded'
  BY <1>1, <1>2 DEF Recorded
<1>12. \A r \in V!Runs : Looked(r)' = Looked(r) /\ Mine(r)' = Mine(r)
  BY <1>2, <1>4 DEF Looked, Mine
<1>13. s[1] \in Deliveries /\ s[2] \in V!Kinds /\ s = <<s[1], s[2]>>
  BY DEF V!Runs
<1>14. /\ \A k \in V!Kinds : k # s[2] => V!Labelled(k)' = V!Labelled(k)
       /\ V!Labelled(s[2])' \subseteq IF to = "live" THEN V!Labelled(s[2]) \union {s}
                                                    ELSE V!Labelled(s[2])
       /\ \A k \in V!Kinds : k # s[2] => LateOnes(k)' = LateOnes(k)
       /\ late' = late => LateOnes(s[2])' = LateOnes(s[2])
       /\ late' # late => late' = late \union {s} /\ LateOnes(s[2])' = LateOnes(s[2]) \union {s}
  BY <1>2, <1>4, <1>13 DEF V!Labelled, LateOnes
<1>15. \A r \in late' : Gone(sandboxes'[r])
  BY <1>1, <1>2, <1>4, <1>14 DEF LiveOnes, Gone, V!TypeOK, Later
<1>16. ASSUME NEW x, AsFew(V!Labelled(s[2]) \ {x}, LateOnes(s[2])),
              to = "live" /\ late' = late => x = s
       PROVE  AsFew(V!Labelled(s[2])' \ {x}, LateOnes(s[2])')
  <2>1. CASE late' = late
    <3>1. V!Labelled(s[2])' \ {x} \subseteq V!Labelled(s[2]) \ {x}
      BY <1>14, <1>16, <2>1
    <3>2. AsFew(V!Labelled(s[2])' \ {x}, LateOnes(s[2]))
      BY <1>16, <3>1, FewerAsFew
    <3> QED
      BY <1>14, <2>1, <3>2
  <2>2. CASE late' # late
    <3>1. s \notin LateOnes(s[2])
      BY <1>1, <1>2, <2>2 DEF LiveOnes, LateOnes, Gone
    <3>2. AsFew((V!Labelled(s[2]) \ {x}) \union {s}, LateOnes(s[2]) \union {s})
      BY <1>16, <3>1, OneMoreOfBoth
    <3>3. V!Labelled(s[2])' \ {x} \subseteq (V!Labelled(s[2]) \ {x}) \union {s}
      BY <1>14
    <3>4. AsFew(V!Labelled(s[2])' \ {x}, LateOnes(s[2]) \union {s})
      BY <3>2, <3>3, FewerAsFew
    <3> QED
      BY <1>14, <2>2, <3>4
  <2> QED
    BY <2>1, <2>2
<1>17. to = "live" /\ late' = late =>
         reservation.owner = s[1] /\ reservation.owner # None /\ Looked(s) /\ Mine(s) = s
  <2> SUFFICES ASSUME to = "live", late' = late
               PROVE  reservation.owner = s[1] /\ reservation.owner # None /\ Looked(s) /\ Mine(s) = s
    OBVIOUS
  <2>1. sandboxes[s] = "requested" /\ s \notin late
    BY <1>1, <1>2 DEF LiveOnes, Gone
  <2>2. delivery[s[1]] # "over"
    BY <1>2, <2>1
  <2>3. reservation.owner = s[1] /\ reservation.owner # None
    BY <1>1, <1>13, <2>1, <2>2 DEF OwnerSound, Untouched, V!ValidationAssumption
  <2>4. RunSound(s, runs[s], sandboxes, touched[s])
    BY <1>1
  <2>5. runs[s].sandbox = None
    BY <2>1, <2>4 DEF RunSound, Gone
  <2> QED
    BY <2>1, <2>3, <2>5 DEF Looked, Mine
<1>18. \A k \in V!Kinds : \E x : AsFew(V!Labelled(k)' \ {x}, LateOnes(k)')
  <2> SUFFICES ASSUME NEW k \in V!Kinds PROVE \E x : AsFew(V!Labelled(k)' \ {x}, LateOnes(k)')
    OBVIOUS
  <2>1. PICK x : /\ AsFew(V!Labelled(k) \ {x}, LateOnes(k))
                 /\ k = s[2] /\ to = "live" /\ late' = late => x = s
    <3>1. CASE k = s[2] /\ to = "live" /\ late' = late
      BY <1>1, <1>13, <1>17, <3>1 DEF LiveOnes
    <3>2. CASE ~(k = s[2] /\ to = "live" /\ late' = late)
      BY <1>1, <3>2 DEF LiveOnes
    <3> QED
      BY <3>1, <3>2
  <2> QED
    BY <1>14, <1>16, <2>1
<1>19. ASSUME reservation.owner # None, NEW k \in V!Kinds, Looked(<<reservation.owner, k>>)'
       PROVE  AsFew(V!Labelled(k)' \ {Mine(<<reservation.owner, k>>)'}, LateOnes(k)')
  <2> DEFINE q == <<reservation.owner, k>>
  <2>1. q \in V!Runs /\ reservation.owner \in Deliveries
    BY <1>1, <1>19 DEF V!TypeOK, V!Reservation, V!Runs
  <2>2. Looked(q) /\ Mine(q)' = Mine(q)
    BY <1>2, <1>12, <1>19, <2>1
  <2>3. AsFew(V!Labelled(k) \ {Mine(q)}, LateOnes(k))
    BY <1>1, <1>19, <2>2 DEF LiveOnes
  <2>4. AsFew(V!Labelled(k)' \ {Mine(q)}, LateOnes(k)')
    BY <1>13, <1>14, <1>16, <1>17, <2>3
  <2> QED
    BY <2>2, <2>4
<1>20. LiveOnes'
  <2>1. reservation' = reservation
    BY <1>2
  <2>2. \A k \in V!Kinds : Looked(<<reservation.owner, k>>)' /\ reservation.owner # None =>
          AsFew(V!Labelled(k)' \ {Mine(<<reservation.owner, k>>)'}, LateOnes(k)')
    BY <1>19
  <2> QED
    BY <1>15, <1>18, <2>1, <2>2 DEF LiveOnes
<1> QED
  BY <1>5, <1>7, <1>10, <1>11, <1>20 DEF ValidationSound

(* ValidationSound holds in every state of the validation.                 *)
THEOREM ValidationSoundAlways ==
  ASSUME V!ValidationAssumption
  PROVE  V!Spec => []ValidationSound
<1>1. V!Init => ValidationSound
  <2> SUFFICES ASSUME V!Init PROVE ValidationSound
    OBVIOUS
  <2>1. V!NewRun \in V!Run
    BY DEF V!NewRun, V!Run
  <2>2. V!TypeOK
    BY <2>1 DEF V!Init, V!TypeOK, V!Reservation, V!ValidationAssumption
  <2>3. ASSUME NEW r \in V!Runs PROVE RunSound(r, runs[r], sandboxes, touched[r])
    BY <2>1 DEF V!Init, RunSound, V!NewRun
  <2>4. \A d \in Deliveries : Untouched(d)
    BY DEF V!Init, Untouched, V!Runs
  <2>5. OwnerSound
    BY <2>4 DEF V!Init, OwnerSound
  <2>6. LiveOnes
    <3>1. late = {} /\ \A k \in V!Kinds : V!Labelled(k) \ {None} = {} /\ LateOnes(k) = {}
      BY DEF V!Init, V!Labelled, LateOnes
    <3>2. AsFew({}, {})
      BY FS_EmptySet DEF AsFew
    <3>3. reservation.owner = None
      BY DEF V!Init
    <3> QED
      BY <3>1, <3>2, <3>3 DEF LiveOnes
  <2>7. Recorded
    BY DEF V!Init, Recorded
  <2> QED
    BY <2>2, <2>3, <2>5, <2>6, <2>7 DEF ValidationSound
<1>2. ValidationSound /\ [V!Next]_V!vars => ValidationSound'
  <2> SUFFICES ASSUME ValidationSound, [V!Next]_V!vars PROVE ValidationSound'
    OBVIOUS
  <2>1. CASE UNCHANGED V!vars
    <3>1. V!TypeOK' /\ OwnerSound' /\ Recorded'
      <4>1. UNCHANGED <<accepted, planned, reservation, delivery, runs, sandboxes, late, touched,
                        summaries, runFaults>>
        BY <2>1 DEF V!vars, V!provider
      <4>2. \A d \in Deliveries : V!Status(d)' = V!Status(d) /\ Untouched(d)' = Untouched(d)
        BY <4>1, StatusKept DEF Untouched
      <4>3. reservation.owner # None => reservation.owner \in Deliveries
        BY DEF ValidationSound, V!TypeOK, V!Reservation
      <4>4. OwnerSound'
        BY <4>1, <4>2, <4>3 DEF ValidationSound, OwnerSound
      <4> QED
        BY <4>1, <4>4 DEF ValidationSound, V!TypeOK, Recorded
    <3>2. LiveOnes' /\ \A r \in V!Runs : RunSound(r, runs[r], sandboxes, touched[r])'
      BY <2>1 DEF ValidationSound, V!vars, V!provider, LiveOnes, LateOnes, Looked, Mine, V!Labelled
    <3> QED
      BY <3>1, <3>2 DEF ValidationSound
  <2>2. CASE \E d \in Deliveries : V!Begin(d) \/ V!Complete(d) \/ V!LinkSummaryBestEffort(d) \/ V!Lose(d)
    BY <2>2, BeginSound, CompleteSound, EndSound
  <2>3. CASE \E r \in V!Runs :
               \/ V!Find(r) \/ V!RequestSandbox(r) \/ V!Provisioned(r) \/ V!ProvisionFails(r)
               \/ V!Inspect(r) \/ V!MaterializeSource(r) \/ V!MaterializeCandidate(r)
               \/ V!RunCommands(r) \/ V!Cleanup(r)
    BY <2>3, FindSound, RequestSandboxSound, ProvisionedSound, ProvisionFailsSound, CallsSound,
       CleanupSound
  <2>4. CASE \E s \in V!Runs : V!Appear(s) \/ V!Expire(s)
    BY <2>4, ProviderSound
  <2> QED
    BY <2>1, <2>2, <2>3, <2>4 DEF V!Next
<1> QED
  BY <1>1, <1>2, PTL DEF V!Spec

-----------------------------------------------------------------------------
(* A run that came through its commands ran one if its plan has any.       *)
Ran ==
  \A r \in V!Runs :
    runs[r].step \in {"cleanup", "done"} /\ ~runs[r].infrastructure =>
      (runs[r].commands # "none" <=> r[2] \in planned)

(* Of a run, another step than that of its commands and of its cleanup     *)
(* leaves it short of its end, or with an exception.                       *)
LEMMA OneRan ==
  ASSUME V!ValidationAssumption, ValidationSound, Ran, NEW r \in V!Runs, NEW next,
         runs' = [runs EXCEPT ![r] = next], planned' = planned,
         next.step \in {"cleanup", "done"} /\ ~next.infrastructure =>
           (next.commands # "none" <=> r[2] \in planned)
  PROVE  Ran'
<1>1. runs \in [V!Runs -> V!Run]
  BY DEF ValidationSound, V!TypeOK
<1> QED
  BY <1>1 DEF Ran

LEMMA RanNext ==
  ASSUME V!ValidationAssumption, ValidationSound, Ran, V!Next
  PROVE  Ran'
<1>1. ASSUME UNCHANGED <<planned, runs>> PROVE Ran'
  BY <1>1 DEF Ran
<1>2. ASSUME NEW r \in V!Runs,
             \/ V!Find(r) \/ V!RequestSandbox(r) \/ V!Provisioned(r) \/ V!ProvisionFails(r)
             \/ V!Inspect(r) \/ V!MaterializeSource(r) \/ V!MaterializeCandidate(r)
             \/ V!RunCommands(r) \/ V!Cleanup(r)
      PROVE  Ran'
  <2> DEFINE x == runs[r]
  <2>1. x \in V!Run /\ RunSound(r, x, sandboxes, touched[r])
    BY DEF ValidationSound, RunSound
  <2>2. planned' = planned
    BY <1>2 DEF V!Find, V!RequestSandbox, V!Provisioned, V!ProvisionFails, V!Inspect,
       V!MaterializeSource, V!MaterializeCandidate, V!RunCommands, V!Cleanup, V!Step
  <2>3. ASSUME V!Throw(r) PROVE Ran'
    <3>1. runs' = [runs EXCEPT ![r] = V!Caught(x)] /\ V!Caught(x).infrastructure
      BY <2>1, <2>3 DEF V!Throw, V!Become, V!Caught, V!Run
    <3> QED
      BY <2>2, <3>1, OneRan
  <2>4. ASSUME NEW step, V!Become(r, [x EXCEPT !.step = step]),
               step \in {"provision", "provisioning", "commands"}
        PROVE  Ran'
    <3> DEFINE next == [x EXCEPT !.step = step]
    <3>1. next.step \notin {"cleanup", "done"}
      BY <2>1, <2>4 DEF V!Run
    <3>2. runs' = [runs EXCEPT ![r] = next]
      BY <2>4 DEF V!Become
    <3> HIDE DEF next
    <3> QED
      BY <2>2, <3>1, <3>2, OneRan
  <2>5. CASE V!Find(r)
    <3>1. ASSUME NEW s, V!Become(r, V!Recovered(x, s)) PROVE Ran'
      <4>1. runs' = [runs EXCEPT ![r] = V!Recovered(x, s)] /\ V!Recovered(x, s).infrastructure
        BY <2>1, <3>1 DEF V!Become, V!Recovered, V!Caught, V!Run
      <4> QED
        BY <2>2, <4>1, OneRan
    <3> QED
      BY <2>3, <2>4, <2>5, <3>1 DEF V!Find
  <2>6. CASE V!RequestSandbox(r)
    BY <2>4, <2>6 DEF V!RequestSandbox
  <2>7. CASE V!Provisioned(r)
    <3> DEFINE next == [x EXCEPT !.step = "inspect", !.sandbox = r]
    <3>1. next.step \notin {"cleanup", "done"} /\ runs' = [runs EXCEPT ![r] = next]
      BY <2>1, <2>7 DEF V!Provisioned, V!Become, V!Run
    <3> HIDE DEF next
    <3> QED
      BY <2>2, <3>1, OneRan
  <2>8. CASE V!ProvisionFails(r)
    BY <2>3, <2>8 DEF V!ProvisionFails
  <2>9. CASE V!Inspect(r)
    <3> DEFINE next == [x EXCEPT !.step = "source", !.provisioned = TRUE]
    <3>1. next.step \notin {"cleanup", "done"}
      BY <2>1 DEF V!Run
    <3>2. V!Throw(r) \/ runs' = [runs EXCEPT ![r] = next]
      BY <2>9 DEF V!Inspect, V!Call, V!Become
    <3> HIDE DEF next
    <3> QED
      BY <2>2, <2>3, <3>1, <3>2, OneRan
  <2>10. CASE V!MaterializeSource(r)
    <3> DEFINE next == [x EXCEPT !.step = IF r[2] = "candidate" THEN "candidate" ELSE "commands"]
    <3>1. next.step \notin {"cleanup", "done"}
      BY <2>1 DEF V!Run
    <3>2. V!Throw(r) \/ runs' = [runs EXCEPT ![r] = next]
      BY <2>10 DEF V!MaterializeSource, V!Call, V!Become
    <3> HIDE DEF next
    <3> QED
      BY <2>2, <2>3, <3>1, <3>2, OneRan
  <2>11. CASE V!MaterializeCandidate(r)
    BY <2>3, <2>4, <2>11 DEF V!MaterializeCandidate, V!Call
  <2>12. CASE V!RunCommands(r)
    <3>1. ASSUME r[2] \in planned, NEW result \in {"passed", "failed", "timed_out"},
                 V!ExecuteCommand(r, result)
          PROVE  Ran'
      <4> DEFINE next == [x EXCEPT !.step = "cleanup", !.commands = result]
      <4>1. next.commands # "none"
        BY <2>1 DEF V!Run
      <4>2. V!Throw(r) \/ runs' = [runs EXCEPT ![r] = next]
        BY <3>1 DEF V!ExecuteCommand, V!Call, V!Become
      <4> HIDE DEF next
      <4> QED
        BY <2>2, <2>3, <3>1, <4>1, <4>2, OneRan
    <3>2. ASSUME r[2] \notin planned, V!At(r, "commands"),
                 V!Become(r, [x EXCEPT !.step = "cleanup"])
          PROVE  Ran'
      <4> DEFINE next == [x EXCEPT !.step = "cleanup"]
      <4>1. x.commands = "none"
        BY <2>1, <3>2 DEF RunSound, V!At
      <4>2. next.commands = "none"
        BY <2>1, <4>1 DEF V!Run
      <4>3. runs' = [runs EXCEPT ![r] = next]
        BY <3>2 DEF V!Become
      <4> HIDE DEF next
      <4> QED
        BY <2>2, <3>2, <4>2, <4>3, OneRan
    <3> QED
      BY <2>12, <3>1, <3>2 DEF V!RunCommands
  <2>13. CASE V!Cleanup(r)
    <3>1. PICK gone \in BOOLEAN : V!Become(r, V!Cleaned(x, gone))
      BY <2>13 DEF V!Cleanup
    <3> DEFINE next == V!Cleaned(x, gone)
    <3>2. x.step = "cleanup"
      BY <2>13 DEF V!Cleanup, V!At
    <3>3. next.commands = x.commands /\ (~next.infrastructure => ~x.infrastructure)
      BY <2>1 DEF V!Cleaned, V!Run
    <3>4. runs' = [runs EXCEPT ![r] = next]
      BY <3>1 DEF V!Become
    <3> HIDE DEF next
    <3> QED
      BY <2>2, <3>2, <3>3, <3>4, OneRan DEF Ran
  <2> QED
    BY <1>2, <2>5, <2>6, <2>7, <2>8, <2>9, <2>10, <2>11, <2>12, <2>13
<1>3. ASSUME NEW d \in Deliveries,
             V!Begin(d) \/ V!Complete(d) \/ V!LinkSummaryBestEffort(d) \/ V!Lose(d)
      PROVE  UNCHANGED <<planned, runs>>
  BY <1>3 DEF V!Begin, V!Complete, V!LinkSummaryBestEffort, V!Lose
<1>4. ASSUME NEW s \in V!Runs, V!Appear(s) \/ V!Expire(s)
      PROVE  UNCHANGED <<planned, runs>>
  BY <1>4 DEF V!Appear, V!Expire
<1> QED
  BY <1>1, <1>2, <1>3, <1>4 DEF V!Next

(* Ran holds in every state of the validation.                             *)
THEOREM RanAlways ==
  ASSUME V!ValidationAssumption
  PROVE  V!Spec => []Ran
<1>1. V!Init => Ran
  BY DEF V!Init, Ran, V!NewRun
<1>2. ValidationSound /\ Ran /\ [V!Next]_V!vars => Ran'
  <2>1. ValidationSound /\ Ran /\ V!Next => Ran'
    BY RanNext
  <2>2. Ran /\ UNCHANGED V!vars => Ran'
    BY DEF Ran, V!vars
  <2> QED
    BY <2>1, <2>2
<1> QED
  BY <1>1, <1>2, ValidationSoundAlways, PTL DEF V!Spec

-----------------------------------------------------------------------------
LEMMA ValidationPromises ==
  ASSUME V!ValidationAssumption, ValidationSound, Ran
  PROVE  V!TypeOK /\ V!Accounted /\ V!VerdictIsEarned
<1>1. /\ V!TypeOK /\ OwnerSound /\ LiveOnes /\ Recorded
      /\ \A r \in V!Runs : RunSound(r, runs[r], sandboxes, touched[r])
  BY DEF ValidationSound
<1> DEFINE d == reservation.owner
           run(k) == runs[<<d, k>>]
<1>2. reservation.status # None =>
        /\ d \in Deliveries /\ d # None /\ reservation.status = V!Status(d)
        /\ \A k \in V!Kinds : <<d, k>> \in V!Runs
        /\ accepted => \A k \in V!Kinds : run(k).step = "done"
  BY <1>1 DEF OwnerSound, V!TypeOK, V!Reservation, V!Runs
<1>3. ASSUME reservation.status \notin {None, "cleanup_failed"}, NEW k \in V!Kinds
      PROVE  AsFew(V!Labelled(k), LateOnes(k))
  <2>1. CASE ~accepted
    <3>1. V!Labelled(k) = {}
      BY <1>1, <2>1 DEF OwnerSound, Untouched, V!Labelled, V!Runs
    <3>2. PICK s : AsFew(V!Labelled(k) \ {s}, LateOnes(k))
      BY <1>1, <1>3 DEF LiveOnes
    <3>3. V!Labelled(k) \subseteq V!Labelled(k) \ {s}
      BY <3>1
    <3> QED
      BY <3>2, <3>3, FewerAsFew
  <2>2. CASE accepted
    <3>1. run(k).cleaned
      BY <1>2, <1>3, <2>2 DEF V!Status
    <3>2. RunSound(<<d, k>>, run(k), sandboxes, touched[<<d, k>>])
      BY <1>1, <1>2, <1>3
    <3>3. run(k).sandbox # None /\ sandboxes[run(k).sandbox] = "deleted"
      BY <3>1, <3>2 DEF RunSound
    <3>4. Looked(<<d, k>>) /\ Mine(<<d, k>>) = run(k).sandbox
      BY <3>3 DEF Looked, Mine
    <3>5. AsFew(V!Labelled(k) \ {run(k).sandbox}, LateOnes(k))
      BY <1>1, <1>2, <1>3, <3>4 DEF LiveOnes
    <3>6. V!Labelled(k) \subseteq V!Labelled(k) \ {run(k).sandbox}
      BY <3>3 DEF V!Labelled
    <3> QED
      BY <3>5, <3>6, FewerAsFew
  <2> QED
    BY <2>1, <2>2
<1>4. V!Accounted
  <2>1. ASSUME reservation.status \notin {None, "cleanup_failed"}, NEW k \in V!Kinds
        PROVE  V!Cardinality(V!Labelled(k)) <= V!Cardinality({s \in late : s[2] = k})
    BY <1>3, <2>1 DEF AsFew, LateOnes, V!Cardinality, Cardinality
  <2> QED
    BY <2>1 DEF V!Accounted
<1>5. summaries \subseteq {reservation.status}
  BY <1>1 DEF Recorded
<1>6. ASSUME reservation.status \in {"baseline_already_passed", "inconclusive",
                                     "verified", "candidate_failed"}
      PROVE  /\ \A k \in V!Kinds : /\ touched[<<d, k>>] = {<<d, k>>}
                                   /\ sandboxes[<<d, k>>] = "deleted"
                                   /\ runs[<<d, k>>].commands # "none" <=> k \in planned
             /\ reservation.status = "baseline_already_passed" <=>
                  runs[<<d, "baseline">>].commands \in {"none", "passed"}
             /\ reservation.status \notin {"verified", "candidate_failed"}
  <2>1. reservation.status # None
    BY <1>6 DEF V!ValidationAssumption, V!Statuses
  <2>2. accepted /\ \A k \in V!Kinds : run(k).cleaned /\ V!TerminalClass(run(k)) # "infrastructure_failed"
    BY <1>2, <1>6, <2>1 DEF V!Status
  <2>3. ASSUME NEW k \in V!Kinds
        PROVE  /\ touched[<<d, k>>] = {<<d, k>>} /\ sandboxes[<<d, k>>] = "deleted"
               /\ run(k).commands # "none" <=> k \in planned
               /\ run(k) \in V!Run
    <3>1. ~run(k).infrastructure /\ run(k).step = "done" /\ run(k).cleaned
      BY <1>2, <2>1, <2>2 DEF V!TerminalClass
    <3>2. <<d, k>> \in V!Runs /\ RunSound(<<d, k>>, run(k), sandboxes, touched[<<d, k>>])
      BY <1>1, <1>2, <2>1
    <3>3. run(k).commands # "none" <=> k \in planned
      BY <3>1, <3>2 DEF Ran
    <3> QED
      BY <3>1, <3>2, <3>3 DEF RunSound
  <2>4. \A k \in V!Kinds :
          V!TerminalClass(run(k)) = IF run(k).commands \in {"none", "passed"} THEN "passed"
                                                                          ELSE "inconclusive"
    <3> SUFFICES ASSUME NEW k \in V!Kinds
                 PROVE  V!TerminalClass(run(k)) =
                          IF run(k).commands \in {"none", "passed"} THEN "passed" ELSE "inconclusive"
      OBVIOUS
    <3>1. run(k).commands \in {"none", "passed", "failed", "timed_out"}
      BY <2>3 DEF V!Run
    <3> QED
      BY <2>2, <3>1 DEF V!TerminalClass, V!ControlCanaryPassed
  <2>5. reservation.status = IF run("baseline").commands \in {"none", "passed"}
                             THEN "baseline_already_passed" ELSE "inconclusive"
    BY <1>2, <2>1, <2>2, <2>4 DEF V!Status, V!Kinds
  <2> QED
    BY <2>3, <2>5
<1> QED
  BY <1>1, <1>4, <1>5, <1>6 DEF V!VerdictIsEarned

-----------------------------------------------------------------------------
(* What a run of the effect closes over is what its request asks with, and *)
(* what it has shown.                                                      *)
Closure ==
  [run : P!Runs, cursor : {None} \union 0..MaxVersion, etag : {None} \union P!Bodies,
   hasApiData : BOOLEAN, timer : {None, "interval", "backoff", "maximum"}]

PollingSound ==
  /\ version \in 0..MaxVersion /\ pollFailures \in 0..MaxPollFailures
  /\ effect \in Closure
  /\ view \in P!WorkspacePollingState
  /\ polls \in [P!Runs -> {None} \union P!WorkspacePollRequest]
  /\ effect.etag = None <=> ~effect.hasApiData
  /\ polls[effect.run] # None =>
       /\ polls[effect.run].etag = effect.etag /\ polls[effect.run].cursor = effect.cursor
       /\ effect.timer = None
  /\ effect.hasApiData => effect.etag = view.page /\ effect.cursor = view.page.version
  /\ view.phase \in {"live", "partial"} => view.page # None

LEMMA PollingPromises == PollingSound => P!TypeOK /\ P!ShownIsAnswered
BY DEF PollingSound, Closure, P!TypeOK, P!ShownIsAnswered

LEMMA AskSound ==
  ASSUME P!PollingAssumption, PollingSound, P!Rerun \/ P!Poll
  PROVE  PollingSound'
<1>1. /\ effect \in Closure /\ polls \in [P!Runs -> {None} \union P!WorkspacePollRequest]
      /\ UNCHANGED <<version, view, pollFailures>>
  BY DEF PollingSound, P!Rerun, P!Poll
<1>2. PICK run, cursor, etag :
        /\ run \in P!Runs /\ cursor \in {None} \union 0..MaxVersion
        /\ etag \in {None} \union P!Bodies
        /\ effect' \in Closure /\ effect'.run = run /\ effect'.cursor = cursor
        /\ effect'.etag = etag /\ effect'.timer = None
        /\ \/ ~effect'.hasApiData /\ etag = None
           \/ effect'.hasApiData = effect.hasApiData /\ etag = effect.etag /\ cursor = effect.cursor
        /\ polls' = [polls EXCEPT ![run] = P!Request(cursor, etag)]
  <2>1. CASE P!Rerun
    <3>1. effect.run + 1 \in P!Runs
      BY <1>1, <2>1 DEF P!Rerun, P!Runs, Closure, P!PollingAssumption
    <3>2. P!Fresh(effect.run + 1) \in Closure
      BY <3>1 DEF P!Fresh, Closure
    <3> QED
      BY <2>1, <3>1, <3>2 DEF P!Rerun, P!Fresh, P!Ask
  <2>2. CASE P!Poll
    <3>1. /\ effect' = [effect EXCEPT !.timer = None]
          /\ polls' = [polls EXCEPT ![effect.run] = P!Request(effect.cursor, effect.etag)]
      BY <2>2 DEF P!Poll, P!Ask
    <3>2. effect' \in Closure /\ effect'.timer = None /\ effect'.run = effect.run
          /\ effect'.cursor = effect.cursor /\ effect'.etag = effect.etag
          /\ effect'.hasApiData = effect.hasApiData
      BY <1>1, <3>1 DEF Closure
    <3> QED
      BY <1>1, <3>1, <3>2 DEF Closure
  <2> QED
    BY <2>1, <2>2
<1>3. /\ P!Request(cursor, etag) \in P!WorkspacePollRequest
      /\ P!Request(cursor, etag).cursor = cursor /\ P!Request(cursor, etag).etag = etag
  BY <1>2 DEF P!Request, P!WorkspacePollRequest
<1>4. /\ polls' \in [P!Runs -> {None} \union P!WorkspacePollRequest]
      /\ polls'[run] = P!Request(cursor, etag)
  BY <1>1, <1>2, <1>3
<1> QED
  BY <1>1, <1>2, <1>3, <1>4 DEF PollingSound

LEMMA ServeSound ==
  ASSUME P!PollingAssumption, PollingSound, NEW run \in P!Runs, P!Serve(run)
  PROVE  PollingSound'
<1> DEFINE q == polls[run]
           body == [version |-> version, from |-> q.cursor]
           next == [q EXCEPT !.body = body]
<1>1. /\ q \in P!WorkspacePollRequest /\ version \in 0..MaxVersion
      /\ polls' = [polls EXCEPT ![run] = next]
      /\ UNCHANGED <<version, effect, view, pollFailures>>
  BY DEF PollingSound, P!Serve
<1>2. body \in P!Bodies
  BY <1>1 DEF P!Bodies, P!WorkspacePollRequest
<1>3. next \in P!WorkspacePollRequest /\ next.etag = q.etag /\ next.cursor = q.cursor
  BY <1>1, <1>2 DEF P!WorkspacePollRequest
<1>4. q # None
  BY <1>1 DEF P!PollingAssumption
<1> HIDE DEF next
<1>5. /\ polls' \in [P!Runs -> {None} \union P!WorkspacePollRequest] /\ polls'[run] = next
      /\ \A r \in P!Runs : r # run => polls'[r] = polls[r]
  BY <1>1, <1>3 DEF PollingSound
<1>6. effect.run \in P!Runs
  BY DEF PollingSound, Closure
<1>7. polls'[effect.run] # None =>
        /\ polls'[effect.run].etag = effect.etag /\ polls'[effect.run].cursor = effect.cursor
        /\ effect.timer = None
  BY <1>3, <1>4, <1>5, <1>6 DEF PollingSound
<1> QED
  BY <1>1, <1>5, <1>7 DEF PollingSound

(* A request ends: what is left is what the effect and the view become.    *)
LEMMA OverSound ==
  ASSUME P!PollingAssumption, PollingSound, NEW run \in P!Runs,
         polls' = [polls EXCEPT ![run] = None], UNCHANGED version,
         pollFailures' \in 0..MaxPollFailures,
         effect' \in Closure, effect'.run = effect.run, view' \in P!WorkspacePollingState,
         run # effect.run => effect' = effect /\ view' = view,
         effect'.etag = None <=> ~effect'.hasApiData,
         effect'.hasApiData => effect'.etag = view'.page /\ effect'.cursor = view'.page.version,
         view'.phase \in {"live", "partial"} => view'.page # None
  PROVE  PollingSound'
<1>1. /\ polls' \in [P!Runs -> {None} \union P!WorkspacePollRequest] /\ polls'[run] = None
      /\ \A r \in P!Runs : r # run => polls'[r] = polls[r]
  BY DEF PollingSound
<1>2. effect.run \in P!Runs
  BY DEF PollingSound, Closure
<1>3. polls'[effect.run] # None =>
        /\ polls'[effect.run].etag = effect'.etag /\ polls'[effect.run].cursor = effect'.cursor
        /\ effect'.timer = None
  BY <1>1, <1>2 DEF PollingSound
<1> QED
  BY <1>1, <1>3 DEF PollingSound

LEMMA AnswerSound ==
  ASSUME P!PollingAssumption, PollingSound, NEW run \in P!Runs, P!Answer(run)
  PROVE  PollingSound'
<1> DEFINE body == polls[run].body
<1>1. /\ polls[run] \in P!WorkspacePollRequest /\ body \in P!Bodies
      /\ polls' = [polls EXCEPT ![run] = None] /\ UNCHANGED <<version, pollFailures>>
      /\ pollFailures \in 0..MaxPollFailures /\ effect \in Closure
      /\ view \in P!WorkspacePollingState
  BY DEF PollingSound, P!Answer, P!WorkspacePollRequest
<1>2. polls[run] # None /\ body # None
  BY DEF P!Answer
<1>3. CASE ~P!Applies(run)
  <2>1. effect' = effect /\ view' = view
    BY <1>3 DEF P!Answer
  <2> QED
    BY <1>1, <2>1, OverSound DEF PollingSound
<1>4. CASE P!Applies(run) /\ P!NotModified(run, body)
  <2>1. run = effect.run /\ effect.etag = body /\ effect.hasApiData
    BY <1>1, <1>2, <1>4 DEF P!Applies, P!NotModified, PollingSound
  <2>2. effect' = [effect EXCEPT !.timer = "interval"] /\ view' = [view EXCEPT !.phase = P!PhaseOf(view.page)]
    BY <1>4, <2>1 DEF P!NotModified
  <2>3. effect' \in Closure /\ effect'.run = effect.run /\ effect'.etag = effect.etag
        /\ effect'.cursor = effect.cursor /\ effect'.hasApiData = effect.hasApiData
    BY <1>1, <2>2 DEF Closure
  <2>4. view' \in P!WorkspacePollingState /\ view'.page = view.page
    BY <1>1, <2>2 DEF P!WorkspacePollingState, P!PhaseOf
  <2>5. view'.page # None
    BY <1>2, <2>1, <2>4 DEF PollingSound
  <2> QED
    BY <1>1, <2>1, <2>3, <2>4, <2>5, OverSound DEF PollingSound
<1>5. CASE P!Applies(run) /\ P!Updated(run, body)
  <2>1. run = effect.run
    BY <1>5 DEF P!Applies
  <2>2. /\ effect' = [effect EXCEPT !.cursor = body.version, !.etag = body,
                                    !.hasApiData = TRUE, !.timer = "interval"]
        /\ view' = [phase |-> P!PhaseOf(body), page |-> body]
    BY <1>5 DEF P!Updated
  <2>3. body.version \in 0..MaxVersion
    BY <1>1 DEF P!Bodies
  <2> HIDE DEF body
  <2>4. effect' \in Closure /\ effect'.run = effect.run /\ effect'.etag = body
        /\ effect'.cursor = body.version /\ effect'.hasApiData
    BY <1>1, <2>2, <2>3 DEF Closure
  <2>5. view' \in P!WorkspacePollingState /\ view'.page = body
    BY <1>1, <2>2 DEF P!WorkspacePollingState, P!PhaseOf
  <2> QED
    BY <1>1, <1>2, <2>1, <2>4, <2>5, OverSound
<1> QED
  BY <1>3, <1>4, <1>5 DEF P!Answer

LEMMA FailSound ==
  ASSUME P!PollingAssumption, PollingSound, NEW run \in P!Runs, P!Fail(run)
  PROVE  PollingSound'
<1>1. /\ polls' = [polls EXCEPT ![run] = None] /\ UNCHANGED version
      /\ pollFailures' \in 0..MaxPollFailures
      /\ effect \in Closure /\ view \in P!WorkspacePollingState
  BY DEF PollingSound, P!Fail, P!PollingAssumption
<1>2. CASE ~P!Applies(run)
  <2>1. effect' = effect /\ view' = view
    BY <1>2 DEF P!Fail
  <2> QED
    BY <1>1, <2>1, OverSound DEF PollingSound
<1>3. CASE P!Applies(run)
  <2>1. PICK timer \in {"backoff", "maximum"}, phase \in {"stale", "error"} :
          /\ effect' = [effect EXCEPT !.timer = timer]
          /\ view' = [view EXCEPT !.phase = phase]
    <3>1. PICK retryable \in BOOLEAN :
            /\ effect' = [effect EXCEPT !.timer = IF retryable THEN "backoff" ELSE "maximum"]
            /\ view' = [view EXCEPT !.phase = IF effect.hasApiData THEN "stale" ELSE "error"]
      BY <1>3 DEF P!Fail
    <3> QED
      BY <3>1
  <2>2. effect' \in Closure /\ effect'.run = effect.run /\ effect'.etag = effect.etag
        /\ effect'.cursor = effect.cursor /\ effect'.hasApiData = effect.hasApiData
    BY <1>1, <2>1 DEF Closure
  <2>3. view' \in P!WorkspacePollingState /\ view'.page = view.page /\ view'.phase = phase
    BY <1>1, <2>1 DEF P!WorkspacePollingState
  <2> QED
    BY <1>1, <1>3, <2>1, <2>2, <2>3, OverSound DEF PollingSound, P!Applies
<1> QED
  BY <1>2, <1>3

(* PollingSound holds in every state of the polling.                       *)
THEOREM PollingSoundAlways ==
  ASSUME P!PollingAssumption
  PROVE  P!Spec => []PollingSound
<1>1. P!Init => PollingSound
  <2> SUFFICES ASSUME P!Init PROVE PollingSound
    OBVIOUS
  <2>1. 1 \in P!Runs
    BY DEF P!Runs, P!PollingAssumption
  <2>2. effect \in Closure /\ effect.run = 1 /\ effect.etag = None /\ effect.cursor = None
        /\ ~effect.hasApiData /\ effect.timer = None
    BY <2>1 DEF P!Init, P!Fresh, Closure
  <2>3. /\ P!Request(None, None) \in P!WorkspacePollRequest
        /\ P!Request(None, None).etag = None /\ P!Request(None, None).cursor = None
    BY DEF P!Request, P!WorkspacePollRequest
  <2>4. view \in P!WorkspacePollingState /\ view.phase = "loading"
    BY DEF P!Init, P!WorkspacePollingState
  <2>5. /\ polls \in [P!Runs -> {None} \union P!WorkspacePollRequest]
        /\ polls[1] = P!Request(None, None)
    BY <2>1, <2>3 DEF P!Init
  <2>6. version \in 0..MaxVersion /\ pollFailures \in 0..MaxPollFailures
    BY DEF P!Init, P!PollingAssumption
  <2> QED
    BY <2>2, <2>3, <2>4, <2>5, <2>6 DEF PollingSound
<1>2. PollingSound /\ [P!Next]_P!vars => PollingSound'
  <2> SUFFICES ASSUME PollingSound, [P!Next]_P!vars PROVE PollingSound'
    OBVIOUS
  <2>1. CASE UNCHANGED P!vars \/ P!Change
    BY <2>1 DEF PollingSound, P!vars, P!Change, P!PollingAssumption
  <2>2. CASE P!Rerun \/ P!Poll
    BY <2>2, AskSound
  <2>3. CASE \E run \in P!Runs : P!Serve(run) \/ P!Answer(run) \/ P!Fail(run)
    BY <2>3, ServeSound, AnswerSound, FailSound
  <2> QED
    BY <2>1, <2>2, <2>3 DEF P!Next
<1> QED
  BY <1>1, <1>2, PTL DEF P!Spec

-----------------------------------------------------------------------------
(* The rows of the outbox, and what a drain holds: claims, head first.     *)
Failures == O!Failures \union {"none"}

Row == [state : {"none", "pending", "exporting", "failed", "exported", "abandoned"},
        attempt : Nat, due : BOOLEAN, failure : Failures]

Claimed == [row : OutboxRows, attempt : Nat \ {0}]

DrainRecord ==
  [step : {"idle", "export", "mark", "failing"}, queue : Seq(Claimed), failure : Failures]

OutboxTyped ==
  /\ payloads \subseteq OutboxRows /\ traces \subseteq OutboxRows
  /\ rows \in [OutboxRows -> Row]
  /\ drains \in [Drains -> DrainRecord]
  /\ stales \in [OutboxRows -> Nat]
  /\ drainFaults \in 0..MaxDrainFaults

(* A claim that is still the latest of its row is one drain's, and the row *)
(* is exporting, or exported and about to be said to have failed.          *)
LatestClaim(claim, table) == claim.attempt = table[claim.row].attempt

ClaimHeld(claim, i, step, table) ==
  /\ claim.attempt <= table[claim.row].attempt
  /\ LatestClaim(claim, table) =>
       \/ table[claim.row].state = "exporting"
       \/ table[claim.row].state = "exported" /\ i = 1 /\ step = "failing"

DrainSound(drain, table, seen) ==
  /\ drain.step = "idle" <=> drain.queue = <<>>
  /\ drain.step = "idle" => drain.failure = "none"
  /\ drain.step = "failing" => drain.failure # "none"
  /\ drain.step = "mark" => drain.queue[1].row \in seen
  /\ \A i \in DOMAIN drain.queue : ClaimHeld(drain.queue[i], i, drain.step, table)

ClaimsSound ==
  /\ \A d \in Drains : DrainSound(drains[d], rows, traces)
  /\ \A d, e \in Drains : \A i \in DOMAIN drains[d].queue, j \in DOMAIN drains[e].queue :
       /\ drains[d].queue[i].row = drains[e].queue[j].row
       /\ drains[d].queue[i].attempt = drains[e].queue[j].attempt
       => d = e /\ i = j

(* A queue nobody else has come for, or may; the claims in it have yet to  *)
(* end in an outcome or in a fault.                                        *)
Undisturbed(claims, table) ==
  \A i \in DOMAIN claims : LatestClaim(claims[i], table) /\ ~table[claims[i].row].due

Guards(claims, table, r) ==
  /\ Undisturbed(claims, table)
  /\ \E i \in DOMAIN claims : claims[i].row = r

Guarded(r) == \E d \in Drains : Guards(drains[d].queue, rows, r)

RowFits(r, row, stale, seen, count) ==
  /\ row.attempt <= MaximumAttempts + stale
  /\ row.state \in {"none", "pending"} => row.attempt = 0
  /\ row.state = "failed" => row.attempt < MaximumAttempts
  /\ row.state = "exported" => r \in seen
  /\ row.state = "abandoned" =>
       \/ row.failure = "final"
       \/ row.attempt >= MaximumAttempts
  /\ stale <= count

RowsSound ==
  \A r \in OutboxRows :
    /\ RowFits(r, rows[r], stales[r], traces, drainFaults)
    /\ rows[r].state = "exporting" /\ ~Guarded(r) => stales[r] < drainFaults

OutboxSound == OutboxTyped /\ ClaimsSound /\ RowsSound

-----------------------------------------------------------------------------
(* A drain d moves: what is left of its queue is what follows its first    *)
(* skip claims, and the row h of the first may become another.             *)
Follows(next, claims, skip) ==
  \A i \in DOMAIN next : i + skip \in DOMAIN claims /\ next[i] = claims[i + skip]

DrainGoes(d, next, skip, h, row) ==
  LET claims == drains[d].queue IN
  /\ UNCHANGED <<payloads, stales>> /\ traces \subseteq traces' /\ traces' \subseteq OutboxRows
  /\ drainFaults' \in 0..MaxDrainFaults /\ drainFaults <= drainFaults'
  /\ claims # <<>> /\ h = claims[1].row
  /\ drains' = [drains EXCEPT ![d] = next] /\ next \in DrainRecord
  /\ rows' = [rows EXCEPT ![h] = row] /\ row \in Row
  /\ skip \in {0, 1} /\ Follows(next.queue, claims, skip)
  /\ next.step = "idle" <=> next.queue = <<>>
  /\ next.step = "idle" => next.failure = "none"
  /\ next.step = "failing" => next.failure # "none"
  /\ next.step = "mark" => next.queue[1].row \in traces'

RowBecomes(d, next, skip, h, row) ==
  LET claims == drains[d].queue IN
  /\ row.attempt = rows[h].attempt
  /\ row # rows[h] =>
       LatestClaim(claims[1], rows) /\ ~row.due /\ row.state \in {"exported", "failed", "abandoned"}
  /\ skip = 0 /\ next.queue # <<>> /\ LatestClaim(claims[1], rows) =>
       \/ row.state = "exporting"
       \/ row.state = "exported" /\ next.step = "failing"
  /\ RowFits(h, row, stales[h], traces', drainFaults')
  /\ drainFaults' = drainFaults /\ Undisturbed(claims, rows) =>
       /\ \A j \in DOMAIN claims : j > skip => j - skip \in DOMAIN next.queue
       /\ skip = 1 => row.state # "exporting"

LEMMA InSeq ==
  ASSUME NEW S, NEW s \in Seq(S)
  PROVE  /\ \A i \in DOMAIN s : i \in Nat \ {0} /\ i <= Len(s) /\ s[i] \in S
         /\ s # <<>> => 1 \in DOMAIN s
  OBVIOUS

LEMMA DrainMoves ==
  ASSUME O!OutboxAssumption, OutboxSound, NEW d \in Drains, NEW next, NEW skip, NEW h, NEW row,
         DrainGoes(d, next, skip, h, row), RowBecomes(d, next, skip, h, row)
  PROVE  OutboxSound'
<1> DEFINE claims == drains[d].queue
<1>1. /\ drains \in [Drains -> DrainRecord] /\ rows \in [OutboxRows -> Row]
      /\ claims \in Seq(Claimed) /\ claims # <<>> /\ h = claims[1].row
      /\ next.queue \in Seq(Claimed)
  BY DEF OutboxSound, OutboxTyped, DrainGoes, DrainRecord
<1>2. /\ 1 \in DOMAIN claims /\ h \in OutboxRows /\ claims[1] \in Claimed
      /\ \A i \in DOMAIN claims : i \in Nat \ {0} /\ claims[i] \in Claimed
      /\ \A i \in DOMAIN next.queue : i \in Nat \ {0} /\ next.queue[i] \in Claimed
  <2>1. 1 \in DOMAIN claims /\ \A i \in DOMAIN claims : i \in Nat \ {0} /\ claims[i] \in Claimed
    BY <1>1, InSeq
  <2>2. \A i \in DOMAIN next.queue : i \in Nat \ {0} /\ next.queue[i] \in Claimed
    BY <1>1, InSeq
  <2>3. h \in OutboxRows
    BY <1>1, <2>1 DEF Claimed
  <2> QED
    BY <2>1, <2>2, <2>3
<1>3. /\ drains'[d] = next /\ \A e \in Drains : e # d => drains'[e] = drains[e]
      /\ rows'[h] = row /\ \A r \in OutboxRows : r # h => rows'[r] = rows[r]
      /\ \A r \in OutboxRows : rows'[r].attempt = rows[r].attempt
  BY <1>1, <1>2 DEF DrainGoes, RowBecomes
<1>4. OutboxTyped'
  BY <1>1, <1>2, <1>3 DEF OutboxSound, OutboxTyped, DrainGoes
<1>5. \A e \in Drains : \A i \in DOMAIN drains[e].queue :
        /\ drains[e].queue[i] \in Claimed /\ drains[e].queue[i].row \in OutboxRows
        /\ i \in Nat \ {0}
  <2>1. \A e \in Drains : drains[e].queue \in Seq(Claimed)
    BY <1>1 DEF DrainRecord
  <2>2. \A e \in Drains : \A i \in DOMAIN drains[e].queue :
          i \in Nat \ {0} /\ drains[e].queue[i] \in Claimed
    BY <2>1, InSeq
  <2> QED
    BY <2>2 DEF Claimed
<1>6. /\ \A e \in Drains : DrainSound(drains[e], rows, traces)
      /\ \A e, f \in Drains : \A i \in DOMAIN drains[e].queue, j \in DOMAIN drains[f].queue :
           /\ drains[e].queue[i].row = drains[f].queue[j].row
           /\ drains[e].queue[i].attempt = drains[f].queue[j].attempt
           => e = f /\ i = j
  BY DEF OutboxSound, ClaimsSound
(* No other claim on h than the first of d is the latest of a row that     *)
(* becomes another.                                                        *)
<1>7. ASSUME NEW e \in Drains, NEW i \in DOMAIN drains[e].queue, e # d \/ i # 1
      PROVE  LatestClaim(drains[e].queue[i], rows') =>
               /\ LatestClaim(drains[e].queue[i], rows)
               /\ rows'[drains[e].queue[i].row] = rows[drains[e].queue[i].row]
  <2>1. LatestClaim(drains[e].queue[i], rows') => LatestClaim(drains[e].queue[i], rows)
    BY <1>3, <1>5 DEF LatestClaim
  <2>2. drains[e].queue[i].row = h /\ LatestClaim(drains[e].queue[i], rows)
          /\ LatestClaim(claims[1], rows) => e = d /\ i = 1
    BY <1>1, <1>2, <1>6 DEF LatestClaim
  <2> QED
    BY <1>2, <1>3, <1>5, <1>7, <2>1, <2>2 DEF RowBecomes
<1>8. ASSUME NEW e \in Drains, NEW i \in DOMAIN drains[e].queue, e # d \/ i # 1, NEW j, NEW step,
             j = 1 /\ step = "failing" <=> i = 1 /\ drains[e].step = "failing"
      PROVE  ClaimHeld(drains[e].queue[i], j, step, rows')
  <2>1. ClaimHeld(drains[e].queue[i], i, drains[e].step, rows)
    BY <1>6 DEF DrainSound
  <2> QED
    BY <1>3, <1>5, <1>7, <1>8, <2>1 DEF ClaimHeld, LatestClaim
<1>9. ASSUME NEW e \in Drains
      PROVE  DrainSound(drains[e], rows, traces)'
  <2>1. CASE e # d
    <3>1. \A i \in DOMAIN drains[e].queue : ClaimHeld(drains[e].queue[i], i, drains[e].step, rows')
      BY <1>8, <2>1
    <3>2. drains'[e] = drains[e] /\ DrainSound(drains[e], rows, traces)
      BY <1>3, <1>6, <2>1
    <3>3. traces \subseteq traces'
      BY DEF DrainGoes
    <3> QED
      BY <3>1, <3>2, <3>3 DEF DrainSound
  <2>2. CASE e = d
    <3>1. ASSUME NEW i \in DOMAIN next.queue
          PROVE  ClaimHeld(next.queue[i], i, next.step, rows')
      <4>1. i + skip \in DOMAIN claims /\ next.queue[i] = claims[i + skip] /\ skip \in {0, 1}
            /\ i \in Nat \ {0}
        BY <1>2 DEF DrainGoes, Follows
      <4>2. CASE i + skip # 1
        <5>1. ClaimHeld(claims[i + skip], i + skip, drains[d].step, rows)
          BY <1>6, <4>1 DEF DrainSound
        <5>2. i + skip # 1 /\ i + skip \in Nat
          BY <4>1, <4>2
        <5> HIDE DEF claims
        <5>3. LatestClaim(claims[i + skip], rows') =>
                /\ LatestClaim(claims[i + skip], rows)
                /\ rows'[claims[i + skip].row] = rows[claims[i + skip].row]
          BY <1>7, <4>1, <5>2 DEF claims
        <5>4. rows'[claims[i + skip].row].attempt = rows[claims[i + skip].row].attempt
          BY <1>2, <1>3, <4>1 DEF Claimed
        <5> QED
          BY <4>1, <5>1, <5>2, <5>3, <5>4 DEF ClaimHeld, LatestClaim
      <4>3. CASE i + skip = 1
        <5>1. i = 1 /\ skip = 0 /\ next.queue[i] = claims[1] /\ next.queue # <<>>
          BY <1>1, <4>1, <4>3
        <5>2. claims[1].attempt <= rows[h].attempt
          BY <1>1, <1>2, <1>6 DEF DrainSound, ClaimHeld
        <5> QED
          BY <1>1, <1>2, <1>3, <5>1, <5>2 DEF RowBecomes, ClaimHeld, LatestClaim
      <4> QED
        BY <4>2, <4>3
    <3> QED
      BY <1>3, <2>2, <3>1 DEF DrainSound, DrainGoes
  <2> QED
    BY <2>1, <2>2
<1>10. ASSUME NEW e \in Drains, NEW f \in Drains,
              NEW i \in DOMAIN drains'[e].queue, NEW j \in DOMAIN drains'[f].queue,
              drains'[e].queue[i].row = drains'[f].queue[j].row,
              drains'[e].queue[i].attempt = drains'[f].queue[j].attempt
       PROVE  e = f /\ i = j
  <2> DEFINE at(x, k) == IF x = d THEN k + skip ELSE k
  <2>1. \A x \in Drains : \A k \in DOMAIN drains'[x].queue :
          /\ at(x, k) \in DOMAIN drains[x].queue /\ k \in Nat
          /\ drains'[x].queue[k] = drains[x].queue[at(x, k)]
    <3>1. \A k \in DOMAIN next.queue :
            k \in Nat /\ k + skip \in DOMAIN claims /\ next.queue[k] = claims[k + skip]
      BY <1>2 DEF DrainGoes, Follows
    <3>2. \A x \in Drains : x # d => \A k \in DOMAIN drains'[x].queue :
            k \in Nat /\ k \in DOMAIN drains[x].queue /\ drains'[x].queue[k] = drains[x].queue[k]
      BY <1>3, <1>5
    <3> QED
      BY <1>3, <3>1, <3>2
  <2>2. at(e, i) \in DOMAIN drains[e].queue /\ at(f, j) \in DOMAIN drains[f].queue
        /\ drains'[e].queue[i] = drains[e].queue[at(e, i)] /\ i \in Nat
        /\ drains'[f].queue[j] = drains[f].queue[at(f, j)] /\ j \in Nat
    BY <2>1
  <2>3. e = f /\ at(e, i) = at(f, j)
    <3> HIDE DEF at
    <3> QED
      BY <1>6, <1>10, <2>2
  <2> QED
    BY <2>2, <2>3 DEF DrainGoes
<1>11. ClaimsSound'
  BY <1>9, <1>10 DEF ClaimsSound
<1>12. ASSUME NEW r \in OutboxRows
       PROVE  RowFits(r, rows[r], stales[r], traces, drainFaults)'
  <2>1. RowFits(r, rows[r], stales[r], traces, drainFaults)
    BY DEF OutboxSound, RowsSound
  <2>2. stales[r] \in Nat /\ drainFaults \in Nat /\ drainFaults' \in Nat /\ drainFaults <= drainFaults'
    BY DEF OutboxSound, OutboxTyped, DrainGoes
  <2>3. CASE r = h
    BY <1>3, <2>3 DEF DrainGoes, RowBecomes
  <2>4. CASE r # h
    BY <1>3, <2>1, <2>2, <2>4 DEF DrainGoes, RowFits
  <2> QED
    BY <2>3, <2>4
<1>13. ASSUME NEW r \in OutboxRows, rows'[r].state = "exporting", ~Guarded(r)'
       PROVE  stales'[r] < drainFaults'
  <2>1. /\ stales[r] \in Nat /\ drainFaults \in Nat /\ drainFaults' \in Nat
        /\ drainFaults <= drainFaults' /\ stales' = stales /\ stales[r] <= drainFaults
        /\ rows[r].state = "exporting" /\ ~Guarded(r) => stales[r] < drainFaults
    BY DEF OutboxSound, OutboxTyped, DrainGoes, RowsSound, RowFits
  <2>2. CASE drainFaults' # drainFaults
    BY <2>1, <2>2
  <2>3. CASE drainFaults' = drainFaults
    <3>1. rows'[r] = rows[r]
      BY <1>2, <1>3, <1>13 DEF RowBecomes
    <3>2. SUFFICES ASSUME Guarded(r) PROVE FALSE
      BY <1>13, <2>1, <2>3, <3>1
    <3>3. PICK e \in Drains : Guards(drains[e].queue, rows, r)
      BY <3>2 DEF Guarded
    <3>4. \A x \in OutboxRows : ~rows[x].due => ~rows'[x].due
      BY <1>2, <1>3 DEF RowBecomes
    <3>5. Undisturbed(drains[e].queue, rows')
      BY <1>3, <1>5, <3>3, <3>4 DEF Guards, Undisturbed, LatestClaim
    <3>6. PICK i \in DOMAIN drains[e].queue : drains[e].queue[i].row = r
      BY <3>3 DEF Guards
    <3>7. CASE e # d
      BY <1>3, <1>13, <3>5, <3>6, <3>7 DEF Guarded, Guards
    <3>8. CASE e = d
      <4>1. /\ \A j \in DOMAIN claims : j > skip => j - skip \in DOMAIN next.queue
            /\ skip = 1 => row.state # "exporting"
        BY <2>3, <3>3, <3>8 DEF Guards, RowBecomes
      <4>2. i > skip
        BY <1>1, <1>2, <1>3, <1>13, <3>6, <3>8, <4>1 DEF DrainGoes
      <4>3. i - skip \in DOMAIN next.queue /\ i - skip + skip = i
        BY <1>2, <3>6, <3>8, <4>1, <4>2 DEF DrainGoes
      <4>4. next.queue[i - skip] = claims[i]
        BY <4>3 DEF DrainGoes, Follows
      <4>5. Undisturbed(next.queue, rows')
        <5>1. \A k \in DOMAIN next.queue : k + skip \in DOMAIN claims /\ next.queue[k] = claims[k + skip]
          BY DEF DrainGoes, Follows
        <5>2. \A k \in DOMAIN claims : LatestClaim(claims[k], rows') /\ ~rows'[claims[k].row].due
          BY <3>5, <3>8 DEF Undisturbed
        <5> QED
          BY <5>1, <5>2 DEF Undisturbed
      <4> QED
        BY <1>3, <1>13, <3>6, <3>8, <4>3, <4>4, <4>5 DEF Guarded, Guards
    <3> QED
      BY <3>7, <3>8
  <2> QED
    BY <2>2, <2>3
<1>14. RowsSound'
  BY <1>12, <1>13 DEF RowsSound
<1> QED
  BY <1>4, <1>11, <1>14 DEF OutboxSound

(* A drain that is at work, and the claim it works on.                     *)
LEMMA DrainAtWork ==
  ASSUME OutboxSound, NEW d \in Drains, drains[d].step # "idle"
  PROVE  LET claims == drains[d].queue IN
         /\ drains[d] \in DrainRecord /\ claims \in Seq(Claimed) /\ claims # <<>>
         /\ O!Head1(d) = claims[1] /\ claims[1] \in Claimed /\ 1 \in DOMAIN claims
         /\ O!Latest(d) <=> LatestClaim(claims[1], rows)
         /\ claims[1].row \in OutboxRows /\ rows[claims[1].row] \in Row
         /\ ClaimHeld(claims[1], 1, drains[d].step, rows)
         /\ RowFits(claims[1].row, rows[claims[1].row], stales[claims[1].row], traces, drainFaults)
         /\ stales[claims[1].row] \in Nat /\ drainFaults \in Nat
<1> DEFINE claims == drains[d].queue
<1>1. drains[d] \in DrainRecord /\ claims \in Seq(Claimed) /\ claims # <<>>
  BY DEF OutboxSound, OutboxTyped, ClaimsSound, DrainSound, DrainRecord
<1>2. 1 \in DOMAIN claims /\ claims[1] \in Claimed
  BY <1>1, InSeq
<1>3. O!Head1(d) = claims[1]
  BY <1>1 DEF O!Head1
<1>4. claims[1].row \in OutboxRows
  BY <1>2 DEF Claimed
<1>5. O!Latest(d) <=> LatestClaim(claims[1], rows)
  BY <1>2, <1>3 DEF O!Latest, LatestClaim, Claimed
<1>6. ClaimHeld(claims[1], 1, drains[d].step, rows)
  BY <1>2 DEF OutboxSound, ClaimsSound, DrainSound
<1>7. /\ rows[claims[1].row] \in Row /\ stales[claims[1].row] \in Nat /\ drainFaults \in Nat
      /\ RowFits(claims[1].row, rows[claims[1].row], stales[claims[1].row], traces, drainFaults)
  BY <1>4 DEF OutboxSound, OutboxTyped, RowsSound
<1> QED
  BY <1>1, <1>2, <1>3, <1>4, <1>5, <1>6, <1>7

LEMMA AllFollow ==
  ASSUME NEW claims \in Seq(Claimed)
  PROVE  /\ Follows(claims, claims, 0)
         /\ \A j \in DOMAIN claims : j > 0 => j - 0 \in DOMAIN claims
BY InSeq DEF Follows

LEMMA RestFollows ==
  ASSUME NEW claims \in Seq(Claimed), claims # <<>>
  PROVE  /\ Tail(claims) \in Seq(Claimed)
         /\ Follows(Tail(claims), claims, 1)
         /\ \A j \in DOMAIN claims : j > 1 => j - 1 \in DOMAIN Tail(claims)
         /\ Len(claims) = 1 => \A j \in DOMAIN claims : ~(j > 1)
         /\ Tail(claims) = <<>> <=> Len(claims) = 1
<1>1. Tail(claims) \in Seq(Claimed)
  OBVIOUS
<1>2. /\ Len(claims) \in Nat \ {0} /\ DOMAIN claims = 1..Len(claims)
      /\ Len(Tail(claims)) = Len(claims) - 1 /\ DOMAIN Tail(claims) = 1..(Len(claims) - 1)
      /\ \A i \in 1..(Len(claims) - 1) : Tail(claims)[i] = claims[i + 1]
  OBVIOUS
<1>3. \A s \in Seq(Claimed) : s = <<>> <=> Len(s) = 0
  OBVIOUS
<1>4. Follows(Tail(claims), claims, 1)
  BY <1>2 DEF Follows
<1>5. \A j \in DOMAIN claims : j > 1 => j - 1 \in DOMAIN Tail(claims)
  BY <1>2
<1>6. Tail(claims) = <<>> <=> Len(claims) = 1
  <2>1. Tail(claims) = <<>> <=> Len(Tail(claims)) = 0
    BY <1>1, <1>3
  <2> QED
    BY <1>2, <2>1
<1> QED
  BY <1>1, <1>2, <1>4, <1>5, <1>6

(* How a drain, its fault count and the row of its first claim move.       *)
StepsTo(d, step, failure) ==
  /\ drains' = [drains EXCEPT ![d] = [drains[d] EXCEPT !.step = step, !.failure = failure]]
  /\ step \in {"mark", "failing"} /\ failure \in Failures
  /\ step = "failing" => failure # "none"
  /\ step = "mark" => drains[d].queue[1].row \in traces'

RowTo(h, row) ==
  rows' = [rows EXCEPT ![h] = row] /\ row \in Row /\ row.attempt = rows[h].attempt

PerhapsFault == drainFaults' \in 0..MaxDrainFaults /\ drainFaults <= drainFaults'

SeenMore == traces \subseteq traces' /\ traces' \subseteq OutboxRows

StepRow(d, step, row) ==
  \/ row = rows[drains[d].queue[1].row] /\ drains[d].step # "failing"
  \/ /\ LatestClaim(drains[d].queue[1], rows) /\ ~row.due /\ row.state = "exported"
     /\ step = "failing" /\ drains[d].queue[1].row \in traces

EndRow(d, row) ==
  \/ row = rows[drains[d].queue[1].row]
  \/ /\ LatestClaim(drains[d].queue[1], rows) /\ ~row.due
     /\ row.state \in {"exported", "failed", "abandoned"}
     /\ RowFits(drains[d].queue[1].row, row, stales[drains[d].queue[1].row], traces, drainFaults)

(* Only the step of a drain changes, and perhaps it was a fault.           *)
LEMMA StepSound ==
  ASSUME O!OutboxAssumption, OutboxSound, NEW d \in Drains, drains[d].step # "idle",
         payloads' = payloads, stales' = stales, SeenMore, PerhapsFault,
         NEW step, NEW failure, StepsTo(d, step, failure),
         NEW h, h = drains[d].queue[1].row, NEW row, RowTo(h, row), StepRow(d, step, row)
  PROVE  OutboxSound'
<1> DEFINE claims == drains[d].queue
           next == [drains[d] EXCEPT !.step = step, !.failure = failure]
<1>0. h = claims[1].row
  OBVIOUS
<1>1. /\ drains[d] \in DrainRecord /\ claims \in Seq(Claimed) /\ claims # <<>>
      /\ claims[1] \in Claimed /\ h \in OutboxRows /\ rows[h] \in Row
      /\ ClaimHeld(claims[1], 1, drains[d].step, rows)
      /\ RowFits(h, rows[h], stales[h], traces, drainFaults)
      /\ stales[h] \in Nat /\ drainFaults \in Nat
  BY <1>0, DrainAtWork
<1>2. /\ next \in DrainRecord /\ next.step = step /\ next.failure = failure
      /\ next.queue = claims
  BY <1>1 DEF DrainRecord, StepsTo
<1>3. drains' = [drains EXCEPT ![d] = next] /\ rows' = [rows EXCEPT ![h] = row]
      /\ row \in Row /\ row.attempt = rows[h].attempt
  BY DEF StepsTo, RowTo
<1>4. RowFits(h, row, stales[h], traces', drainFaults')
  <2>1. /\ row = rows[h] \/ (row.state = "exported" /\ h \in traces)
        /\ row.attempt = rows[h].attempt
    BY <1>0, <1>3 DEF StepRow
  <2>2. traces \subseteq traces' /\ drainFaults' \in Nat /\ drainFaults <= drainFaults'
    BY DEF SeenMore, PerhapsFault
  <2> QED
    BY <1>1, <2>1, <2>2 DEF RowFits, Row
<1>5. Follows(claims, claims, 0) /\ \A j \in DOMAIN claims : j > 0 => j - 0 \in DOMAIN claims
  BY <1>1, AllFollow
<1> HIDE DEF next
<1>6. DrainGoes(d, next, 0, h, row)
  BY <1>0, <1>1, <1>2, <1>3, <1>5 DEF DrainGoes, StepsTo, SeenMore, PerhapsFault
<1>7. RowBecomes(d, next, 0, h, row)
  <2>1. row # rows[h] => LatestClaim(claims[1], rows) /\ ~row.due /\ row.state = "exported"
    BY <1>0 DEF StepRow
  <2>2. LatestClaim(claims[1], rows) =>
          row.state = "exporting" \/ (row.state = "exported" /\ next.step = "failing")
    BY <1>0, <1>1, <1>2 DEF ClaimHeld, StepRow, StepsTo
  <2>3. \A j \in DOMAIN claims : j > 0 => j - 0 \in DOMAIN next.queue
    BY <1>2, <1>5
  <2> QED
    BY <1>4, <2>1, <2>2, <2>3, <1>3 DEF RowBecomes
<1> QED
  BY <1>6, <1>7, DrainMoves

(* The first claim ends with an outcome, or the drain ends with all it     *)
(* holds: with a fault, or because it was disturbed.                       *)
Ends(d, next, row) ==
  LET claims == drains[d].queue IN
  \/ next = O!Rest(d) /\ row.state # "exporting"
  \/ /\ next = O!NoDrain
     /\ drainFaults' # drainFaults \/ ~LatestClaim(claims[1], rows)

LEMMA ClaimEnds ==
  ASSUME O!OutboxAssumption, OutboxSound, NEW d \in Drains, drains[d].step # "idle",
         payloads' = payloads, stales' = stales, traces' = traces, PerhapsFault,
         NEW next, O!Go(d, next),
         NEW h, h = drains[d].queue[1].row, NEW row, RowTo(h, row), EndRow(d, row),
         Ends(d, next, row)
  PROVE  OutboxSound'
<1> DEFINE claims == drains[d].queue
<1>0. /\ h = claims[1].row /\ drains' = [drains EXCEPT ![d] = next]
      /\ rows' = [rows EXCEPT ![h] = row] /\ row \in Row /\ row.attempt = rows[h].attempt
  BY DEF O!Go, RowTo
<1>1. /\ drains[d] \in DrainRecord /\ claims \in Seq(Claimed) /\ claims # <<>>
      /\ claims[1] \in Claimed /\ h \in OutboxRows /\ rows[h] \in Row
      /\ RowFits(h, rows[h], stales[h], traces, drainFaults)
      /\ stales[h] \in Nat /\ drainFaults \in Nat /\ 1 \in DOMAIN claims
  BY <1>0, DrainAtWork
<1>2. RowFits(h, row, stales[h], traces', drainFaults')
  <2>1. RowFits(h, row, stales[h], traces, drainFaults)
    BY <1>0, <1>1 DEF EndRow
  <2>2. traces' = traces /\ drainFaults' \in Nat /\ drainFaults <= drainFaults'
    BY DEF PerhapsFault
  <2> QED
    BY <1>1, <2>1, <2>2 DEF RowFits
<1>3. /\ Tail(claims) \in Seq(Claimed) /\ Follows(Tail(claims), claims, 1)
      /\ \A j \in DOMAIN claims : j > 1 => j - 1 \in DOMAIN Tail(claims)
      /\ Len(claims) = 1 => \A j \in DOMAIN claims : ~(j > 1)
      /\ Tail(claims) = <<>> <=> Len(claims) = 1
  BY <1>1, RestFollows
<1>4. O!NoDrain \in DrainRecord /\ O!NoDrain.step = "idle" /\ O!NoDrain.queue = <<>>
      /\ O!NoDrain.failure = "none"
  <2>1. <<>> \in Seq(Claimed)
    OBVIOUS
  <2> QED
    BY <2>1 DEF O!NoDrain, DrainRecord, Failures
<1>5. /\ next \in DrainRecord /\ Follows(next.queue, claims, 1)
      /\ next.step = "idle" <=> next.queue = <<>>
      /\ next.step = "idle" => next.failure = "none"
      /\ next.step \in {"idle", "export"}
      /\ next = O!Rest(d) => \A j \in DOMAIN claims : j > 1 => j - 1 \in DOMAIN next.queue
  <2>1. CASE next = O!NoDrain /\ (next = O!Rest(d) => Len(claims) = 1)
    <3>1. Follows(<<>>, claims, 1)
      BY DEF Follows
    <3> QED
      BY <1>3, <1>4, <2>1, <3>1
  <2>2. CASE next = O!Rest(d) /\ Len(claims) # 1
    <3>1. next = [drains[d] EXCEPT !.step = "export", !.queue = Tail(claims)]
      BY <2>2 DEF O!Rest
    <3>2. next \in DrainRecord /\ next.step = "export" /\ next.queue = Tail(claims)
      BY <1>1, <1>3, <3>1 DEF DrainRecord
    <3> QED
      BY <1>3, <2>2, <3>2
  <2>3. next = O!Rest(d) /\ Len(claims) = 1 => next = O!NoDrain
    BY DEF O!Rest
  <2>4. next = O!NoDrain /\ next = O!Rest(d) /\ Len(claims) # 1 => FALSE
    <3> SUFFICES ASSUME O!NoDrain = O!Rest(d), Len(claims) # 1 PROVE FALSE
      OBVIOUS
    <3>1. O!NoDrain = [drains[d] EXCEPT !.step = "export", !.queue = Tail(claims)]
      BY DEF O!Rest
    <3>2. O!NoDrain.step = "export"
      BY <1>1, <3>1 DEF DrainRecord
    <3> QED
      BY <1>4, <3>2
  <2> QED
    BY <2>1, <2>2, <2>3, <2>4 DEF Ends
<1>6. DrainGoes(d, next, 1, h, row)
  BY <1>0, <1>1, <1>5 DEF DrainGoes, PerhapsFault, OutboxSound, OutboxTyped
<1>7. RowBecomes(d, next, 1, h, row)
  <2>1. row # rows[h] =>
          LatestClaim(claims[1], rows) /\ ~row.due /\ row.state \in {"exported", "failed", "abandoned"}
    BY <1>0 DEF EndRow
  <2>2. ASSUME drainFaults' = drainFaults, Undisturbed(claims, rows)
        PROVE  /\ \A j \in DOMAIN claims : j > 1 => j - 1 \in DOMAIN next.queue
               /\ row.state # "exporting"
    <3>1. next = O!Rest(d) /\ row.state # "exporting"
      BY <1>1, <2>2 DEF Ends, Undisturbed
    <3> QED
      BY <1>5, <3>1
  <2> QED
    BY <1>2, <2>1, <2>2, <1>0 DEF RowBecomes
<1> QED
  BY <1>6, <1>7, DrainMoves

(* A fault counts once.                                                    *)
LEMMA FaultCounts ==
  ASSUME O!OutboxAssumption, OutboxSound, O!Fault \/ drainFaults' = drainFaults
  PROVE  PerhapsFault /\ (O!Fault => drainFaults' # drainFaults)
BY DEF O!Fault, O!OutboxAssumption, PerhapsFault, OutboxSound, OutboxTyped

LEMMA ExportSound ==
  ASSUME O!OutboxAssumption, OutboxSound, NEW d \in Drains, O!ExportEncryptedTrace(d)
  PROVE  OutboxSound'
<1> DEFINE h == drains[d].queue[1].row
<1>1. drains[d].step = "export" /\ payloads' = payloads /\ rows' = rows /\ stales' = stales
  BY DEF O!ExportEncryptedTrace
<1>2. /\ drains[d] \in DrainRecord /\ O!Head1(d).row = h /\ h \in OutboxRows /\ rows[h] \in Row
      /\ rows \in [OutboxRows -> Row] /\ traces \subseteq OutboxRows
  BY <1>1, DrainAtWork DEF OutboxSound, OutboxTyped
<1>3. RowTo(h, rows[h]) /\ \A step : StepRow(d, step, rows[h])
  BY <1>1, <1>2 DEF RowTo, StepRow
<1>4. CASE /\ traces' = traces \union {O!Head1(d).row}
           /\ O!Go(d, [drains[d] EXCEPT !.step = "mark"]) /\ drainFaults' = drainFaults
  <2>1. [drains[d] EXCEPT !.step = "mark"] =
        [drains[d] EXCEPT !.step = "mark", !.failure = drains[d].failure]
    BY <1>2 DEF DrainRecord
  <2>2. drains[d].failure \in Failures /\ h \in traces'
    BY <1>2, <1>4 DEF DrainRecord
  <2>3. StepsTo(d, "mark", drains[d].failure)
    BY <1>4, <2>1, <2>2 DEF O!Go, StepsTo
  <2>4. SeenMore /\ PerhapsFault
    BY <1>2, <1>4, FaultCounts DEF SeenMore
  <2> QED
    BY <1>1, <1>2, <1>3, <2>3, <2>4, StepSound
<1>5. CASE \E failure \in O!Failures :
             /\ O!Failing(d, failure) /\ O!Fault
             /\ traces' \in {traces, traces \union {O!Head1(d).row}}
  <2>1. PICK failure \in O!Failures :
             /\ O!Failing(d, failure) /\ O!Fault
             /\ traces' \in {traces, traces \union {O!Head1(d).row}}
    BY <1>5
  <2>2. StepsTo(d, "failing", failure)
    BY <2>1 DEF O!Failing, O!Go, StepsTo, Failures, O!Failures
  <2>3. SeenMore /\ PerhapsFault
    BY <1>2, <2>1, FaultCounts DEF SeenMore
  <2> QED
    BY <1>1, <1>2, <1>3, <2>2, <2>3, StepSound
<1> QED
  BY <1>4, <1>5 DEF O!ExportEncryptedTrace

LEMMA MarkExportedSound ==
  ASSUME O!OutboxAssumption, OutboxSound, NEW d \in Drains, O!MarkExported(d)
  PROVE  OutboxSound'
<1> DEFINE h == drains[d].queue[1].row
           old == rows[h]
           marked == [old EXCEPT !.state = "exported", !.due = FALSE]
<1>1. drains[d].step = "mark" /\ payloads' = payloads /\ traces' = traces /\ stales' = stales
  BY DEF O!MarkExported
<1>2. /\ drains[d] \in DrainRecord /\ O!Head1(d).row = h /\ h \in OutboxRows /\ old \in Row
      /\ O!Latest(d) <=> LatestClaim(drains[d].queue[1], rows)
      /\ rows \in [OutboxRows -> Row] /\ traces \subseteq OutboxRows
      /\ RowFits(h, old, stales[h], traces, drainFaults)
  BY <1>1, DrainAtWork DEF OutboxSound, OutboxTyped
<1>3. h \in traces
  BY <1>1 DEF OutboxSound, ClaimsSound, DrainSound
<1>4. marked \in Row /\ marked.state = "exported" /\ marked.attempt = old.attempt /\ ~marked.due
  BY <1>2 DEF Row
<1>5. [rows EXCEPT ![O!Head1(d).row].state = "exported", ![O!Head1(d).row].due = FALSE] =
      [rows EXCEPT ![h] = marked]
  BY <1>2
<1>6. rows = [rows EXCEPT ![h] = old]
  BY <1>2
<1>7. RowFits(h, marked, stales[h], traces, drainFaults)
  BY <1>2, <1>3, <1>4 DEF RowFits
<1>8. SeenMore
  BY <1>1, <1>2 DEF SeenMore
<1> HIDE DEF marked
<1>9. CASE O!Latest(d) /\ rows' = [rows EXCEPT ![h] = marked] /\ O!Go(d, O!Rest(d)) /\ drainFaults' = drainFaults
  <2>1. Ends(d, O!Rest(d), marked)
    BY <1>4 DEF Ends
  <2>2. RowTo(h, marked) /\ EndRow(d, marked)
    BY <1>2, <1>4, <1>7, <1>9 DEF RowTo, EndRow
  <2>3. PerhapsFault
    BY <1>9, FaultCounts
  <2> QED
    BY <1>1, <1>9, <2>1, <2>2, <2>3, ClaimEnds
<1>10. CASE /\ O!Failing(d, "retryable")
            /\ drainFaults' = drainFaults \/ O!Fault
            /\ rows' = rows \/ (O!Latest(d) /\ rows' = [rows EXCEPT ![h] = marked])
  <2>1. StepsTo(d, "failing", "retryable")
    BY <1>10 DEF O!Failing, O!Go, StepsTo, Failures, O!Failures
  <2>2. PerhapsFault
    BY <1>10, FaultCounts
  <2>3. CASE rows' = rows
    <3>1. RowTo(h, old) /\ StepRow(d, "failing", old)
      BY <1>1, <1>2, <1>6, <2>3 DEF RowTo, StepRow
    <3> QED
      BY <1>1, <1>8, <2>1, <2>2, <3>1, StepSound
  <2>4. CASE O!Latest(d) /\ rows' = [rows EXCEPT ![h] = marked]
    <3>1. RowTo(h, marked) /\ StepRow(d, "failing", marked)
      BY <1>2, <1>3, <1>4, <2>4 DEF RowTo, StepRow
    <3> QED
      BY <1>1, <1>8, <2>1, <2>2, <3>1, StepSound
  <2> QED
    BY <1>10, <2>3, <2>4
<1> QED
  BY <1>5, <1>9, <1>10 DEF O!MarkExported

LEMMA RecordFailureSound ==
  ASSUME O!OutboxAssumption, OutboxSound, NEW d \in Drains, O!RecordFailure(d)
  PROVE  OutboxSound'
<1> DEFINE claim == drains[d].queue[1]
           h == claim.row
           old == rows[h]
           failure == drains[d].failure
           state == IF O!Terminal(claim, failure) THEN "abandoned" ELSE "failed"
           failed == [old EXCEPT !.state = state, !.due = FALSE, !.failure = failure]
<1>1. drains[d].step = "failing" /\ payloads' = payloads /\ traces' = traces /\ stales' = stales
  BY DEF O!RecordFailure
<1>2. /\ drains[d] \in DrainRecord /\ O!Head1(d) = claim /\ claim \in Claimed
      /\ h \in OutboxRows /\ old \in Row
      /\ O!Latest(d) <=> LatestClaim(claim, rows)
      /\ rows \in [OutboxRows -> Row]
      /\ RowFits(h, old, stales[h], traces, drainFaults)
  BY <1>1, DrainAtWork DEF OutboxSound, OutboxTyped
<1>3. failure \in Failures /\ failure # "none"
  BY <1>1, <1>2 DEF DrainRecord, OutboxSound, ClaimsSound, DrainSound
<1>4. state \in {"abandoned", "failed"}
  OBVIOUS
<1> HIDE DEF state
<1>5. /\ failed \in Row /\ failed.state = state /\ failed.attempt = old.attempt /\ ~failed.due
      /\ failed.failure = failure
  BY <1>2, <1>3, <1>4 DEF Row
<1>6. [rows EXCEPT ![O!Head1(d).row] =
         [@ EXCEPT !.state = IF O!Terminal(O!Head1(d), drains[d].failure) THEN "abandoned" ELSE "failed",
                   !.due = FALSE, !.failure = drains[d].failure]] = [rows EXCEPT ![h] = failed]
  BY <1>2 DEF state
<1>7. LatestClaim(claim, rows) => RowFits(h, failed, stales[h], traces, drainFaults)
  <2> SUFFICES ASSUME LatestClaim(claim, rows) PROVE RowFits(h, failed, stales[h], traces, drainFaults)
    OBVIOUS
  <2>1. claim.attempt = old.attempt /\ old.attempt \in Nat /\ MaximumAttempts \in Nat
    BY <1>2 DEF LatestClaim, Row, O!OutboxAssumption
  <2>2. state = "failed" => old.attempt < MaximumAttempts
    BY <2>1 DEF state, O!Terminal
  <2>3. state = "abandoned" =>
          failure = "final" \/ old.attempt >= MaximumAttempts
    BY <1>3, <2>1 DEF state, O!Terminal, Failures, O!Failures
  <2> HIDE DEF failed
  <2> QED
    BY <1>2, <1>4, <1>5, <2>2, <2>3 DEF RowFits
<1>8. rows = [rows EXCEPT ![h] = old]
  BY <1>2
<1> HIDE DEF failed
<1>9. LatestClaim(claim, rows) => EndRow(d, failed)
  BY <1>4, <1>5, <1>7 DEF EndRow
<1>10. CASE O!Latest(d) /\ rows' = [rows EXCEPT ![h] = failed] /\ O!Go(d, O!Rest(d)) /\ drainFaults' = drainFaults
  <2>1. Ends(d, O!Rest(d), failed) /\ RowTo(h, failed) /\ EndRow(d, failed)
    BY <1>2, <1>4, <1>5, <1>9, <1>10 DEF Ends, RowTo
  <2>2. PerhapsFault
    BY <1>10, FaultCounts
  <2> QED
    BY <1>1, <1>10, <2>1, <2>2, ClaimEnds
<1>11. CASE /\ O!Go(d, O!NoDrain)
            /\ \/ drainFaults' = drainFaults /\ ~O!Latest(d) /\ rows' = rows
               \/ O!Fault /\ (rows' = rows \/ (O!Latest(d) /\ rows' = [rows EXCEPT ![h] = failed]))
  <2>1. PerhapsFault /\ (drainFaults' # drainFaults \/ ~LatestClaim(claim, rows))
    BY <1>2, <1>11, FaultCounts
  <2>2. \A row : Ends(d, O!NoDrain, row)
    BY <2>1 DEF Ends
  <2>3. CASE rows' = rows
    <3>1. RowTo(h, old) /\ EndRow(d, old)
      BY <1>2, <1>8, <2>3 DEF RowTo, EndRow
    <3> QED
      BY <1>1, <1>11, <2>1, <2>2, <3>1, ClaimEnds
  <2>4. CASE O!Latest(d) /\ rows' = [rows EXCEPT ![h] = failed]
    <3>1. RowTo(h, failed) /\ EndRow(d, failed)
      BY <1>2, <1>5, <1>9, <2>4 DEF RowTo
    <3> QED
      BY <1>1, <1>11, <2>1, <2>2, <3>1, ClaimEnds
  <2> QED
    BY <1>11, <2>3, <2>4
<1> QED
  BY <1>6, <1>10, <1>11 DEF O!RecordFailure

LEMMA LoseSound ==
  ASSUME O!OutboxAssumption, OutboxSound, NEW d \in Drains, O!Lose(d)
  PROVE  OutboxSound'
<1> DEFINE h == drains[d].queue[1].row
<1>1. /\ O!Go(d, O!NoDrain) /\ O!Fault /\ drains[d] # O!NoDrain
      /\ payloads' = payloads /\ traces' = traces /\ stales' = stales /\ rows' = rows
  BY DEF O!Lose
<1>2. drains[d].step # "idle"
  <2> SUFFICES ASSUME drains[d].step = "idle" PROVE drains[d] = O!NoDrain
    BY <1>1
  <2>1. drains[d] \in DrainRecord /\ drains[d].queue = <<>> /\ drains[d].failure = "none"
    BY DEF OutboxSound, OutboxTyped, ClaimsSound, DrainSound
  <2> QED
    BY <2>1 DEF DrainRecord, O!NoDrain
<1>3. h \in OutboxRows /\ rows[h] \in Row /\ rows \in [OutboxRows -> Row]
  BY <1>2, DrainAtWork DEF OutboxSound, OutboxTyped
<1>4. RowTo(h, rows[h]) /\ EndRow(d, rows[h])
  BY <1>1, <1>3 DEF RowTo, EndRow
<1>5. PerhapsFault /\ Ends(d, O!NoDrain, rows[h])
  BY <1>1, FaultCounts DEF Ends
<1> QED
  BY <1>1, <1>2, <1>4, <1>5, ClaimEnds

(* A row changes, or becomes due, outside of every drain: no drain holds   *)
(* the latest claim of it, or its state stays and it is a fault.           *)
Free(r) ==
  \A d \in Drains : \A i \in DOMAIN drains[d].queue :
    drains[d].queue[i].row = r => ~LatestClaim(drains[d].queue[i], rows)

RowMoves(r, row) ==
  /\ payloads' = payloads /\ traces' = traces /\ drains' = drains /\ stales' = stales
  /\ PerhapsFault /\ RowTo(r, row)
  /\ RowFits(r, row, stales[r], traces, drainFaults)
  /\ row.state = rows[r].state \/ Free(r)
  /\ row.state = "exporting" => rows[r].state = "exporting"
  /\ Free(r) \/ drainFaults' # drainFaults

LEMMA RowMovesSound ==
  ASSUME O!OutboxAssumption, OutboxSound, NEW r \in OutboxRows, NEW row, RowMoves(r, row)
  PROVE  OutboxSound'
<1>1. /\ drains \in [Drains -> DrainRecord] /\ rows \in [OutboxRows -> Row]
      /\ drains' = drains /\ traces' = traces /\ stales' = stales
      /\ row \in Row /\ rows'[r] = row /\ \A x \in OutboxRows : x # r => rows'[x] = rows[x]
      /\ \A x \in OutboxRows : rows'[x].attempt = rows[x].attempt
  BY DEF OutboxSound, OutboxTyped, RowMoves, RowTo
<1>2. OutboxTyped'
  BY <1>1 DEF OutboxSound, OutboxTyped, RowMoves, RowTo, PerhapsFault
<1>3. \A e \in Drains : \A i \in DOMAIN drains[e].queue : drains[e].queue[i].row \in OutboxRows
  <2>1. \A e \in Drains : drains[e].queue \in Seq(Claimed)
    BY <1>1 DEF DrainRecord
  <2>2. \A e \in Drains : \A i \in DOMAIN drains[e].queue : drains[e].queue[i] \in Claimed
    BY <2>1, InSeq
  <2> QED
    BY <2>2 DEF Claimed
<1>4. \A e \in Drains : \A i \in DOMAIN drains[e].queue :
        /\ LatestClaim(drains[e].queue[i], rows') <=> LatestClaim(drains[e].queue[i], rows)
        /\ LatestClaim(drains[e].queue[i], rows) =>
             rows'[drains[e].queue[i].row].state = rows[drains[e].queue[i].row].state
  BY <1>1, <1>3 DEF LatestClaim, RowMoves, Free
<1>5. ASSUME NEW e \in Drains, DrainSound(drains[e], rows, traces)
      PROVE  DrainSound(drains[e], rows', traces)
  BY <1>1, <1>3, <1>4, <1>5 DEF DrainSound, ClaimHeld
<1>6. ClaimsSound'
  BY <1>1, <1>5 DEF OutboxSound, ClaimsSound
<1>7. ASSUME NEW x \in OutboxRows
      PROVE  RowFits(x, rows[x], stales[x], traces, drainFaults)'
  <2>1. /\ RowFits(x, rows[x], stales[x], traces, drainFaults) /\ stales[x] \in Nat
        /\ drainFaults \in Nat /\ drainFaults' \in Nat /\ drainFaults <= drainFaults'
    BY DEF OutboxSound, OutboxTyped, RowsSound, RowMoves, PerhapsFault
  <2>2. RowFits(x, rows'[x], stales[x], traces, drainFaults)
    BY <1>1, <2>1 DEF RowMoves
  <2> QED
    BY <1>1, <2>1, <2>2 DEF RowFits
<1>8. ASSUME NEW x \in OutboxRows, rows'[x].state = "exporting", ~Guarded(x)'
      PROVE  stales'[x] < drainFaults'
  <2>1. /\ stales[x] \in Nat /\ stales[x] <= drainFaults /\ rows[x].state = "exporting"
        /\ drainFaults \in Nat /\ drainFaults' \in Nat /\ drainFaults <= drainFaults'
        /\ ~Guarded(x) => stales[x] < drainFaults
    BY <1>1, <1>8 DEF OutboxSound, OutboxTyped, RowsSound, RowFits, RowMoves, PerhapsFault
  <2>2. CASE drainFaults' # drainFaults
    BY <1>1, <2>1, <2>2
  <2>3. CASE Free(r)
    <3> SUFFICES ASSUME Guarded(x) PROVE FALSE
      BY <1>1, <2>1
    <3>1. PICK e \in Drains : Guards(drains[e].queue, rows, x)
      BY DEF Guarded
    <3>2. \A i \in DOMAIN drains[e].queue : drains[e].queue[i].row # r
      BY <2>3, <3>1 DEF Free, Guards, Undisturbed
    <3>3. Guards(drains[e].queue, rows', x)
      BY <1>1, <1>3, <1>4, <3>1, <3>2 DEF Guards, Undisturbed
    <3> QED
      BY <1>1, <1>8, <3>3 DEF Guarded
  <2> QED
    BY <2>2, <2>3 DEF RowMoves
<1> QED
  BY <1>2, <1>6, <1>7, <1>8 DEF OutboxSound, RowsSound

LEMMA PutObjectSound ==
  ASSUME O!OutboxAssumption, OutboxSound, NEW r \in OutboxRows, O!PutObject(r)
  PROVE  OutboxSound'
<1>1. /\ payloads' = payloads \union {r}
      /\ UNCHANGED <<rows, traces, drains, stales, drainFaults>>
  BY DEF O!PutObject
<1>2. OutboxTyped'
  BY <1>1 DEF OutboxSound, OutboxTyped
<1>3. ClaimsSound' /\ RowsSound'
  BY <1>1 DEF OutboxSound, ClaimsSound, RowsSound, Guarded
<1> QED
  BY <1>2, <1>3 DEF OutboxSound

LEMMA ClaimsOf ==
  ASSUME OutboxSound, NEW d \in Drains, NEW i \in DOMAIN drains[d].queue
  PROVE  /\ drains[d].queue[i] \in Claimed
         /\ ClaimHeld(drains[d].queue[i], i, drains[d].step, rows)
<1>1. drains[d].queue \in Seq(Claimed)
  BY DEF OutboxSound, OutboxTyped, DrainRecord
<1>2. drains[d].queue[i] \in Claimed
  BY <1>1, InSeq
<1>3. ClaimHeld(drains[d].queue[i], i, drains[d].step, rows)
  BY DEF OutboxSound, ClaimsSound, DrainSound
<1> QED
  BY <1>2, <1>3

LEMMA InsertRowSound ==
  ASSUME O!OutboxAssumption, OutboxSound, NEW r \in OutboxRows, O!InsertRow(r)
  PROVE  OutboxSound'
<1> DEFINE row == [rows[r] EXCEPT !.state = "pending", !.due = TRUE]
<1>1. /\ rows \in [OutboxRows -> Row] /\ rows[r] \in Row /\ rows[r].state = "none"
      /\ RowFits(r, rows[r], stales[r], traces, drainFaults)
  BY DEF OutboxSound, OutboxTyped, RowsSound, O!InsertRow
<1>2. row \in Row /\ row.state = "pending" /\ row.attempt = rows[r].attempt
  BY <1>1 DEF Row
<1>3. rows' = [rows EXCEPT ![r] = row] /\ UNCHANGED <<payloads, traces, drains, stales, drainFaults>>
  BY <1>1 DEF O!InsertRow
<1>4. rows[r].attempt = 0
  BY <1>1 DEF RowFits
<1>5. Free(r)
  BY <1>1, <1>4, ClaimsOf DEF Free, LatestClaim, Claimed
<1> HIDE DEF row
<1>6. RowFits(r, row, stales[r], traces, drainFaults)
  BY <1>1, <1>2, <1>4 DEF RowFits
<1>7. PerhapsFault
  BY <1>3, FaultCounts
<1>8. RowMoves(r, row)
  BY <1>2, <1>3, <1>5, <1>6, <1>7 DEF RowMoves, RowTo
<1> QED
  BY <1>8, RowMovesSound

LEMMA BackoffEndsSound ==
  ASSUME O!OutboxAssumption, OutboxSound, NEW r \in OutboxRows, O!BackoffEnds(r)
  PROVE  OutboxSound'
<1> DEFINE row == [rows[r] EXCEPT !.due = TRUE]
<1>1. /\ rows \in [OutboxRows -> Row] /\ rows[r] \in Row /\ rows[r].state = "failed"
      /\ RowFits(r, rows[r], stales[r], traces, drainFaults)
  BY DEF OutboxSound, OutboxTyped, RowsSound, O!BackoffEnds
<1>2. row \in Row /\ row.state = "failed" /\ row.attempt = rows[r].attempt /\ row.failure = rows[r].failure
  BY <1>1 DEF Row
<1>3. rows' = [rows EXCEPT ![r] = row] /\ UNCHANGED <<payloads, traces, drains, stales, drainFaults>>
  BY <1>1 DEF O!BackoffEnds
<1>4. Free(r)
  BY <1>1, ClaimsOf DEF Free, ClaimHeld
<1> HIDE DEF row
<1>5. RowFits(r, row, stales[r], traces, drainFaults)
  BY <1>1, <1>2 DEF RowFits
<1>6. PerhapsFault
  BY <1>3, FaultCounts
<1>7. RowMoves(r, row)
  BY <1>2, <1>3, <1>4, <1>5, <1>6 DEF RowMoves, RowTo
<1> QED
  BY <1>7, RowMovesSound

LEMMA LeaseEndsSound ==
  ASSUME O!OutboxAssumption, OutboxSound, NEW r \in OutboxRows, O!LeaseEnds(r)
  PROVE  OutboxSound'
<1> DEFINE row == [rows[r] EXCEPT !.due = TRUE]
<1>1. /\ rows \in [OutboxRows -> Row] /\ rows[r] \in Row /\ rows[r].state = "exporting"
      /\ RowFits(r, rows[r], stales[r], traces, drainFaults)
  BY DEF OutboxSound, OutboxTyped, RowsSound, O!LeaseEnds
<1>2. row \in Row /\ row.state = "exporting" /\ row.attempt = rows[r].attempt /\ row.failure = rows[r].failure
  BY <1>1 DEF Row
<1>3. /\ rows' = [rows EXCEPT ![r] = row] /\ UNCHANGED <<payloads, traces, drains, stales>>
      /\ IF O!Held(r) THEN O!Fault ELSE drainFaults' = drainFaults
  BY <1>1 DEF O!LeaseEnds
<1>4. ~O!Held(r) => Free(r)
  <2> SUFFICES ASSUME NEW d \in Drains, NEW i \in DOMAIN drains[d].queue,
                      drains[d].queue[i].row = r, LatestClaim(drains[d].queue[i], rows)
               PROVE  O!Held(r)
    BY DEF Free
  <2>1. drains[d].queue[i] \in Claimed
    BY ClaimsOf
  <2>2. drains[d].queue[i] = [row |-> r, attempt |-> rows[r].attempt]
    BY <2>1 DEF Claimed, LatestClaim
  <2> QED
    BY <2>2 DEF O!Held
<1> HIDE DEF row
<1>5. RowFits(r, row, stales[r], traces, drainFaults)
  BY <1>1, <1>2 DEF RowFits
<1>6. PerhapsFault /\ (Free(r) \/ drainFaults' # drainFaults)
  BY <1>3, <1>4, FaultCounts
<1>7. RowMoves(r, row)
  BY <1>1, <1>2, <1>3, <1>5, <1>6 DEF RowMoves, RowTo
<1> QED
  BY <1>7, RowMovesSound

(* The order in which a claim returns a set of rows holds each once.       *)
LEMMA OrderHoldsAll ==
  ASSUME NEW S, IsFiniteSet(S), NEW order \in O!SetToSeqs(S)
  PROVE  /\ order \in Seq(S)
         /\ \A i, j \in DOMAIN order : order[i] = order[j] => i = j
         /\ \A x \in S : \E i \in DOMAIN order : order[i] = x
<1> DEFINE n == Cardinality(S)
           D == 1..n
<1>1. n \in Nat
  BY FS_CardinalityType
<1>2. order \in [D -> S] /\ \A i, j \in D : i # j => order[i] # order[j]
  BY DEF O!SetToSeqs, O!Cardinality, Cardinality
<1>3. DOMAIN order = D /\ order \in Seq(S)
  BY <1>1, <1>2
<1> DEFINE image == {order[i] : i \in D}
<1>4. image \subseteq S
  BY <1>2
<1>5. order \in Bijection(D, image)
  BY <1>2 DEF Bijection, Injection, Surjection, IsInjective
<1>6. Cardinality(image) = n
  <2>1. ExistsBijection(1..n, image)
    BY <1>5 DEF ExistsBijection
  <2> HIDE DEF image, n
  <2> QED
    BY <1>1, <2>1, FS_CountingElements
<1>7. image = S
  BY <1>4, <1>6, FS_Subset
<1> QED
  BY <1>2, <1>3, <1>7

(* The rows a drain claims are all its own from then on.                   *)
Claiming(r, table) == [table[r] EXCEPT !.state = "exporting", !.attempt = @ + 1, !.due = FALSE]

Claims(claimed, taken) ==
  /\ taken \in Seq(Claimed) /\ taken # <<>>
  /\ \A i \in DOMAIN taken : taken[i].row \in claimed /\ taken[i].attempt = rows[taken[i].row].attempt + 1
  /\ \A i, j \in DOMAIN taken : taken[i].row = taken[j].row => i = j
  /\ \A r \in claimed : \E i \in DOMAIN taken : taken[i].row = r

RowsClaimed(claimed) ==
  /\ \A r \in OutboxRows \ claimed : rows'[r] = rows[r] /\ stales'[r] = stales[r]
  /\ \A r \in claimed :
       /\ rows'[r].state = "exporting" /\ rows'[r].attempt = rows[r].attempt + 1 /\ ~rows'[r].due
       /\ stales'[r] = IF rows[r].state = "exporting" THEN stales[r] + 1 ELSE stales[r]

LEMMA ClaimingSound ==
  ASSUME O!OutboxAssumption, OutboxSound, NEW d \in Drains, drains[d].queue = <<>>,
         NEW claimed, claimed \subseteq O!Claimable, RowsClaimed(claimed), OutboxTyped',
         NEW taken, Claims(claimed, taken),
         traces' = traces, drainFaults' = drainFaults,
         drains'[d].queue = taken, drains'[d].step = "export",
         \A e \in Drains : e # d => drains'[e] = drains[e]
  PROVE  OutboxSound'
<1>1. \A r \in claimed : /\ r \in OutboxRows /\ rows[r].due
                         /\ rows[r].state \in {"pending", "failed", "exporting"}
  BY DEF O!Claimable
<1>2. /\ \A r \in OutboxRows : rows[r] \in Row /\ rows'[r] \in Row /\ rows[r].attempt \in Nat
      /\ \A r \in OutboxRows : stales[r] \in Nat /\ stales'[r] \in Nat
      /\ drainFaults \in Nat /\ MaximumAttempts \in Nat \ {0}
  BY DEF OutboxSound, OutboxTyped, O!OutboxAssumption, Row
<1>3. \A i \in DOMAIN taken : /\ taken[i] \in Claimed /\ taken[i].row \in claimed
                              /\ taken[i].row \in OutboxRows
                              /\ taken[i].attempt = rows[taken[i].row].attempt + 1
                              /\ LatestClaim(taken[i], rows') /\ ~rows'[taken[i].row].due
                              /\ rows'[taken[i].row].state = "exporting"
  <2>1. \A i \in DOMAIN taken : taken[i] \in Claimed
    BY InSeq DEF Claims
  <2> QED
    BY <1>1, <2>1 DEF Claims, LatestClaim, RowsClaimed
<1>4. \A e \in Drains : \A i \in DOMAIN drains[e].queue :
        /\ drains[e].queue[i] \in Claimed /\ drains[e].queue[i].row \in OutboxRows
        /\ drains[e].queue[i].attempt \in Nat
        /\ ClaimHeld(drains[e].queue[i], i, drains[e].step, rows)
        /\ drains[e].queue[i].attempt <= rows[drains[e].queue[i].row].attempt
  BY ClaimsOf DEF ClaimHeld, Claimed
<1>5. ASSUME NEW e \in Drains, e # d
      PROVE  DrainSound(drains[e], rows', traces)
  <2>1. DrainSound(drains[e], rows, traces)
    BY DEF OutboxSound, ClaimsSound
  <2>2. ASSUME NEW i \in DOMAIN drains[e].queue
        PROVE  ClaimHeld(drains[e].queue[i], i, drains[e].step, rows')
    <3> DEFINE claim == drains[e].queue[i]
    <3>1. ClaimHeld(claim, i, drains[e].step, rows) /\ claim.row \in OutboxRows /\ claim.attempt \in Nat
          /\ claim.attempt <= rows[claim.row].attempt /\ rows[claim.row].attempt \in Nat
      BY <1>2, <1>4
    <3> HIDE DEF claim
    <3>2. CASE claim.row \in claimed
      <4>1. rows'[claim.row].attempt = rows[claim.row].attempt + 1
        BY <3>2 DEF RowsClaimed
      <4>2. claim.attempt <= rows'[claim.row].attempt /\ claim.attempt # rows'[claim.row].attempt
        BY <3>1, <4>1
      <4> QED
        BY <4>2 DEF ClaimHeld, LatestClaim, claim
    <3>3. CASE claim.row \notin claimed
      <4>1. rows'[claim.row] = rows[claim.row]
        BY <3>1, <3>3 DEF RowsClaimed
      <4> QED
        BY <3>1, <4>1 DEF ClaimHeld, LatestClaim, claim
    <3> QED
      BY <3>2, <3>3
  <2> QED
    BY <2>1, <2>2 DEF DrainSound
<1>6. DrainSound(drains'[d], rows', traces)
  <2>1. \A i \in DOMAIN taken : ClaimHeld(taken[i], i, "export", rows')
    BY <1>1, <1>2, <1>3 DEF ClaimHeld, RowsClaimed
  <2> QED
    BY <2>1 DEF DrainSound, Claims
<1>7. ASSUME NEW e \in Drains, NEW f \in Drains,
             NEW i \in DOMAIN drains'[e].queue, NEW j \in DOMAIN drains'[f].queue,
             drains'[e].queue[i].row = drains'[f].queue[j].row,
             drains'[e].queue[i].attempt = drains'[f].queue[j].attempt
      PROVE  e = f /\ i = j
  <2>1. ASSUME NEW x \in Drains, x # d, NEW k \in DOMAIN drains[x].queue, NEW l \in DOMAIN taken,
               drains[x].queue[k].row = taken[l].row
        PROVE  drains[x].queue[k].attempt # taken[l].attempt
    BY <1>2, <1>3, <1>4, <2>1
  <2>2. CASE e = d /\ f = d
    BY <1>7, <2>2 DEF Claims
  <2>3. CASE e = d /\ f # d
    BY <1>7, <2>1, <2>3
  <2>4. CASE e # d /\ f = d
    BY <1>7, <2>1, <2>4
  <2>5. CASE e # d /\ f # d
    BY <1>7, <2>5 DEF OutboxSound, ClaimsSound
  <2> QED
    BY <2>2, <2>3, <2>4, <2>5
<1>8. ClaimsSound'
  BY <1>5, <1>6, <1>7 DEF ClaimsSound
<1>9. ASSUME NEW r \in claimed, rows[r].state = "exporting"
      PROVE  stales[r] < drainFaults
  <2>1. ~Guarded(r)
    BY <1>1, <1>9 DEF Guarded, Guards, Undisturbed
  <2> QED
    BY <1>1, <1>9, <2>1 DEF OutboxSound, RowsSound
<1>10. ASSUME NEW r \in OutboxRows
       PROVE  RowFits(r, rows'[r], stales'[r], traces, drainFaults)
  <2>1. RowFits(r, rows[r], stales[r], traces, drainFaults)
    BY DEF OutboxSound, RowsSound
  <2>2. CASE r \in claimed
    <3>1. rows'[r].attempt <= MaximumAttempts + stales'[r]
      BY <1>1, <1>2, <2>1, <2>2 DEF RowsClaimed, RowFits
    <3>2. stales'[r] <= drainFaults
      BY <1>2, <1>9, <2>1, <2>2 DEF RowsClaimed, RowFits
    <3>3. rows'[r].state = "exporting"
      BY <2>2 DEF RowsClaimed
    <3> QED
      BY <3>1, <3>2, <3>3 DEF RowFits
  <2>3. CASE r \notin claimed
    BY <2>1, <2>3 DEF RowsClaimed
  <2> QED
    BY <2>2, <2>3
<1>11. ASSUME NEW r \in OutboxRows, rows'[r].state = "exporting", ~Guarded(r)'
       PROVE  stales'[r] < drainFaults
  <2>1. Undisturbed(taken, rows')
    BY <1>3 DEF Undisturbed
  <2>2. r \notin claimed
    BY <1>11, <2>1 DEF Guarded, Guards, Claims
  <2>3. ~Guarded(r)
    <3> SUFFICES ASSUME Guarded(r) PROVE FALSE
      OBVIOUS
    <3>1. PICK e \in Drains : Guards(drains[e].queue, rows, r)
      BY DEF Guarded
    <3>2. e # d
      BY <3>1 DEF Guards
    <3>3. \A i \in DOMAIN drains[e].queue : drains[e].queue[i].row \notin claimed
      BY <1>1, <3>1 DEF Guards, Undisturbed
    <3>4. \A i \in DOMAIN drains[e].queue : rows'[drains[e].queue[i].row] = rows[drains[e].queue[i].row]
      BY <1>4, <3>3 DEF RowsClaimed
    <3>5. Guards(drains[e].queue, rows', r)
      BY <3>1, <3>4 DEF Guards, Undisturbed, LatestClaim
    <3>6. drains'[e].queue = drains[e].queue
      BY <3>2
    <3> QED
      BY <1>11, <3>5, <3>6 DEF Guarded
  <2> QED
    BY <1>11, <2>2, <2>3 DEF RowsClaimed, OutboxSound, RowsSound
<1> QED
  BY <1>8, <1>10, <1>11 DEF OutboxSound, RowsSound

LEMMA ClaimDueSound ==
  ASSUME O!OutboxAssumption, OutboxSound, NEW d \in Drains, O!ClaimDue(d)
  PROVE  OutboxSound'
<1> DEFINE claimedRows(S) == [r \in OutboxRows |->
             IF r \in S
             THEN [rows[r] EXCEPT !.state = "exporting", !.attempt = @ + 1, !.due = FALSE]
             ELSE rows[r]]
           staleRows(S) == [r \in OutboxRows |->
             IF r \in S /\ rows[r].state = "exporting" THEN stales[r] + 1 ELSE stales[r]]
           taken(order) == [i \in DOMAIN order |->
             [row |-> order[i], attempt |-> rows'[order[i]].attempt]]
           next(order) == [O!NoDrain EXCEPT !.step = "export", !.queue = taken(order)]
<1>1. PICK claimed \in SUBSET O!Claimable :
        /\ claimed # {} /\ rows' = claimedRows(claimed) /\ stales' = staleRows(claimed)
        /\ \E order \in O!SetToSeqs(claimed) : O!Go(d, next(order))
  BY DEF O!ClaimDue
<1>2. PICK order \in O!SetToSeqs(claimed) : O!Go(d, next(order))
  BY <1>1
<1>3. /\ drains[d] = O!NoDrain /\ UNCHANGED <<payloads, traces, drainFaults>>
  BY DEF O!ClaimDue
<1>4. /\ rows \in [OutboxRows -> Row] /\ stales \in [OutboxRows -> Nat]
      /\ drains \in [Drains -> DrainRecord]
      /\ claimed \subseteq OutboxRows /\ IsFiniteSet(claimed)
  <2>1. claimed \subseteq OutboxRows
    BY DEF O!Claimable
  <2>2. IsFiniteSet(OutboxRows)
    BY DEF O!OutboxAssumption, O!IsFiniteSet, IsFiniteSet
  <2> QED
    BY <2>1, <2>2, FS_Subset DEF OutboxSound, OutboxTyped
<1>5. /\ order \in Seq(claimed)
      /\ \A i, j \in DOMAIN order : order[i] = order[j] => i = j
      /\ \A x \in claimed : \E i \in DOMAIN order : order[i] = x
  BY <1>4, OrderHoldsAll
<1>6. \A i \in DOMAIN order : order[i] \in claimed
  BY <1>5, InSeq
<1>7. RowsClaimed(claimed) /\ rows' \in [OutboxRows -> Row] /\ stales' \in [OutboxRows -> Nat]
  <2>1. \A r \in claimed : claimedRows(claimed)[r] =
          [rows[r] EXCEPT !.state = "exporting", !.attempt = rows[r].attempt + 1, !.due = FALSE]
    BY <1>4
  <2>2. \A r \in OutboxRows \ claimed : claimedRows(claimed)[r] = rows[r]
    BY <1>4
  <2>3. ASSUME NEW r \in claimed
        PROVE  LET row == [rows[r] EXCEPT !.state = "exporting", !.attempt = rows[r].attempt + 1, !.due = FALSE]
               IN  /\ row \in Row /\ row.state = "exporting" /\ row.attempt = rows[r].attempt + 1 /\ ~row.due
    <3>1. rows[r] \in Row /\ rows[r].attempt + 1 \in Nat
      BY <1>4 DEF Row
    <3> QED
      BY <3>1 DEF Row
  <2>4. \A r \in OutboxRows : claimedRows(claimed)[r] \in Row
    BY <1>4, <2>1, <2>2, <2>3
  <2>5. rows' \in [OutboxRows -> Row]
    BY <1>1, <2>4
  <2>6. stales' \in [OutboxRows -> Nat]
    <3>1. \A r \in OutboxRows : stales[r] + 1 \in Nat /\ stales[r] \in Nat
      BY <1>4
    <3>2. \A r \in OutboxRows : staleRows(claimed)[r] \in Nat
      BY <3>1
    <3> HIDE DEF staleRows
    <3>3. stales' = [r \in OutboxRows |-> staleRows(claimed)[r]]
      BY <1>1 DEF staleRows
    <3> QED
      BY <3>2, <3>3
  <2>7. \A r \in OutboxRows \ claimed : rows'[r] = rows[r] /\ stales'[r] = stales[r]
    BY <1>1, <2>2
  <2>8. \A r \in claimed :
          /\ rows'[r].state = "exporting" /\ rows'[r].attempt = rows[r].attempt + 1 /\ ~rows'[r].due
    BY <1>1, <2>1, <2>3
  <2>9. \A r \in claimed :
          stales'[r] = IF rows[r].state = "exporting" THEN stales[r] + 1 ELSE stales[r]
    BY <1>1, <1>4
  <2> QED
    BY <2>5, <2>6, <2>7, <2>8, <2>9 DEF RowsClaimed
<1>8. /\ DOMAIN taken(order) = DOMAIN order
      /\ \A i \in DOMAIN order : /\ taken(order)[i].row = order[i]
                                 /\ taken(order)[i].attempt = rows[order[i]].attempt + 1
                                 /\ taken(order)[i] \in Claimed
  <2>1. ASSUME NEW i \in DOMAIN order
        PROVE  /\ taken(order)[i].row = order[i]
               /\ taken(order)[i].attempt = rows[order[i]].attempt + 1
               /\ taken(order)[i] \in Claimed
    <3>1. order[i] \in OutboxRows /\ rows[order[i]].attempt + 1 \in Nat \ {0}
      BY <1>4, <1>6 DEF Row
    <3>2. rows'[order[i]].attempt = rows[order[i]].attempt + 1
      BY <1>6, <1>7 DEF RowsClaimed
    <3>3. taken(order)[i] = [row |-> order[i], attempt |-> rows[order[i]].attempt + 1]
      BY <3>2
    <3> QED
      BY <3>1, <3>3 DEF Claimed
  <2> QED
    BY <2>1
<1> HIDE DEF claimedRows, staleRows, taken
<1>9. taken(order) \in Seq(Claimed) /\ taken(order) # <<>>
  <2>1. Len(order) \in Nat /\ DOMAIN order = 1..Len(order)
    BY <1>5
  <2>2. taken(order) \in [1..Len(order) -> Claimed]
    <3>1. taken(order) = [i \in DOMAIN order |-> taken(order)[i]]
      BY DEF taken
    <3> QED
      BY <1>8, <2>1, <3>1
  <2>3. taken(order) \in Seq(Claimed)
    BY <2>1, <2>2
  <2>4. \E i \in DOMAIN order : TRUE
    BY <1>1, <1>5
  <2>5. DOMAIN taken(order) # {}
    BY <1>8, <2>4
  <2>6. DOMAIN <<>> = {}
    OBVIOUS
  <2> QED
    BY <2>3, <2>5, <2>6
<1>10. Claims(claimed, taken(order))
  BY <1>5, <1>6, <1>8, <1>9 DEF Claims
<1>11. next(order) \in DrainRecord /\ next(order).queue = taken(order) /\ next(order).step = "export"
  BY <1>9 DEF O!NoDrain, DrainRecord, Failures
<1> HIDE DEF next
<1>12. /\ drains' \in [Drains -> DrainRecord] /\ drains'[d] = next(order)
       /\ \A e \in Drains : e # d => drains'[e] = drains[e]
  BY <1>2, <1>4, <1>11 DEF O!Go
<1>13. OutboxTyped'
  BY <1>3, <1>7, <1>12 DEF OutboxSound, OutboxTyped
<1>14. drains[d].queue = <<>>
  BY <1>3 DEF O!NoDrain
<1> QED
  BY <1>3, <1>7, <1>10, <1>11, <1>12, <1>13, <1>14, ClaimingSound

(* OutboxSound holds in every state of the outbox.                         *)
THEOREM OutboxSoundAlways ==
  ASSUME O!OutboxAssumption
  PROVE  O!Spec => []OutboxSound
<1>1. O!Init => OutboxSound
  <2> SUFFICES ASSUME O!Init PROVE OutboxSound
    OBVIOUS
  <2>1. <<>> \in Seq(Claimed)
    OBVIOUS
  <2>2. OutboxTyped
    BY <2>1 DEF O!Init, O!NoRow, O!NoDrain, OutboxTyped, Row, DrainRecord, Failures, O!OutboxAssumption
  <2>3. \A d \in Drains : drains[d].queue = <<>> /\ drains[d].step = "idle" /\ drains[d].failure = "none"
    BY DEF O!Init, O!NoDrain
  <2>4. ClaimsSound
    BY <2>3 DEF ClaimsSound, DrainSound
  <2>5. \A r \in OutboxRows :
          rows[r].state = "none" /\ rows[r].attempt = 0 /\ stales[r] = 0 /\ drainFaults = 0
    BY DEF O!Init, O!NoRow
  <2>6. RowsSound
    BY <2>5 DEF RowsSound, RowFits, O!OutboxAssumption
  <2> QED
    BY <2>2, <2>4, <2>6 DEF OutboxSound
<1>2. OutboxSound /\ [O!Next]_(O!vars) => OutboxSound'
  <2> SUFFICES ASSUME OutboxSound, [O!Next]_(O!vars) PROVE OutboxSound'
    OBVIOUS
  <2>1. CASE UNCHANGED O!vars
    <3>1. UNCHANGED <<payloads, rows, traces, drains, stales, drainFaults>>
      BY <2>1 DEF O!vars
    <3> QED
      BY <3>1 DEF OutboxSound, OutboxTyped, ClaimsSound, RowsSound, Guarded
  <2>2. ASSUME NEW r \in OutboxRows,
               O!PutObject(r) \/ O!InsertRow(r) \/ O!BackoffEnds(r) \/ O!LeaseEnds(r)
        PROVE  OutboxSound'
    BY <2>2, PutObjectSound, InsertRowSound, BackoffEndsSound, LeaseEndsSound
  <2>3. ASSUME NEW d \in Drains, O!ClaimDue(d) \/ O!Work(d) \/ O!Lose(d)
        PROVE  OutboxSound'
    BY <2>3, ClaimDueSound, ExportSound, MarkExportedSound, RecordFailureSound, LoseSound DEF O!Work
  <2> QED
    BY <2>1, <2>2, <2>3 DEF O!Next
<1> QED
  BY <1>1, <1>2, PTL DEF O!Spec

(* What the invariant says in the terms of the outbox.                     *)
LEMMA OutboxPromises ==
  ASSUME O!OutboxAssumption, OutboxSound
  PROVE  O!TypeOK /\ O!AttemptsBounded /\ O!OutcomesTrue
<1>1. \A r \in OutboxRows :
        /\ rows[r] \in Row /\ stales[r] \in Nat /\ stales[r] <= drainFaults
        /\ drainFaults \in Nat /\ drainFaults <= MaxDrainFaults
        /\ rows[r].attempt <= MaximumAttempts + stales[r] /\ rows[r].attempt \in Nat
        /\ MaximumAttempts \in Nat /\ MaxDrainFaults \in Nat
  BY DEF OutboxSound, OutboxTyped, RowsSound, RowFits, O!OutboxAssumption, Row
<1>2. O!AttemptsBounded
  BY <1>1 DEF O!AttemptsBounded
<1>3. O!OutcomesTrue
  BY DEF O!OutcomesTrue, OutboxSound, RowsSound, RowFits
<1>4. \A r \in OutboxRows : /\ rows[r].attempt \in 0..(MaximumAttempts + MaxDrainFaults)
                            /\ stales[r] \in 0..MaxDrainFaults
  BY <1>1
<1>5. rows \in [OutboxRows -> O!TraceOutboxRecord]
  <2>1. \A r \in OutboxRows : rows[r] \in O!TraceOutboxRecord
    BY <1>1, <1>4 DEF Row, O!TraceOutboxRecord, Failures
  <2> QED
    BY <2>1 DEF OutboxSound, OutboxTyped
<1>6. stales \in [OutboxRows -> 0..MaxDrainFaults]
  BY <1>4 DEF OutboxSound, OutboxTyped
<1>7. ASSUME NEW d \in Drains
      PROVE  /\ drains[d].step \in {"idle", "export", "mark", "failing"}
             /\ O!Range(drains[d].queue) \subseteq O!Claims
             /\ drains[d].step = "idle" <=> drains[d].queue = <<>>
  <2>1. drains[d] \in DrainRecord /\ DrainSound(drains[d], rows, traces)
    BY DEF OutboxSound, OutboxTyped, ClaimsSound
  <2>2. \A i \in DOMAIN drains[d].queue : drains[d].queue[i] \in O!Claims
    <3> SUFFICES ASSUME NEW i \in DOMAIN drains[d].queue PROVE drains[d].queue[i] \in O!Claims
      OBVIOUS
    <3>1. drains[d].queue[i] \in Claimed /\ ClaimHeld(drains[d].queue[i], i, drains[d].step, rows)
      BY ClaimsOf
    <3>2. drains[d].queue[i].attempt \in 1..(MaximumAttempts + MaxDrainFaults)
      BY <1>1, <3>1 DEF Claimed, ClaimHeld
    <3> QED
      BY <3>1, <3>2 DEF Claimed, O!Claims
  <2>3. O!Range(drains[d].queue) \subseteq O!Claims
    BY <2>2 DEF O!Range
  <2> QED
    BY <2>1, <2>3 DEF DrainRecord, DrainSound
<1>8. O!TypeOK
  BY <1>5, <1>6, <1>7 DEF O!TypeOK, OutboxSound, OutboxTyped
<1> QED
  BY <1>2, <1>3, <1>8

-----------------------------------------------------------------------------
(* What a commit is about to record, and every row records: the seal of    *)
(* the object that is stored.  An invocation's seals are then of batches   *)
(* or its own, so that a new one can always be drawn.                      *)
Commits(q) == q.step = "commit" => q.batch \in DOMAIN objects /\ objects[q.batch] = q.seal

Sealed(row) == row.batch \in DOMAIN objects /\ objects[row.batch] = row.version

SealsSound ==
  /\ I!TypeOK
  /\ \A r \in Requests : Commits(requests[r])
  /\ \A i \in DOMAIN stored : Sealed(stored[i])

LEMMA Typing ==
  ASSUME I!IngestionAssumption
  PROVE
  /\ \A b \in Batches : b.last \in Nat /\ b.signer \in 1..MaxKey
  /\ MaxSeals \in Nat /\ MaxRetries \in Nat /\ MaxFailures \in Nat /\ MaxKey \in Nat \ {0}
  /\ IsFiniteSet(Batches) /\ IsFiniteSet(Requests)
  /\ MaxSeals >= Cardinality(Batches) + Cardinality(Requests)
BY DEF I!Verified, I!IngestionAssumption, I!Cardinality, I!IsFiniteSet, Cardinality, IsFiniteSet

LEMMA SealIsNew ==
  ASSUME I!IngestionAssumption, SealsSound, NEW r \in Requests, requests[r].step = "load"
  PROVE  I!NewSeal \in 1..MaxSeals
<1> DEFINE Stored == {objects[b] : b \in DOMAIN objects}
           Sealing == {q \in Requests : requests[q].step \in {"put", "commit"}}
           Holding == {requests[q].seal : q \in Sealing}
<1>1. I!Seals = Stored \union Holding
  BY DEF I!Seals, SealsSound, Sealed
<1>2. IsFiniteSet(Stored) /\ Cardinality(Stored) <= Cardinality(Batches)
  <2>1. DOMAIN objects \subseteq Batches
    BY DEF SealsSound, I!TypeOK
  <2>2. IsFiniteSet(DOMAIN objects) /\ Cardinality(DOMAIN objects) <= Cardinality(Batches)
    BY <2>1, FS_Subset, Typing
  <2> DEFINE f == [b \in DOMAIN objects |-> objects[b]]
  <2>3. f \in Surjection(DOMAIN objects, Stored)
    BY DEF Surjection
  <2>4. IsFiniteSet(Stored) /\ Cardinality(Stored) <= Cardinality(DOMAIN objects)
    BY <2>2, <2>3, FS_Surjection
  <2>5. Cardinality(Stored) \in Nat /\ Cardinality(DOMAIN objects) \in Nat /\ Cardinality(Batches) \in Nat
    BY <2>2, <2>4, FS_CardinalityType, Typing
  <2> QED
    BY <2>2, <2>4, <2>5
<1>3. IsFiniteSet(Holding) /\ Cardinality(Holding) < Cardinality(Requests)
  <2>1. Sealing \subseteq Requests \ {r}
    OBVIOUS
  <2>2. IsFiniteSet(Requests \ {r}) /\ Cardinality(Requests \ {r}) = Cardinality(Requests) - 1
    BY FS_RemoveElement, Typing
  <2>3. IsFiniteSet(Sealing) /\ Cardinality(Sealing) <= Cardinality(Requests \ {r})
    BY <2>1, <2>2, FS_Subset
  <2> DEFINE f == [q \in Sealing |-> requests[q].seal]
  <2>4. f \in Surjection(Sealing, Holding)
    BY DEF Surjection
  <2>5. IsFiniteSet(Holding) /\ Cardinality(Holding) <= Cardinality(Sealing)
    BY <2>3, <2>4, FS_Surjection
  <2>6. /\ Cardinality(Holding) \in Nat /\ Cardinality(Sealing) \in Nat
        /\ Cardinality(Requests) \in Nat
    BY <2>3, <2>5, FS_CardinalityType, Typing
  <2> QED
    BY <2>2, <2>3, <2>5, <2>6
<1>4. IsFiniteSet(I!Seals) /\ Cardinality(I!Seals) < MaxSeals
  <2>1. IsFiniteSet(Stored \union Holding)
        /\ Cardinality(Stored \union Holding)
             = Cardinality(Stored) + Cardinality(Holding) - Cardinality(Stored \cap Holding)
    BY <1>2, <1>3, FS_Union
  <2>2. IsFiniteSet(Stored \cap Holding)
    BY <1>2, FS_Subset
  <2>3. /\ Cardinality(Stored \cap Holding) \in Nat /\ Cardinality(Stored) \in Nat
        /\ Cardinality(Holding) \in Nat /\ Cardinality(Batches) \in Nat
        /\ Cardinality(Requests) \in Nat
    BY <1>2, <1>3, <2>2, FS_CardinalityType, Typing
  <2> HIDE DEF Stored, Holding
  <2> QED
    BY <1>1, <1>2, <1>3, <2>1, <2>3, Typing
<1>5. \E seal \in 1..MaxSeals : seal \notin I!Seals
  <2> SUFFICES ASSUME 1..MaxSeals \subseteq I!Seals PROVE FALSE
    OBVIOUS
  <2>1. Cardinality(1..MaxSeals) <= Cardinality(I!Seals)
    BY <1>4, FS_Subset
  <2>2. Cardinality(1..MaxSeals) = MaxSeals
    <3>1. 1 \in Int /\ MaxSeals \in Nat /\ MaxSeals \in Int
      BY Typing
    <3>2. Cardinality(1..MaxSeals) = IF 1 > MaxSeals THEN 0 ELSE MaxSeals - 1 + 1
      BY <3>1, FS_Interval
    <3> QED
      BY <3>1, <3>2
  <2>3. Cardinality(I!Seals) \in Nat
    BY <1>4, FS_CardinalityType
  <2> QED
    BY <1>4, <2>1, <2>2, <2>3, Typing
<1> QED
  BY <1>5 DEF I!NewSeal

Loading == [step : {"load"}, batch : Batches]
Putting == [step : {"put", "commit"}, batch : Batches, expected : I!StreamStates, seal : 1..MaxSeals]
Delivering == [step : {"deliver", "mark", "respond", "recovered"}, row : I!Rows]

LEMMA At ==
  ASSUME I!TypeOK, NEW r \in Requests
  PROVE  /\ requests[r].step = "load" => requests[r] \in Loading
         /\ requests[r].step \in {"put", "commit"} => requests[r] \in Putting
         /\ requests[r].step \in {"deliver", "mark", "respond", "recovered"}
              => requests[r] \in Delivering
BY DEF I!TypeOK, I!RequestStates, I!Idle, Loading, Putting, Delivering

LEMMA AnyRequest == I!Idle \in I!RequestStates /\ Loading \subseteq I!RequestStates
                    /\ Putting \subseteq I!RequestStates /\ Delivering \subseteq I!RequestStates
BY DEF I!RequestStates, Loading, Putting, Delivering

LEMMA IdleCommits == Commits(I!Idle) /\ Commits(I!Idle)'
BY DEF Commits, I!Idle

(* A row that an invocation delivers, or recovers.                         *)
With(step, row) == [step |-> step, row |-> row]

LEMMA RowDelivered ==
  ASSUME NEW row \in I!Rows, NEW step \in {"deliver", "recovered"}
  PROVE  With(step, row) \in I!RequestStates /\ Commits(With(step, row))'
BY DEF With, Delivering, Commits, I!RequestStates

(* An invocation goes on, while the rows and the objects stay.             *)
LEMMA RequestGoes ==
  ASSUME SealsSound, NEW r \in Requests, NEW next \in I!RequestStates, I!Become(r, next), Commits(next)',
         deviceKey' \in 1..MaxKey, failures' \in 0..MaxFailures,
         UNCHANGED I!stores, anchors' = anchors, deadLetters' = deadLetters,
         queue' \subseteq I!Messages, receipts' \subseteq Batches
  PROVE  SealsSound'
<1>1. stream' = stream /\ stored' = stored /\ objects' = objects
  BY DEF I!stores
<1>2. requests' \in [Requests -> I!RequestStates]
  BY DEF SealsSound, I!TypeOK, I!Become
<1>3. I!TypeOK'
  BY <1>1, <1>2 DEF SealsSound, I!TypeOK
<1>4. \A v \in Requests : v # r => requests'[v] = requests[v]
  BY DEF SealsSound, I!TypeOK, I!Become
<1>5. requests'[r] = next
  BY DEF SealsSound, I!TypeOK, I!Become
<1>6. ASSUME NEW v \in Requests PROVE Commits(requests[v])'
  <2>1. CASE v = r
    BY <1>5, <2>1 DEF Commits
  <2>2. CASE v # r
    BY <1>1, <1>4, <2>2 DEF Commits, SealsSound
  <2> QED
    BY <2>1, <2>2
<1> QED
  BY <1>1, <1>3, <1>6 DEF SealsSound, Sealed

LEMMA ReceiveSound ==
  ASSUME I!IngestionAssumption, SealsSound, NEW r \in Requests, NEW b \in Batches, I!Receive(r, b)
  PROVE  SealsSound'
<1>1. /\ UNCHANGED <<deviceKey, I!stores, failures, I!consumed, receipts>>
      /\ deviceKey \in 1..MaxKey /\ failures \in 0..MaxFailures
      /\ queue \subseteq I!Messages /\ receipts \subseteq Batches
  BY DEF I!Receive, SealsSound, I!TypeOK
<1>2. CASE I!Duplicate(b) /\ I!Become(r, [step |-> "deliver", row |-> stored[I!Id(b)]])
  <2>1. I!Id(b) \in DOMAIN stored
    BY <1>2 DEF I!Duplicate, I!Exists
  <2>2. stored[I!Id(b)] \in I!Rows /\ I!Become(r, With("deliver", stored[I!Id(b)]))
    BY <1>2, <2>1 DEF SealsSound, I!TypeOK, With
  <2>3. /\ anchors' = anchors /\ deadLetters' = deadLetters
        /\ deviceKey' \in 1..MaxKey /\ failures' \in 0..MaxFailures
        /\ queue' \subseteq I!Messages /\ receipts' \subseteq Batches
    BY <1>1 DEF I!consumed
  <2> QED
    BY <1>1, <2>2, <2>3, RowDelivered, RequestGoes
<1>3. CASE I!Become(r, [step |-> "load", batch |-> b])
  <2> DEFINE next == [step |-> "load", batch |-> b]
  <2>1. next \in I!RequestStates /\ Commits(next)'
    BY AnyRequest DEF Loading, Commits
  <2> HIDE DEF next
  <2>2. I!Become(r, next)
    BY <1>3 DEF next
  <2> QED
    BY <1>1, <2>1, <2>2, RequestGoes DEF I!consumed
<1> QED
  BY <1>2, <1>3 DEF I!Receive

LEMMA LoadSound ==
  ASSUME I!IngestionAssumption, SealsSound, NEW r \in Requests, I!Load(r)
  PROVE  SealsSound'
<1>1. /\ UNCHANGED <<deviceKey, I!stores, failures, I!consumed, receipts>>
      /\ deviceKey \in 1..MaxKey /\ failures \in 0..MaxFailures
      /\ queue \subseteq I!Messages /\ receipts \subseteq Batches
      /\ stream \in I!StreamStates /\ requests[r].step = "load"
  BY DEF I!Load, SealsSound, I!TypeOK
<1> DEFINE next == [step |-> "put", batch |-> requests[r].batch, expected |-> stream, seal |-> I!NewSeal]
<1>2. requests[r].batch \in Batches /\ I!NewSeal \in 1..MaxSeals
  BY <1>1, At, SealIsNew DEF SealsSound, Loading
<1>3. PICK q \in I!RequestStates : q = next /\ q.step = "put"
  <2>1. next \in Putting /\ next.step = "put"
    BY <1>1, <1>2 DEF Putting
  <2> HIDE DEF next
  <2> QED
    BY <2>1, AnyRequest
<1>4. I!Become(r, q) \/ I!Become(r, I!Idle)
  BY <1>3 DEF I!Load
<1> HIDE DEF next
<1>7. Commits(q)'
  BY <1>3 DEF Commits
<1>5. /\ anchors' = anchors /\ deadLetters' = deadLetters
      /\ deviceKey' \in 1..MaxKey /\ failures' \in 0..MaxFailures
      /\ queue' \subseteq I!Messages /\ receipts' \subseteq Batches /\ UNCHANGED I!stores
  BY <1>1 DEF I!consumed
<1>6. I!Idle \in I!RequestStates /\ Commits(I!Idle)'
  BY AnyRequest, IdleCommits
<1> QED
  BY <1>4, <1>5, <1>6, <1>7, RequestGoes

LEMMA InvocationEnds ==
  ASSUME I!IngestionAssumption, SealsSound, NEW r \in Requests, I!RollBack(r) \/ I!Abandon(r) \/ I!Respond(r)
  PROVE  SealsSound'
<1>1. /\ I!Become(r, I!Idle)
      /\ UNCHANGED <<deviceKey, I!stores, I!consumed>>
      /\ deviceKey \in 1..MaxKey /\ failures' \in 0..MaxFailures /\ queue \subseteq I!Messages
  BY Typing DEF I!RollBack, I!Abandon, I!Respond, SealsSound, I!TypeOK
<1>2. receipts' \subseteq Batches
  <2>1. receipts \subseteq Batches
    BY DEF SealsSound, I!TypeOK
  <2>2. I!Respond(r) => requests[r].row.batch \in Batches
    BY At DEF I!Respond, SealsSound, Delivering, I!Rows
  <2> QED
    BY <2>1, <2>2 DEF I!RollBack, I!Abandon, I!Respond
<1> QED
  BY <1>1, <1>2, RequestGoes, IdleCommits, AnyRequest DEF I!consumed

LEMMA SendSound ==
  ASSUME I!IngestionAssumption, SealsSound, NEW r \in Requests, I!Publish(r) \/ I!Republish(r)
  PROVE  SealsSound'
<1>1. /\ UNCHANGED <<deviceKey, I!stores, failures, deadLetters, anchors, receipts>>
      /\ deviceKey \in 1..MaxKey /\ failures \in 0..MaxFailures
      /\ queue \subseteq I!Messages /\ receipts \subseteq Batches
  BY DEF I!Publish, I!Republish, SealsSound, I!TypeOK
<1>2. CASE I!Publish(r)
  <2> DEFINE next == [requests[r] EXCEPT !.step = "mark"]
  <2>1. requests[r] \in Delivering
    BY <1>2, At DEF I!Publish, SealsSound
  <2>2. next \in Delivering /\ next.step = "mark"
    BY <2>1 DEF Delivering
  <2>3. I!Message(I!Pointer(requests[r].row)) \in I!Messages
    BY <2>1, Typing DEF Delivering, I!Message, I!Pointer, I!Messages, I!Pointers, I!Rows
  <2>7. PICK q \in I!RequestStates : q = next /\ q.step = "mark"
    BY <2>2, AnyRequest
  <2>4. I!Become(r, q) /\ queue' \subseteq I!Messages
    BY <1>1, <1>2, <2>3, <2>7 DEF I!Publish
  <2>5. Commits(q)'
    BY <2>7 DEF Commits
  <2>6. /\ anchors' = anchors /\ deadLetters' = deadLetters
        /\ deviceKey' \in 1..MaxKey /\ failures' \in 0..MaxFailures
        /\ receipts' \subseteq Batches /\ UNCHANGED I!stores
    BY <1>1
  <2> HIDE DEF next
  <2> QED
    BY <2>4, <2>5, <2>6, RequestGoes
<1>3. CASE I!Republish(r)
  <2>1. PICK i \in DOMAIN stored :
          /\ queue' = queue \union {I!Message(I!Pointer(stored[i]))}
          /\ I!Become(r, [step |-> "recovered",
                        row |-> [stored[i] EXCEPT !.state = "stored_not_enqueued"]])
    BY <1>3 DEF I!Republish
  <2> DEFINE row == [stored[i] EXCEPT !.state = "stored_not_enqueued"]
  <2>2. stored[i] \in I!Rows
    BY DEF SealsSound, I!TypeOK
  <2>4. row \in I!Rows /\ I!Become(r, With("recovered", row)) /\ I!Message(I!Pointer(stored[i])) \in I!Messages
    <3>1. row \in I!Rows
      BY <2>2 DEF I!Rows
    <3>2. I!Message(I!Pointer(stored[i])) \in I!Messages
      BY <2>2, Typing DEF I!Message, I!Pointer, I!Messages, I!Pointers, I!Rows
    <3> QED
      BY <2>1, <3>1, <3>2 DEF With
  <2>3. queue' \subseteq I!Messages
    BY <1>1, <2>1, <2>4
  <2> HIDE DEF row
  <2> QED
    BY <1>1, <2>3, <2>4, RowDelivered, RequestGoes
<1> QED
  BY <1>2, <1>3

(* A row is marked, by an invocation or by the consumer.                   *)
LEMMA RowsMarked ==
  ASSUME SealsSound, NEW b \in Batches, I!SetEnqueued(b) \/ stored' = stored
  PROVE  /\ DOMAIN stored' = DOMAIN stored
         /\ \A i \in DOMAIN stored :
              /\ stored'[i] \in I!Rows
              /\ stored'[i].batch = stored[i].batch /\ stored'[i].version = stored[i].version
<1>1. \A i \in DOMAIN stored : stored[i] \in I!Rows
  BY DEF SealsSound, I!TypeOK
<1>2. CASE I!SetEnqueued(b)
  <2>1. /\ DOMAIN stored' = DOMAIN stored
        /\ \A i \in DOMAIN stored : stored'[i] = IF i = I!Id(b)
                                                 THEN [stored[i] EXCEPT !.state = "enqueued"]
                                                 ELSE stored[i]
    BY <1>2 DEF I!SetEnqueued
  <2> QED
    BY <1>1, <2>1 DEF I!Rows
<1> QED
  BY <1>1, <1>2

(* Rows are marked and an invocation goes on, or the queue moves.          *)
LEMMA MarkingGoes ==
  ASSUME SealsSound, NEW b \in Batches, I!SetEnqueued(b) \/ stored' = stored,
         UNCHANGED <<deviceKey, stream, objects, failures, receipts>>,
         requests' \in [Requests -> I!RequestStates],
         \A r \in Requests : requests'[r] = requests[r] \/ requests'[r].step # "commit",
         queue' \subseteq I!Messages, deadLetters' \subseteq I!Pointers, DOMAIN anchors' \subseteq Nat
  PROVE  SealsSound'
<1>1. /\ DOMAIN stored' = DOMAIN stored
      /\ \A i \in DOMAIN stored :
           /\ stored'[i] \in I!Rows
           /\ stored'[i].batch = stored[i].batch /\ stored'[i].version = stored[i].version
  BY RowsMarked
<1>2. I!TypeOK'
  BY <1>1 DEF SealsSound, I!TypeOK
<1>3. \A i \in DOMAIN stored' : Sealed(stored[i])'
  BY <1>1 DEF SealsSound, Sealed
<1>4. \A r \in Requests : Commits(requests[r])'
  BY DEF SealsSound, Commits
<1> QED
  BY <1>2, <1>3, <1>4 DEF SealsSound

LEMMA MarkSound ==
  ASSUME I!IngestionAssumption, SealsSound, NEW r \in Requests, I!MarkEnqueued(r) \/ I!MarkRecovered(r)
  PROVE  SealsSound'
<1> DEFINE b == requests[r].row.batch
           next == IF requests[r].step = "mark" THEN [requests[r] EXCEPT !.step = "respond"] ELSE I!Idle
<1>1. /\ UNCHANGED <<deviceKey, stream, objects, failures, I!consumed, receipts>>
      /\ I!SetEnqueued(b) \/ stored' = stored
      /\ I!Become(r, next) /\ requests[r].step \in {"mark", "recovered"}
  BY DEF I!MarkEnqueued, I!MarkRecovered
<1>2. requests[r] \in Delivering
  BY <1>1, At DEF SealsSound
<1>3. b \in Batches
  BY <1>2 DEF Delivering, I!Rows
<1>4. next \in I!RequestStates /\ next.step # "commit"
  <2>1. [requests[r] EXCEPT !.step = "respond"] \in Delivering
        /\ [requests[r] EXCEPT !.step = "respond"].step = "respond"
    BY <1>2 DEF Delivering
  <2>2. I!Idle.step = "idle"
    BY DEF I!Idle
  <2> QED
    BY <2>1, <2>2, AnyRequest
<1> HIDE DEF next
<1>5. /\ requests' \in [Requests -> I!RequestStates]
      /\ \A v \in Requests : requests'[v] = requests[v] \/ requests'[v].step # "commit"
  BY <1>1, <1>4 DEF I!Become, SealsSound, I!TypeOK
<1>6. queue' \subseteq I!Messages /\ deadLetters' \subseteq I!Pointers /\ DOMAIN anchors' \subseteq Nat
  BY <1>1 DEF I!consumed, SealsSound, I!TypeOK
<1> HIDE DEF b
<1> QED
  BY <1>1, <1>3, <1>5, <1>6, MarkingGoes

LEMMA ConsumerSound ==
  ASSUME I!IngestionAssumption, SealsSound, NEW m \in queue, I!Consume(m) \/ I!ConsumeFails(m)
  PROVE  SealsSound'
<1> DEFINE p == m.pointer
<1>1. m \in I!Messages /\ p \in I!Pointers /\ p.batch \in Batches /\ m.attempts \in 0..MaxRetries
  BY DEF SealsSound, I!TypeOK, I!Messages, I!Pointers
<1>2. UNCHANGED <<deviceKey, stream, objects, requests, failures, receipts>>
  BY DEF I!Consume, I!ConsumeFails
<1>3. I!SetEnqueued(p.batch) \/ stored' = stored
  BY DEF I!Consume, I!ConsumeFails, I!PersistEventBatch
<1>4. DOMAIN anchors' \subseteq Nat
  <2>1. anchors' = I!Put(anchors, p.batch.last, I!Anchor(p.batch)) \/ anchors' = anchors
    BY DEF I!Consume, I!ConsumeFails, I!PersistEventBatch
  <2>2. p.batch.last \in Nat /\ DOMAIN anchors \subseteq Nat
    BY <1>1, Typing DEF SealsSound, I!TypeOK
  <2>3. DOMAIN I!Put(anchors, p.batch.last, I!Anchor(p.batch)) = DOMAIN anchors \union {p.batch.last}
    BY DEF I!Put
  <2> QED
    BY <2>1, <2>2, <2>3
<1>5. queue' \subseteq I!Messages /\ deadLetters' \subseteq I!Pointers
  <2>1. queue \subseteq I!Messages /\ deadLetters \subseteq I!Pointers
    BY DEF SealsSound, I!TypeOK
  <2>2. m.attempts < MaxRetries => [m EXCEPT !.attempts = @ + 1] \in I!Messages
    <3>1. m.attempts < MaxRetries => m.attempts + 1 \in 0..MaxRetries
      BY <1>1, Typing
    <3> QED
      BY <1>1, <3>1 DEF I!Messages
  <2>3. CASE I!Consume(m)
    BY <2>1, <2>3 DEF I!Consume
  <2>4. CASE I!Redeliver(m) /\ m.attempts < MaxRetries
    BY <2>1, <2>2, <2>4 DEF I!Redeliver
  <2>5. CASE I!Redeliver(m) /\ ~(m.attempts < MaxRetries)
    BY <1>1, <2>1, <2>5 DEF I!Redeliver
  <2> QED
    BY <2>3, <2>4, <2>5 DEF I!ConsumeFails
<1>6. requests' \in [Requests -> I!RequestStates]
  BY <1>2 DEF SealsSound, I!TypeOK
<1> HIDE DEF p
<1> QED
  BY <1>1, <1>2, <1>3, <1>4, <1>5, <1>6, MarkingGoes

LEMMA StoreSound ==
  ASSUME I!IngestionAssumption, SealsSound, NEW r \in Requests, I!PutObject(r)
  PROVE  SealsSound'
<1> DEFINE q == requests[r]
           next == IF objects'[q.batch] = q.seal THEN [q EXCEPT !.step = "commit"] ELSE I!Idle
<1>1. /\ q.step = "put" /\ I!PutIfAbsent(q.batch, q.seal) /\ I!Become(r, next)
      /\ UNCHANGED <<deviceKey, stream, stored, failures, I!consumed, receipts>>
  BY DEF I!PutObject
<1>2. q \in Putting /\ q.batch \in Batches /\ q.seal \in 1..MaxSeals
  BY <1>1, At DEF SealsSound, Putting
<1> HIDE DEF q
<1>3. /\ DOMAIN objects' = DOMAIN objects \union {q.batch}
      /\ \A b \in DOMAIN objects : objects'[b] = objects[b]
      /\ \A b \in DOMAIN objects' : objects'[b] \in 1..MaxSeals
      /\ q.batch \in Batches /\ DOMAIN objects \subseteq Batches
  BY <1>1, <1>2 DEF I!PutIfAbsent, I!Put, SealsSound, I!TypeOK
<1>4. next \in I!RequestStates /\ (next.step = "commit" => next.batch = q.batch /\ next.seal = q.seal
                                 /\ objects'[q.batch] = q.seal)
  <2>1. /\ [q EXCEPT !.step = "commit"] \in Putting
        /\ [q EXCEPT !.step = "commit"].batch = q.batch
        /\ [q EXCEPT !.step = "commit"].seal = q.seal
    BY <1>2 DEF Putting
  <2>2. I!Idle.step = "idle"
    BY DEF I!Idle
  <2> QED
    BY <2>1, <2>2, AnyRequest
<1> HIDE DEF next
<1>5. /\ requests' \in [Requests -> I!RequestStates] /\ requests'[r] = next
      /\ \A v \in Requests : v # r => requests'[v] = requests[v]
  BY <1>1, <1>4 DEF I!Become, SealsSound, I!TypeOK
<1>6. I!TypeOK'
  BY <1>1, <1>3, <1>5 DEF SealsSound, I!TypeOK, I!consumed
<1>7. \A i \in DOMAIN stored' : Sealed(stored[i])'
  BY <1>1, <1>3 DEF SealsSound, Sealed
<1>8. ASSUME NEW v \in Requests PROVE Commits(requests[v])'
  <2>1. CASE v = r
    BY <1>3, <1>4, <1>5, <2>1 DEF Commits
  <2>2. CASE v # r
    BY <1>3, <1>5, <2>2 DEF Commits, SealsSound
  <2> QED
    BY <2>1, <2>2
<1> QED
  BY <1>6, <1>7, <1>8 DEF SealsSound

LEMMA CommitSound ==
  ASSUME I!IngestionAssumption, SealsSound, NEW r \in Requests, I!Commit(r)
  PROVE  SealsSound'
<1> DEFINE q == requests[r]
           row == [batch |-> q.batch, version |-> q.seal, state |-> "stored_not_enqueued"]
<1>1. /\ q.step = "commit" /\ UNCHANGED <<deviceKey, objects, failures, I!consumed, receipts>>
      /\ deviceKey \in 1..MaxKey /\ failures \in 0..MaxFailures
      /\ queue \subseteq I!Messages /\ receipts \subseteq Batches
  BY DEF I!Commit, SealsSound, I!TypeOK
<1>2. q \in Putting /\ q.batch \in Batches /\ q.seal \in 1..MaxSeals
      /\ q.batch \in DOMAIN objects /\ objects[q.batch] = q.seal
  BY <1>1, At DEF SealsSound, Putting, Commits
<1>3. CASE /\ I!Duplicate(q.batch)
           /\ I!Become(r, [step |-> "deliver", row |-> stored[I!Id(q.batch)]])
           /\ UNCHANGED <<stream, stored>>
  <2>1. I!Id(q.batch) \in DOMAIN stored
    BY <1>3 DEF I!Duplicate, I!Exists
  <2>2. stored[I!Id(q.batch)] \in I!Rows /\ I!Become(r, With("deliver", stored[I!Id(q.batch)]))
    BY <1>3, <2>1 DEF SealsSound, I!TypeOK, With
  <2>3. /\ anchors' = anchors /\ deadLetters' = deadLetters
        /\ deviceKey' \in 1..MaxKey /\ failures' \in 0..MaxFailures
        /\ queue' \subseteq I!Messages /\ receipts' \subseteq Batches /\ UNCHANGED I!stores
    BY <1>1, <1>3 DEF I!consumed, I!stores
  <2> QED
    BY <2>2, <2>3, RowDelivered, RequestGoes
<1>4. CASE /\ stored' = I!Put(stored, I!Id(q.batch), row)
           /\ stream' = [sequence |-> q.batch.last, head |-> q.batch.head]
           /\ I!Become(r, [step |-> "deliver", row |-> row])
  <2>1. row \in I!Rows /\ row.batch = q.batch /\ row.version = q.seal
    BY <1>2 DEF I!Rows
  <2>2. [step |-> "deliver", row |-> row] \in I!RequestStates
    BY <2>1, AnyRequest DEF Delivering
  <2>3. stream' \in I!StreamStates
    BY <1>2, <1>4, Typing DEF I!StreamStates
  <2> HIDE DEF q, row
  <2>4. /\ DOMAIN stored' = DOMAIN stored \union {I!Id(q.batch)}
        /\ stored'[I!Id(q.batch)] = row
        /\ \A i \in DOMAIN stored : i # I!Id(q.batch) => stored'[i] = stored[i]
    BY <1>4 DEF I!Put
  <2>5. /\ requests' \in [Requests -> I!RequestStates]
        /\ \A v \in Requests : requests'[v] = requests[v] \/ requests'[v].step = "deliver"
    BY <1>4, <2>2 DEF I!Become, SealsSound, I!TypeOK
  <2>6. \A i \in DOMAIN stored' : stored'[i] \in I!Rows /\ I!Id(stored'[i].batch) = i
    BY <2>1, <2>4 DEF SealsSound, I!TypeOK
  <2>7. DOMAIN stored' \subseteq {I!Id(b) : b \in Batches}
    BY <1>2, <2>4 DEF SealsSound, I!TypeOK
  <2>8. I!TypeOK'
    BY <1>1, <2>3, <2>5, <2>6, <2>7 DEF SealsSound, I!TypeOK, I!consumed
  <2>9. \A i \in DOMAIN stored' : Sealed(stored[i])'
    BY <1>1, <1>2, <2>1, <2>4 DEF SealsSound, Sealed
  <2>10. \A v \in Requests : Commits(requests[v])'
    BY <1>1, <2>5 DEF Commits, SealsSound
  <2> QED
    BY <2>8, <2>9, <2>10 DEF SealsSound
<1> QED
  BY <1>3, <1>4 DEF I!Commit

(* SealsSound holds in every state of the ingestion.                       *)
THEOREM SealsSoundAlways ==
  ASSUME I!IngestionAssumption
  PROVE  I!Spec => []SealsSound
<1>1. I!Init => SealsSound
  <2> SUFFICES ASSUME I!Init PROVE SealsSound
    OBVIOUS
  <2>1. I!TypeOK
    BY Typing DEF I!Init, I!TypeOK, I!StreamStates, I!RequestStates
  <2>2. \A r \in Requests : requests[r] = I!Idle
    BY DEF I!Init
  <2>3. DOMAIN stored = {}
    BY DEF I!Init
  <2> QED
    BY <2>1, <2>2, <2>3, IdleCommits DEF SealsSound
<1>2. SealsSound /\ [I!Next]_I!vars => SealsSound'
  <2> SUFFICES ASSUME SealsSound, [I!Next]_I!vars PROVE SealsSound'
    OBVIOUS
  <2>1. CASE UNCHANGED I!vars
    BY <2>1 DEF I!vars, I!stores, I!consumed, SealsSound, I!TypeOK, Commits, Sealed
  <2>2. ASSUME NEW r \in Requests, NEW b \in Batches, I!Receive(r, b) PROVE SealsSound'
    BY <2>2, ReceiveSound
  <2>3. ASSUME NEW r \in Requests, I!Republish(r) \/ I!Serve(r) \/ I!Abandon(r) PROVE SealsSound'
    BY <2>3, LoadSound, StoreSound, CommitSound, InvocationEnds, SendSound, MarkSound DEF I!Serve
  <2>4. ASSUME NEW m \in queue, I!Consume(m) \/ I!ConsumeFails(m) PROVE SealsSound'
    BY <2>4, ConsumerSound
  <2>5. CASE I!RegisterKey
    <3>1. deviceKey' \in 1..MaxKey /\ UNCHANGED <<I!stores, requests, failures, I!consumed, receipts>>
      BY <2>5, Typing DEF I!RegisterKey, SealsSound, I!TypeOK
    <3> QED
      BY <3>1 DEF I!stores, I!consumed, SealsSound, I!TypeOK, Commits, Sealed
  <2> QED
    BY <2>1, <2>2, <2>3, <2>4, <2>5 DEF I!Next
<1> QED
  BY <1>1, <1>2, PTL DEF I!Spec

-----------------------------------------------------------------------------
(* Every variable of the services keeps its type.                          *)
THEOREM WorkerServicesTyped == Spec => []TypeOK
<1>1. ValidationSound => V!TypeOK
  BY DEF ValidationSound
<1>2. OutboxSound => O!TypeOK
  BY WorkerServicesAssumption, OutboxPromises
<1>3. PollingSound => P!TypeOK
  BY PollingPromises
<1>4. SealsSound => I!TypeOK
  BY DEF SealsSound
<1>5. V!Spec => []ValidationSound
  BY WorkerServicesAssumption, ValidationSoundAlways
<1>6. O!Spec => []OutboxSound
  BY WorkerServicesAssumption, OutboxSoundAlways
<1>7. P!Spec => []PollingSound
  BY WorkerServicesAssumption, PollingSoundAlways
<1>8. I!Spec => []SealsSound
  BY WorkerServicesAssumption, SealsSoundAlways
<1> QED
  BY <1>1, <1>2, <1>3, <1>4, <1>5, <1>6, <1>7, <1>8, PTL DEF Spec, TypeOK

(* However a batch is lost, repeated and taken over: after a verdict of it *)
(* other than cleanup_failed, of no kind are more sandboxes alive than     *)
(* appeared after the delivery that had asked for them was over            *)
(* (validate-candidate.ts).                                                *)
THEOREM AccountedAlways == Spec => []Accounted
<1>1. ValidationSound /\ Ran => V!Accounted
  BY WorkerServicesAssumption, ValidationPromises
<1>2. V!Spec => []ValidationSound /\ []Ran
  BY WorkerServicesAssumption, ValidationSoundAlways, RanAlways
<1> QED
  BY <1>1, <1>2, PTL DEF Spec, Accounted

(* A verdict on the project or the candidate rests on the commands of the  *)
(* plan, run by its own delivery in two sandboxes it created and deleted   *)
(* and nobody else put source into; without commands for the baseline the  *)
(* baseline counts as passed; every summary is the verdict's               *)
(* (validate-candidate.ts).                                                *)
THEOREM VerdictIsEarnedAlways == Spec => []VerdictIsEarned
<1>1. ValidationSound /\ Ran => V!VerdictIsEarned
  BY WorkerServicesAssumption, ValidationPromises
<1>2. V!Spec => []ValidationSound /\ []Ran
  BY WorkerServicesAssumption, ValidationSoundAlways, RanAlways
<1> QED
  BY <1>1, <1>2, PTL DEF Spec, VerdictIsEarned

(* An exported row is a trace the provider holds and a row is abandoned    *)
(* only because of its latest failure; attempts beyond the limit took over *)
(* claims left without an outcome (braintrust-outbox.ts); and the page of  *)
(* a workspace that is shown is the one its etag names, whichever answers  *)
(* come late (use-workspace-polling.ts).                                   *)
THEOREM OutcomesTrueAlways == Spec => []OutcomesTrue
<1>1. OutboxSound => O!AttemptsBounded /\ O!OutcomesTrue
  BY WorkerServicesAssumption, OutboxPromises
<1>2. PollingSound => P!ShownIsAnswered
  BY PollingPromises
<1>3. O!Spec => []OutboxSound
  BY WorkerServicesAssumption, OutboxSoundAlways
<1>4. P!Spec => []PollingSound
  BY WorkerServicesAssumption, PollingSoundAlways
<1> QED
  BY <1>1, <1>2, <1>3, <1>4, PTL DEF Spec, OutcomesTrue
=============================================================================
