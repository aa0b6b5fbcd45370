---------------------------- MODULE IngestionProofs ----------------------------
(***************************************************************************)
(* Theorems about the ingestion of event batches, for every set of uploads,*)
(* every number of concurrent invocations and every bound.                 *)
(*                                                                         *)
(* Between two awaits an invocation acts on what it read before.  The      *)
(* invariant says what of that is still so: the object it stored is there  *)
(* under its seal, the row it read is committed under that version, what   *)
(* it marks or answers for has been published.  It holds on to the end     *)
(* because the stores only grow (Kept).  The chain itself is kept by the   *)
(* compare-and-swap of the stream, to which the state that was read and    *)
(* checked is compared.                                                    *)
(***************************************************************************)
EXTENDS Ingestion, FiniteSetTheorems, TLAPS

Delivered(b) == Published(b) \/ Anchored(b)

CommittedAs(row) == Committed(row.batch) /\ stored[Id(row.batch)].version = row.version

RequestSound(q) ==
  /\ q.step \in {"put", "commit"} => Continues(q.batch, q.expected)
  /\ q.step = "commit" => q.batch \in DOMAIN objects /\ objects[q.batch] = q.seal
  /\ q.step \in {"deliver", "mark", "respond", "recovered"} => CommittedAs(q.row)
  /\ q.step \in {"mark", "respond", "recovered"} => Delivered(q.row.batch)
  /\ q.step = "deliver" /\ q.row.state = "enqueued" => Delivered(q.row.batch)

RowSound(row) ==
  /\ row.batch \in DOMAIN objects /\ objects[row.batch] = row.version
  /\ row.state = "enqueued" => Delivered(row.batch)

AnchorSound(n) == \E b \in Batches : Committed(b) /\ b.last = n /\ anchors[n] = Anchor(b)

Chained(b) ==
  /\ b.last <= stream.sequence
  /\ IsPrefix(b.head, stream.head) /\ Len(b.head) = b.last
  /\ IF b.first = 1 THEN b.previous = <<>>
                    ELSE \E c \in Accepted : c.last = b.first - 1 /\ c.head = b.previous

Tiled ==
  /\ \A n \in 1..stream.sequence : \E b \in Accepted : b.first <= n /\ n <= b.last
  /\ \A b, c \in Accepted : b = c \/ b.last < c.first \/ c.last < b.first
  /\ \A b \in Accepted : Chained(b)
  /\ Len(stream.head) = stream.sequence

StoresSound ==
  /\ \A i \in DOMAIN stored : RowSound(stored[i])
  /\ \A m \in queue : CommittedAs(m.pointer)
  /\ \A p \in deadLetters : CommittedAs(p)
  /\ \A n \in DOMAIN anchors : AnchorSound(n)
  /\ \A b \in receipts : Committed(b) /\ Delivered(b)

IInv ==
  /\ TypeOK
  /\ \A r \in Requests : RequestSound(requests[r])
  /\ StoresSound
  /\ Tiled

(* What no step undoes: a committed batch stays so, under its version, an  *)
(* object and an anchor stay what they are, what is on its way to the      *)
(* consumer stays so until it is anchored, and the stream grows at its end.*)
Kept ==
  /\ IsPrefix(stream.head, stream'.head)
  /\ \A i \in DOMAIN stored :
       /\ i \in DOMAIN stored'
       /\ stored'[i].batch = stored[i].batch /\ stored'[i].version = stored[i].version
       /\ stored[i].state = "enqueued" => stored'[i].state = "enqueued"
  /\ \A n \in DOMAIN anchors : n \in DOMAIN anchors' /\ anchors'[n] = anchors[n]
  /\ \A b \in DOMAIN objects : b \in DOMAIN objects' /\ objects'[b] = objects[b]
  /\ \A b \in Batches : Delivered(b) => Delivered(b)'

LEMMA Typing ==
  /\ \A b \in Batches : /\ b.first \in Nat \ {0} /\ b.last \in Nat /\ b.first <= b.last
                        /\ b.previous \in Seq(Events) /\ b.head \in Seq(Events)
                        /\ IsPrefix(b.previous, b.head)
                        /\ Len(b.head) = Len(b.previous) + (b.last - b.first + 1)
  /\ MaxSeals \in Nat /\ MaxRetries \in Nat /\ MaxFailures \in Nat /\ MaxKey \in Nat \ {0}
  /\ IsFiniteSet(Batches) /\ IsFiniteSet(Requests)
  /\ MaxSeals >= Cardinality(Batches) + Cardinality(Requests)
BY IngestionAssumption DEF Verified

(* Whatever an invocation relies on, it may go on relying on.              *)
LEMMA RequestKept ==
  ASSUME Kept, NEW q \in RequestStates, RequestSound(q)
  PROVE  RequestSound(q)'
<1>1. q.step \in {"deliver", "mark", "respond", "recovered"} => q.row.batch \in Batches
  BY DEF RequestStates, Idle, Rows
<1> QED
  BY <1>1 DEF Kept, RequestSound, CommittedAs, Committed, Continues

(* Put adds one entry and leaves the others.                               *)
LEMMA PutAdds ==
  ASSUME NEW f, NEW x, NEW v
  PROVE  /\ DOMAIN Put(f, x, v) = DOMAIN f \union {x}
         /\ Put(f, x, v)[x] = v
         /\ \A y \in DOMAIN f \ {x} : Put(f, x, v)[y] = f[y]
BY DEF Put

-----------------------------------------------------------------------------
(* There is always another ciphertext: of those that exist, one at most    *)
(* belongs to each batch and one to each other invocation.                 *)
LEMMA SealIsNew ==
  ASSUME IInv, NEW r \in Requests, requests[r].step = "load"
  PROVE  NewSeal \in 1..MaxSeals
<1> DEFINE Stored == {objects[b] : b \in DOMAIN objects}
           Sealing == {q \in Requests : requests[q].step \in {"put", "commit"}}
           Held == {requests[q].seal : q \in Sealing}
<1>1. Seals = Stored \union Held
  BY DEF Seals, IInv, StoresSound, RowSound
<1>2. IsFiniteSet(Stored) /\ Cardinality(Stored) <= Cardinality(Batches)
  <2>1. DOMAIN objects \subseteq Batches
    BY DEF IInv, TypeOK
  <2>2. IsFiniteSet(DOMAIN objects) /\ Cardinality(DOMAIN objects) <= Cardinality(Batches)
    BY <2>1, FS_Subset, Typing
  <2> DEFINE f == [b \in DOMAIN objects |-> objects[b]]
  <2>3. f \in Surjection(DOMAIN objects, Stored)
    BY DEF Surjection
  <2>4. IsFiniteSet(Stored) /\ Cardinality(Stored) <= Cardinality(DOMAIN objects)
    BY <2>2, <2>3, FS_Surjection
  <2>5. Cardinality(Stored) \in Nat /\ Cardinality(DOMAIN objects) \in Nat /\ Cardinality(Batches) \in Nat
    BY <2>2, <2>4, FS_CardinalityType, Typing
  <2> QED
    BY <2>2, <2>4, <2>5
<1>3. IsFiniteSet(Held) /\ Cardinality(Held) < Cardinality(Requests)
  <2>1. Sealing \subseteq Requests \ {r}
    OBVIOUS
  <2>2. IsFiniteSet(Requests \ {r}) /\ Cardinality(Requests \ {r}) = Cardinality(Requests) - 1
    BY FS_RemoveElement, Typing
  <2>3. IsFiniteSet(Sealing) /\ Cardinality(Sealing) <= Cardinality(Requests \ {r})
    BY <2>1, <2>2, FS_Subset
  <2> DEFINE f == [q \in Sealing |-> requests[q].seal]
  <2>4. f \in Surjection(Sealing, Held)
    BY DEF Surjection
  <2>5. IsFiniteSet(Held) /\ Cardinality(Held) <= Cardinality(Sealing)
    BY <2>3, <2>4, FS_Surjection
  <2>6. /\ Cardinality(Held) \in Nat /\ Cardinality(Sealing) \in Nat
        /\ Cardinality(Requests) \in Nat
    BY <2>3, <2>5, FS_CardinalityType, Typing
  <2> QED
    BY <2>2, <2>3, <2>5, <2>6
<1>4. IsFiniteSet(Seals) /\ Cardinality(Seals) < MaxSeals
  <2>1. IsFiniteSet(Stored \union Held)
        /\ Cardinality(Stored \union Held)
             = Cardinality(Stored) + Cardinality(Held) - Cardinality(Stored \cap Held)
    BY <1>2, <1>3, FS_Union
  <2>2. IsFiniteSet(Stored \cap Held)
    BY <1>2, FS_Subset
  <2>3. /\ Cardinality(Stored \cap Held) \in Nat /\ Cardinality(Stored) \in Nat
        /\ Cardinality(Held) \in Nat /\ Cardinality(Batches) \in Nat
        /\ Cardinality(Requests) \in Nat
    BY <1>2, <1>3, <2>2, FS_CardinalityType, Typing
  <2> HIDE DEF Stored, Held
  <2> QED
    BY <1>1, <1>2, <1>3, <2>1, <2>3, Typing
<1>5. \E seal \in 1..MaxSeals : seal \notin Seals
  <2> SUFFICES ASSUME 1..MaxSeals \subseteq Seals PROVE FALSE
    OBVIOUS
  <2>1. Cardinality(1..MaxSeals) <= Cardinality(Seals)
    BY <1>4, FS_Subset
  <2>2. Cardinality(1..MaxSeals) = MaxSeals
    <3>1. 1 \in Int /\ MaxSeals \in Nat /\ MaxSeals \in Int
      BY Typing
    <3>2. Cardinality(1..MaxSeals) = IF 1 > MaxSeals THEN 0 ELSE MaxSeals - 1 + 1
      BY <3>1, FS_Interval
    <3> QED
      BY <3>1, <3>2
  <2>3. Cardinality(Seals) \in Nat
    BY <1>4, FS_CardinalityType
  <2> QED
    BY <1>4, <2>1, <2>2, <2>3, Typing
<1> QED
  BY <1>5 DEF NewSeal

-----------------------------------------------------------------------------
Loading == [step : {"load"}, batch : Batches]
Sealing == [step : {"put", "commit"}, batch : Batches, expected : StreamStates, seal : 1..MaxSeals]
Delivering == [step : {"deliver", "mark", "respond", "recovered"}, row : Rows]

LEMMA At ==
  ASSUME TypeOK, NEW r \in Requests
  PROVE  /\ requests[r].step \in {"idle", "load", "put", "commit", "deliver", "mark",
                                 "respond", "recovered"}
         /\ requests[r].step = "load" => requests[r] \in Loading
         /\ requests[r].step \in {"put", "commit"} => requests[r] \in Sealing
         /\ requests[r].step \in {"deliver", "mark", "respond", "recovered"}
              => requests[r] \in Delivering
BY DEF TypeOK, RequestStates, Idle, Loading, Sealing, Delivering

LEMMA AnyRequest == Idle \in RequestStates /\ Loading \subseteq RequestStates
                    /\ Sealing \subseteq RequestStates /\ Delivering \subseteq RequestStates
BY DEF RequestStates, Loading, Sealing, Delivering

LEMMA IdleSound == RequestSound(Idle) /\ RequestSound(Idle)'
BY DEF RequestSound, Idle

(* What a step has to show for itself, given what it keeps.                *)
LEMMA StepSound ==
  ASSUME IInv, Kept, TypeOK', Tiled',
         \A r \in Requests : requests'[r] = requests[r] \/ RequestSound(requests[r])',
         \A i \in DOMAIN stored' :
           (i \in DOMAIN stored /\ stored'[i] = stored[i]) \/ RowSound(stored[i])',
         \A m \in queue' \ queue : CommittedAs(m.pointer)',
         \A p \in deadLetters' \ deadLetters : CommittedAs(p)',
         \A n \in DOMAIN anchors' :
           (n \in DOMAIN anchors /\ anchors'[n] = anchors[n]) \/ AnchorSound(n)',
         \A b \in receipts' \ receipts : (Committed(b) /\ Delivered(b))'
  PROVE  IInv'
<1>1. ASSUME NEW r \in Requests PROVE RequestSound(requests[r])'
  <2>1. requests[r] \in RequestStates /\ RequestSound(requests[r])
    BY DEF IInv, TypeOK
  <2>2. RequestSound(requests[r]) => (requests'[r] = requests[r] => RequestSound(requests[r])')
    <3> DEFINE q == requests[r]
    <3>1. q.step \in {"deliver", "mark", "respond", "recovered"} => q.row.batch \in Batches
      BY At DEF IInv, Delivering, Rows
    <3> QED
      BY <3>1 DEF Kept, RequestSound, CommittedAs, Committed, Continues
  <2> QED
    BY <2>1, <2>2
<1>2. ASSUME NEW i \in DOMAIN stored' PROVE RowSound(stored[i])'
  BY DEF IInv, StoresSound, TypeOK, Rows, Kept, RowSound
<1>3. \A p \in Pointers : CommittedAs(p) => CommittedAs(p)'
  BY DEF Kept, CommittedAs, Committed
<1>4. ASSUME NEW m \in queue' PROVE CommittedAs(m.pointer)'
  BY <1>3 DEF IInv, TypeOK, StoresSound, Messages
<1>5. ASSUME NEW p \in deadLetters' PROVE CommittedAs(p)'
  BY <1>3 DEF IInv, TypeOK, StoresSound
<1>6. ASSUME NEW n \in DOMAIN anchors' PROVE AnchorSound(n)'
  BY DEF IInv, StoresSound, Kept, AnchorSound, Committed, Anchor
<1>7. ASSUME NEW b \in receipts' PROVE (Committed(b) /\ Delivered(b))'
  BY DEF IInv, TypeOK, StoresSound, Kept, Committed
<1> QED
  BY <1>1, <1>2, <1>4, <1>5, <1>6, <1>7 DEF IInv, StoresSound

(* As long as nothing is committed, the chain stays what it is.            *)
LEMMA SameChain ==
  ASSUME Tiled, stream' = stream, Accepted' = Accepted
  PROVE  Tiled'
BY DEF Tiled, Chained

(* What a row becomes when it is marked.                                   *)
LEMMA EnqueuedRow ==
  ASSUME IInv, NEW b \in Batches, SetEnqueued(b)
  PROVE  /\ DOMAIN stored' = DOMAIN stored /\ Accepted' = Accepted
         /\ \A i \in DOMAIN stored :
              /\ stored'[i] \in Rows
              /\ stored'[i].batch = stored[i].batch /\ stored'[i].version = stored[i].version
              /\ stored'[i] = stored[i] \/ (i = Id(b) /\ stored'[i].state = "enqueued")
<1>1. \A i \in DOMAIN stored : stored[i] \in Rows
  BY DEF IInv, TypeOK
<1>2. /\ DOMAIN stored' = DOMAIN stored
      /\ \A i \in DOMAIN stored : stored'[i] = IF i = Id(b)
                                               THEN [stored[i] EXCEPT !.state = "enqueued"]
                                               ELSE stored[i]
  BY DEF SetEnqueued
<1>3. \A i \in DOMAIN stored :
              /\ stored'[i] \in Rows
              /\ stored'[i].batch = stored[i].batch /\ stored'[i].version = stored[i].version
              /\ stored'[i] = stored[i] \/ (i = Id(b) /\ stored'[i].state = "enqueued")
  BY <1>1, <1>2 DEF Rows
<1> QED
  BY <1>2, <1>3 DEF Accepted

LEMMA PrefixOfItself ==
  ASSUME NEW s \in Seq(Events)
  PROVE  IsPrefix(s, s)
BY DEF IsPrefix

LEMMA SameHead == IInv /\ stream' = stream => IsPrefix(stream.head, stream'.head)
<1> SUFFICES ASSUME IInv, stream' = stream PROVE IsPrefix(stream.head, stream'.head)
  OBVIOUS
<1>1. stream.head \in Seq(Events)
  <2>1. stream.head = <<>> \/ \E b \in Batches : stream.head = b.head
    BY DEF IInv, TypeOK, StreamStates
  <2>2. <<>> \in Seq(Events)
    OBVIOUS
  <2> QED
    BY <2>1, <2>2, Typing
<1> QED
  BY <1>1, PrefixOfItself

-----------------------------------------------------------------------------
(* An invocation that reads, or ends, leaves the stores alone.             *)
LEMMA ReadingSound ==
  ASSUME IInv, NEW r \in Requests, NEW next \in RequestStates, Become(r, next),
         deviceKey' \in 1..MaxKey, failures' \in 0..MaxFailures,
         UNCHANGED <<stores, consumed, receipts>>,
         RequestSound(next)'
  PROVE  IInv' /\ Kept
<1>1. TypeOK'
  BY DEF IInv, TypeOK, stores, consumed, Become
<1>2. Kept
  BY SameHead DEF Kept, stores, consumed, Delivered, Published, Anchored
<1>3. Tiled'
  BY SameChain DEF IInv, stores, Accepted
<1>4. \A v \in Requests : requests'[v] = requests[v] \/ RequestSound(requests[v])'
  BY DEF IInv, TypeOK, Become
<1> QED
  BY <1>1, <1>2, <1>3, <1>4, StepSound DEF stores, consumed

LEMMA ReceiveSound ==
  ASSUME IInv, NEW r \in Requests, NEW b \in Batches, Receive(r, b)
  PROVE  IInv' /\ Kept
<1>1. /\ UNCHANGED <<deviceKey, stores, failures, consumed, receipts>>
      /\ deviceKey \in 1..MaxKey /\ failures \in 0..MaxFailures
  BY DEF Receive, IInv, TypeOK
<1>2. CASE Duplicate(b) /\ Become(r, [step |-> "deliver", row |-> stored[Id(b)]])
  <2>1. Id(b) \in DOMAIN stored /\ stored[Id(b)].batch = b /\ stored[Id(b)] \in Rows
    BY <1>2 DEF Duplicate, Exists, IInv, TypeOK
  <2>2. PICK next \in RequestStates : next = [step |-> "deliver", row |-> stored[Id(b)]]
    BY <2>1, AnyRequest DEF Delivering
  <2>3. RequestSound(next)
    BY <2>1, <2>2 DEF IInv, StoresSound, RowSound, RequestSound, CommittedAs, Committed
  <2>4. RequestSound(next)'
    BY <1>1, <2>3 DEF stores, consumed, RequestSound, CommittedAs, Committed, Delivered,
                      Published, Anchored
  <2> QED
    BY <1>1, <1>2, <2>2, <2>4, ReadingSound
<1>3. CASE Become(r, [step |-> "load", batch |-> b])
  <2>1. [step |-> "load", batch |-> b] \in RequestStates
    BY AnyRequest DEF Loading
  <2>2. RequestSound([step |-> "load", batch |-> b])'
    BY DEF RequestSound
  <2> QED
    BY <1>1, <1>3, <2>1, <2>2, ReadingSound
<1> QED
  BY <1>2, <1>3 DEF Receive

LEMMA LoadSound ==
  ASSUME IInv, NEW r \in Requests, Load(r)
  PROVE  IInv' /\ Kept
<1>1. /\ UNCHANGED <<deviceKey, stores, failures, consumed, receipts>>
      /\ deviceKey \in 1..MaxKey /\ failures \in 0..MaxFailures
      /\ requests[r].step = "load" /\ stream \in StreamStates
  BY DEF Load, IInv, TypeOK
<1> DEFINE q == requests[r]
<1>2. q.batch \in Batches /\ NewSeal \in 1..MaxSeals
  BY <1>1, At, SealIsNew DEF IInv, Loading
<1>3. CASE Continues(q.batch, stream)
  <2>1. PICK next \in RequestStates :
          next = [step |-> "put", batch |-> q.batch, expected |-> stream, seal |-> NewSeal]
    BY <1>1, <1>2, AnyRequest DEF Sealing
  <2>2. Become(r, next)
    BY <1>3, <2>1 DEF Load
  <2>3. RequestSound(next)'
    BY <1>1, <1>3, <2>1 DEF RequestSound, Continues
  <2> QED
    BY <1>1, <2>2, <2>3, ReadingSound
<1>4. CASE ~Continues(q.batch, stream)
  <2>1. Become(r, Idle)
    BY <1>4 DEF Load
  <2> QED
    BY <1>1, <2>1, AnyRequest, IdleSound, ReadingSound
<1> QED
  BY <1>3, <1>4

LEMMA EndingSound ==
  ASSUME IInv, NEW r \in Requests, RollBack(r) \/ Abandon(r)
  PROVE  IInv' /\ Kept
<1>1. /\ Become(r, Idle) /\ UNCHANGED <<deviceKey, stores, consumed, receipts>>
      /\ deviceKey' \in 1..MaxKey /\ failures' \in 0..MaxFailures
  BY IngestionAssumption DEF RollBack, Abandon, IInv, TypeOK
<1> QED
  BY <1>1, AnyRequest, IdleSound, ReadingSound

(* The object under a key is the one that was put first.                   *)
LEMMA PutObjectSound ==
  ASSUME IInv, NEW r \in Requests, PutObject(r)
  PROVE  IInv' /\ Kept
<1> DEFINE q == requests[r]
           next == IF objects'[q.batch] = q.seal THEN [q EXCEPT !.step = "commit"] ELSE Idle
<1>1. /\ q \in Sealing /\ q.step = "put" /\ RequestSound(q)
      /\ UNCHANGED <<deviceKey, stream, stored, failures, consumed, receipts>>
      /\ PutIfAbsent(q.batch, q.seal) /\ Become(r, next)
  BY At DEF PutObject, IInv
<1>2. /\ DOMAIN objects' = DOMAIN objects \union {q.batch}
      /\ \A b \in DOMAIN objects : objects'[b] = objects[b]
      /\ objects'[q.batch] \in 1..MaxSeals
  <2>1. \A b \in DOMAIN objects : objects[b] \in 1..MaxSeals
    BY DEF IInv, TypeOK
  <2>2. CASE q.batch \in DOMAIN objects
    BY <1>1, <2>1, <2>2 DEF PutIfAbsent
  <2>3. CASE q.batch \notin DOMAIN objects
    <3>1. objects' = Put(objects, q.batch, q.seal)
      BY <1>1, <2>3 DEF PutIfAbsent
    <3>2. q.seal \in 1..MaxSeals
      BY <1>1 DEF Sealing
    <3>3. /\ DOMAIN objects' = DOMAIN objects \union {q.batch}
          /\ objects'[q.batch] = q.seal
          /\ \A y \in DOMAIN objects \ {q.batch} : objects'[y] = objects[y]
      BY <3>1 DEF Put
    <3> QED
      BY <2>3, <3>2, <3>3
  <2> QED
    BY <2>2, <2>3
<1>3. next \in RequestStates
  BY <1>1, AnyRequest DEF Sealing
<1>4. TypeOK'
  BY <1>1, <1>2, <1>3 DEF IInv, TypeOK, consumed, Become, Sealing
<1>5. Kept
  BY <1>1, <1>2, SameHead DEF Kept, consumed, Delivered, Published, Anchored
<1>6. Tiled'
  BY <1>1, SameChain DEF IInv, Accepted
<1>7. RequestSound(requests[r])'
  <2>1. requests'[r] = next
    BY <1>1 DEF Become, IInv, TypeOK
  <2>2. CASE objects'[q.batch] = q.seal
    BY <1>1, <1>2, <2>1, <2>2 DEF RequestSound, Continues, Sealing
  <2>3. CASE objects'[q.batch] # q.seal
    BY <2>1, <2>3 DEF RequestSound, Idle
  <2> QED
    BY <2>2, <2>3
<1>8. \A v \in Requests : requests'[v] = requests[v] \/ RequestSound(requests[v])'
  BY <1>1, <1>7 DEF IInv, TypeOK, Become
<1> QED
  BY <1>1, <1>4, <1>5, <1>6, <1>8, StepSound DEF consumed

(* A prefix of a prefix is a prefix; a prefix of the same length is the    *)
(* whole.                                                                  *)
LEMMA PrefixFacts ==
  ASSUME NEW s \in Seq(Events), NEW t \in Seq(Events), NEW u \in Seq(Events),
         IsPrefix(s, t)
  PROVE  /\ IsPrefix(t, u) => IsPrefix(s, u)
         /\ Len(s) = Len(t) => s = t
<1>1. Len(s) \in Nat /\ Len(t) \in Nat /\ Len(u) \in Nat /\ Len(s) <= Len(t)
  BY DEF IsPrefix
<1>2. \A i \in 1..Len(s) : s[i] = t[i]
  <2>1. SubSeq(s, 1, Len(s)) = SubSeq(t, 1, Len(s))
    BY DEF IsPrefix
  <2> QED
    BY <1>1, <2>1
<1>3. Len(s) = Len(t) => s = t
  BY <1>1, <1>2
<1>4. ASSUME IsPrefix(t, u) PROVE IsPrefix(s, u)
  <2>1. Len(t) <= Len(u) /\ SubSeq(t, 1, Len(t)) = SubSeq(u, 1, Len(t))
    BY <1>4 DEF IsPrefix
  <2>2. \A i \in 1..Len(t) : t[i] = u[i]
    BY <1>1, <2>1
  <2>3. \A i \in 1..Len(s) : s[i] = u[i]
    BY <1>1, <1>2, <2>2
  <2>4. SubSeq(s, 1, Len(s)) = SubSeq(u, 1, Len(s))
    BY <1>1, <2>1, <2>3
  <2> QED
    BY <1>1, <2>1, <2>4 DEF IsPrefix
<1> QED
  BY <1>1, <1>3, <1>4 DEF IsPrefix

(* A batch that starts after the last event and links to the head leaves   *)
(* the batches accepted before a chain, with itself at the end.            *)
LEMMA ChainGrows ==
  ASSUME IInv, NEW b \in Batches, Continues(b, stream), Accepted' = Accepted \union {b},
         stream' = [sequence |-> b.last, head |-> b.head]
  PROVE  Tiled'
<1>1. /\ stream.sequence \in Nat /\ stream.head \in Seq(Events)
      /\ b.first = stream.sequence + 1 /\ b.previous = stream.head
      /\ stream'.sequence = b.last /\ stream'.head = b.head
      /\ b.first \in Nat /\ b.last \in Nat /\ b.first <= b.last /\ b.head \in Seq(Events)
      /\ IsPrefix(stream.head, b.head)
      /\ Len(b.head) = Len(stream.head) + (b.last - b.first + 1)
      /\ Len(stream.head) = stream.sequence
  BY Typing DEF IInv, TypeOK, StreamStates, Continues, Tiled
<1>2. \A c \in Accepted :
        /\ c \in Batches /\ c.first \in Nat \ {0} /\ c.last \in Nat /\ c.first <= c.last
        /\ c.head \in Seq(Events) /\ c.previous \in Seq(Events)
        /\ Chained(c) /\ c.last <= stream.sequence
  BY Typing DEF IInv, Tiled, Chained, Accepted, TypeOK, Rows
<1>3. Len(b.head) = b.last /\ IsPrefix(b.head, b.head)
  BY <1>1, PrefixOfItself
<1>4. ASSUME NEW n \in 1..b.last PROVE \E c \in Accepted' : c.first <= n /\ n <= c.last
  <2>1. CASE n <= stream.sequence
    BY <1>1, <2>1 DEF IInv, Tiled
  <2>2. CASE n > stream.sequence
    <3>1. b \in Accepted' /\ b.first <= n /\ n <= b.last
      BY <1>1, <2>2
    <3> QED
      BY <3>1
  <2> QED
    BY <1>1, <2>1, <2>2
<1>5. \A c, d \in Accepted' : c = d \/ c.last < d.first \/ d.last < c.first
  <2>1. \A c \in Accepted : c.last < b.first
    BY <1>1, <1>2
  <2> QED
    BY <2>1 DEF IInv, Tiled
<1>6. ASSUME NEW c \in Accepted PROVE Chained(c)'
  <2>1. IsPrefix(c.head, stream.head)
    BY <1>2 DEF Chained
  <2>2. IsPrefix(c.head, b.head)
    BY <1>1, <1>2, <2>1, PrefixFacts
  <2>3. c.last <= b.last
    BY <1>1, <1>2
  <2> QED
    BY <1>1, <1>2, <2>2, <2>3 DEF Chained
<1>7. Chained(b)'
  <2>1. CASE stream.sequence = 0
    BY <1>1, <1>3, <2>1 DEF Chained
  <2>2. CASE stream.sequence # 0
    <3>1. stream.sequence \in 1..stream.sequence
      BY <1>1, <2>2
    <3>2. PICK c \in Accepted : c.first <= stream.sequence /\ stream.sequence <= c.last
      BY <3>1 DEF IInv, Tiled
    <3>3. c.last = stream.sequence /\ IsPrefix(c.head, stream.head) /\ Len(c.head) = c.last
      BY <1>1, <1>2, <3>2 DEF Chained
    <3>4. c.head = stream.head
      BY <1>1, <1>2, <3>3, PrefixFacts
    <3>5. c \in Accepted' /\ c.last = b.first - 1 /\ c.head = b.previous
      BY <1>1, <3>3, <3>4
    <3>6. b.first # 1
      BY <1>1, <2>2
    <3> QED
      BY <1>1, <1>3, <3>5, <3>6 DEF Chained
  <2> QED
    BY <2>1, <2>2
<1> QED
  BY <1>1, <1>3, <1>4, <1>5, <1>6, <1>7 DEF Tiled

(* A batch that is committed continues the chain that its upload read and  *)
(* checked: the stream is as it was then.                                  *)
LEMMA CommitSound ==
  ASSUME IInv, NEW r \in Requests, Commit(r)
  PROVE  IInv' /\ Kept
<1> PICK b \in Batches : b = requests[r].batch
  BY At DEF Commit, IInv, Sealing
<1> DEFINE q == requests[r]
           row == [batch |-> b, version |-> q.seal, state |-> "stored_not_enqueued"]
<1>1. /\ q \in Sealing /\ q.step = "commit" /\ RequestSound(q) /\ b \in Batches
      /\ UNCHANGED <<deviceKey, objects, failures, consumed, receipts>>
      /\ deviceKey \in 1..MaxKey /\ failures \in 0..MaxFailures
  BY At DEF Commit, IInv, TypeOK, Sealing
<1>2. CASE /\ Duplicate(b) /\ UNCHANGED <<stream, stored>>
           /\ Become(r, [step |-> "deliver", row |-> stored[Id(b)]])
  <2>1. Id(b) \in DOMAIN stored /\ stored[Id(b)].batch = b /\ stored[Id(b)] \in Rows
    BY <1>2 DEF Duplicate, Exists, IInv, TypeOK
  <2>2. PICK next \in RequestStates : next = [step |-> "deliver", row |-> stored[Id(b)]]
    BY <2>1, AnyRequest DEF Delivering
  <2>3. RequestSound(next)
    BY <2>1, <2>2 DEF IInv, StoresSound, RowSound, RequestSound, CommittedAs, Committed
  <2>4. RequestSound(next)'
    BY <1>1, <1>2, <2>3 DEF consumed, RequestSound, CommittedAs, Committed, Delivered,
                            Published, Anchored
  <2> QED
    BY <1>1, <1>2, <2>2, <2>4, ReadingSound DEF stores
<1>3. CASE /\ ~Exists(b) /\ Matches(q) /\ stored' = Put(stored, Id(b), row)
           /\ stream' = [sequence |-> b.last, head |-> b.head]
           /\ Become(r, [step |-> "deliver", row |-> row])
  <2>1. /\ row \in Rows /\ b \in DOMAIN objects /\ objects[b] = q.seal
        /\ Continues(b, stream)
    BY <1>1, <1>3 DEF Sealing, Rows, RequestSound, Matches
  <2> HIDE DEF row
  <2>2. /\ Id(b) \notin DOMAIN stored /\ DOMAIN stored' = DOMAIN stored \union {Id(b)}
        /\ stored'[Id(b)] = row /\ \A i \in DOMAIN stored : stored'[i] = stored[i]
    <3>1. /\ DOMAIN stored' = DOMAIN stored \union {Id(b)} /\ stored'[Id(b)] = row
          /\ \A i \in DOMAIN stored \ {Id(b)} : stored'[i] = stored[i]
      BY <1>3 DEF Put
    <3> QED
      BY <1>3, <3>1 DEF Exists
  <2>3. row.batch = b /\ row.version = q.seal /\ row.state = "stored_not_enqueued"
    BY DEF row
  <2>4. Accepted' = Accepted \union {b}
    BY <2>2, <2>3 DEF Accepted
  <2>5. PICK next \in RequestStates : next = [step |-> "deliver", row |-> row]
    BY <2>1, AnyRequest DEF Delivering
  <2>6. requests' = [requests EXCEPT ![r] = next]
    BY <1>3, <2>5 DEF Become
  <2>7. TypeOK'
    <3>1. stream' \in StreamStates
      BY <1>1, <1>3, Typing DEF StreamStates
    <3>2. /\ DOMAIN stored' \subseteq {Id(c) : c \in Batches}
          /\ \A i \in DOMAIN stored' : stored'[i] \in Rows /\ Id(stored'[i].batch) = i
      BY <1>1, <2>1, <2>2, <2>3 DEF IInv, TypeOK
    <3> QED
      BY <1>1, <2>6, <3>1, <3>2 DEF IInv, TypeOK, consumed
  <2>8. Kept
    BY <1>1, <1>3, <2>1, <2>2, Typing DEF Continues, Kept, consumed, Delivered, Published, Anchored
  <2>9. RequestSound(requests[r])'
    <3>1. requests'[r] = next
      BY <2>6 DEF IInv, TypeOK
    <3>2. next.step = "deliver" /\ next.row = row
      BY <2>5
    <3>3. Id(b) \in DOMAIN stored' /\ stored'[Id(b)].batch = b /\ stored'[Id(b)].version = q.seal
      BY <2>2, <2>3
    <3> QED
      BY <2>3, <3>1, <3>2, <3>3 DEF RequestSound, CommittedAs, Committed
  <2>10. \A v \in Requests : requests'[v] = requests[v] \/ RequestSound(requests[v])'
    BY <2>6, <2>9 DEF IInv, TypeOK
  <2>11. RowSound(stored[Id(b)])'
    BY <1>1, <2>1, <2>2, <2>3 DEF RowSound
  <2>12. Tiled'
    BY <1>1, <1>3, <2>1, <2>4, ChainGrows DEF IInv
  <2> QED
    BY <1>1, <2>2, <2>7, <2>8, <2>10, <2>11, <2>12, StepSound DEF consumed
<1> QED
  BY <1>2, <1>3 DEF Commit

-----------------------------------------------------------------------------
(* The pointer of a row that is committed, sent to the consumer.           *)
LEMMA SendingSound ==
  ASSUME IInv, NEW r \in Requests, Publish(r) \/ Republish(r)
  PROVE  IInv' /\ Kept
<1>1. UNCHANGED <<deviceKey, stores, failures, deadLetters, anchors, receipts>>
  BY DEF Publish, Republish
<1>2. PICK row \in Rows, next \in RequestStates :
        /\ CommittedAs(row) /\ Become(r, next)
        /\ queue' = queue \union {Message(Pointer(row))}
        /\ next.step \in {"mark", "recovered"} /\ next.row.batch = row.batch
        /\ next.row.version = row.version
  <2>1. CASE Publish(r)
    <3> DEFINE next == [requests[r] EXCEPT !.step = "mark"]
    <3>1. /\ requests[r] \in Delivering /\ requests[r].step = "deliver"
          /\ RequestSound(requests[r])
      BY <2>1, At DEF Publish, IInv
    <3>2. /\ next \in Delivering /\ next.step = "mark" /\ next.row = requests[r].row
          /\ requests[r].row \in Rows
      BY <3>1 DEF Delivering
    <3>3. CommittedAs(requests[r].row) /\ Become(r, next)
          /\ queue' = queue \union {Message(Pointer(requests[r].row))}
      BY <2>1, <3>1 DEF RequestSound, Publish
    <3> QED
      BY <3>2, <3>3, AnyRequest
  <2>2. CASE Republish(r)
    <3>1. PICK i \in DOMAIN stored :
            /\ queue' = queue \union {Message(Pointer(stored[i]))}
            /\ Become(r, [step |-> "recovered",
                          row |-> [stored[i] EXCEPT !.state = "stored_not_enqueued"]])
      BY <2>2 DEF Republish
    <3> DEFINE row == [stored[i] EXCEPT !.state = "stored_not_enqueued"]
               next == [step |-> "recovered", row |-> row]
    <3>2. stored[i] \in Rows /\ Id(stored[i].batch) = i
      BY DEF IInv, TypeOK
    <3>3. row \in Rows /\ row.batch = stored[i].batch /\ row.version = stored[i].version
      BY <3>2 DEF Rows
    <3>4. next \in RequestStates
      BY <3>3, AnyRequest DEF Delivering
    <3>5. CommittedAs(stored[i])
      BY <3>2 DEF CommittedAs, Committed
    <3> QED
      BY <3>1, <3>2, <3>3, <3>4, <3>5
  <2> QED
    BY <2>1, <2>2
<1>3. /\ Message(Pointer(row)) \in Messages
      /\ Message(Pointer(row)).pointer.batch = row.batch
      /\ Message(Pointer(row)).pointer.version = row.version
  BY Typing DEF Message, Pointer, Messages, Pointers, Rows
<1>4. TypeOK'
  BY <1>1, <1>2, <1>3 DEF IInv, TypeOK, stores, Become
<1>5. Kept
  BY <1>1, <1>2, SameHead DEF Kept, stores, Delivered, Published, Anchored
<1>6. Tiled'
  BY <1>1, SameChain DEF IInv, stores, Accepted
<1>7. CommittedAs(Message(Pointer(row)).pointer)' /\ CommittedAs(next.row)'
  BY <1>1, <1>2, <1>3 DEF CommittedAs, Committed, stores
<1>8. Delivered(next.row.batch)'
  BY <1>2, <1>3 DEF Delivered, Published
<1>9. RequestSound(next)'
  BY <1>2, <1>7, <1>8 DEF RequestSound
<1>10. \A v \in Requests : requests'[v] = requests[v] \/ RequestSound(requests[v])'
  BY <1>2, <1>9 DEF IInv, TypeOK, Become
<1>11. \A m \in queue' \ queue : CommittedAs(m.pointer)'
  BY <1>2, <1>7
<1> QED
  BY <1>1, <1>4, <1>5, <1>6, <1>10, <1>11, StepSound DEF stores

(* A row is marked once its pointer has been sent.                         *)
LEMMA MarkingSound ==
  ASSUME IInv, NEW r \in Requests, MarkEnqueued(r) \/ MarkRecovered(r)
  PROVE  IInv' /\ Kept
<1>1. /\ UNCHANGED <<deviceKey, stream, objects, failures, consumed, receipts>>
      /\ requests[r].step \in {"mark", "recovered"} /\ requests[r] \in Delivering
      /\ RequestSound(requests[r])
  BY At DEF MarkEnqueued, MarkRecovered, IInv
<1>2. PICK next \in RequestStates : Become(r, next) /\ RequestSound(next)
  <2>1. CASE MarkEnqueued(r)
    <3> DEFINE next == [requests[r] EXCEPT !.step = "respond"]
    <3>1. next \in Delivering /\ next.step = "respond" /\ next.row = requests[r].row
      BY <1>1 DEF Delivering
    <3>2. RequestSound(next)
      BY <1>1, <3>1 DEF RequestSound
    <3> QED
      BY <2>1, <3>1, <3>2, AnyRequest DEF MarkEnqueued
  <2>2. CASE MarkRecovered(r)
    BY <2>2, AnyRequest, IdleSound DEF MarkRecovered
  <2> QED
    BY <2>1, <2>2
<1>3. PICK b \in Batches : b = requests[r].row.batch
  BY <1>1 DEF Delivering, Rows
<1>4. Committed(b) /\ Delivered(b)
  BY <1>1, <1>3 DEF RequestSound, CommittedAs
<1>5. CASE UNCHANGED stored
  <2>1. RequestSound(next)'
    BY <1>1, <1>2, <1>5 DEF consumed, RequestSound, CommittedAs, Committed, Delivered,
                            Published, Anchored
  <2>2. deviceKey' \in 1..MaxKey /\ failures' \in 0..MaxFailures
    BY <1>1 DEF IInv, TypeOK
  <2> QED
    BY <1>1, <1>2, <1>5, <2>1, <2>2, ReadingSound DEF stores
<1>6. CASE SetEnqueued(b)
  <2>1. /\ DOMAIN stored' = DOMAIN stored /\ Accepted' = Accepted
        /\ \A i \in DOMAIN stored :
              /\ stored'[i] \in Rows
              /\ stored'[i].batch = stored[i].batch /\ stored'[i].version = stored[i].version
              /\ stored'[i] = stored[i] \/ (i = Id(b) /\ stored'[i].state = "enqueued")
    BY <1>6, EnqueuedRow
  <2>2. TypeOK'
    BY <1>1, <1>2, <2>1 DEF IInv, TypeOK, consumed, Become
  <2>3. Kept
    BY <1>1, <2>1, SameHead DEF Kept, consumed, Delivered, Published, Anchored
  <2>4. Tiled'
    BY <1>1, <2>1, SameChain DEF IInv
  <2>5. RequestSound(next)'
    BY <1>2, <2>3, RequestKept
  <2>6. \A v \in Requests : requests'[v] = requests[v] \/ RequestSound(requests[v])'
    BY <1>2, <2>5 DEF IInv, TypeOK, Become
  <2>7. ASSUME NEW i \in DOMAIN stored' PROVE stored'[i] = stored[i] \/ RowSound(stored[i])'
    <3>1. i \in DOMAIN stored /\ RowSound(stored[i])
      BY <2>1 DEF IInv, StoresSound
    <3>2. CASE stored'[i] # stored[i]
      <4>1. i = Id(b) /\ stored[i].batch = b /\ stored'[i].batch = b
        BY <1>4, <2>1, <3>1, <3>2 DEF Committed
      <4> QED
        BY <1>1, <1>4, <2>1, <2>3, <3>1, <4>1 DEF RowSound, Kept
    <3> QED
      BY <3>2
  <2> QED
    BY <1>1, <2>1, <2>2, <2>3, <2>4, <2>6, <2>7, StepSound DEF consumed
<1> QED
  BY <1>3, <1>5, <1>6 DEF MarkEnqueued, MarkRecovered

(* A receipt is returned for a batch that is committed and was published.  *)
LEMMA RespondSound ==
  ASSUME IInv, NEW r \in Requests, Respond(r)
  PROVE  IInv' /\ Kept
<1>1. /\ UNCHANGED <<deviceKey, stores, failures, consumed>>
      /\ requests' = [requests EXCEPT ![r] = Idle]
      /\ requests[r] \in Delivering /\ RequestSound(requests[r])
      /\ requests[r].step \in {"respond", "deliver"}
  BY At DEF Respond, IInv, Become
<1>2. PICK b \in Batches : b = requests[r].row.batch
  BY <1>1 DEF Delivering, Rows
<1>3. receipts' = receipts \union {b} /\ Committed(b) /\ Delivered(b)
  BY <1>1, <1>2 DEF Respond, RequestSound, CommittedAs
<1>4. (Committed(b) /\ Delivered(b))'
  BY <1>1, <1>3 DEF stores, consumed, Committed, Delivered, Published, Anchored
<1>5. TypeOK'
  BY <1>1, <1>2, <1>3, AnyRequest DEF IInv, TypeOK, stores, consumed
<1>6. Kept
  BY <1>1, SameHead DEF Kept, stores, consumed, Delivered, Published, Anchored
<1>7. Tiled'
  BY <1>1, SameChain DEF IInv, stores, Accepted
<1>8. \A v \in Requests : requests'[v] = requests[v] \/ RequestSound(requests[v])'
  BY <1>1, IdleSound DEF IInv, TypeOK
<1> QED
  BY <1>1, <1>3, <1>4, <1>5, <1>6, <1>7, <1>8, StepSound DEF stores, consumed

-----------------------------------------------------------------------------
(* What is at a sequence stays there; what is there is the anchor of a     *)
(* committed batch.                                                        *)
LEMMA Anchoring ==
  ASSUME IInv, NEW p \in Pointers, CommittedAs(p), PersistEventBatch(p)
  PROVE  /\ DOMAIN anchors' = DOMAIN anchors \union {p.batch.last}
         /\ anchors'[p.batch.last] = Anchor(p.batch)
         /\ \A n \in DOMAIN anchors : anchors'[n] = anchors[n]
         /\ p.batch \in Batches /\ SetEnqueued(p.batch) /\ p.batch.last \in Nat
<1>1. p.batch \in Batches /\ p.batch.last \in Nat
  BY Typing DEF Pointers
<1>2. anchors' = Put(anchors, p.batch.last, Anchor(p.batch))
  BY DEF PersistEventBatch
<1>3. p.batch.last \in DOMAIN anchors => anchors[p.batch.last] = Anchor(p.batch)
  BY DEF PersistEventBatch, Persistable
<1> QED
  BY <1>1, <1>2, <1>3 DEF Put, PersistEventBatch

(* A message leaves the queue for a later attempt, for the dead letters or *)
(* because its batch is anchored.                                          *)
LEMMA ConsumerSound ==
  ASSUME IInv, NEW m \in queue, Consume(m) \/ ConsumeFails(m)
  PROVE  IInv' /\ Kept
<1> DEFINE p == m.pointer
           again == [m EXCEPT !.attempts = @ + 1]
<1>1. /\ m \in Messages /\ p \in Pointers /\ CommittedAs(p)
      /\ UNCHANGED <<deviceKey, stream, objects, requests, failures, receipts>>
      /\ again.pointer = p /\ p.batch \in Batches
  BY DEF Consume, ConsumeFails, IInv, TypeOK, StoresSound, Messages, Pointers
<1>2. \/ /\ Consume(m) /\ PersistEventBatch(p) /\ queue' = queue \ {m} /\ UNCHANGED deadLetters
      \/ /\ m.attempts < MaxRetries /\ queue' = (queue \ {m}) \union {again}
         /\ UNCHANGED deadLetters
      \/ queue' = queue \ {m} /\ deadLetters' = deadLetters \union {p}
  BY DEF Consume, ConsumeFails, Redeliver
<1>3. queue' \subseteq Messages /\ deadLetters' \subseteq Pointers
  <2>1. m.attempts < MaxRetries => again \in Messages
    BY <1>1, Typing DEF Messages
  <2> QED
    BY <1>1, <1>2, <2>1 DEF IInv, TypeOK
<1>4. \A c \in Batches : Published(c) => Published(c)' \/ (PersistEventBatch(p) /\ c = p.batch)
  BY <1>1, <1>2 DEF Published
<1>5. \A k \in queue' \ queue : k.pointer = p
  BY <1>1, <1>2
<1>6. \A k \in deadLetters' \ deadLetters : k = p
  BY <1>2
<1> HIDE DEF again
<1>7. CASE UNCHANGED <<anchors, stored>> /\ ~PersistEventBatch(p)
  <2>1. Kept
    BY <1>1, <1>4, <1>7, SameHead DEF Kept, Delivered, Anchored
  <2>2. TypeOK'
    BY <1>1, <1>3, <1>7 DEF IInv, TypeOK
  <2>3. Tiled'
    BY <1>1, <1>7, SameChain DEF IInv, Accepted
  <2>4. CommittedAs(p) => \A k \in Pointers : k = p => CommittedAs(k)'
    BY <1>7 DEF CommittedAs, Committed
  <2>5. \A k \in queue' \ queue : CommittedAs(k.pointer)'
    BY <1>1, <1>5, <2>4
  <2>6. \A k \in deadLetters' \ deadLetters : CommittedAs(k)'
    BY <1>1, <1>6, <2>4
  <2> QED
    BY <1>1, <1>7, <2>1, <2>2, <2>3, <2>5, <2>6, StepSound
<1>8. CASE PersistEventBatch(p)
  <2> DEFINE b == p.batch
  <2>1. /\ DOMAIN anchors' = DOMAIN anchors \union {b.last} /\ anchors'[b.last] = Anchor(b)
        /\ \A n \in DOMAIN anchors : anchors'[n] = anchors[n]
        /\ b \in Batches /\ SetEnqueued(b) /\ b.last \in Nat
    BY <1>1, <1>8, Anchoring
  <2>2. /\ DOMAIN stored' = DOMAIN stored /\ Accepted' = Accepted
        /\ \A i \in DOMAIN stored :
              /\ stored'[i] \in Rows
              /\ stored'[i].batch = stored[i].batch /\ stored'[i].version = stored[i].version
              /\ stored'[i] = stored[i] \/ (i = Id(b) /\ stored'[i].state = "enqueued")
    BY <2>1, EnqueuedRow
  <2>3. Anchored(b)'
    BY <2>1 DEF Anchored, Anchor
  <2>4. \A c \in Batches : Delivered(c) => Delivered(c)'
    BY <1>4, <2>1, <2>3 DEF Delivered, Anchored, Anchor
  <2>5. Kept
    BY <1>1, <2>1, <2>2, <2>4, SameHead DEF Kept
  <2>6. TypeOK'
    BY <1>1, <1>3, <2>1, <2>2 DEF IInv, TypeOK
  <2>7. Tiled'
    BY <1>1, <2>2, SameChain DEF IInv
  <2>8. Committed(b)' /\ CommittedAs(p)'
    BY <1>1, <2>2 DEF CommittedAs, Committed
  <2>9. \A k \in queue' \ queue : CommittedAs(k.pointer)'
    BY <1>5, <2>8
  <2>10. \A k \in deadLetters' \ deadLetters : CommittedAs(k)'
    BY <1>6, <2>8
  <2>11. AnchorSound(b.last)'
    BY <2>1, <2>8 DEF AnchorSound, Anchor
  <2>12. \A n \in DOMAIN anchors' :
           (n \in DOMAIN anchors /\ anchors'[n] = anchors[n]) \/ AnchorSound(n)'
    BY <2>1, <2>11
  <2>13. ASSUME NEW i \in DOMAIN stored' PROVE stored'[i] = stored[i] \/ RowSound(stored[i])'
    <3>1. i \in DOMAIN stored /\ RowSound(stored[i])
      BY <2>2 DEF IInv, StoresSound
    <3>2. CASE stored'[i] # stored[i]
      <4>1. i = Id(b) /\ stored[i].batch = b /\ stored'[i].batch = b
        BY <1>1, <2>2, <3>1, <3>2 DEF Committed, CommittedAs
      <4>2. Delivered(b)'
        BY <2>3 DEF Delivered
      <4> QED
        BY <1>1, <2>2, <3>1, <4>1, <4>2 DEF RowSound
    <3> QED
      BY <3>2
  <2> QED
    BY <1>1, <2>2, <2>5, <2>6, <2>7, <2>9, <2>10, <2>12, <2>13, StepSound
<1>9. PersistEventBatch(p) \/ UNCHANGED <<anchors, stored>>
  BY DEF Consume, ConsumeFails
<1> QED
  BY <1>7, <1>8, <1>9

LEMMA RegisterKeySound ==
  ASSUME IInv, RegisterKey \/ UNCHANGED vars
  PROVE  IInv' /\ Kept
<1>1. /\ UNCHANGED <<stores, requests, failures, consumed, receipts>>
      /\ deviceKey' \in 1..MaxKey
  BY Typing DEF RegisterKey, vars, IInv, TypeOK
<1>2. TypeOK'
  BY <1>1 DEF IInv, TypeOK, stores, consumed
<1>3. Kept
  BY <1>1, SameHead DEF Kept, stores, consumed, Delivered, Published, Anchored
<1>4. Tiled'
  BY <1>1, SameChain DEF IInv, stores, Accepted
<1> QED
  BY <1>1, <1>2, <1>3, <1>4, StepSound DEF stores, consumed

LEMMA NextSound == IInv /\ [Next]_vars => IInv' /\ Kept
<1> SUFFICES ASSUME IInv, [Next]_vars PROVE IInv' /\ Kept
  OBVIOUS
<1>1. ASSUME NEW r \in Requests, NEW b \in Batches, Receive(r, b) PROVE IInv' /\ Kept
  BY <1>1, ReceiveSound
<1>2. ASSUME NEW r \in Requests, Republish(r) \/ Serve(r) \/ Abandon(r) PROVE IInv' /\ Kept
  BY <1>2, LoadSound, PutObjectSound, CommitSound, EndingSound, SendingSound, MarkingSound,
     RespondSound DEF Serve
<1>3. ASSUME NEW m \in queue, Consume(m) \/ ConsumeFails(m) PROVE IInv' /\ Kept
  BY <1>3, ConsumerSound
<1> QED
  BY <1>1, <1>2, <1>3, RegisterKeySound DEF Next

LEMMA InitSound == Init => IInv
<1> SUFFICES ASSUME Init PROVE IInv
  OBVIOUS
<1>1. DOMAIN stored = {} /\ DOMAIN objects = {} /\ DOMAIN anchors = {}
  BY DEF Init
<1>2. TypeOK
  BY <1>1, AnyRequest, Typing DEF Init, TypeOK, StreamStates
<1>3. Tiled
  BY <1>1 DEF Init, Tiled, Accepted
<1>4. StoresSound
  BY <1>1 DEF Init, StoresSound
<1>5. \A r \in Requests : RequestSound(requests[r])
  BY IdleSound DEF Init
<1> QED
  BY <1>2, <1>3, <1>4, <1>5 DEF IInv

-----------------------------------------------------------------------------
(* The accepted batches are those committed, one for each last event.      *)
LEMMA AcceptedRows ==
  ASSUME IInv
  PROVE  /\ Accepted \subseteq Batches
         /\ \A b \in Batches : b \in Accepted <=> Committed(b)
         /\ \A b, c \in Accepted : b.last = c.last => b = c
<1>1. \A i \in DOMAIN stored : stored[i].batch \in Batches /\ Id(stored[i].batch) = i
  BY DEF IInv, TypeOK, Rows
<1>2. Accepted \subseteq Batches
  BY <1>1 DEF Accepted
<1>3. \A b \in Batches : b \in Accepted <=> Committed(b)
  BY <1>1 DEF Accepted, Committed
<1>4. ASSUME NEW b \in Accepted, NEW c \in Accepted, b.last = c.last PROVE b = c
  <2>1. b = c \/ b.last < c.first \/ c.last < b.first
    BY DEF IInv, Tiled
  <2>2. /\ b.first \in Nat /\ b.last \in Nat /\ b.first <= b.last
        /\ c.first \in Nat /\ c.last \in Nat /\ c.first <= c.last
    BY <1>2, Typing
  <2> QED
    BY <1>4, <2>1, <2>2
<1> QED
  BY <1>2, <1>3, <1>4

-----------------------------------------------------------------------------
(* What is left behind.  The state an invocation read is the stream's, or  *)
(* one the stream has passed, so a commit that is refused is of a batch    *)
(* the stream has passed; only an invocation that is lost leaves an object *)
(* the stream has still to come to.                                        *)
Racing == {r \in Requests : requests[r].step \in {"put", "commit"}}

RacesLost ==
  \A r \in Racing : requests[r].expected = stream
                    \/ requests[r].expected.sequence < stream.sequence

LeftBehind == RacesLost /\ Cardinality(Blocked) <= failures

LEMMA BlockedIsFinite ==
  TypeOK => IsFiniteSet(Blocked) /\ Cardinality(Blocked) \in Nat /\ failures \in Nat
<1> SUFFICES ASSUME TypeOK
             PROVE  IsFiniteSet(Blocked) /\ Cardinality(Blocked) \in Nat /\ failures \in Nat
  OBVIOUS
<1>1. Blocked \subseteq Batches
  BY DEF Blocked, TypeOK
<1>2. IsFiniteSet(Blocked)
  BY <1>1, FS_Subset, Typing
<1>3. failures \in Nat
  BY Typing DEF TypeOK
<1> QED
  BY <1>2, <1>3, FS_CardinalityType

LEMMA AcceptedTypes ==
  IInv => /\ Accepted \subseteq Batches /\ stream.sequence \in Nat
          /\ \A b \in Batches : b \in Accepted <=> Committed(b)
BY AcceptedRows DEF IInv, TypeOK, StreamStates

(* What is asked of a step.                                                *)
LEMMA RacesKept ==
  ASSUME IInv, IInv', RacesLost,
         stream' = stream \/ stream.sequence < stream'.sequence,
         \A r \in Racing' : \/ requests'[r].expected = stream'
                            \/ r \in Racing /\ requests'[r].expected = requests[r].expected
  PROVE  RacesLost'
<1>1. stream.sequence \in Nat /\ stream'.sequence \in Nat
  BY DEF IInv, TypeOK, StreamStates
<1>2. \A r \in Racing : requests[r].expected.sequence \in Nat
  BY At DEF IInv, Racing, Sealing, StreamStates
<1>3. \A r \in Racing' : requests'[r].expected = stream'
                         \/ requests'[r].expected.sequence < stream'.sequence
  BY <1>1, <1>2 DEF RacesLost
<1> QED
  BY <1>3 DEF RacesLost

LEMMA BlockedKept ==
  ASSUME IInv, IInv', Kept, Cardinality(Blocked) <= failures, failures' = failures,
         stream' = stream \/ stream.sequence < stream'.sequence,
         \A b \in DOMAIN objects' \ DOMAIN objects :
           \E r \in Requests : requests'[r].step = "commit" /\ requests'[r].batch = b,
         \A r \in Requests :
           requests[r].step = "commit" =>
             \/ requests'[r] = requests[r]
             \/ requests[r].batch \in Accepted'
             \/ requests[r].batch.first <= stream'.sequence
  PROVE  Cardinality(Blocked)' <= failures'
<1>1. Accepted \subseteq Accepted'
  BY DEF Kept, Accepted
<1>2. stream.sequence \in Nat /\ stream'.sequence \in Nat /\ stream.sequence <= stream'.sequence
  BY AcceptedTypes DEF IInv, TypeOK, StreamStates
<1>3. ASSUME NEW b \in Blocked' PROVE b \in Blocked
  <2>1. /\ b \in DOMAIN objects' /\ b \notin Accepted' /\ b.first > stream'.sequence
        /\ \A r \in Requests : requests'[r].step = "commit" => requests'[r].batch # b
    BY <1>3 DEF Blocked
  <2>2. b \in Batches /\ b.first \in Nat
    BY <2>1, Typing DEF IInv, TypeOK
  <2>3. b \in DOMAIN objects /\ b \notin Accepted /\ b.first > stream.sequence
    BY <1>1, <1>2, <2>1, <2>2
  <2>4. ASSUME NEW r \in Requests, requests[r].step = "commit", requests[r].batch = b
        PROVE  FALSE
    BY <1>2, <2>1, <2>2, <2>4
  <2> QED
    BY <2>3, <2>4 DEF Blocked
<1>4. IsFiniteSet(Blocked) /\ Cardinality(Blocked) \in Nat /\ failures \in Nat
  BY BlockedIsFinite DEF IInv
<1>5. Cardinality(Blocked') <= Cardinality(Blocked) /\ Cardinality(Blocked') \in Nat
  BY <1>3, <1>4, FS_Subset, FS_CardinalityType
<1> QED
  BY <1>4, <1>5

(* Most steps end, begin or continue an invocation that is not about to    *)
(* commit.                                                                 *)
LEMMA ElsewhereLeaves ==
  ASSUME IInv, IInv', Kept, LeftBehind, NEW r \in Requests, NEW next, Become(r, next),
         requests[r].step # "commit", next.step \notin {"put", "commit"},
         UNCHANGED <<stream, objects, failures>>
  PROVE  LeftBehind'
<1>1. \A v \in Requests : requests'[v] = requests[v] \/ (v = r /\ requests'[v] = next)
  BY DEF Become, IInv, TypeOK
<1>2. RacesLost'
  BY <1>1, RacesKept DEF LeftBehind, Racing
<1>3. Cardinality(Blocked)' <= failures'
  BY <1>1, BlockedKept DEF LeftBehind
<1> QED
  BY <1>2, <1>3 DEF LeftBehind

LEMMA LoadLeaves ==
  ASSUME IInv, IInv', Kept, LeftBehind, NEW r \in Requests, Load(r)
  PROVE  LeftBehind'
<1>1. /\ UNCHANGED <<stream, objects, failures>> /\ requests[r].step = "load"
      /\ \A v \in Requests : \/ requests'[v] = requests[v]
                             \/ v = r /\ requests'[v] = Idle
                             \/ /\ v = r /\ requests'[v].step = "put"
                                /\ requests'[v].expected = stream'
  BY DEF Load, Become, stores, IInv, TypeOK
<1>2. RacesLost'
  BY <1>1, RacesKept DEF LeftBehind, Racing, Idle
<1>3. Cardinality(Blocked)' <= failures'
  BY <1>1, BlockedKept DEF LeftBehind
<1> QED
  BY <1>2, <1>3 DEF LeftBehind

(* Who puts an object is about to commit it.                               *)
LEMMA PutLeaves ==
  ASSUME IInv, IInv', Kept, LeftBehind, NEW r \in Requests, PutObject(r)
  PROVE  LeftBehind'
<1> DEFINE q == requests[r]
<1>1. /\ UNCHANGED <<stream, failures>> /\ q \in Sealing /\ q.step = "put"
      /\ PutIfAbsent(q.batch, q.seal)
      /\ Become(r, IF objects'[q.batch] = q.seal THEN [q EXCEPT !.step = "commit"] ELSE Idle)
  BY At DEF PutObject, IInv
<1>2. \A v \in Requests :
        \/ requests'[v] = requests[v]
        \/ v = r /\ requests'[v] = Idle
        \/ /\ v = r /\ requests'[v].step = "commit" /\ requests'[v].batch = q.batch
           /\ requests'[v].expected = q.expected
  BY <1>1 DEF Become, Sealing, IInv, TypeOK
<1>3. ASSUME NEW b \in DOMAIN objects' \ DOMAIN objects
      PROVE  requests'[r].step = "commit" /\ requests'[r].batch = b
  <2>1. objects' = Put(objects, q.batch, q.seal)
    BY <1>1, <1>3 DEF PutIfAbsent
  <2>2. DOMAIN objects' = DOMAIN objects \union {q.batch} /\ objects'[q.batch] = q.seal
    BY <2>1 DEF Put
  <2>3. requests'[r] = [q EXCEPT !.step = "commit"]
    BY <1>1, <2>2 DEF Become, IInv, TypeOK
  <2> QED
    BY <1>1, <1>3, <2>2, <2>3 DEF Sealing
<1>4. RacesLost'
  BY <1>1, <1>2, RacesKept DEF LeftBehind, Racing, Idle
<1>5. Cardinality(Blocked)' <= failures'
  BY <1>1, <1>2, <1>3, BlockedKept DEF LeftBehind
<1> QED
  BY <1>4, <1>5 DEF LeftBehind

LEMMA CommitLeaves ==
  ASSUME IInv, IInv', Kept, LeftBehind, NEW r \in Requests, Commit(r)
  PROVE  LeftBehind'
<1> PICK b \in Batches : b = requests[r].batch
  BY At DEF Commit, IInv, Sealing
<1> DEFINE q == requests[r]
<1>1. /\ UNCHANGED <<objects, failures>> /\ q.step = "commit" /\ RequestSound(q)
      /\ \A v \in Requests : requests'[v] = requests[v]
                             \/ (v = r /\ requests'[v].step = "deliver")
  BY DEF Commit, Become, IInv, TypeOK
<1>2. stream' = stream \/ stream.sequence < stream'.sequence
  <2>1. CASE Matches(q) /\ stream' = [sequence |-> b.last, head |-> b.head]
    BY <1>1, <2>1, AcceptedTypes, Typing DEF Matches
  <2> QED
    BY <2>1 DEF Commit
<1>3. b \in Accepted'
  <2>1. CASE Duplicate(b) /\ UNCHANGED stored
    BY <2>1 DEF Duplicate, Exists, Accepted
  <2>2. CASE stored' = Put(stored, Id(b), [batch |-> b, version |-> q.seal,
                                           state |-> "stored_not_enqueued"])
    <3>1. Id(b) \in DOMAIN stored' /\ stored'[Id(b)].batch = b
      BY <2>2 DEF Put
    <3> QED
      BY <3>1 DEF Accepted
  <2> QED
    BY <2>1, <2>2 DEF Commit
<1>4. RacesLost'
  BY <1>1, <1>2, RacesKept DEF LeftBehind, Racing
<1>5. Cardinality(Blocked)' <= failures'
  BY <1>1, <1>2, <1>3, BlockedKept DEF LeftBehind
<1> QED
  BY <1>4, <1>5 DEF LeftBehind

(* A commit that is refused comes too late: the stream has passed the      *)
(* batch.                                                                  *)
LEMMA RollBackLeaves ==
  ASSUME IInv, IInv', Kept, LeftBehind, NEW r \in Requests, RollBack(r)
  PROVE  LeftBehind'
<1> DEFINE q == requests[r]
<1>1. /\ UNCHANGED <<stream, objects, failures>> /\ q.step = "commit" /\ RequestSound(q)
      /\ q \in Sealing /\ r \in Racing
      /\ \A v \in Requests : requests'[v] = requests[v] \/ (v = r /\ requests'[v] = Idle)
  BY At DEF RollBack, Become, stores, IInv, TypeOK, Racing
<1>2. PICK b \in Batches : b = q.batch
  BY <1>1 DEF Sealing
<1>3. b.first <= stream.sequence
  <2>1. CASE Exists(b)
    <3>1. PICK c \in Accepted : c = stored[Id(b)].batch /\ Id(c) = Id(b)
      BY <2>1 DEF Exists, Accepted, IInv, TypeOK
    <3>2. c.first = b.first
      BY <3>1 DEF Id
    <3>3. c.last <= stream.sequence /\ c \in Batches
      BY AcceptedRows DEF IInv, Tiled, Chained
    <3> QED
      BY <3>2, <3>3, AcceptedTypes, Typing
  <2>2. CASE ~Matches(q)
    <3>1. Continues(b, q.expected) /\ q.expected.sequence \in Nat
      BY <1>1, <1>2 DEF RequestSound, Sealing, StreamStates
    <3>2. q.expected # stream
      BY <1>2, <2>2, <3>1 DEF Matches, Continues
    <3>3. q.expected.sequence < stream.sequence
      BY <1>1, <3>2 DEF LeftBehind, RacesLost
    <3> QED
      BY <3>1, <3>3, AcceptedTypes DEF Continues
  <2> QED
    BY <1>2, <2>1, <2>2 DEF RollBack
<1>4. RacesLost'
  BY <1>1, RacesKept DEF LeftBehind, Racing, Idle
<1>5. Cardinality(Blocked)' <= failures'
  BY <1>1, <1>2, <1>3, BlockedKept DEF LeftBehind
<1> QED
  BY <1>4, <1>5 DEF LeftBehind

(* An invocation that is lost leaves one object at most.                   *)
LEMMA AbandonLeaves ==
  ASSUME IInv, IInv', Kept, LeftBehind, NEW r \in Requests, Abandon(r)
  PROVE  LeftBehind'
<1>1. /\ UNCHANGED <<stream, stored, objects>> /\ failures' = failures + 1
      /\ \A v \in Requests : requests'[v] = requests[v] \/ (v = r /\ requests'[v] = Idle)
  BY DEF Abandon, Become, stores, IInv, TypeOK
<1>2. RacesLost'
  BY <1>1, RacesKept DEF LeftBehind, Racing, Idle
<1>3. Blocked' \subseteq Blocked \union {requests[r].batch}
  BY <1>1 DEF Blocked, Accepted
<1>4. IsFiniteSet(Blocked) /\ Cardinality(Blocked) \in Nat /\ failures \in Nat
  BY BlockedIsFinite DEF IInv
<1> PICK b : b = requests[r].batch
  OBVIOUS
<1> DEFINE More == Blocked \union {b}
<1>5. IsFiniteSet(More) /\ Cardinality(More) \in Nat /\ Cardinality(More) <= Cardinality(Blocked) + 1
  <2>1. /\ IsFiniteSet(More)
        /\ Cardinality(More) = IF b \in Blocked THEN Cardinality(Blocked)
                                               ELSE Cardinality(Blocked) + 1
    BY <1>4, FS_AddElement
  <2> HIDE DEF More
  <2> QED
    BY <1>4, <2>1
<1>6. /\ Cardinality(Blocked') <= Cardinality(More)
      /\ Cardinality(Blocked') \in Nat
  BY <1>3, <1>5, FS_Subset, FS_CardinalityType
<1> QED
  BY <1>1, <1>2, <1>4, <1>5, <1>6 DEF LeftBehind

LEMMA NextLeaves == IInv /\ LeftBehind /\ [Next]_vars => LeftBehind'
<1> SUFFICES ASSUME IInv, LeftBehind, [Next]_vars PROVE LeftBehind'
  OBVIOUS
<1> IInv' /\ Kept
  BY NextSound
<1>1. ASSUME UNCHANGED <<stream, objects, requests, failures>> PROVE LeftBehind'
  <2>1. RacesLost'
    BY <1>1, RacesKept DEF LeftBehind, Racing
  <2>2. Cardinality(Blocked)' <= failures'
    BY <1>1, BlockedKept DEF LeftBehind
  <2> QED
    BY <2>1, <2>2 DEF LeftBehind
<1>2. ASSUME NEW r \in Requests, NEW b \in Batches, Receive(r, b) PROVE LeftBehind'
  BY <1>2, ElsewhereLeaves DEF Receive, Idle, stores
<1>3. ASSUME NEW r \in Requests, Republish(r) PROVE LeftBehind'
  BY <1>3, ElsewhereLeaves DEF Republish, Idle, stores
<1>4. ASSUME NEW r \in Requests, Publish(r) \/ MarkEnqueued(r) \/ Respond(r) \/ MarkRecovered(r)
      PROVE  LeftBehind'
  <2>1. requests[r] \in Delivering
    BY <1>4, At DEF IInv, Publish, MarkEnqueued, Respond, MarkRecovered
  <2>2. PICK next : /\ Become(r, next) /\ next.step \notin {"put", "commit"}
                    /\ requests[r].step # "commit"
                    /\ UNCHANGED <<stream, objects, failures>>
    <3>1. /\ [requests[r] EXCEPT !.step = "mark"].step = "mark"
          /\ [requests[r] EXCEPT !.step = "respond"].step = "respond"
          /\ Idle.step = "idle"
      BY <2>1 DEF Delivering, Idle
    <3>2. CASE Publish(r)
      BY <3>1, <3>2 DEF Publish, stores
    <3>3. CASE MarkEnqueued(r)
      BY <3>1, <3>3 DEF MarkEnqueued
    <3>4. CASE Respond(r) \/ MarkRecovered(r)
      BY <3>1, <3>4 DEF Respond, MarkRecovered, stores
    <3> QED
      BY <1>4, <3>2, <3>3, <3>4
  <2> QED
    BY <2>2, ElsewhereLeaves
<1>5. ASSUME NEW r \in Requests, Republish(r) \/ Serve(r) \/ Abandon(r) PROVE LeftBehind'
  BY <1>3, <1>4, <1>5, LoadLeaves, PutLeaves, CommitLeaves, RollBackLeaves, AbandonLeaves
     DEF Serve
<1>6. ASSUME NEW m \in queue, Consume(m) \/ ConsumeFails(m) PROVE LeftBehind'
  BY <1>1, <1>6 DEF Consume, ConsumeFails
<1>7. CASE RegisterKey \/ UNCHANGED vars
  BY <1>1, <1>7 DEF RegisterKey, vars, stores
<1> QED
  BY <1>2, <1>5, <1>6, <1>7 DEF Next

LEMMA InitLeaves == Init => LeftBehind
<1> SUFFICES ASSUME Init PROVE LeftBehind
  OBVIOUS
<1>1. DOMAIN objects = {} /\ failures = 0 /\ Racing = {}
  BY DEF Init, Racing, Idle
<1>2. Blocked = {}
  BY <1>1 DEF Blocked
<1> QED
  BY <1>1, <1>2, FS_EmptySet DEF LeftBehind, RacesLost

-----------------------------------------------------------------------------
(* The variables keep their types; in particular there is always another   *)
(* ciphertext.                                                             *)
THEOREM TypeOKAlways == Spec => []TypeOK
<1>1. IInv => TypeOK
  BY DEF IInv
<1>2. IInv /\ [Next]_vars => IInv'
  BY NextSound
<1> QED
  BY <1>1, <1>2, InitSound, PTL DEF Spec

(* Whatever uploads race, are repeated or are abandoned: the batches       *)
(* committed form one chain from the first event to the stream's head, and *)
(* no two of them cover one event (assertContinuesStream and the           *)
(* compare-and-swap of commitStoredBatch).                                 *)
THEOREM OneChainAlways == Spec => []OneChain
<1>1. IInv => OneChain
  BY DEF IInv, Tiled, Chained, Accepted, OneChain
<1>2. IInv /\ [Next]_vars => IInv'
  BY NextSound
<1> QED
  BY <1>1, <1>2, InitSound, PTL DEF Spec

(* What was answered with a receipt, published or recorded as published is *)
(* committed, stored under the version that is named, readable for the     *)
(* consumer and on its way to it or consumed; and a stored object nobody   *)
(* will commit keeps no more uploads out than invocations were lost, since *)
(* the loser of a race leaves its own behind the stream (ingestEventBatch, *)
(* putImmutable, deliverAndReceipt, persistEventBatch).                    *)
THEOREM NothingDanglesAlways == Spec => []NothingDangles
<1>1. IInv => ReceiptsHonoured
  <2> SUFFICES ASSUME IInv PROVE ReceiptsHonoured
    OBVIOUS
  <2>1. ASSUME NEW b \in receipts
        PROVE  Committed(b) /\ Readable(Pointer(stored[Id(b)])) /\ Delivered(b)
    BY DEF IInv, StoresSound, RowSound, Committed, Readable, Pointer
  <2>2. ASSUME NEW i \in DOMAIN stored, stored[i].state = "enqueued"
        PROVE  Delivered(stored[i].batch)
    BY <2>2 DEF IInv, StoresSound, RowSound
  <2> QED
    BY <2>1, <2>2 DEF ReceiptsHonoured, Delivered
<1>2. IInv => PointersResolve
  <2> SUFFICES ASSUME IInv, NEW p \in Pointers, CommittedAs(p)
               PROVE  Readable(p) /\ Persistable(p)
    BY DEF PointersResolve, IInv, TypeOK, StoresSound, Messages
  <2> DEFINE b == p.batch
  <2>1. b \in Batches /\ Id(b) \in DOMAIN stored /\ stored[Id(b)].batch = b
        /\ stored[Id(b)].version = p.version
    BY DEF CommittedAs, Committed, Pointers
  <2>2. Readable(p)
    BY <2>1 DEF IInv, StoresSound, RowSound, Readable
  <2>3. ASSUME b.last \in DOMAIN anchors PROVE anchors[b.last] = Anchor(b)
    <3>1. PICK c \in Batches : Committed(c) /\ c.last = b.last /\ anchors[b.last] = Anchor(c)
      BY <2>3 DEF IInv, StoresSound, AnchorSound
    <3>2. b \in Accepted /\ c \in Accepted
      BY <2>1, <3>1 DEF Accepted, Committed
    <3>3. b = c \/ b.last < c.first \/ c.last < b.first
      BY <3>2 DEF IInv, Tiled
    <3>4. /\ b.first \in Nat /\ b.last \in Nat /\ b.first <= b.last
          /\ c.first \in Nat /\ c.last \in Nat /\ c.first <= c.last
      BY <2>1, <3>1, Typing
    <3>5. b = c
      BY <3>1, <3>3, <3>4
    <3> QED
      BY <3>1, <3>5
  <2> QED
    BY <2>1, <2>2, <2>3 DEF Persistable
<1>3. IInv /\ LeftBehind => NothingDangles
  BY <1>1, <1>2 DEF NothingDangles, LeftBehind
<1>4. IInv /\ [Next]_vars => IInv'
  BY NextSound
<1> QED
  BY <1>3, <1>4, InitSound, InitLeaves, NextLeaves, PTL DEF Spec

(* The stream only grows at its end; a committed batch keeps its object    *)
(* and its mark, and an anchor is never replaced (markEnqueued,            *)
(* commitStoredBatch, persistEventBatch).                                  *)
THEOREM AcceptedStaysAcceptedAlways == Spec => AcceptedStaysAccepted
<1>1. IInv /\ [Next]_vars => Kept
  BY NextSound
<1>2. IInv /\ [Next]_vars => IInv'
  BY NextSound
<1>3. IInv /\ [Next]_vars =>
        /\ IsPrefix(stream.head, stream'.head)
        /\ \A i \in DOMAIN stored :
             /\ i \in DOMAIN stored'
             /\ stored'[i].batch = stored[i].batch
             /\ stored'[i].version = stored[i].version
             /\ stored[i].state = "enqueued" => stored'[i].state = "enqueued"
        /\ \A n \in DOMAIN anchors : n \in DOMAIN anchors' /\ anchors'[n] = anchors[n]
  BY <1>1 DEF Kept
<1> QED
  BY <1>2, <1>3, InitSound, PTL DEF Spec, AcceptedStaysAccepted

-----------------------------------------------------------------------------
(* The refinement.  Under the invariant each step of an invocation or of   *)
(* the consumer is one step of the stream, or none: an upload takes effect *)
(* where it commits, and what it does before and after, however often, can *)
(* be seen only as one handing over and one acknowledgement.               *)
HandedOver == {b \in Accepted : Published(b) \/ Anchored(b)}

AnchoredBatches == {b \in Accepted : Anchored(b)}

StreamStep == [Stream!StreamNext]_(Stream!streamVars)

LEMMA Stutters ==
  ASSUME stream' = stream, Accepted' = Accepted, HandedOver' = HandedOver,
         AnchoredBatches' = AnchoredBatches, receipts' = receipts
  PROVE  StreamStep
BY DEF StreamStep, Stream!streamVars, HandedOver, AnchoredBatches

(* What changes neither the stream nor what is on its way to the consumer  *)
(* or has arrived there changes nothing of the evidence.                   *)
LEMMA Unseen ==
  ASSUME Accepted' = Accepted, UNCHANGED <<stream, consumed, receipts>>
  PROVE  StreamStep
<1>1. HandedOver' = HandedOver /\ AnchoredBatches' = AnchoredBatches
  BY DEF HandedOver, AnchoredBatches, Published, Anchored, consumed
<1> QED
  BY <1>1, Stutters

(* A batch is accepted where it is committed; nobody can have published or *)
(* anchored it before.                                                     *)
LEMMA CommitRefines ==
  ASSUME IInv, NEW r \in Requests, Commit(r)
  PROVE  StreamStep
<1> PICK b \in Batches : b = requests[r].batch
  BY At DEF Commit, IInv, Sealing
<1> DEFINE q == requests[r]
           row == [batch |-> b, version |-> q.seal, state |-> "stored_not_enqueued"]
<1>1. UNCHANGED <<consumed, receipts>> /\ RequestSound(q) /\ q.step = "commit"
  BY DEF Commit, IInv
<1>2. CASE UNCHANGED <<stream, stored>>
  BY <1>1, <1>2, Unseen DEF Accepted
<1>3. CASE /\ ~Exists(b) /\ Matches(q) /\ stored' = Put(stored, Id(b), row)
           /\ stream' = [sequence |-> b.last, head |-> b.head]
  <2>1. /\ Continues(b, stream) /\ stream'.head = b.head
        /\ b.first \in Nat /\ b.last \in Nat /\ b.first <= b.last
        /\ stream.sequence \in Nat /\ Len(stream.head) = stream.sequence
    BY <1>1, <1>3, Typing DEF RequestSound, Matches, IInv, TypeOK, StreamStates, Tiled
  <2>2. Accepted' = Accepted \union {b} /\ b \notin Accepted
    <3>1. /\ Id(b) \notin DOMAIN stored /\ DOMAIN stored' = DOMAIN stored \union {Id(b)}
          /\ stored'[Id(b)] = row
          /\ \A i \in DOMAIN stored \ {Id(b)} : stored'[i] = stored[i]
      BY <1>3 DEF Put, Exists
    <3>2. row.batch = b
      OBVIOUS
    <3> HIDE DEF row
    <3>3. Accepted' = Accepted \union {b}
      BY <3>1, <3>2 DEF Accepted
    <3>4. ~Committed(b)
      BY <3>1 DEF Committed
    <3> QED
      BY <3>3, <3>4, AcceptedRows
  <2>3. ~Published(b)
    <3>1. \A m \in queue : Committed(m.pointer.batch)
      BY DEF IInv, StoresSound, CommittedAs
    <3>2. \A p \in deadLetters : Committed(p.batch)
      BY DEF IInv, StoresSound, CommittedAs
    <3> QED
      BY <2>2, <3>1, <3>2, AcceptedRows DEF Published
  <2>4. ~Anchored(b)
    <3> SUFFICES ASSUME b.last \in DOMAIN anchors PROVE FALSE
      BY DEF Anchored
    <3>1. PICK c \in Batches : Committed(c) /\ c.last = b.last
      BY DEF IInv, StoresSound, AnchorSound
    <3>2. c.last <= stream.sequence
      BY <3>1, AcceptedRows DEF IInv, Tiled, Chained
    <3> QED
      BY <2>1, <3>1, <3>2 DEF Continues
  <2>5. \A c \in Batches : (Published(c)' <=> Published(c)) /\ (Anchored(c)' <=> Anchored(c))
    BY <1>1 DEF consumed, Published, Anchored
  <2>6. HandedOver' = HandedOver /\ AnchoredBatches' = AnchoredBatches
    BY <2>2, <2>3, <2>4, <2>5, AcceptedRows DEF HandedOver, AnchoredBatches
  <2>7. Stream!Accept(b)
    BY <1>1, <2>1, <2>2, <2>6
       DEF Stream!Accept, Continues, HandedOver, AnchoredBatches
  <2> QED
    BY <2>2, <2>7 DEF StreamStep, Stream!StreamNext
<1> QED
  BY <1>2, <1>3 DEF Commit

(* A pointer that is sent hands over its batch, unless that has happened.  *)
LEMMA SendingRefines ==
  ASSUME IInv, NEW r \in Requests, Publish(r) \/ Republish(r)
  PROVE  StreamStep
<1>1. UNCHANGED <<stores, deadLetters, anchors, receipts>>
  BY DEF Publish, Republish
<1>2. PICK b \in Accepted, m \in queue' : m.pointer.batch = b /\ queue' = queue \union {m}
  <2>1. CASE Publish(r)
    <3>1. /\ requests[r] \in Delivering /\ RequestSound(requests[r])
          /\ requests[r].step = "deliver"
      BY <2>1, At DEF Publish, IInv
    <3>2. requests[r].row.batch \in Batches /\ Committed(requests[r].row.batch)
      BY <3>1 DEF Delivering, Rows, RequestSound, CommittedAs
    <3>3. requests[r].row.batch \in Accepted
      BY <3>2, AcceptedRows
    <3> QED
      BY <2>1, <3>3 DEF Publish, Message, Pointer
  <2>2. CASE Republish(r)
    BY <2>2 DEF Republish, Message, Pointer, Accepted
  <2> QED
    BY <2>1, <2>2
<1>3. Accepted' = Accepted
  BY <1>1 DEF stores, Accepted
<1>4. \A c \in Batches : /\ Anchored(c)' <=> Anchored(c)
                         /\ Published(c)' <=> (Published(c) \/ c = b)
  BY <1>1, <1>2 DEF Published, Anchored
<1>5. HandedOver' = HandedOver \union {b} /\ AnchoredBatches' = AnchoredBatches
  BY <1>3, <1>4, AcceptedRows DEF HandedOver, AnchoredBatches
<1>6. CASE b \in HandedOver
  BY <1>1, <1>3, <1>5, <1>6, Stutters DEF stores
<1>7. CASE b \notin HandedOver
  <2>1. Stream!HandOver(b)
    BY <1>1, <1>3, <1>5 DEF stores, Stream!HandOver, HandedOver, AnchoredBatches
  <2> QED
    BY <1>2, <1>7, <2>1 DEF StreamStep, Stream!StreamNext, HandedOver
<1> QED
  BY <1>6, <1>7

(* A receipt acknowledges what is handed over.                             *)
LEMMA RespondRefines ==
  ASSUME IInv, NEW r \in Requests, Respond(r)
  PROVE  StreamStep
<1>1. /\ UNCHANGED <<stores, consumed>>
      /\ requests[r] \in Delivering /\ RequestSound(requests[r])
  BY At DEF Respond, IInv
<1>2. PICK b \in Batches : b = requests[r].row.batch
  BY <1>1 DEF Delivering, Rows
<1>3. receipts' = receipts \union {b} /\ Committed(b) /\ Delivered(b)
  BY <1>1, <1>2 DEF Respond, RequestSound, CommittedAs
<1>4. b \in HandedOver
  BY <1>3, AcceptedRows DEF HandedOver, Delivered
<1>5. /\ Accepted' = Accepted /\ HandedOver' = HandedOver
      /\ AnchoredBatches' = AnchoredBatches /\ stream' = stream
  BY <1>1 DEF stores, consumed, Accepted, HandedOver, AnchoredBatches, Published, Anchored
<1>6. CASE b \in receipts
  BY <1>3, <1>5, <1>6, Stutters
<1>7. CASE b \notin receipts
  <2>1. Stream!Acknowledge(b)
    BY <1>3, <1>5 DEF Stream!Acknowledge, HandedOver, AnchoredBatches
  <2> QED
    BY <1>4, <1>7, <2>1 DEF StreamStep, Stream!StreamNext, HandedOver
<1> QED
  BY <1>6, <1>7

(* The consumer anchors the batch of its message, and no other, or leaves  *)
(* it on its way.                                                          *)
LEMMA ConsumerRefines ==
  ASSUME IInv, NEW m \in queue, Consume(m) \/ ConsumeFails(m)
  PROVE  StreamStep
<1> DEFINE p == m.pointer
           b == m.pointer.batch
           again == [m EXCEPT !.attempts = @ + 1]
<1>1. /\ m \in Messages /\ p \in Pointers /\ CommittedAs(p)
      /\ UNCHANGED <<stream, receipts>>
      /\ again.pointer = p /\ b \in Batches /\ b \in HandedOver
  <2>1. /\ m \in Messages /\ p \in Pointers /\ CommittedAs(p)
        /\ UNCHANGED <<stream, receipts>>
        /\ again.pointer = p /\ b \in Batches
    BY DEF Consume, ConsumeFails, IInv, TypeOK, StoresSound, Messages, Pointers
  <2>2. Published(b)
    BY DEF Published
  <2> QED
    BY <2>1, <2>2, AcceptedRows DEF HandedOver, CommittedAs
<1>2. \/ /\ PersistEventBatch(p) /\ queue' = queue \ {m} /\ UNCHANGED deadLetters
      \/ queue' = (queue \ {m}) \union {again} /\ UNCHANGED deadLetters
      \/ queue' = queue \ {m} /\ deadLetters' = deadLetters \union {p}
  BY DEF Consume, ConsumeFails, Redeliver
<1>3. \A c \in Batches : /\ c # b => (Published(c)' <=> Published(c))
                         /\ PersistEventBatch(p) \/ (Published(c)' <=> Published(c))
  BY <1>1, <1>2 DEF Published
<1> HIDE DEF again
<1>4. CASE UNCHANGED <<anchors, stored>> /\ ~PersistEventBatch(p)
  <2>1. Accepted' = Accepted /\ \A c \in Batches : Anchored(c)' <=> Anchored(c)
    BY <1>4 DEF Accepted, Anchored
  <2>2. HandedOver' = HandedOver /\ AnchoredBatches' = AnchoredBatches
    BY <1>3, <1>4, <2>1, AcceptedRows DEF HandedOver, AnchoredBatches
  <2> QED
    BY <1>1, <2>1, <2>2, Stutters
<1>5. CASE PersistEventBatch(p)
  <2>1. /\ DOMAIN anchors' = DOMAIN anchors \union {b.last} /\ anchors'[b.last] = Anchor(b)
        /\ \A n \in DOMAIN anchors : anchors'[n] = anchors[n]
        /\ SetEnqueued(b)
    BY <1>1, <1>5, Anchoring
  <2>2. Accepted' = Accepted
    BY <1>1, <2>1, EnqueuedRow
  <2>3. Anchored(b)'
    BY <2>1 DEF Anchored, Anchor
  <2>4. \A c \in Accepted : c # b => (Anchored(c)' <=> Anchored(c))
    <3> SUFFICES ASSUME NEW c \in Accepted, c # b PROVE Anchored(c)' <=> Anchored(c)
      OBVIOUS
    <3>1. c.last # b.last
      BY <1>1, AcceptedRows DEF HandedOver
    <3> QED
      BY <2>1, <3>1 DEF Anchored, Anchor
  <2>5. HandedOver' = HandedOver
    BY <1>1, <1>3, <2>2, <2>3, <2>4, AcceptedRows DEF HandedOver
  <2>6. AnchoredBatches' = AnchoredBatches \union {b}
    BY <1>1, <2>2, <2>3, <2>4, AcceptedRows DEF HandedOver, AnchoredBatches
  <2>7. CASE b \in AnchoredBatches
    BY <1>1, <2>2, <2>5, <2>6, <2>7, Stutters
  <2>8. CASE b \notin AnchoredBatches
    <3>1. Stream!Anchor(b)
      BY <1>1, <2>2, <2>5, <2>6 DEF Stream!Anchor, HandedOver, AnchoredBatches
    <3> QED
      BY <1>1, <2>8, <3>1 DEF StreamStep, Stream!StreamNext, HandedOver, AnchoredBatches
  <2> QED
    BY <2>7, <2>8
<1>6. PersistEventBatch(p) \/ UNCHANGED <<anchors, stored>>
  BY DEF Consume, ConsumeFails
<1> QED
  BY <1>4, <1>5, <1>6

LEMMA MarkingRefines ==
  ASSUME IInv, NEW r \in Requests, MarkEnqueued(r) \/ MarkRecovered(r)
  PROVE  StreamStep
<1>1. UNCHANGED <<stream, consumed, receipts>> /\ requests[r] \in Delivering
  BY At DEF MarkEnqueued, MarkRecovered, IInv
<1>2. Accepted' = Accepted
  <2>1. requests[r].row.batch \in Batches
    BY <1>1 DEF Delivering, Rows
  <2>2. CASE UNCHANGED stored
    BY <2>2 DEF Accepted
  <2>3. CASE SetEnqueued(requests[r].row.batch)
    BY <2>1, <2>3, EnqueuedRow
  <2> QED
    BY <2>2, <2>3 DEF MarkEnqueued, MarkRecovered
<1> QED
  BY <1>1, <1>2, Unseen

LEMMA NextRefines == IInv /\ [Next]_vars => StreamStep
<1> SUFFICES ASSUME IInv, [Next]_vars PROVE StreamStep
  OBVIOUS
<1>1. ASSUME UNCHANGED <<stream, stored, consumed, receipts>> PROVE StreamStep
  BY <1>1, Unseen DEF Accepted
<1>2. ASSUME NEW r \in Requests, NEW b \in Batches, Receive(r, b) PROVE StreamStep
  BY <1>1, <1>2 DEF Receive, stores
<1>3. ASSUME NEW r \in Requests, Load(r) \/ PutObject(r) \/ RollBack(r) \/ Abandon(r)
      PROVE  StreamStep
  BY <1>1, <1>3 DEF Load, PutObject, RollBack, Abandon, stores
<1>4. ASSUME NEW r \in Requests, Republish(r) \/ Serve(r) \/ Abandon(r) PROVE StreamStep
  BY <1>3, <1>4, CommitRefines, SendingRefines, MarkingRefines, RespondRefines DEF Serve
<1>5. ASSUME NEW m \in queue, Consume(m) \/ ConsumeFails(m) PROVE StreamStep
  BY <1>5, ConsumerRefines
<1>6. CASE RegisterKey \/ UNCHANGED vars
  BY <1>1, <1>6 DEF RegisterKey, vars, stores
<1> QED
  BY <1>2, <1>4, <1>5, <1>6 DEF Next

LEMMA InitRefines == Init => Stream!StreamInit
<1> SUFFICES ASSUME Init PROVE Stream!StreamInit
  OBVIOUS
<1>1. DOMAIN stored = {} /\ stream.head = <<>> /\ receipts = {}
  BY DEF Init
<1>2. Accepted = {}
  BY <1>1 DEF Accepted
<1> QED
  BY <1>1, <1>2 DEF Stream!StreamInit

(* Whatever awaits interleave, fail and are repeated, the service is one   *)
(* stream that grows by whole batches at its end, hands each over once it  *)
(* is accepted, and anchors and acknowledges only what it handed over; and *)
(* what it accepted it keeps (ingestEventBatch, recoverStoredNotEnqueued,  *)
(* persistEventBatch).                                                     *)
THEOREM EvidenceIsKeptAlways == Spec => EvidenceIsKept
<1>1. IInv /\ [Next]_vars => IInv'
  BY NextSound
<1>2. IInv /\ [Next]_vars => [Stream!StreamNext]_(Stream!streamVars)
  BY NextRefines DEF StreamStep
<1>3. Spec => ServiceIsStream
  BY <1>1, <1>2, InitSound, InitRefines, PTL DEF Spec, ServiceIsStream, Stream!StreamSpec
<1> QED
  BY <1>3, AcceptedStaysAcceptedAlways DEF EvidenceIsKept
=============================================================================
