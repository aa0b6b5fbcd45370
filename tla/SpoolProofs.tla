---------------------------- MODULE SpoolProofs ----------------------------
(***************************************************************************)
(* Theorems about the companion's spool, for every set of events, callers  *)
(* and receipts and every limit.                                           *)
(***************************************************************************)
EXTENDS Spool, TLAPS

(* A step that changes nothing keeps every invariant.                      *)
LEMMA StutterKeeps ==
  TypeOK /\ UNCHANGED vars => TypeOK'
<1> SUFFICES ASSUME TypeOK, UNCHANGED vars PROVE TypeOK'
  OBVIOUS
<1> QED
  BY DEF TypeOK, vars, tables, deviceState, cryptoState, Row, Receipt, Batch

(* The tables of a new data directory, and the first keys.                 *)
LEMMA InitTypeOK == Init => TypeOK
<1> SUFFICES ASSUME Init PROVE TypeOK
  OBVIOUS
<1>1. <<>> \in Hash
  BY DEF Hash
<1>2. 1 \in Versions
  BY LimitsAssumption DEF Versions
<1> QED
  BY <1>1, <1>2 DEF Init, TypeOK, GenesisHash

(* A row that a batch takes is still a row (the UPDATE of next_batch).      *)
LEMMA BatchedRow ==
  ASSUME NEW row \in Row, NEW b \in BatchIds
  PROVE  [row EXCEPT !.state = "batched", !.batch = b] \in Row
<1>1. [row EXCEPT !.state = "batched"] \in Row
  BY DEF Row
<1> QED
  BY <1>1 DEF Row

(* Every operation leaves rows of the schema's shape.                      *)
LEMMA NextTypeOK == TypeOK /\ [Next]_vars => TypeOK'
<1> SUFFICES ASSUME TypeOK, [Next]_vars PROVE TypeOK'
  OBVIOUS
<1> USE DEF TypeOK, tables, deviceState, cryptoState
<1>1. ASSUME NEW c \in Callers, NEW e \in Event, BeginAppend(c, e)
      PROVE  TypeOK'
  BY <1>1 DEF BeginAppend
<1>2. ASSUME NEW c \in Callers, ReplayAppend(c) \/ RefuseAppend(c)
      PROVE  TypeOK'
  BY <1>2 DEF ReplayAppend, RefuseAppend
<1>3. ASSUME NEW c \in Callers, CommitAppend(c)
      PROVE  TypeOK'
  <2> DEFINE e    == appending[c]
             hash == EventHash(chainHead, e)
             row  == [event |-> e, previous |-> chainHead, hash |-> hash,
                      keyVersion |-> activeKey, state |-> "queued",
                      batch |-> NoBatch]
             receipt == [sequence |-> nextSequence, hash |-> hash,
                         acknowledged |-> FALSE]
  <2>1. e \in Event /\ e.id \in EventIds
    BY <1>3 DEF CommitAppend, Event
  <2>2. hash \in Hash
    BY <2>1 DEF EventHash, Hash
  <2>3. row \in Row /\ receipt \in Receipt
    BY <2>1, <2>2 DEF Row, Receipt
  <2>4. /\ rows' = Put(rows, nextSequence, row)
        /\ receipts' = Put(receipts, e.id, receipt)
    BY <1>3 DEF CommitAppend
  <2> HIDE DEF row, receipt, hash
  <2>5. DOMAIN rows' \subseteq Nat /\ \A s \in DOMAIN rows' : rows'[s] \in Row
    BY <2>3, <2>4 DEF Put
  <2>6. /\ DOMAIN receipts' \subseteq EventIds
        /\ \A i \in DOMAIN receipts' : receipts'[i] \in Receipt
    BY <2>1, <2>3, <2>4 DEF Put
  <2>7. nextSequence' \in Nat \ {0} /\ chainHead' \in Hash
    BY <1>3, <2>2 DEF CommitAppend, hash
  <2>8. appending' \in [Callers -> Event \union {NoEvent}]
    BY <1>3 DEF CommitAppend
  <2> QED
    BY <1>3, <2>5, <2>6, <2>7, <2>8 DEF CommitAppend
<1>4. ASSUME NEW first \in DOMAIN rows, NEW last \in DOMAIN rows,
             NEW now \in Times, CreateBatch(first, last, now)
      PROVE  TypeOK'
  <2> DEFINE id    == BatchId(first, last, rows[last].hash)
             taken == {s \in Queued : s <= last}
             batch == [state |-> "pending", signer |-> signingKey,
                       attempts |-> 0, nextAttempt |-> now]
  <2>1. id \in BatchIds
    BY DEF BatchId, BatchIds, Row
  <2>2. batch \in Batch
    BY LimitsAssumption DEF Batch
  <2>3. /\ batches' = Put(batches, id, batch)
        /\ batchEvents' = batchEvents
             \union {<<id, rows[s].event.id>> : s \in taken}
        /\ rows' = [s \in DOMAIN rows |->
             IF s \in taken
             THEN [rows[s] EXCEPT !.state = "batched", !.batch = id]
             ELSE rows[s]]
    BY <1>4 DEF CreateBatch
  <2>4. \A s \in taken : rows[s].event.id \in EventIds
    BY DEF Queued, Row, Event
  <2> HIDE DEF id, taken, batch
  <2>5. \A s \in DOMAIN rows' : rows'[s] \in Row
    <3>1. DOMAIN rows' = DOMAIN rows
      BY <2>3
    <3>2. ASSUME NEW s \in DOMAIN rows, s \in taken
          PROVE  rows'[s] \in Row
      <4>1. rows'[s] = [rows[s] EXCEPT !.state = "batched", !.batch = id]
        BY <2>3, <3>2
      <4>2. rows[s] \in Row
        OBVIOUS
      <4> QED
        BY <2>1, <4>1, <4>2, BatchedRow
    <3>3. ASSUME NEW s \in DOMAIN rows, s \notin taken
          PROVE  rows'[s] \in Row
      BY <2>3, <3>3
    <3> QED
      BY <3>1, <3>2, <3>3
  <2>6. /\ DOMAIN batches' = DOMAIN batches \union {id}
        /\ \A b \in DOMAIN batches' : batches'[b] \in Batch
    BY <2>2, <2>3 DEF Put
  <2>7. batchEvents' \subseteq BatchIds \X EventIds
    <3>1. \A s \in taken : <<id, rows[s].event.id>> \in BatchIds \X EventIds
      BY <2>1, <2>4
    <3> QED
      BY <2>3, <3>1
  <2> QED
    BY <1>4, <2>1, <2>3, <2>5, <2>6, <2>7 DEF CreateBatch
<1>5. ASSUME NEW b \in DOMAIN batches, NEW now \in Times, NEW delay \in Delays,
             RecordRetry(b, now, delay)
      PROVE  TypeOK'
  <2>1. now + delay \in Nat
    BY LimitsAssumption
  <2>2. /\ DOMAIN batches' = DOMAIN batches
        /\ \A x \in DOMAIN batches :
             x # b => batches'[x] = batches[x]
        /\ batches'[b] = [batches[b] EXCEPT !.attempts = @ + 1,
                                            !.nextAttempt = now + delay]
    BY <1>5 DEF RecordRetry
  <2>3. batches'[b] \in Batch
    <3>1. ASSUME NEW old \in Batch, NEW m \in Nat, NEW n \in Nat
          PROVE  [old EXCEPT !.attempts = m, !.nextAttempt = n] \in Batch
      <4>1. [old EXCEPT !.attempts = m] \in Batch
        BY DEF Batch
      <4> QED
        BY <4>1 DEF Batch
    <3>2. batches[b] \in Batch /\ batches[b].attempts + 1 \in Nat
      BY DEF Batch
    <3>3. [batches[b] EXCEPT !.attempts = batches[b].attempts + 1,
                             !.nextAttempt = now + delay] \in Batch
      BY <2>1, <3>1, <3>2
    <3> QED
      BY <2>2, <3>3
  <2> QED
    BY <1>5, <2>2, <2>3 DEF RecordRetry
<1>6. ASSUME NEW b \in DOMAIN batches, NEW receipt \in ReceiptIds,
             Acknowledge(b, receipt)
      PROVE  TypeOK'
  <2>1. b.last \in Nat /\ b.head \in Hash
    BY DEF BatchIds
  <2>2. /\ DOMAIN batches' = DOMAIN batches
        /\ \A x \in DOMAIN batches : batches'[x] \in Batch
    BY <1>6 DEF Acknowledge, Batch
  <2>3. /\ DOMAIN receipts' = DOMAIN receipts
        /\ \A i \in DOMAIN receipts : receipts'[i] \in Receipt
    BY <1>6 DEF Acknowledge, Receipt
  <2>4. /\ DOMAIN rows' \subseteq DOMAIN rows
        /\ \A s \in DOMAIN rows' : rows'[s] = rows[s]
    BY <1>6 DEF Acknowledge
  <2>5. anchors' = Put(anchors, receipt, b)
    BY <1>6 DEF Acknowledge
  <2>6. /\ DOMAIN anchors' \subseteq ReceiptIds
        /\ \A r \in DOMAIN anchors' : anchors'[r] \in DOMAIN batches
    BY <2>5 DEF Put
  <2> QED
    BY <1>6, <2>1, <2>2, <2>3, <2>4, <2>6 DEF Acknowledge, PruneTo
<1>7. ASSUME NEW purpose \in {"encryption", "signing"}, RotateStoredKey(purpose)
      PROVE  TypeOK'
  <2>1. storedKeys' \in [encryption : Versions, signing : Versions]
    BY <1>7, LimitsAssumption DEF RotateStoredKey, Versions
  <2> QED
    BY <1>7, <2>1 DEF RotateStoredKey
<1>8. ASSUME NEW version \in Versions, NEW makeActive \in BOOLEAN,
             AddEncryptionKey(version, makeActive)
      PROVE  TypeOK'
  BY <1>8 DEF AddEncryptionKey
<1>9. ASSUME RotateSigningKey \/ Restart
      PROVE  TypeOK'
  BY <1>9 DEF RotateSigningKey, Restart
<1>10. ASSUME UNCHANGED vars
       PROVE  TypeOK'
  BY <1>10, StutterKeeps
<1> QED
  BY <1>1, <1>2, <1>3, <1>4, <1>5, <1>6, <1>7, <1>8, <1>9, <1>10
  DEF Next, AppendNext, UploadNext, KeyNext

(* In every reachable state the tables have the shape of their schema and  *)
(* the process holds the key it seals with.                                *)
THEOREM SpecTypeOK == Spec => []TypeOK
<1> QED
  BY InitTypeOK, NextTypeOK, PTL DEF Spec
-----------------------------------------------------------------------------
(* The pending batch owns the oldest rows and nothing else does: next_batch *)
(* cuts one batch at a time, so that deleting an acknowledged batch removes *)
(* a prefix of the chain.  ChainIntact alone is not inductive: without this *)
(* an acknowledgement could delete rows from the middle.                    *)
PendingOwnsPrefix ==
  /\ \A b, c \in Pending : b = c
  /\ \A b \in Pending :
       /\ b.first = prunedSequence + 1
       /\ b.first <= b.last
       /\ b.last < nextSequence
       /\ RowsOf(b) = b.first..b.last
       /\ rows[b.last].hash = b.head
  /\ \A s \in DOMAIN rows :
       /\ rows[s].state = "queued" <=> rows[s].batch = NoBatch
       /\ rows[s].batch # NoBatch => rows[s].batch \in Pending

(* The chain head covers every event captured, each under its own receipt. *)
HeadCoversLog ==
  /\ prunedSequence < nextSequence
  /\ Len(chainHead) = nextSequence - 1
  /\ \A i \in 1..Len(chainHead) : chainHead[i].id \in DOMAIN receipts

ChainInv == TypeOK /\ ChainIntact /\ PendingOwnsPrefix /\ HeadCoversLog

(* A step that neither captures, nor cuts, nor acknowledges.               *)
Quiet == UNCHANGED <<deviceState, rows, receipts>> /\ Pending' = Pending

LEMMA StepKinds ==
  ASSUME TypeOK, [Next]_vars
  PROVE  \/ Quiet
         \/ \E c \in Callers : CommitAppend(c)
         \/ \E first, last \in DOMAIN rows, now \in Times :
              CreateBatch(first, last, now)
         \/ \E b \in DOMAIN batches, receipt \in ReceiptIds :
              Acknowledge(b, receipt)
<1>1. UNCHANGED tables => Quiet
  BY DEF tables, Quiet, Pending
<1>2. ASSUME NEW b \in DOMAIN batches, NEW now \in Times, NEW delay \in Delays,
             RecordRetry(b, now, delay)
      PROVE  Quiet
  <2>1. /\ DOMAIN batches' = DOMAIN batches
        /\ \A x \in DOMAIN batches : x # b => batches'[x] = batches[x]
        /\ batches'[b] = [batches[b] EXCEPT !.attempts = @ + 1,
                                            !.nextAttempt = now + delay]
    BY <1>2 DEF RecordRetry
  <2>2. batches'[b].state = batches[b].state
    BY <2>1 DEF TypeOK, Batch
  <2>3. Pending' = Pending
    BY <2>1, <2>2 DEF Pending
  <2> QED
    BY <1>2, <2>3 DEF RecordRetry, Quiet
<1>3. ASSUME KeyNext \/ Restart \/ UNCHANGED vars
      PROVE  UNCHANGED tables
  BY <1>3 DEF KeyNext, RotateStoredKey, AddEncryptionKey, RotateSigningKey,
              Restart, vars
<1>4. ASSUME AppendNext
      PROVE  UNCHANGED tables \/ \E c \in Callers : CommitAppend(c)
  BY <1>4 DEF AppendNext, BeginAppend, ReplayAppend, RefuseAppend
<1> QED
  BY <1>1, <1>2, <1>3, <1>4 DEF Next, UploadNext

(* What a committed append does to the tables.                             *)
LEMMA AppendEffect ==
  ASSUME ChainInv, NEW c \in Callers, CommitAppend(c)
  PROVE  LET e == appending[c] IN
         /\ e \in Event
         /\ DOMAIN rows' = DOMAIN rows \union {nextSequence}
         /\ \A s \in DOMAIN rows : rows'[s] = rows[s]
         /\ rows'[nextSequence] =
              [event |-> e, previous |-> chainHead,
               hash |-> EventHash(chainHead, e), keyVersion |-> activeKey,
               state |-> "queued", batch |-> NoBatch]
         /\ nextSequence' = nextSequence + 1
         /\ chainHead' = EventHash(chainHead, e)
         /\ DOMAIN receipts' = DOMAIN receipts \union {e.id}
         /\ Pending' = Pending
         /\ UNCHANGED <<prunedSequence, prunedHead>>
<1>1. nextSequence \notin DOMAIN rows
  BY DEF ChainInv, ChainIntact, TypeOK
<1> QED
  BY <1>1 DEF CommitAppend, Put, ChainInv, TypeOK, Pending

(* A batch is cut only when every row is queued, and takes a prefix.       *)
LEMMA CreateEffect ==
  ASSUME ChainInv, NEW first \in DOMAIN rows, NEW last \in DOMAIN rows,
         NEW now \in Times, CreateBatch(first, last, now)
  PROVE  LET id    == BatchId(first, last, rows[last].hash)
             taken == first..last
         IN
         /\ first = prunedSequence + 1 /\ first <= last /\ last < nextSequence
         /\ Pending = {} /\ Pending' = {id}
         /\ id \in BatchIds
         /\ taken \subseteq DOMAIN rows
         /\ rows' = [s \in DOMAIN rows |->
              IF s \in taken
              THEN [rows[s] EXCEPT !.state = "batched", !.batch = id]
              ELSE rows[s]]
         /\ UNCHANGED <<deviceState, receipts>>
<1> USE DEF ChainInv
<1>1. Pending = {}
  BY DEF CreateBatch, NothingPending
<1>2. Queued = DOMAIN rows
  BY <1>1 DEF PendingOwnsPrefix, Queued
<1>3. DOMAIN rows = (prunedSequence + 1)..(nextSequence - 1)
  BY DEF ChainIntact
<1>4. \A s \in DOMAIN rows : first <= s
  BY <1>2 DEF CreateBatch, Selected
<1>5. first = prunedSequence + 1 /\ first <= last /\ last < nextSequence
  BY <1>3, <1>4 DEF TypeOK
<1>6. {s \in Queued : s <= last} = first..last
  BY <1>2, <1>3, <1>5 DEF TypeOK
<1>7. BatchId(first, last, rows[last].hash) \in BatchIds
  BY DEF BatchId, BatchIds, TypeOK, Row
<1>8. Pending' = {BatchId(first, last, rows[last].hash)}
  BY <1>1 DEF CreateBatch, Pending, Put
<1>9. first..last \subseteq DOMAIN rows
  BY <1>3, <1>5 DEF TypeOK
<1> QED
  BY <1>1, <1>5, <1>6, <1>7, <1>8, <1>9 DEF CreateBatch

(* An acknowledgement deletes exactly the prefix its batch owns.           *)
LEMMA AcknowledgeEffect ==
  ASSUME ChainInv, NEW b \in DOMAIN batches, NEW receipt \in ReceiptIds,
         Acknowledge(b, receipt)
  PROVE  /\ b \in Pending /\ Pending = {b} /\ Pending' = {}
         /\ b \in BatchIds
         /\ prunedSequence < b.last /\ b.last < nextSequence
         /\ b.last \in DOMAIN rows
         /\ RowsOf(b) = (prunedSequence + 1)..b.last
         /\ DOMAIN rows' = (b.last + 1)..(nextSequence - 1)
         /\ \A s \in DOMAIN rows' : s \in DOMAIN rows /\ rows'[s] = rows[s]
         /\ prunedSequence' = b.last
         /\ prunedHead' = rows[b.last].hash
         /\ DOMAIN receipts' = DOMAIN receipts
         /\ UNCHANGED <<nextSequence, chainHead>>
<1> USE DEF ChainInv
<1>1. b \in Pending
  BY DEF Acknowledge, Oldest
<1>2. Pending = {b}
  BY <1>1 DEF PendingOwnsPrefix
<1>3. b \in BatchIds /\ b.last \in Nat /\ b.head \in Hash
  BY DEF TypeOK, BatchIds
<1>4. /\ prunedSequence < b.last /\ b.last < nextSequence
      /\ RowsOf(b) = (prunedSequence + 1)..b.last
      /\ rows[b.last].hash = b.head
  BY <1>1, <1>3 DEF PendingOwnsPrefix, TypeOK
<1>5. DOMAIN rows = (prunedSequence + 1)..(nextSequence - 1)
  BY DEF ChainIntact
<1>6. b.last \in DOMAIN rows
  BY <1>3, <1>4, <1>5 DEF TypeOK
<1>7. rows' = [s \in DOMAIN rows \ RowsOf(b) |-> rows[s]]
  BY DEF Acknowledge
<1>8. DOMAIN rows \ RowsOf(b) = (b.last + 1)..(nextSequence - 1)
  BY <1>3, <1>4, <1>5 DEF TypeOK
<1>9. Pending' = {}
  <2>1. /\ DOMAIN batches' = DOMAIN batches
        /\ \A x \in DOMAIN batches : x # b => batches'[x] = batches[x]
        /\ batches'[b] = [batches[b] EXCEPT !.state = "acknowledged"]
    BY DEF Acknowledge
  <2>2. batches'[b].state = "acknowledged"
    BY <2>1 DEF TypeOK, Batch
  <2> QED
    BY <1>2, <2>1, <2>2 DEF Pending
<1> QED
  BY <1>1, <1>2, <1>3, <1>4, <1>6, <1>7, <1>8, <1>9
  DEF Acknowledge, PruneTo

LEMMA InitChain == Init => ChainInv
<1> SUFFICES ASSUME Init PROVE ChainInv
  OBVIOUS
<1>1. TypeOK
  BY InitTypeOK
<1>2. ChainIntact
  BY DEF Init, ChainIntact
<1>3. PendingOwnsPrefix
  BY DEF Init, PendingOwnsPrefix, Pending
<1>4. HeadCoversLog
  BY DEF Init, HeadCoversLog, GenesisHash
<1> QED
  BY <1>1, <1>2, <1>3, <1>4 DEF ChainInv

(* Appending at the chain head extends the chain by one link.              *)
LEMMA AppendChain ==
  ASSUME ChainInv, NEW c \in Callers, CommitAppend(c)
  PROVE  ChainIntact' /\ PendingOwnsPrefix' /\ HeadCoversLog'
<1> DEFINE e == appending[c]
<1>1. /\ e \in Event
      /\ DOMAIN rows' = DOMAIN rows \union {nextSequence}
      /\ \A s \in DOMAIN rows : rows'[s] = rows[s]
      /\ rows'[nextSequence] =
           [event |-> e, previous |-> chainHead,
            hash |-> EventHash(chainHead, e), keyVersion |-> activeKey,
            state |-> "queued", batch |-> NoBatch]
      /\ nextSequence' = nextSequence + 1
      /\ chainHead' = EventHash(chainHead, e)
      /\ DOMAIN receipts' = DOMAIN receipts \union {e.id}
      /\ Pending' = Pending
      /\ UNCHANGED <<prunedSequence, prunedHead>>
  BY AppendEffect
<1>2. /\ nextSequence \in Nat \ {0} /\ prunedSequence \in Nat
      /\ prunedSequence < nextSequence /\ chainHead \in Hash
  BY DEF ChainInv, TypeOK, HeadCoversLog
<1>3. DOMAIN rows = (prunedSequence + 1)..(nextSequence - 1)
  BY DEF ChainInv, ChainIntact
<1>4. DOMAIN rows' = (prunedSequence' + 1)..(nextSequence' - 1)
  BY <1>1, <1>2, <1>3
<1> HIDE DEF e
<1>5. ChainIntact'
  <2>1. ASSUME NEW s \in DOMAIN rows'
        PROVE  /\ rows'[s].hash = EventHash(rows'[s].previous, rows'[s].event)
               /\ rows'[s].previous = IF s = prunedSequence' + 1
                                      THEN prunedHead' ELSE rows'[s - 1].hash
    <3>1. CASE s \in DOMAIN rows
      <4>1. s # prunedSequence + 1 => s - 1 \in DOMAIN rows
        BY <1>2, <1>3, <3>1
      <4> QED
        BY <1>1, <3>1, <4>1 DEF ChainInv, ChainIntact
    <3>2. CASE s = nextSequence
      <4>1. s # prunedSequence + 1 => nextSequence - 1 \in DOMAIN rows
        BY <1>2, <1>3, <3>2
      <4>2. rows'[s].previous = chainHead
        BY <1>1, <3>2
      <4>3. rows'[s].hash = EventHash(rows'[s].previous, rows'[s].event)
        BY <1>1, <3>2
      <4> QED
        BY <1>1, <1>2, <3>2, <4>1, <4>2, <4>3 DEF ChainInv, ChainIntact
    <3> QED
      BY <1>1, <3>1, <3>2
  <2>2. chainHead' = rows'[nextSequence' - 1].hash
    BY <1>1, <1>2
  <2>3. nextSequence' # prunedSequence' + 1
    BY <1>1, <1>2
  <2> QED
    BY <1>4, <2>1, <2>2, <2>3 DEF ChainIntact
<1>6. PendingOwnsPrefix'
  <2>1. ASSUME NEW b \in Pending
        PROVE  /\ RowsOf(b)' = RowsOf(b)
               /\ b.last \in DOMAIN rows
    <3>1. b \in BatchIds /\ b.first \in Nat /\ b.last \in Nat
      BY DEF ChainInv, TypeOK, Pending, BatchIds
    <3>2. b # NoBatch
      BY <3>1, NoBatchAssumption
    <3>3. nextSequence \notin DOMAIN rows
      BY <1>2, <1>3
    <3>4. RowsOf(b)' = RowsOf(b)
      BY <1>1, <3>2, <3>3 DEF RowsOf
    <3>5. b.last \in DOMAIN rows
      BY <1>2, <1>3, <3>1 DEF ChainInv, PendingOwnsPrefix
    <3> QED
      BY <3>4, <3>5
  <2>2. \A b \in Pending : b.last \in Nat
    BY DEF ChainInv, TypeOK, Pending, BatchIds
  <2>3. \A b \in Pending' :
          /\ b.first = prunedSequence' + 1
          /\ b.first <= b.last
          /\ b.last < nextSequence'
          /\ RowsOf(b)' = b.first..b.last
          /\ rows'[b.last].hash = b.head
    BY <1>1, <1>2, <2>1, <2>2 DEF ChainInv, PendingOwnsPrefix
  <2>4. \A s \in DOMAIN rows' :
          /\ rows'[s].state = "queued" <=> rows'[s].batch = NoBatch
          /\ rows'[s].batch # NoBatch => rows'[s].batch \in Pending'
    BY <1>1 DEF ChainInv, PendingOwnsPrefix
  <2>5. \A b, d \in Pending' : b = d
    BY <1>1 DEF ChainInv, PendingOwnsPrefix
  <2> QED
    BY <2>3, <2>4, <2>5 DEF PendingOwnsPrefix
<1>7. HeadCoversLog'
  <2>1. chainHead \in Seq(Event) /\ Len(chainHead) = nextSequence - 1
    BY <1>2 DEF Hash, ChainInv, HeadCoversLog
  <2>2. chainHead' = Append(chainHead, e)
    BY <1>1 DEF EventHash
  <2>3. /\ Len(chainHead') = nextSequence
        /\ \A i \in 1..Len(chainHead) : chainHead'[i] = chainHead[i]
        /\ chainHead'[nextSequence] = e
    BY <1>1, <1>2, <2>1, <2>2
  <2>4. \A i \in 1..Len(chainHead') : chainHead'[i].id \in DOMAIN receipts'
    <3> TAKE i \in 1..Len(chainHead')
    <3>1. CASE i = nextSequence
      BY <1>1, <2>3, <3>1
    <3>2. CASE i \in 1..Len(chainHead)
      BY <1>1, <2>3, <3>2 DEF ChainInv, HeadCoversLog
    <3> QED
      BY <1>2, <2>1, <2>3, <3>1, <3>2
  <2> QED
    BY <1>1, <1>2, <2>3, <2>4 DEF HeadCoversLog
<1> QED
  BY <1>5, <1>6, <1>7

(* Cutting a batch marks a prefix of the rows and moves no link.           *)
LEMMA CreateChain ==
  ASSUME ChainInv, NEW first \in DOMAIN rows, NEW last \in DOMAIN rows,
         NEW now \in Times, CreateBatch(first, last, now)
  PROVE  ChainIntact' /\ PendingOwnsPrefix' /\ HeadCoversLog'
<1> DEFINE taken == first..last
<1>0. PICK id : id = BatchId(first, last, rows[last].hash)
  OBVIOUS
<1>1. /\ first = prunedSequence + 1 /\ first <= last /\ last < nextSequence
      /\ Pending = {} /\ Pending' = {id}
      /\ id \in BatchIds
      /\ taken \subseteq DOMAIN rows
      /\ rows' = [s \in DOMAIN rows |->
           IF s \in taken
           THEN [rows[s] EXCEPT !.state = "batched", !.batch = id]
           ELSE rows[s]]
      /\ UNCHANGED <<deviceState, receipts>>
  BY <1>0, CreateEffect
<1>2. id.first = first /\ id.last = last /\ id.head = rows[last].hash
  BY <1>0 DEF BatchId
<1>3. id # NoBatch
  BY <1>1, NoBatchAssumption
<1>4. \A s \in DOMAIN rows : rows[s].batch = NoBatch /\ rows[s].state = "queued"
  BY <1>1 DEF ChainInv, PendingOwnsPrefix
<1> HIDE DEF taken
<1>5. \A s \in DOMAIN rows :
        /\ rows'[s].event = rows[s].event
        /\ rows'[s].previous = rows[s].previous
        /\ rows'[s].hash = rows[s].hash
        /\ s \in taken => rows'[s].batch = id /\ rows'[s].state = "batched"
        /\ s \notin taken => rows'[s] = rows[s]
  BY <1>1 DEF ChainInv, TypeOK, Row
<1>6. /\ DOMAIN rows' = DOMAIN rows
      /\ taken \subseteq DOMAIN rows
      /\ Pending' = {id}
      /\ UNCHANGED <<nextSequence, chainHead, prunedSequence, prunedHead>>
  BY <1>1 DEF deviceState
<1>7. ChainIntact'
  <2>1. DOMAIN rows = (prunedSequence + 1)..(nextSequence - 1)
    BY DEF ChainInv, ChainIntact
  <2>2. prunedSequence \in Nat /\ nextSequence \in Nat
    BY DEF ChainInv, TypeOK
  <2>3. \A s \in DOMAIN rows : s # prunedSequence + 1 => s - 1 \in DOMAIN rows
    BY <2>1, <2>2
  <2>4. nextSequence # prunedSequence + 1 => nextSequence - 1 \in DOMAIN rows
    BY <2>1, <2>2 DEF ChainInv, HeadCoversLog
  <2> QED
    BY <1>5, <1>6, <2>1, <2>3, <2>4 DEF ChainInv, ChainIntact
<1>8. PendingOwnsPrefix'
  <2>1. RowsOf(id)' = taken
    BY <1>3, <1>4, <1>5, <1>6 DEF RowsOf
  <2>2. rows'[last].hash = rows[last].hash
    BY <1>5
  <2>3. \A s \in DOMAIN rows' :
          /\ rows'[s].state = "queued" <=> rows'[s].batch = NoBatch
          /\ rows'[s].batch # NoBatch => rows'[s].batch \in Pending'
    BY <1>3, <1>4, <1>5, <1>6
  <2>4. \A b \in Pending' :
          /\ b.first = prunedSequence' + 1
          /\ b.first <= b.last
          /\ b.last < nextSequence'
          /\ RowsOf(b)' = b.first..b.last
          /\ rows'[b.last].hash = b.head
    BY <1>1, <1>2, <2>1, <2>2 DEF deviceState, taken
  <2> QED
    BY <1>1, <2>3, <2>4 DEF PendingOwnsPrefix
<1>9. HeadCoversLog'
  BY <1>1 DEF ChainInv, HeadCoversLog, deviceState
<1> QED
  BY <1>7, <1>8, <1>9

(* Deleting the acknowledged prefix leaves the rest linked to its head.    *)
LEMMA AcknowledgeChain ==
  ASSUME ChainInv, NEW b \in DOMAIN batches, NEW receipt \in ReceiptIds,
         Acknowledge(b, receipt)
  PROVE  ChainIntact' /\ PendingOwnsPrefix' /\ HeadCoversLog'
<1>1. /\ b \in Pending /\ Pending = {b} /\ Pending' = {}
      /\ b \in BatchIds
      /\ prunedSequence < b.last /\ b.last < nextSequence
      /\ b.last \in DOMAIN rows
      /\ RowsOf(b) = (prunedSequence + 1)..b.last
      /\ DOMAIN rows' = (b.last + 1)..(nextSequence - 1)
      /\ \A s \in DOMAIN rows' : s \in DOMAIN rows /\ rows'[s] = rows[s]
      /\ prunedSequence' = b.last
      /\ prunedHead' = rows[b.last].hash
      /\ DOMAIN receipts' = DOMAIN receipts
      /\ UNCHANGED <<nextSequence, chainHead>>
  BY AcknowledgeEffect
<1>2. prunedSequence \in Nat /\ nextSequence \in Nat /\ b.last \in Nat
  BY <1>1 DEF ChainInv, TypeOK, BatchIds
<1>3. ChainIntact'
  <2>1. ASSUME NEW s \in DOMAIN rows'
        PROVE  /\ rows'[s].hash = EventHash(rows'[s].previous, rows'[s].event)
               /\ rows'[s].previous = IF s = prunedSequence' + 1
                                      THEN prunedHead' ELSE rows'[s - 1].hash
    <3>1. s \in DOMAIN rows /\ rows'[s] = rows[s] /\ s > b.last /\ s \in Nat
      BY <1>1, <1>2
    <3>2. rows[s].previous = rows[s - 1].hash
      BY <1>1, <1>2, <3>1 DEF ChainInv, ChainIntact
    <3>3. s # b.last + 1 => s - 1 \in DOMAIN rows'
      BY <1>1, <1>2, <3>1
    <3>4. s = b.last + 1 => s - 1 = b.last
      BY <1>2, <3>1
    <3>5. rows[s].hash = EventHash(rows[s].previous, rows[s].event)
      BY <3>1 DEF ChainInv, ChainIntact
    <3> QED
      BY <1>1, <3>1, <3>2, <3>3, <3>4, <3>5
  <2>2. chainHead = rows[nextSequence - 1].hash
    BY <1>1, <1>2 DEF ChainInv, ChainIntact
  <2>3. CASE nextSequence = b.last + 1
    BY <1>1, <1>2, <2>1, <2>2, <2>3 DEF ChainIntact
  <2>4. CASE nextSequence # b.last + 1
    <3>1. nextSequence - 1 \in DOMAIN rows'
      BY <1>1, <1>2, <2>4
    <3> QED
      BY <1>1, <1>2, <2>1, <2>2, <2>4, <3>1 DEF ChainIntact
  <2> QED
    BY <2>3, <2>4
<1>4. PendingOwnsPrefix'
  <2>1. ASSUME NEW s \in DOMAIN rows'
        PROVE  rows[s].batch = NoBatch /\ rows[s].state = "queued"
    <3>1. s \in DOMAIN rows /\ s \notin RowsOf(b)
      BY <1>1, <1>2
    <3>2. rows[s].batch # b
      BY <3>1 DEF RowsOf
    <3> QED
      BY <1>1, <3>1, <3>2 DEF ChainInv, PendingOwnsPrefix
  <2> QED
    BY <1>1, <2>1 DEF PendingOwnsPrefix
<1>5. HeadCoversLog'
  BY <1>1, <1>2 DEF ChainInv, HeadCoversLog
<1> QED
  BY <1>3, <1>4, <1>5

(* Every step keeps the inductive invariant.                               *)
LEMMA NextChain == ChainInv /\ [Next]_vars => ChainInv'
<1> SUFFICES ASSUME ChainInv, [Next]_vars PROVE ChainInv'
  OBVIOUS
<1>1. TypeOK'
  BY NextTypeOK DEF ChainInv
<1>2. CASE Quiet
  <2>1. \A b \in Pending : RowsOf(b)' = RowsOf(b)
    BY <1>2 DEF Quiet, RowsOf
  <2> QED
    BY <1>1, <1>2, <2>1 DEF Quiet, deviceState, ChainInv, ChainIntact,
                            PendingOwnsPrefix, HeadCoversLog
<1>3. CASE \E c \in Callers : CommitAppend(c)
  BY <1>1, <1>3, AppendChain DEF ChainInv
<1>4. CASE \E first, last \in DOMAIN rows, now \in Times :
             CreateBatch(first, last, now)
  BY <1>1, <1>4, CreateChain DEF ChainInv
<1>5. CASE \E b \in DOMAIN batches, receipt \in ReceiptIds :
             Acknowledge(b, receipt)
  BY <1>1, <1>5, AcknowledgeChain DEF ChainInv
<1> QED
  BY <1>2, <1>3, <1>4, <1>5, StepKinds DEF ChainInv

LEMMA SpecChainInv == Spec => []ChainInv
<1> QED
  BY InitChain, NextChain, PTL DEF Spec

(* The sequences, links and head that verify_integrity compares agree in   *)
(* every reachable state, whatever crash, race or rotation came before it; *)
(* that it holds the keys to decrypt the rows is not claimed.              *)
THEOREM SpecChainIntact == Spec => []ChainIntact
<1>1. ChainInv => ChainIntact
  BY DEF ChainInv
<1> QED
  BY <1>1, SpecChainInv, PTL

(* The spool implements the append-only log with a delivered prefix.       *)
THEOREM SpecImplementsEventLog == Spec => SpoolIsEventLog
<1> USE DEF Log!LogInit, Log!LogNext, Log!logVars, Log!Capture, Log!Deliver
<1>1. Init => Log!LogInit
  BY DEF Init, GenesisHash
<1>2. ChainInv /\ [Next]_vars => [Log!LogNext]_(Log!logVars)
  <2> SUFFICES ASSUME ChainInv, [Next]_vars
               PROVE  [Log!LogNext]_(Log!logVars)
    OBVIOUS
  <2>1. CASE Quiet
    BY <2>1 DEF Quiet, deviceState
  <2>2. ASSUME NEW c \in Callers, CommitAppend(c)
        PROVE  Log!LogNext
    <3>1. /\ appending[c] \in Event
          /\ chainHead' = Append(chainHead, appending[c])
          /\ UNCHANGED prunedSequence
      BY <2>2, AppendEffect DEF EventHash
    <3>2. appending[c].id \notin DOMAIN receipts
      BY <2>2 DEF CommitAppend, Captured
    <3>3. \A i \in 1..Len(chainHead) : chainHead[i].id # appending[c].id
      BY <3>2 DEF ChainInv, HeadCoversLog
    <3> QED
      BY <3>1, <3>3
  <2>3. CASE \E first, last \in DOMAIN rows, now \in Times :
               CreateBatch(first, last, now)
    BY <2>3 DEF CreateBatch, deviceState
  <2>4. ASSUME NEW b \in DOMAIN batches, NEW receipt \in ReceiptIds,
               Acknowledge(b, receipt)
        PROVE  Log!LogNext
    <3>1. /\ b \in BatchIds
          /\ prunedSequence < b.last /\ b.last < nextSequence
          /\ prunedSequence' = b.last
          /\ UNCHANGED chainHead
      BY <2>4, AcknowledgeEffect
    <3>2. b.last \in 1..Len(chainHead)
      BY <3>1 DEF ChainInv, HeadCoversLog, TypeOK, BatchIds
    <3> QED
      BY <3>1, <3>2
  <2> QED
    BY <2>1, <2>2, <2>3, <2>4, StepKinds DEF ChainInv
<1> QED
  BY <1>1, <1>2, SpecChainInv, PTL DEF Spec, SpoolIsEventLog, Log!LogSpec
=============================================================================
