-------------------------- MODULE SpoolTablesProofs --------------------------
(***************************************************************************)
(* Theorems about how the tables of the spool agree with each other, for   *)
(* every set of events, callers and receipts and every limit.              *)
(*                                                                         *)
(* The chain of the rows is known from SpoolProofs.  Batches and receipts  *)
(* need two facts more: batch_events has entries of the pending batch      *)
(* only, so that a batch that is cut starts with none, and every row has   *)
(* the receipt of its event, so that the receipts found through            *)
(* batch_events are those of the rows found through their batch_id.        *)
(* That a batch links to what was acknowledged takes that every hash is a  *)
(* prefix of the chain's head (HashesCover).                               *)
(* What the rows weigh together is a fold, which is what it is whichever   *)
(* row it takes first: it counts a set of units (SumCounts).               *)
(***************************************************************************)
EXTENDS SpoolProofs, FiniteSetTheorems, SequenceTheorems, WellFoundedInduction

EventsOfPending == \A p \in batchEvents : p[1] \in Pending

RowsHaveReceipts ==
  \A s \in DOMAIN rows :
    /\ rows[s].event.id \in DOMAIN receipts
    /\ receipts[rows[s].event.id].sequence = s

TablesInv ==
  /\ BatchesTileLog
  /\ UploadVerifies
  /\ EventsOfPending
  /\ ReceiptsExact
  /\ RowsHaveReceipts

(* A step that at most moves the retry cursor of the pending batch.        *)
OnlyRetried ==
  /\ UNCHANGED <<deviceState, rows, receipts, batchEvents, anchors>>
  /\ Pending' = Pending
  /\ DOMAIN batches' = DOMAIN batches
  /\ \A b \in DOMAIN batches :
       /\ batches'[b].signer = batches[b].signer
       /\ batches'[b].attempts >= batches[b].attempts
       /\ b \notin Pending => batches'[b] = batches[b]

LEMMA TableSteps ==
  ASSUME TypeOK, [Next]_vars
  PROVE  \/ OnlyRetried
         \/ \E c \in Callers : CommitAppend(c)
         \/ \E first, last \in DOMAIN rows, now \in Times :
              CreateBatch(first, last, now)
         \/ \E b \in DOMAIN batches, receipt \in ReceiptIds :
              Acknowledge(b, receipt)
<1>1. ASSUME UNCHANGED tables PROVE OnlyRetried
  <2>1. \A b \in DOMAIN batches : batches[b].attempts \in Nat
    BY DEF TypeOK, Batch
  <2> QED
    BY <1>1, <2>1 DEF tables, OnlyRetried, Pending
<1>2. ASSUME NEW b \in DOMAIN batches, NEW now \in Times, NEW delay \in Delays,
             RecordRetry(b, now, delay)
      PROVE  OnlyRetried
  <2>1. /\ DOMAIN batches' = DOMAIN batches
        /\ \A x \in DOMAIN batches : x # b => batches'[x] = batches[x]
        /\ batches'[b] = [batches[b] EXCEPT !.attempts = @ + 1,
                                            !.nextAttempt = now + delay]
    BY <1>2 DEF RecordRetry
  <2>2. \A x \in DOMAIN batches : batches[x] \in Batch
    BY DEF TypeOK
  <2>3. /\ batches'[b].state = batches[b].state
        /\ batches'[b].signer = batches[b].signer
        /\ batches'[b].attempts >= batches[b].attempts
    BY <2>1, <2>2 DEF Batch
  <2>4. Pending' = Pending
    BY <2>1, <2>3 DEF Pending
  <2>5. b \in Pending
    BY <1>2 DEF RecordRetry
  <2>6. \A x \in DOMAIN batches : batches[x].attempts >= batches[x].attempts
    BY <2>2 DEF Batch
  <2> QED
    BY <1>2, <2>1, <2>3, <2>4, <2>5, <2>6 DEF RecordRetry, OnlyRetried
<1>3. ASSUME KeyNext \/ Restart \/ UNCHANGED vars
      PROVE  UNCHANGED tables
  BY <1>3 DEF KeyNext, RotateStoredKey, AddEncryptionKey, RotateSigningKey,
              Restart, vars
<1>4. ASSUME AppendNext
      PROVE  UNCHANGED tables \/ \E c \in Callers : CommitAppend(c)
  BY <1>4 DEF AppendNext, BeginAppend, ReplayAppend, RefuseAppend
<1> QED
  BY <1>1, <1>2, <1>3, <1>4 DEF Next, UploadNext

(* Batch ids are made of sequences, and no row is marked with "none".      *)
LEMMA PendingTyped ==
  ASSUME TypeOK, NEW b \in DOMAIN batches
  PROVE  b \in BatchIds /\ b.first \in Nat /\ b.last \in Nat /\ b # NoBatch
BY NoBatchAssumption DEF TypeOK, BatchIds

LEMMA InitTables == Init => TablesInv
<1> SUFFICES ASSUME Init PROVE TablesInv
  OBVIOUS
<1>1. DOMAIN rows = {} /\ DOMAIN receipts = {} /\ DOMAIN batches = {} /\ DOMAIN anchors = {}
  BY DEF Init
<1>2. Pending = {}
  BY <1>1 DEF Pending
<1>3. BatchesTileLog
  BY <1>1, <1>2 DEF Init, BatchesTileLog
<1>4. ReceiptsExact
  BY <1>1 DEF Init, ReceiptsExact
<1> QED
  BY <1>1, <1>2, <1>3, <1>4
  DEF Init, TablesInv, UploadVerifies, EventsOfPending, RowsHaveReceipts

-----------------------------------------------------------------------------
LEMMA RetryTables ==
  ASSUME ChainInv, TablesInv, OnlyRetried
  PROVE  TablesInv'
<1>1. /\ UNCHANGED <<nextSequence, prunedSequence, rows, receipts, batchEvents, anchors>>
      /\ Pending' = Pending /\ DOMAIN batches' = DOMAIN batches
  BY DEF OnlyRetried, deviceState
<1>2. BatchesTileLog'
  BY <1>1 DEF TablesInv, BatchesTileLog
<1>3. \A b : RowsOf(b)' = RowsOf(b) /\ InBatch(b)' = InBatch(b)
  BY <1>1 DEF RowsOf, InBatch
<1>4. UploadVerifies'
  BY <1>1, <1>3 DEF TablesInv, UploadVerifies
<1>5. ReceiptsExact'
  BY <1>1 DEF TablesInv, ReceiptsExact
<1>6. EventsOfPending' /\ RowsHaveReceipts'
  BY <1>1 DEF TablesInv, EventsOfPending, RowsHaveReceipts
<1> QED
  BY <1>2, <1>4, <1>5, <1>6 DEF TablesInv

(* An append adds a row and its receipt, and is in no batch.               *)
LEMMA AppendTables ==
  ASSUME ChainInv, TablesInv, NEW c \in Callers, CommitAppend(c)
  PROVE  TablesInv'
<1> DEFINE e == appending[c]
           receipt == [sequence |-> nextSequence, hash |-> EventHash(chainHead, e),
                       acknowledged |-> FALSE]
<1>1. /\ e \in Event
      /\ DOMAIN rows' = DOMAIN rows \union {nextSequence}
      /\ \A s \in DOMAIN rows : rows'[s] = rows[s]
      /\ rows'[nextSequence] =
           [event |-> e, previous |-> chainHead,
            hash |-> EventHash(chainHead, e), keyVersion |-> activeKey,
            state |-> "queued", batch |-> NoBatch]
      /\ nextSequence' = nextSequence + 1
      /\ Pending' = Pending
      /\ prunedSequence' = prunedSequence
  BY AppendEffect
<1>2. e.id \notin DOMAIN receipts
  BY DEF CommitAppend, Captured
<1>3. receipts' = Put(receipts, e.id, receipt)
  BY DEF CommitAppend
<1>4. /\ DOMAIN receipts' = DOMAIN receipts \union {e.id}
      /\ \A i \in DOMAIN receipts : receipts'[i] = receipts[i]
      /\ receipts'[e.id] = receipt
  BY <1>2, <1>3 DEF Put
<1>5. UNCHANGED <<batches, batchEvents, anchors>>
  BY DEF CommitAppend
<1>6. nextSequence \in Nat \ {0} /\ prunedSequence \in Nat
  BY DEF ChainInv, TypeOK
<1>7. DOMAIN rows = (prunedSequence + 1)..(nextSequence - 1)
  BY DEF ChainInv, ChainIntact
<1>8. nextSequence \notin DOMAIN rows
  BY <1>6, <1>7
<1>9. /\ receipt.sequence = nextSequence /\ ~receipt.acknowledged
      /\ receipt.hash = EventHash(chainHead, e)
      /\ rows'[nextSequence].event = e
      /\ rows'[nextSequence].hash = EventHash(chainHead, e)
      /\ rows'[nextSequence].batch = NoBatch
  BY <1>1
<1> HIDE DEF e, receipt
<1>10. BatchesTileLog'
  <2>1. \A b \in DOMAIN batches : b.last \in Nat
    BY PendingTyped DEF ChainInv
  <2> QED
    BY <1>1, <1>5, <1>6, <2>1 DEF TablesInv, BatchesTileLog
<1>11. UploadVerifies'
  <2> SUFFICES ASSUME NEW b \in Pending
               PROVE  /\ RowsOf(b)' = b.first..b.last
                      /\ Cardinality(RowsOf(b)') <= MaxBatch
                      /\ rows'[b.last].hash = b.head
                      /\ \A s \in RowsOf(b)' : rows'[s].state = "batched"
                      /\ InBatch(b)' = {rows'[s].event.id : s \in RowsOf(b)'}
    BY <1>1 DEF UploadVerifies
  <2>1. b # NoBatch /\ b.first \in Nat /\ b.last \in Nat
    BY PendingTyped DEF ChainInv, Pending
  <2>2. RowsOf(b)' = RowsOf(b)
    BY <1>1, <1>8, <1>9, <2>1 DEF RowsOf
  <2>3. InBatch(b)' = InBatch(b)
    BY <1>5 DEF InBatch
  <2>4. /\ RowsOf(b) = b.first..b.last /\ b.first <= b.last
        /\ Cardinality(RowsOf(b)) <= MaxBatch
        /\ rows[b.last].hash = b.head
        /\ \A s \in RowsOf(b) : rows[s].state = "batched"
        /\ InBatch(b) = {rows[s].event.id : s \in RowsOf(b)}
    BY DEF TablesInv, UploadVerifies, ChainInv, PendingOwnsPrefix
  <2>5. RowsOf(b) \subseteq DOMAIN rows /\ b.last \in DOMAIN rows
    BY <2>1, <2>4 DEF RowsOf
  <2> QED
    BY <1>1, <2>2, <2>3, <2>4, <2>5
<1>12. EventsOfPending'
  BY <1>1, <1>5 DEF TablesInv, EventsOfPending
<1>13. RowsHaveReceipts'
  BY <1>1, <1>2, <1>4, <1>9 DEF TablesInv, RowsHaveReceipts
<1>14. ReceiptsExact'
  <2>1. /\ \A i \in DOMAIN receipts : receipts[i].sequence \in 1..(nextSequence - 1)
        /\ \A s \in 1..(nextSequence - 1) : \E i \in DOMAIN receipts : receipts[i].sequence = s
        /\ \A i, j \in DOMAIN receipts : receipts[i].sequence = receipts[j].sequence => i = j
    BY DEF TablesInv, ReceiptsExact
  <2>2. \A s \in 1..(nextSequence' - 1) : s = nextSequence \/ s \in 1..(nextSequence - 1)
    BY <1>1, <1>6
  <2>3. \A s \in 1..(nextSequence' - 1) : \E i \in DOMAIN receipts' : receipts'[i].sequence = s
    BY <1>4, <1>9, <2>1, <2>2
  <2>4. \A i \in DOMAIN receipts' : receipts'[i].sequence \in 1..(nextSequence' - 1)
    BY <1>1, <1>4, <1>6, <1>9, <2>1
  <2>5. \A i \in DOMAIN receipts : receipts[i].sequence # nextSequence
    BY <1>6, <2>1
  <2>6. \A i, j \in DOMAIN receipts' :
          receipts'[i].sequence = receipts'[j].sequence => i = j
    BY <1>4, <1>9, <2>1, <2>5
  <2>7. \A i \in DOMAIN receipts' :
          IF receipts'[i].acknowledged
          THEN receipts'[i].sequence <= prunedSequence'
          ELSE /\ receipts'[i].sequence \in DOMAIN rows'
               /\ rows'[receipts'[i].sequence].event.id = i
               /\ rows'[receipts'[i].sequence].hash = receipts'[i].hash
    BY <1>1, <1>4, <1>9 DEF TablesInv, ReceiptsExact
  <2> QED
    BY <2>3, <2>4, <2>6, <2>7 DEF ReceiptsExact
<1> QED
  BY <1>10, <1>11, <1>12, <1>13, <1>14 DEF TablesInv

(* A batch takes the oldest rows: it starts after the ones acknowledged,   *)
(* so that its id is new, and batch_events gains exactly its rows.         *)
LEMMA CreateTables ==
  ASSUME ChainInv, TablesInv, NEW first \in DOMAIN rows, NEW last \in DOMAIN rows,
         NEW now \in Times, CreateBatch(first, last, now)
  PROVE  TablesInv'
<1> DEFINE taken == first..last
<1>0. PICK id : id = BatchId(first, last, rows[last].hash)
  OBVIOUS
<1>1. /\ first = prunedSequence + 1 /\ first <= last /\ last < nextSequence
      /\ Pending = {} /\ Pending' = {id}
      /\ id \in BatchIds
      /\ taken \subseteq DOMAIN rows
      /\ rows' = [s \in DOMAIN rows |->
           IF s \in taken
           THEN [rows[s] EXCEPT !.state = "batched", !.batch = id]
           ELSE rows[s]]
      /\ UNCHANGED <<deviceState, receipts>>
  BY <1>0, CreateEffect
<1>2. id.first = first /\ id.last = last /\ id.head = rows[last].hash
  BY <1>0 DEF BatchId
<1>3. UNCHANGED <<nextSequence, prunedSequence, receipts, anchors>>
  BY <1>1 DEF deviceState, CreateBatch
<1>4. /\ prunedSequence \in Nat /\ nextSequence \in Nat /\ first \in Nat /\ last \in Nat
      /\ \A b \in DOMAIN batches : b.first \in Nat /\ b.last \in Nat /\ b # NoBatch
      /\ id # NoBatch
  BY <1>1, PendingTyped, NoBatchAssumption DEF ChainInv, TypeOK
<1>5. DOMAIN batches' = DOMAIN batches \union {id}
  BY <1>0 DEF CreateBatch, Put
<1>6. \A b \in DOMAIN batches : 0 < b.first /\ b.last <= prunedSequence
  BY <1>1 DEF TablesInv, BatchesTileLog
<1>7. id \notin DOMAIN batches
  <2>0. first = prunedSequence + 1 /\ first <= last /\ id.last = last
    BY <1>1, <1>2
  <2>1. id.last > prunedSequence
    BY <1>4, <2>0
  <2>2. \A b \in DOMAIN batches : ~(b.last > prunedSequence)
    BY <1>4, <1>6
  <2> QED
    BY <2>1, <2>2
<1>8. {s \in Queued : s <= last} = taken
  <2>1. DOMAIN rows = (prunedSequence + 1)..(nextSequence - 1)
    BY DEF ChainInv, ChainIntact
  <2>2. Queued = DOMAIN rows
    BY <1>1 DEF ChainInv, PendingOwnsPrefix, Queued
  <2>3. first = prunedSequence + 1 /\ last < nextSequence
    BY <1>1
  <2> QED
    BY <1>4, <2>1, <2>2, <2>3
<1>9. \A s \in DOMAIN rows :
        /\ rows'[s].event = rows[s].event
        /\ rows'[s].hash = rows[s].hash
        /\ s \in taken => rows'[s].batch = id /\ rows'[s].state = "batched"
        /\ s \notin taken => rows'[s].batch = NoBatch
  BY <1>1 DEF ChainInv, TypeOK, Row, PendingOwnsPrefix
<1>10. DOMAIN rows' = DOMAIN rows
  BY <1>1
<1>11. BatchesTileLog'
  <2>1. \A b \in DOMAIN batches' : b.first <= b.last /\ b.last < nextSequence'
    BY <1>1, <1>2, <1>3, <1>5 DEF TablesInv, BatchesTileLog
  <2>2. \A b, c \in DOMAIN batches' : b = c \/ b.last < c.first \/ c.last < b.first
    <3>1. \A b \in DOMAIN batches : b.last < id.first
      <4>1. id.first = prunedSequence + 1
        BY <1>1, <1>2
      <4> QED
        BY <1>4, <1>6, <4>1
    <3>2. \A b, c \in DOMAIN batches : b = c \/ b.last < c.first \/ c.last < b.first
      BY DEF TablesInv, BatchesTileLog
    <3> QED
      BY <1>5, <3>1, <3>2
  <2>3. DOMAIN batches' \ Pending' = DOMAIN batches \ Pending
    BY <1>1, <1>5, <1>7
  <2>4. \A s \in 1..prunedSequence' :
          \E b \in DOMAIN batches' \ Pending' : b.first <= s /\ s <= b.last
    BY <1>3, <2>3 DEF TablesInv, BatchesTileLog
  <2>5. \A b \in DOMAIN batches' \ Pending' : 0 < b.first /\ b.last <= prunedSequence'
    BY <1>3, <2>3 DEF TablesInv, BatchesTileLog
  <2>6. /\ \A b, c \in Pending' : b = c
        /\ \A b \in Pending' : b.first = prunedSequence' + 1
    BY <1>1, <1>2, <1>3
  <2>7. \A r \in DOMAIN anchors : anchors[r] \in DOMAIN batches /\ anchors[r] # id
    BY <1>7 DEF ChainInv, TypeOK
  <2>8. \A b \in DOMAIN batches' : (\E r \in DOMAIN anchors' : anchors'[r] = b) <=> b \notin Pending'
    BY <1>1, <1>3, <1>5, <1>7, <2>7 DEF TablesInv, BatchesTileLog
  <2>9. \A r, q \in DOMAIN anchors' : anchors'[r] = anchors'[q] => r = q
    BY <1>3 DEF TablesInv, BatchesTileLog
  <2> QED
    BY <2>1, <2>2, <2>4, <2>5, <2>6, <2>8, <2>9 DEF BatchesTileLog
<1>12. batchEvents' = {<<id, rows[s].event.id>> : s \in taken}
  <2>1. batchEvents = {}
    BY <1>1 DEF TablesInv, EventsOfPending
  <2>2. batchEvents' = batchEvents \union {<<id, rows[s].event.id>> : s \in {t \in Queued : t <= last}}
    BY <1>0 DEF CreateBatch
  <2> QED
    BY <1>8, <2>1, <2>2
<1> HIDE DEF taken
<1>13. EventsOfPending'
  <2>1. \A p \in batchEvents' : p[1] = id
    BY <1>12
  <2> QED
    BY <1>1, <2>1 DEF EventsOfPending
<1>14. UploadVerifies'
  <2>1. RowsOf(id)' = taken
    BY <1>1, <1>4, <1>9, <1>10 DEF RowsOf
  <2>2. Cardinality(taken) <= MaxBatch
    <3>1. \/ Cardinality(taken) = MaxBatch
          \/ taken = Queued /\ Cardinality(taken) <= MaxBatch
      BY <1>8 DEF CreateBatch, Selected
    <3> QED
      BY <3>1, LimitsAssumption
  <2>3. rows'[last].hash = id.head
    BY <1>2, <1>9
  <2>4. \A s \in taken : s \in DOMAIN rows /\ rows[s].event.id \in EventIds
    BY <1>1 DEF ChainInv, TypeOK, Row, Event
  <2>5. InBatch(id)' = {rows[s].event.id : s \in taken}
    BY <1>12, <2>4 DEF InBatch
  <2>6. {rows'[s].event.id : s \in taken} = {rows[s].event.id : s \in taken}
    BY <1>9, <2>4
  <2> QED
    BY <1>1, <1>2, <1>9, <2>1, <2>2, <2>3, <2>4, <2>5, <2>6 DEF UploadVerifies, taken
<1>15. RowsHaveReceipts'
  BY <1>3, <1>9, <1>10 DEF TablesInv, RowsHaveReceipts
<1>16. ReceiptsExact'
  BY <1>3, <1>9, <1>10 DEF TablesInv, ReceiptsExact
<1> QED
  BY <1>11, <1>13, <1>14, <1>15, <1>16 DEF TablesInv

(* An acknowledgement deletes the rows and marks the receipts of the same  *)
(* events, and leaves batch_events empty.                                  *)
LEMMA AcknowledgeTables ==
  ASSUME ChainInv, TablesInv, NEW b \in DOMAIN batches, NEW receipt \in ReceiptIds,
         Acknowledge(b, receipt)
  PROVE  TablesInv'
<1>1. /\ b \in Pending /\ Pending = {b} /\ Pending' = {}
      /\ prunedSequence < b.last /\ b.last < nextSequence
      /\ RowsOf(b) = (prunedSequence + 1)..b.last
      /\ DOMAIN rows' = (b.last + 1)..(nextSequence - 1)
      /\ \A s \in DOMAIN rows' : s \in DOMAIN rows /\ rows'[s] = rows[s]
      /\ prunedSequence' = b.last
      /\ DOMAIN receipts' = DOMAIN receipts
      /\ nextSequence' = nextSequence
  BY AcknowledgeEffect
<1>2. /\ prunedSequence \in Nat /\ nextSequence \in Nat
      /\ \A c \in DOMAIN batches : c.first \in Nat /\ c.last \in Nat
  BY PendingTyped DEF ChainInv, TypeOK
<1>3. DOMAIN batches' = DOMAIN batches
  BY DEF Acknowledge
<1>4. b.first = prunedSequence + 1
  BY <1>1 DEF TablesInv, BatchesTileLog
<1>5. /\ receipt \notin DOMAIN anchors
      /\ \A r \in DOMAIN anchors : anchors[r] # b
      /\ DOMAIN anchors' = DOMAIN anchors \union {receipt}
      /\ anchors'[receipt] = b
      /\ \A r \in DOMAIN anchors : anchors'[r] = anchors[r]
  BY DEF Acknowledge, FreshReceipt, Put
<1>6. BatchesTileLog'
  <2>1. \A c \in DOMAIN batches' : c.first <= c.last /\ c.last < nextSequence'
    BY <1>1, <1>3 DEF TablesInv, BatchesTileLog
  <2>2. \A c, d \in DOMAIN batches' : c = d \/ c.last < d.first \/ d.last < c.first
    BY <1>3 DEF TablesInv, BatchesTileLog
  <2>3. \A s \in 1..prunedSequence' : s \in 1..prunedSequence \/ (b.first <= s /\ s <= b.last)
    BY <1>1, <1>2, <1>4
  <2>4. \A s \in 1..prunedSequence' :
          \E c \in DOMAIN batches' \ Pending' : c.first <= s /\ s <= c.last
    BY <1>1, <1>3, <2>3 DEF TablesInv, BatchesTileLog
  <2>5. \A c \in DOMAIN batches' \ Pending' : 0 < c.first /\ c.last <= prunedSequence'
    BY <1>1, <1>2, <1>3, <1>4 DEF TablesInv, BatchesTileLog
  <2>6. \A c \in DOMAIN batches' : (\E r \in DOMAIN anchors' : anchors'[r] = c) <=> c \notin Pending'
    BY <1>1, <1>3, <1>5 DEF TablesInv, BatchesTileLog
  <2>7. \A r, q \in DOMAIN anchors' : anchors'[r] = anchors'[q] => r = q
    BY <1>5 DEF TablesInv, BatchesTileLog
  <2> QED
    BY <1>1, <2>1, <2>2, <2>4, <2>5, <2>6, <2>7 DEF BatchesTileLog
<1>7. UploadVerifies'
  BY <1>1 DEF UploadVerifies
<1>8. EventsOfPending'
  <2>1. batchEvents' = {p \in batchEvents : p[1] # b}
    BY DEF Acknowledge
  <2> QED
    BY <1>1, <2>1 DEF TablesInv, EventsOfPending
<1>9. \A i \in DOMAIN receipts :
        /\ receipts'[i].sequence = receipts[i].sequence
        /\ receipts'[i].hash = receipts[i].hash
        /\ i \in InBatch(b) => receipts'[i].acknowledged
        /\ i \notin InBatch(b) => receipts'[i] = receipts[i]
  <2>1. \A i \in DOMAIN receipts : receipts[i] \in Receipt
    BY DEF ChainInv, TypeOK
  <2>2. \A i \in DOMAIN receipts :
          receipts'[i] = IF i \in InBatch(b) THEN [receipts[i] EXCEPT !.acknowledged = TRUE]
                                             ELSE receipts[i]
    BY DEF Acknowledge
  <2> QED
    BY <2>1, <2>2 DEF Receipt
<1>10. InBatch(b) = {rows[s].event.id : s \in RowsOf(b)}
  BY <1>1 DEF TablesInv, UploadVerifies
<1>11. RowsHaveReceipts'
  BY <1>1, <1>9 DEF TablesInv, RowsHaveReceipts
<1>12. ReceiptsExact'
  <2>1. ASSUME NEW i \in DOMAIN receipts
        PROVE  IF receipts'[i].acknowledged
               THEN receipts'[i].sequence <= prunedSequence'
               ELSE /\ receipts'[i].sequence \in DOMAIN rows'
                    /\ rows'[receipts'[i].sequence].event.id = i
                    /\ rows'[receipts'[i].sequence].hash = receipts'[i].hash
    <3> DEFINE s == receipts[i].sequence
    <3>0. s \in Nat
      BY DEF ChainInv, TypeOK, Receipt
    <3>1. CASE i \in InBatch(b)
      <4>1. PICK t \in RowsOf(b) : i = rows[t].event.id
        BY <1>10, <3>1
      <4>2. s = t
        BY <4>1 DEF TablesInv, RowsHaveReceipts, RowsOf
      <4>3. s <= b.last
        BY <1>1, <1>2, <4>2
      <4> QED
        BY <1>1, <1>9, <3>1, <4>3
    <3>2. CASE i \notin InBatch(b) /\ receipts[i].acknowledged
      <4>1. s <= prunedSequence
        BY <3>2 DEF TablesInv, ReceiptsExact
      <4> QED
        BY <1>1, <1>2, <1>9, <3>0, <3>2, <4>1
    <3>3. CASE i \notin InBatch(b) /\ ~receipts[i].acknowledged
      <4>1. s \in DOMAIN rows /\ rows[s].event.id = i /\ rows[s].hash = receipts[i].hash
        BY <3>3 DEF TablesInv, ReceiptsExact
      <4>2. s \notin RowsOf(b)
        BY <1>10, <3>3, <4>1
      <4>3. DOMAIN rows = (prunedSequence + 1)..(nextSequence - 1)
        BY DEF ChainInv, ChainIntact
      <4>4. s \in DOMAIN rows'
        BY <1>1, <1>2, <4>1, <4>2, <4>3
      <4> QED
        BY <1>1, <1>9, <3>3, <4>1, <4>4
    <3> QED
      BY <3>1, <3>2, <3>3
  <2>2. /\ \A s \in 1..(nextSequence' - 1) : \E i \in DOMAIN receipts' : receipts'[i].sequence = s
        /\ \A i \in DOMAIN receipts' : receipts'[i].sequence \in 1..(nextSequence' - 1)
        /\ \A i, j \in DOMAIN receipts' : receipts'[i].sequence = receipts'[j].sequence => i = j
    BY <1>1, <1>9 DEF TablesInv, ReceiptsExact
  <2> QED
    BY <1>1, <2>1, <2>2 DEF ReceiptsExact
<1> QED
  BY <1>6, <1>7, <1>8, <1>11, <1>12 DEF TablesInv

-----------------------------------------------------------------------------
LEMMA NextTables == ChainInv /\ TablesInv /\ [Next]_vars => TablesInv'
<1> SUFFICES ASSUME ChainInv, TablesInv, [Next]_vars PROVE TablesInv'
  OBVIOUS
<1> QED
  BY TableSteps, RetryTables, AppendTables, CreateTables, AcknowledgeTables DEF ChainInv

LEMMA SpecTablesInv == Spec => []TablesInv
<1> QED
  BY InitTables, NextTables, SpecChainInv, PTL DEF Spec

(* A hash covers the first events captured, as many as its row's number:   *)
(* the chain is one sequence, of which every hash is a prefix.             *)
Covers(hash, n) == Len(hash) = n /\ \A i \in 1..n : hash[i] = chainHead[i]

HashesCover ==
  /\ Covers(prunedHead, prunedSequence)
  /\ \A s \in DOMAIN rows : Covers(rows[s].hash, s)

LEMMA NextHashes == ChainInv /\ HashesCover /\ [Next]_vars => HashesCover'
<1> SUFFICES ASSUME ChainInv, HashesCover, [Next]_vars PROVE HashesCover'
  OBVIOUS
<1>1. CASE Quiet
  BY <1>1 DEF Quiet, deviceState, HashesCover, Covers
<1>2. ASSUME NEW c \in Callers, CommitAppend(c) PROVE HashesCover'
  <2>1. /\ appending[c] \in Event
        /\ DOMAIN rows' = DOMAIN rows \union {nextSequence}
        /\ \A s \in DOMAIN rows : rows'[s] = rows[s]
        /\ rows'[nextSequence] =
              [event |-> appending[c], previous |-> chainHead,
               hash |-> EventHash(chainHead, appending[c]), keyVersion |-> activeKey,
               state |-> "queued", batch |-> NoBatch]
        /\ chainHead' = EventHash(chainHead, appending[c])
        /\ UNCHANGED <<prunedSequence, prunedHead>>
    BY <1>2, AppendEffect
  <2>2. /\ chainHead \in Seq(Event) /\ Len(chainHead) = nextSequence - 1
        /\ nextSequence \in Nat \ {0} /\ prunedSequence \in Nat /\ prunedSequence < nextSequence
        /\ DOMAIN rows = (prunedSequence + 1)..(nextSequence - 1)
    BY DEF ChainInv, TypeOK, Hash, HeadCoversLog, ChainIntact
  <2>3. /\ Len(chainHead') = nextSequence
        /\ \A i \in 1..(nextSequence - 1) : chainHead'[i] = chainHead[i]
    BY <2>1, <2>2 DEF EventHash
  <2>4. Covers(prunedHead, prunedSequence)'
    BY <2>1, <2>2, <2>3 DEF HashesCover, Covers
  <2>5. \A s \in DOMAIN rows : Covers(rows[s].hash, s)'
    BY <2>1, <2>2, <2>3 DEF HashesCover, Covers
  <2>6. rows'[nextSequence].hash = chainHead'
    BY <2>1
  <2>7. ASSUME NEW s \in DOMAIN rows' PROVE Covers(rows[s].hash, s)'
    BY <2>1, <2>2, <2>3, <2>5, <2>6 DEF Covers
  <2> QED
    BY <2>4, <2>7 DEF HashesCover
<1>3. ASSUME NEW first \in DOMAIN rows, NEW last \in DOMAIN rows, NEW now \in Times,
             CreateBatch(first, last, now)
      PROVE  HashesCover'
  <2>1. \A s \in DOMAIN rows : rows[s] \in Row
    BY DEF ChainInv, TypeOK
  <2>2. /\ rows' = [s \in DOMAIN rows |->
             IF s \in first..last
             THEN [rows[s] EXCEPT !.state = "batched",
                                  !.batch = BatchId(first, last, rows[last].hash)]
             ELSE rows[s]]
        /\ UNCHANGED deviceState
    BY <1>3, CreateEffect
  <2>3. DOMAIN rows' = DOMAIN rows /\ \A s \in DOMAIN rows : rows'[s].hash = rows[s].hash
    BY <2>1, <2>2 DEF Row
  <2>4. UNCHANGED <<prunedSequence, prunedHead, chainHead>>
    BY <2>2 DEF deviceState
  <2> QED
    BY <2>3, <2>4 DEF HashesCover, Covers
<1>4. ASSUME NEW b \in DOMAIN batches, NEW receipt \in ReceiptIds, Acknowledge(b, receipt)
      PROVE  HashesCover'
  <2>1. /\ b.last \in DOMAIN rows
        /\ \A s \in DOMAIN rows' : s \in DOMAIN rows /\ rows'[s] = rows[s]
        /\ prunedSequence' = b.last /\ prunedHead' = rows[b.last].hash
        /\ UNCHANGED chainHead
    BY <1>4, AcknowledgeEffect
  <2> QED
    BY <2>1 DEF HashesCover, Covers
<1> QED
  BY <1>1, <1>2, <1>3, <1>4, StepKinds DEF ChainInv

LEMMA SpecHashesCover == Spec => []HashesCover
<1>1. Init => HashesCover
  BY DEF Init, HashesCover, Covers, GenesisHash
<1> QED
  BY <1>1, NextHashes, SpecChainInv, PTL DEF Spec

LEMMA HashesContinue == ChainInv /\ HashesCover => UploadContinues
<1> SUFFICES ASSUME ChainInv, HashesCover, NEW b \in Pending
             PROVE  /\ rows[b.first].previous = prunedHead
                    /\ Len(prunedHead) = b.first - 1 /\ Len(b.head) = b.last
                    /\ SubSeq(b.head, 1, b.first - 1) = prunedHead
  BY DEF UploadContinues
<1>1. /\ b \in BatchIds /\ b.first \in Nat /\ b.last \in Nat /\ b.head \in Seq(Event)
      /\ prunedSequence \in Nat /\ prunedHead \in Seq(Event)
  BY DEF ChainInv, TypeOK, Pending, BatchIds, Hash
<1>2. /\ b.first = prunedSequence + 1 /\ b.first <= b.last /\ b.last < nextSequence
      /\ rows[b.last].hash = b.head
  BY DEF ChainInv, PendingOwnsPrefix
<1>3. b.first \in DOMAIN rows /\ b.last \in DOMAIN rows
  BY <1>1, <1>2 DEF ChainInv, ChainIntact, TypeOK
<1>4. rows[b.first].previous = prunedHead
  BY <1>2, <1>3 DEF ChainInv, ChainIntact
<1>5. /\ Len(prunedHead) = prunedSequence /\ Len(b.head) = b.last
      /\ \A i \in 1..prunedSequence : prunedHead[i] = b.head[i]
  <2>1. /\ Len(prunedHead) = prunedSequence
        /\ \A i \in 1..prunedSequence : prunedHead[i] = chainHead[i]
    BY DEF HashesCover, Covers
  <2>2. /\ Len(rows[b.last].hash) = b.last
        /\ \A i \in 1..b.last : rows[b.last].hash[i] = chainHead[i]
    BY <1>3 DEF HashesCover, Covers
  <2>3. 1..prunedSequence \subseteq 1..b.last
    BY <1>1, <1>2
  <2> QED
    BY <1>2, <2>1, <2>2, <2>3
<1>6. SubSeq(b.head, 1, prunedSequence) = prunedHead
  <2> DEFINE head == SubSeq(b.head, 1, prunedSequence)
  <2>1. \A i \in 1..prunedSequence : b.head[i] \in Event
    BY <1>1, <1>2, <1>5
  <2>2. /\ head \in Seq(Event)
        /\ Len(head) = IF 1 <= prunedSequence THEN prunedSequence - 1 + 1 ELSE 0
        /\ \A i \in 1..(prunedSequence - 1 + 1) : head[i] = b.head[1 + i - 1]
    BY <1>1, <2>1, SubSeqProperties
  <2> HIDE DEF head
  <2>3. Len(head) = Len(prunedHead) /\ \A i \in 1..Len(head) : head[i] = prunedHead[i]
    BY <1>1, <1>5, <2>2
  <2>4. head = prunedHead
    BY <1>1, <2>2, <2>3, SeqEqual
  <2> QED
    BY <2>4 DEF head
<1> QED
  BY <1>1, <1>2, <1>4, <1>5, <1>6

(* The batches ever cut tile the sequences captured, the acknowledged ones *)
(* exactly the pruned prefix, and the pending one is what a server that    *)
(* holds these accepts next and what an acknowledgement will delete        *)
(* (next_batch, load_batch, acknowledge).                                  *)
THEOREM SpecBatchesUpload == Spec => []BatchesUpload
<1>1. TablesInv /\ ChainInv /\ HashesCover => BatchesUpload
  BY HashesContinue DEF TablesInv, BatchesUpload
<1> QED
  BY <1>1, SpecTablesInv, SpecChainInv, SpecHashesCover, PTL

(* Every event captured has one receipt under its own number, and is in    *)
(* the spool exactly as long as that is not acknowledged (append,          *)
(* acknowledge).                                                           *)
THEOREM SpecReceiptsExact == Spec => []ReceiptsExact
<1>1. TablesInv => ReceiptsExact
  BY DEF TablesInv
<1> QED
  BY <1>1, SpecTablesInv, PTL

LEMMA StepKeepsHistory ==
  ASSUME ChainInv, TablesInv, [Next]_vars
  PROVE  CapturesStable /\ DeletedOnlyWhenAcknowledged /\ BatchesImmutable
<1> USE DEF CapturesStable, DeletedOnlyWhenAcknowledged, BatchesImmutable
<1>0. /\ \A b \in DOMAIN batches : batches[b] \in Batch /\ batches[b].attempts \in Nat
      /\ Pending \subseteq DOMAIN batches
      /\ \A s \in DOMAIN rows : rows[s].batch # NoBatch => rows[s].batch \in Pending
  BY DEF ChainInv, TypeOK, Batch, Pending, PendingOwnsPrefix
<1>1. CASE OnlyRetried
  BY <1>1 DEF OnlyRetried, InBatch
<1>2. ASSUME NEW c \in Callers, CommitAppend(c)
      PROVE  CapturesStable /\ DeletedOnlyWhenAcknowledged /\ BatchesImmutable
  <2>1. /\ \A s \in DOMAIN rows : s \in DOMAIN rows' /\ rows'[s] = rows[s]
    BY <1>2, AppendEffect
  <2>2. \A i \in DOMAIN receipts : i \in DOMAIN receipts' /\ receipts'[i] = receipts[i]
    BY <1>2 DEF CommitAppend, Captured, Put
  <2>3. UNCHANGED <<batches, batchEvents>>
    BY <1>2 DEF CommitAppend
  <2> QED
    BY <1>0, <2>1, <2>2, <2>3 DEF InBatch
<1>3. ASSUME NEW first \in DOMAIN rows, NEW last \in DOMAIN rows, NEW now \in Times,
             CreateBatch(first, last, now)
      PROVE  CapturesStable /\ DeletedOnlyWhenAcknowledged /\ BatchesImmutable
  <2> DEFINE id == BatchId(first, last, rows[last].hash)
  <2>1. /\ Pending = {} /\ Pending' = {id}
        /\ first = prunedSequence + 1 /\ first <= last
        /\ rows' = [s \in DOMAIN rows |->
             IF s \in first..last
             THEN [rows[s] EXCEPT !.state = "batched", !.batch = id]
             ELSE rows[s]]
        /\ UNCHANGED receipts
    BY <1>3, CreateEffect
  <2>2. id \notin DOMAIN batches
    <3>1. \A b \in DOMAIN batches : b.last \in Nat /\ b.last <= prunedSequence
      BY <2>1, PendingTyped DEF TablesInv, BatchesTileLog, ChainInv
    <3>2. id.last = last /\ prunedSequence \in Nat /\ first \in Nat /\ last \in Nat
      BY DEF BatchId, ChainInv, TypeOK
    <3>3. first = prunedSequence + 1 /\ first <= last
      BY <2>1
    <3>4. id.last > prunedSequence
      BY <3>2, <3>3
    <3>5. \A b \in DOMAIN batches : ~(b.last > prunedSequence)
      BY <3>1, <3>2
    <3> QED
      BY <3>4, <3>5
  <2>3. \A b \in DOMAIN batches : b \in DOMAIN batches' /\ batches'[b] = batches[b]
    BY <1>3, <2>2 DEF CreateBatch, Put
  <2>4. DOMAIN rows' = DOMAIN rows
        /\ \A s \in DOMAIN rows : /\ rows[s].batch = NoBatch
                                  /\ rows'[s].event = rows[s].event
                                  /\ rows'[s].hash = rows[s].hash
    BY <1>0, <2>1 DEF ChainInv, TypeOK, Row
  <2>5. BatchesImmutable
    <3>1. \A b \in DOMAIN batches : batches[b].attempts >= batches[b].attempts
      BY <1>0
    <3>2. \A b \in DOMAIN batches : b \notin Pending'
      BY <2>1, <2>2
    <3> QED
      BY <2>3, <3>1, <3>2
  <2>6. CapturesStable /\ DeletedOnlyWhenAcknowledged
    BY <2>1, <2>4
  <2> QED
    BY <2>5, <2>6
<1>4. ASSUME NEW b \in DOMAIN batches, NEW receipt \in ReceiptIds, Acknowledge(b, receipt)
      PROVE  CapturesStable /\ DeletedOnlyWhenAcknowledged /\ BatchesImmutable
  <2>1. /\ b \in Pending /\ Pending = {b} /\ Pending' = {}
        /\ \A s \in DOMAIN rows' : s \in DOMAIN rows /\ rows'[s] = rows[s]
    BY <1>4, AcknowledgeEffect
  <2>2. /\ DOMAIN batches' = DOMAIN batches
        /\ \A x \in DOMAIN batches : x # b => batches'[x] = batches[x]
        /\ batches'[b] = [batches[b] EXCEPT !.state = "acknowledged"]
    BY <1>4 DEF Acknowledge
  <2>3. /\ batches'[b].state = "acknowledged"
        /\ batches'[b].signer = batches[b].signer
        /\ batches'[b].attempts = batches[b].attempts
    BY <1>0, <2>2 DEF Batch
  <2>4. BatchesImmutable
    <3>1. \A x \in DOMAIN batches : batches[x].attempts >= batches[x].attempts
      BY <1>0
    <3> QED
      BY <2>1, <2>2, <2>3, <3>1
  <2>5. \A s \in DOMAIN rows : s \notin DOMAIN rows' => rows[s].batch = b
    BY <1>4 DEF Acknowledge, RowsOf
  <2>6. DeletedOnlyWhenAcknowledged
    BY <2>1, <2>3, <2>5
  <2>7. CapturesStable
    <3>1. \A i \in DOMAIN receipts : receipts[i] \in Receipt
      BY DEF ChainInv, TypeOK
    <3>2. DOMAIN receipts' = DOMAIN receipts
          /\ \A i \in DOMAIN receipts :
               receipts'[i] = IF i \in InBatch(b) THEN [receipts[i] EXCEPT !.acknowledged = TRUE]
                                                  ELSE receipts[i]
      BY <1>4 DEF Acknowledge
    <3> QED
      BY <3>1, <3>2 DEF Receipt
  <2> QED
    BY <2>4, <2>6, <2>7
<1> QED
  BY <1>1, <1>2, <1>3, <1>4, TableSteps DEF ChainInv

(* Whatever threads race and whenever the process restarts: a capture      *)
(* keeps its number, an entry is deleted only with its acknowledged batch, *)
(* and a batch is sent again as it was signed.                             *)
THEOREM SpecHistoryIsKept == Spec => HistoryIsKept
<1>1. ChainInv /\ TablesInv /\ [Next]_vars
        => [CapturesStable /\ DeletedOnlyWhenAcknowledged /\ BatchesImmutable]_vars
  BY StepKeepsHistory
<1> QED
  BY <1>1, SpecChainInv, SpecTablesInv, PTL DEF Spec, HistoryIsKept

-----------------------------------------------------------------------------
(* A sum, counted one by one: w[x] units for each x of T.                  *)
Units(w, T) == {p \in T \X Nat : p[2] \in 1..w[p[1]]}

(* What MapThenSumSet calculates, of the weights w.                        *)
SumOf(it, w, D) ==
  it = [T \in SUBSET D |->
          IF T = {} THEN 0
          ELSE w[CHOOSE x \in T : TRUE] + it[T \ {CHOOSE x \in T : TRUE}]]

LEMMA UnitsOfOne ==
  ASSUME NEW D, NEW w \in [D -> Nat], NEW x \in D
  PROVE  IsFiniteSet(Units(w, {x})) /\ Cardinality(Units(w, {x})) = w[x]
<1>1. Units(w, {x}) = {x} \X (1..w[x])
  <2>1. \A p : p \in {x} \X Nat => p[1] = x /\ p = <<p[1], p[2]>>
    OBVIOUS
  <2>2. \A p : p \in {x} \X (1..w[x]) <=> p \in {x} \X Nat /\ p[2] \in 1..w[p[1]]
    BY <2>1
  <2> QED
    BY <2>2 DEF Units
<1>2. w[x] \in Nat
  OBVIOUS
<1>3. IsFiniteSet(1..w[x]) /\ Cardinality(1..w[x]) = w[x]
  BY <1>2, FS_Interval
<1>4. IsFiniteSet({x}) /\ Cardinality({x}) = 1
  BY FS_Singleton
<1>5. /\ IsFiniteSet({x} \X (1..w[x]))
      /\ Cardinality({x} \X (1..w[x])) = Cardinality({x}) * Cardinality(1..w[x])
  <2> DEFINE I == 1..w[x]
  <2>1. IsFiniteSet(I)
    BY <1>3
  <2> HIDE DEF I
  <2>2. IsFiniteSet({x} \X I) /\ Cardinality({x} \X I) = Cardinality({x}) * Cardinality(I)
    BY <1>4, <2>1, FS_Product
  <2> QED
    BY <2>2 DEF I
<1>6. Cardinality({x} \X (1..w[x])) = w[x]
  BY <1>2, <1>3, <1>4, <1>5
<1> QED
  BY <1>1, <1>5, <1>6

LEMMA UnitsAreFinite ==
  ASSUME NEW D, IsFiniteSet(D), NEW w \in [D -> Nat], NEW T \in SUBSET D
  PROVE  IsFiniteSet(Units(w, T)) /\ Cardinality(Units(w, T)) \in Nat
<1> DEFINE Each == {Units(w, {x}) : x \in T}
<1>1. IsFiniteSet(T)
  BY FS_Subset
<1>2. IsFiniteSet(Each)
  <2> DEFINE f == [x \in T |-> Units(w, {x})]
  <2>1. f \in Surjection(T, Each)
    BY DEF Surjection
  <2> HIDE DEF f, Each
  <2> QED
    BY <1>1, <2>1, FS_Surjection
<1>3. \A U \in Each : IsFiniteSet(U)
  <2>1. \A x \in T : x \in D
    OBVIOUS
  <2> QED
    BY <2>1, UnitsOfOne
<1>4. IsFiniteSet(UNION Each)
  <2> HIDE DEF Each
  <2> QED
    BY <1>2, <1>3, FS_UNION
<1>5. Units(w, T) = UNION Each
  BY DEF Units
<1> QED
  BY <1>4, <1>5, FS_CardinalityType

LEMMA UnitsAdd ==
  ASSUME NEW D, IsFiniteSet(D), NEW w \in [D -> Nat], NEW T \in SUBSET D, NEW x \in T
  PROVE  Cardinality(Units(w, T)) = w[x] + Cardinality(Units(w, T \ {x}))
<1>1. IsFiniteSet(Units(w, T \ {x})) /\ Cardinality(Units(w, T \ {x})) \in Nat
  BY UnitsAreFinite
<1>2. IsFiniteSet(Units(w, {x})) /\ Cardinality(Units(w, {x})) = w[x] /\ w[x] \in Nat
  BY UnitsOfOne
<1>3. Units(w, T) = Units(w, {x}) \union Units(w, T \ {x})
  BY DEF Units
<1>4. Units(w, {x}) \intersect Units(w, T \ {x}) = {}
  BY DEF Units
<1>5. Cardinality(Units(w, {x}) \union Units(w, T \ {x}))
        = w[x] + Cardinality(Units(w, T \ {x})) - Cardinality(Units(w, {x}) \intersect Units(w, T \ {x}))
  BY <1>1, <1>2, FS_Union
<1>6. Cardinality(Units(w, {x}) \intersect Units(w, T \ {x})) = 0
  BY <1>4, FS_EmptySet
<1> QED
  BY <1>1, <1>2, <1>3, <1>5, <1>6

LEMMA NoUnits == ASSUME NEW w PROVE Cardinality(Units(w, {})) = 0
<1>1. Units(w, {}) = {}
  BY DEF Units
<1> QED
  BY <1>1, FS_EmptySet

LEMMA SumExists ==
  ASSUME NEW D, IsFiniteSet(D), NEW w \in [D -> Nat]
  PROVE  \E it : SumOf(it, w, D)
<1> DEFINE count == [T \in SUBSET D |-> Cardinality(Units(w, T))]
<1>1. ASSUME NEW T \in SUBSET D
      PROVE  count[T] = IF T = {} THEN 0
                        ELSE w[CHOOSE x \in T : TRUE] + count[T \ {CHOOSE x \in T : TRUE}]
  <2>1. CASE T = {}
    BY <2>1, NoUnits
  <2>2. CASE T # {}
    <3>1. (CHOOSE x \in T : TRUE) \in T
      BY <2>2
    <3> DEFINE x == CHOOSE y \in T : TRUE
    <3>2. x \in T /\ T \ {x} \in SUBSET D
      BY <3>1
    <3> HIDE DEF x
    <3>3. Cardinality(Units(w, T)) = w[x] + Cardinality(Units(w, T \ {x}))
      BY <3>2, UnitsAdd
    <3>4. count[T] = w[x] + count[T \ {x}]
      BY <3>2, <3>3
    <3> QED
      BY <2>2, <3>4 DEF x
  <2> QED
    BY <2>1, <2>2
<1>2. SumOf(count, w, D)
  <2>1. count = [T \in SUBSET D |-> count[T]]
    OBVIOUS
  <2> HIDE DEF count
  <2> QED
    BY <1>1, <2>1 DEF SumOf
<1> QED
  BY <1>2

(* Whichever elements it takes first, the fold counts the units.           *)
LEMMA SumCounts ==
  ASSUME NEW D, IsFiniteSet(D), NEW w \in [D -> Nat], NEW it, SumOf(it, w, D),
         NEW T \in SUBSET D
  PROVE  it[T] = Cardinality(Units(w, T))
<1> DEFINE Wrong == {U \in SUBSET D : it[U] # Cardinality(Units(w, U))}
<1> SUFFICES ASSUME Wrong # {} PROVE FALSE
  OBVIOUS
<1>1. Wrong \subseteq FiniteSubsetsOf(D)
  BY FS_Subset DEF FiniteSubsetsOf
<1>2. PICK U \in Wrong : \A V \in Wrong : ~ (<<V, U>> \in StrictSubsetOrdering(D))
  <2> HIDE DEF Wrong
  <2> QED
    BY <1>1, WFMin, FS_StrictSubsetOrderingWellFounded, Zenon
<1>3. U \in SUBSET D /\ it[U] # Cardinality(Units(w, U))
  OBVIOUS
<1>4. U # {}
  BY <1>3, NoUnits DEF SumOf
<1>5. PICK x \in U : it[U] = w[x] + it[U \ {x}]
  BY <1>3, <1>4 DEF SumOf
<1>6. U \ {x} \notin Wrong
  <2>1. <<U \ {x}, U>> \in StrictSubsetOrdering(D)
    BY <1>3, <1>5 DEF StrictSubsetOrdering
  <2> HIDE DEF Wrong
  <2> QED
    BY <1>2, <2>1
<1>7. it[U \ {x}] = Cardinality(Units(w, U \ {x}))
  BY <1>3, <1>6
<1> QED
  BY <1>3, <1>5, <1>7, UnitsAdd

(* What each row of the spool weighs.                                      *)
Weight == [s \in DOMAIN rows |-> EnvelopeBytes[rows[s].event.payload]]

LEMMA BytesAreUnits ==
  ASSUME IsFiniteSet(DOMAIN rows), \A s \in DOMAIN rows : Weight[s] \in Nat
  PROVE  SpoolBytes = Cardinality(Units(Weight, DOMAIN rows))
<1> DEFINE D == DOMAIN rows
           Bytes(it) == it = [s \in SUBSET DOMAIN rows |->
             IF s = {} THEN 0
             ELSE EnvelopeBytes[rows[CHOOSE x \in s : TRUE].event.payload]
                  + it[s \ {CHOOSE x \in s : TRUE}]]
<1>1. Weight \in [D -> Nat]
  BY DEF Weight
<1>2. \A it : SumOf(it, Weight, D) <=> Bytes(it)
  BY DEF SumOf, Weight
<1>3. SpoolBytes = (CHOOSE it : Bytes(it))[D]
  BY DEF SpoolBytes, MapThenSumSet, MapThenFoldSet
<1> HIDE DEF Bytes
<1>4. PICK w : w = Weight
  OBVIOUS
<1>5. PICK S : S = D
  OBVIOUS
<1>6. PICK it : SumOf(it, w, S)
  BY <1>1, <1>4, <1>5, SumExists
<1>7. \E f : Bytes(f)
  BY <1>2, <1>4, <1>5, <1>6
<1>8. PICK f : f = (CHOOSE g : Bytes(g)) /\ Bytes(f)
  BY <1>7
<1>9. SumOf(f, w, S)
  BY <1>2, <1>4, <1>5, <1>8
<1>10. f[S] = Cardinality(Units(w, S))
  BY <1>1, <1>4, <1>5, <1>9, SumCounts
<1> QED
  BY <1>3, <1>4, <1>5, <1>8, <1>10

LEMMA UnitsAgree ==
  ASSUME NEW w, NEW v, NEW T, \A x \in T : w[x] = v[x]
  PROVE  Units(w, T) = Units(v, T)
<1>1. \A p : p \in T \X Nat => w[p[1]] = v[p[1]]
  OBVIOUS
<1> QED
  BY <1>1 DEF Units

LEMMA UnitsShrink ==
  ASSUME NEW D, IsFiniteSet(D), NEW w \in [D -> Nat], NEW T \in SUBSET D
  PROVE  Cardinality(Units(w, T)) <= Cardinality(Units(w, D))
<1>1. Units(w, T) \subseteq Units(w, D)
  BY DEF Units
<1>2. IsFiniteSet(Units(w, D))
  BY UnitsAreFinite
<1> QED
  BY <1>1, <1>2, FS_Subset

(* The rows are finitely many, and each has a weight.                      *)
Weighed ==
  /\ IsFiniteSet(DOMAIN rows) /\ Weight \in [DOMAIN rows -> Nat]
  /\ Cardinality(DOMAIN rows) \in Nat /\ SpoolBytes \in Nat
  /\ SpoolBytes = Cardinality(Units(Weight, DOMAIN rows))

LEMMA RowsWeigh == ChainInv => Weighed
<1> SUFFICES ASSUME ChainInv PROVE Weighed
  OBVIOUS
<1>1. DOMAIN rows = (prunedSequence + 1)..(nextSequence - 1)
      /\ prunedSequence \in Nat /\ nextSequence \in Nat
  BY DEF ChainInv, ChainIntact, TypeOK
<1>2. IsFiniteSet(DOMAIN rows)
  BY <1>1, FS_Interval
<1>3. Weight \in [DOMAIN rows -> Nat]
  BY LimitsAssumption DEF ChainInv, TypeOK, Row, Event, Weight
<1>4. SpoolBytes = Cardinality(Units(Weight, DOMAIN rows))
  BY <1>2, <1>3, BytesAreUnits
<1> QED
  BY <1>2, <1>3, <1>4, UnitsAreFinite, FS_CardinalityType DEF Weighed

LEMMA RowsStillWeigh == ChainInv' => Weighed'
BY RowsWeigh, PTL

(* One more row weighs what its payload does.                              *)
LEMMA AppendWeighs ==
  ASSUME ChainInv, ChainInv', NEW c \in Callers, CommitAppend(c)
  PROVE  SpoolBytes' = SpoolBytes + EnvelopeBytes[appending[c].payload]
         /\ Cardinality(DOMAIN rows)' = Cardinality(DOMAIN rows) + 1
<1>1. /\ DOMAIN rows' = DOMAIN rows \union {nextSequence}
      /\ \A s \in DOMAIN rows : rows'[s] = rows[s]
      /\ rows'[nextSequence].event = appending[c]
  <2>1. /\ DOMAIN rows' = DOMAIN rows \union {nextSequence}
        /\ \A s \in DOMAIN rows : rows'[s] = rows[s]
        /\ rows'[nextSequence] =
              [event |-> appending[c], previous |-> chainHead,
               hash |-> EventHash(chainHead, appending[c]), keyVersion |-> activeKey,
               state |-> "queued", batch |-> NoBatch]
    BY AppendEffect
  <2> QED
    BY <2>1
<1>2. nextSequence \notin DOMAIN rows
  BY DEF ChainInv, ChainIntact, TypeOK
<1>3. PICK D, w, v, n : /\ D = DOMAIN rows /\ n = nextSequence
                        /\ w = Weight /\ v = Weight'
  OBVIOUS
<1>4. /\ IsFiniteSet(D) /\ w \in [D -> Nat] /\ SpoolBytes = Cardinality(Units(w, D))
      /\ SpoolBytes \in Nat
  BY <1>3, RowsWeigh DEF Weighed
<1>5. /\ IsFiniteSet(D \union {n}) /\ v \in [D \union {n} -> Nat]
      /\ SpoolBytes' = Cardinality(Units(v, D \union {n}))
  BY <1>1, <1>3, RowsStillWeigh DEF Weighed
<1>6. v[n] = EnvelopeBytes[appending[c].payload] /\ \A x \in D : w[x] = v[x]
  BY <1>1, <1>3 DEF Weight
<1>7. n \notin D /\ (D \union {n}) \ {n} = D
  BY <1>2, <1>3
<1>8. Cardinality(Units(v, D \union {n})) = v[n] + Cardinality(Units(v, D))
  BY <1>5, <1>7, UnitsAdd
<1>9. Units(v, D) = Units(w, D)
  BY <1>6, UnitsAgree
<1>10. v[n] \in Nat
  BY <1>5
<1>11. Cardinality(D \union {n}) = Cardinality(D) + 1
  BY <1>4, <1>7, FS_AddElement
<1> QED
  BY <1>1, <1>3, <1>4, <1>5, <1>6, <1>8, <1>9, <1>10, <1>11

(* Rows that go take their weight with them.                               *)
LEMMA DeletionWeighs ==
  ASSUME ChainInv, ChainInv', DOMAIN rows' \subseteq DOMAIN rows,
         \A s \in DOMAIN rows' : rows'[s].event = rows[s].event
  PROVE  /\ SpoolBytes' <= SpoolBytes
         /\ Cardinality(DOMAIN rows)' <= Cardinality(DOMAIN rows)
<1>1. PICK D, T, w, v : /\ D = DOMAIN rows /\ T = DOMAIN rows'
                        /\ w = Weight /\ v = Weight'
  OBVIOUS
<1>2. IsFiniteSet(D) /\ w \in [D -> Nat] /\ SpoolBytes = Cardinality(Units(w, D))
  BY <1>1, RowsWeigh DEF Weighed
<1>3. SpoolBytes' = Cardinality(Units(v, T))
  BY <1>1, RowsStillWeigh DEF Weighed
<1>4. T \in SUBSET D /\ \A x \in T : w[x] = v[x]
  BY <1>1 DEF Weight
<1>5. Units(v, T) = Units(w, T)
  BY <1>4, UnitsAgree
<1> QED
  BY <1>1, <1>2, <1>3, <1>4, <1>5, UnitsShrink, FS_Subset

LEMMA NextWithinLimits == ChainInv /\ ChainInv' /\ WithinLimits /\ [Next]_vars => WithinLimits'
<1> SUFFICES ASSUME ChainInv, ChainInv', WithinLimits, [Next]_vars PROVE WithinLimits'
  OBVIOUS
<1>1. /\ SpoolBytes \in Nat /\ SpoolBytes' \in Nat /\ MaxBytes \in Nat /\ MaxPending \in Nat
      /\ Cardinality(DOMAIN rows) \in Nat /\ Cardinality(DOMAIN rows)' \in Nat
  BY RowsWeigh, RowsStillWeigh, LimitsAssumption DEF Weighed
<1>2. CASE DOMAIN rows' \subseteq DOMAIN rows /\ \A s \in DOMAIN rows' : rows'[s].event = rows[s].event
  BY <1>1, <1>2, DeletionWeighs DEF WithinLimits
<1>3. CASE Quiet
  BY <1>2, <1>3 DEF Quiet
<1>4. ASSUME NEW c \in Callers, CommitAppend(c) PROVE WithinLimits'
  <2>1. Fits(appending[c])
    BY <1>4 DEF CommitAppend
  <2> QED
    BY <1>1, <1>4, <2>1, AppendWeighs DEF WithinLimits, Fits
<1>5. ASSUME NEW first \in DOMAIN rows, NEW last \in DOMAIN rows, NEW now \in Times,
             CreateBatch(first, last, now)
      PROVE  WithinLimits'
  <2>1. \A s \in DOMAIN rows : rows[s] \in Row
    BY DEF ChainInv, TypeOK
  <2>2. rows' = [s \in DOMAIN rows |->
          IF s \in first..last
          THEN [rows[s] EXCEPT !.state = "batched",
                               !.batch = BatchId(first, last, rows[last].hash)]
          ELSE rows[s]]
    BY <1>5, CreateEffect
  <2>3. DOMAIN rows' = DOMAIN rows /\ \A s \in DOMAIN rows : rows'[s].event = rows[s].event
    BY <2>1, <2>2 DEF Row
  <2> QED
    BY <1>2, <2>3
<1>6. ASSUME NEW b \in DOMAIN batches, NEW receipt \in ReceiptIds, Acknowledge(b, receipt)
      PROVE  WithinLimits'
  <2>1. \A s \in DOMAIN rows' : s \in DOMAIN rows /\ rows'[s] = rows[s]
    BY <1>6, AcknowledgeEffect
  <2> QED
    BY <1>2, <2>1
<1> QED
  BY <1>3, <1>4, <1>5, <1>6, StepKinds DEF ChainInv

(* maximum_pending_events and maximum_encrypted_payload_bytes are never    *)
(* exceeded, whatever number of threads race for the last place: each has  *)
(* checked the tables it commits to.                                       *)
THEOREM SpecWithinLimits == Spec => []WithinLimits
<1>1. Init => WithinLimits
  <2> SUFFICES ASSUME Init PROVE WithinLimits
    OBVIOUS
  <2>1. ChainInv /\ DOMAIN rows = {}
    BY InitChain DEF Init
  <2>2. PICK D, w : D = DOMAIN rows /\ w = Weight
    OBVIOUS
  <2>3. Units(w, D) = {}
    BY <2>1, <2>2 DEF Units
  <2> QED
    <3>1. Cardinality(DOMAIN rows) = 0 /\ SpoolBytes = 0
      BY <2>1, <2>2, <2>3, RowsWeigh, FS_EmptySet DEF Weighed
    <3> QED
      BY <3>1, LimitsAssumption DEF WithinLimits
<1>2. ChainInv /\ ChainInv' /\ WithinLimits /\ [Next]_vars => WithinLimits'
  BY NextWithinLimits
<1> QED
  BY <1>1, <1>2, SpecChainInv, PTL DEF Spec
=============================================================================
