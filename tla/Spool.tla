------------------------------- MODULE Spool -------------------------------
(***************************************************************************)
(* The companion's encrypted spool (crates/companion/src/spool/mod.rs): a  *)
(* SQLite database that chains every captured event to the one before it,  *)
(* cuts the queued events into signed batches, keeps a batch until the     *)
(* server acknowledges it and only then deletes the events.                *)
(*                                                                         *)
(* Each table is a variable, each committed transaction one action, so a   *)
(* crash can fall between any two of them; Restart drops what the process  *)
(* held in memory.  Append is two actions because the code looks the       *)
(* receipt up, releases the connection and takes it again for the          *)
(* transaction.  Calls that only read (a replayed append, the reload of a  *)
(* pending batch, a duplicate or refused acknowledgement, stats) change no *)
(* table: they are steps in which nothing happens.                         *)
(*                                                                         *)
(* Abstractions.  A hash is the sequence of the events it covers: two      *)
(* hashes are equal exactly when every link below them is.  A batch id     *)
(* ("batch-first-last-head") is the record of what is formatted into it.   *)
(* An envelope is its length and its key version.  Disk corruption and     *)
(* tampering are not modelled; the wall clock may go backwards.            *)
(***************************************************************************)
EXTENDS Integers, Sequences, FiniteSets, FiniteSetsExt

CONSTANTS
  EventIds,        \* event ids that callers capture
  Payloads,        \* redacted payloads
  Callers,         \* threads that call append
  EstimateBytes,   \* Payloads -> plaintext length + 512
  EnvelopeBytes,   \* Payloads -> length of the sealed envelope
  ReceiptIds,      \* receipt ids the server issues
  Times,           \* values of the wall clock
  Delays,          \* retry delays
  MaxPending,      \* SpoolLimits.maximum_pending_events
  MaxBytes,        \* SpoolLimits.maximum_encrypted_payload_bytes
  MaxBatch,        \* SpoolLimits.maximum_batch_events
  MaxVersion,      \* bound: key versions ever created
  MaxAttempts,     \* bound: failed attempts of one batch
  NoEvent,         \* a caller that is not inside append
  NoBatch          \* event_spool.batch_id is NULL

Event == [id : EventIds, payload : Payloads]

ASSUME LimitsAssumption ==
  /\ MaxPending \in Nat \ {0}
  /\ MaxBytes \in Nat \ {0}
  /\ MaxBatch \in Nat \ {0}
  /\ MaxVersion \in Nat \ {0}
  /\ MaxAttempts \in Nat
  /\ EstimateBytes \in [Payloads -> Nat]
  /\ EnvelopeBytes \in [Payloads -> Nat]
  /\ Times \subseteq Nat
  /\ Delays \subseteq Nat

ASSUME NoEventAssumption == NoEvent \notin Event

Hash == Seq(Event)

BatchIds == [first : Nat, last : Nat, head : Hash]

ASSUME NoBatchAssumption == NoBatch \notin BatchIds

VARIABLES
  nextSequence,    \* device_state.next_local_sequence
  chainHead,       \* device_state.chain_head
  prunedSequence,  \* device_state.pruned_local_sequence
  prunedHead,      \* device_state.pruned_chain_head
  rows,            \* event_spool, by local_sequence
  receipts,        \* event_receipts, by event_id
  batches,         \* upload_batches, by batch_id
  batchEvents,     \* batch_events: pairs of a batch_id and an event_id
  anchors,         \* anchor_receipts, by receipt_id
  storedKeys,      \* active versions in the operating system's store
  heldKeys,        \* versions in CryptoState.encryption_keys
  activeKey,       \* CryptoState.active_encryption_version
  signingKey,      \* version of CryptoState.signing_key
  appending        \* the event each caller has between its two lookups

deviceState == <<nextSequence, chainHead, prunedSequence, prunedHead>>
tables      == <<deviceState, rows, receipts, batches, batchEvents, anchors>>
cryptoState == <<heldKeys, activeKey, signingKey>>
vars        == <<tables, storedKeys, cryptoState, appending>>

-----------------------------------------------------------------------------
GenesisHash == <<>>

(* event_hash: binds the sequence, the parent, the id and the payload.     *)
EventHashUnlinked(previous, e) == <<e>>

EventHash(previous, e) == Append(previous, e)

BatchId(first, last, head) == [first |-> first, last |-> last, head |-> head]

Versions == 1..MaxVersion

(* f with x mapped to v, x in its domain or not.                           *)
Put(f, x, v) == [y \in DOMAIN f \union {x} |-> IF y = x THEN v ELSE f[y]]

Pending == {b \in DOMAIN batches : batches[b].state = "pending"}

NothingPendingUnchecked == TRUE

NothingPending == Pending = {}

(* The batch an acknowledgement is for: ORDER BY first_sequence LIMIT 1    *)
(* over the pending batches.                                               *)
Oldest(b) == b \in Pending /\ \A c \in Pending : b.first <= c.first

Queued == {s \in DOMAIN rows : rows[s].state = "queued"}

SpoolBytes ==
  MapThenSumSet(LAMBDA s : EnvelopeBytes[rows[s].event.payload], DOMAIN rows)

FitsAlone(e) ==
  /\ Cardinality(DOMAIN rows) < MaxPending
  /\ EstimateBytes[e.payload] <= MaxBytes

(* enforce_capacity, then the exact check on the sealed envelope.          *)
Fits(e) ==
  /\ Cardinality(DOMAIN rows) < MaxPending
  /\ EstimateBytes[e.payload] <= MaxBytes
  /\ SpoolBytes + EnvelopeBytes[e.payload] <= MaxBytes

(* The lookup of the receipt, repeated inside the transaction.             *)
CapturedUnchecked(e) == FALSE

Captured(e) == e.id \in DOMAIN receipts

Idle == \A c \in Callers : appending[c] = NoEvent

-----------------------------------------------------------------------------
Init ==
  /\ nextSequence = 1 /\ chainHead = GenesisHash
  /\ prunedSequence = 0 /\ prunedHead = GenesisHash
  /\ rows = <<>>
  /\ receipts = <<>>
  /\ batches = <<>>
  /\ batchEvents = {}
  /\ anchors = <<>>
  /\ storedKeys = [encryption |-> 1, signing |-> 1]
  /\ heldKeys = {1} /\ activeKey = 1 /\ signingKey = 1
  /\ appending = [c \in Callers |-> NoEvent]

(* append up to the release of the connection: the id has no receipt yet.  *)
(* From here the caller holds the read lock on the crypto state.           *)
BeginAppend(c, e) ==
  /\ appending[c] = NoEvent
  /\ activeKey \in heldKeys
  /\ ~Captured(e)
  /\ appending' = [appending EXCEPT ![c] = e]
  /\ UNCHANGED <<tables, storedKeys, cryptoState>>

(* The transaction finds that another caller captured the id meanwhile.    *)
ReplayAppend(c) ==
  /\ appending[c] # NoEvent
  /\ Captured(appending[c])
  /\ appending' = [appending EXCEPT ![c] = NoEvent]
  /\ UNCHANGED <<tables, storedKeys, cryptoState>>

(* DiskPressure: the transaction rolls back and no sequence is consumed.   *)
RefuseAppend(c) ==
  /\ appending[c] # NoEvent
  /\ ~Captured(appending[c])
  /\ ~Fits(appending[c])
  /\ appending' = [appending EXCEPT ![c] = NoEvent]
  /\ UNCHANGED <<tables, storedKeys, cryptoState>>

CommitAppend(c) ==
  LET e    == appending[c]
      hash == EventHash(chainHead, e)
  IN /\ e # NoEvent
     /\ ~Captured(e)
     /\ Fits(e)
     /\ rows' = Put(rows, nextSequence,
          [event |-> e, previous |-> chainHead, hash |-> hash,
           keyVersion |-> activeKey, state |-> "queued", batch |-> NoBatch])
     /\ receipts' = Put(receipts, e.id,
          [sequence |-> nextSequence, hash |-> hash, acknowledged |-> FALSE])
     /\ nextSequence' = nextSequence + 1
     /\ chainHead' = hash
     /\ appending' = [appending EXCEPT ![c] = NoEvent]
     /\ UNCHANGED <<prunedSequence, prunedHead, batches, batchEvents, anchors,
                    storedKeys, cryptoState>>

SelectedUnlimited(first, last) ==
  /\ {first, last} \subseteq Queued
  /\ \A s \in Queued : first <= s

(* The queued rows first..last, in sequence order, that LIMIT MaxBatch     *)
(* takes: all of them, or exactly MaxBatch.                                *)
Selected(first, last) ==
  /\ {first, last} \subseteq Queued
  /\ \A s \in Queued : first <= s
  /\ LET taken == {s \in Queued : s <= last}
     IN \/ Cardinality(taken) = MaxBatch
        \/ taken = Queued /\ Cardinality(taken) <= MaxBatch

(* load_batch decrypts every row: a row under a key that is not held is    *)
(* MissingKey, which rolls the transaction of next_batch back.             *)
Loadable(taken) == \A s \in taken : rows[s].keyVersion \in heldKeys

(* next_batch when nothing is pending.                                     *)
CreateBatch(first, last, now) ==
  LET taken == {s \in Queued : s <= last}
      id    == BatchId(first, last, rows[last].hash)
  IN /\ NothingPending
     /\ Selected(first, last)
     /\ Loadable(taken)
     /\ batches' = Put(batches, id,
          [state |-> "pending", signer |-> signingKey,
           attempts |-> 0, nextAttempt |-> now])
     /\ batchEvents' = batchEvents \union {<<id, rows[s].event.id>> : s \in taken}
     /\ rows' = [s \in DOMAIN rows |->
          IF s \in taken
          THEN [rows[s] EXCEPT !.state = "batched", !.batch = id]
          ELSE rows[s]]
     /\ UNCHANGED <<deviceState, receipts, anchors, storedKeys, cryptoState,
                    appending>>

RecordRetrySigned(b, now, delay) ==
  /\ b \in Pending
  /\ batches[b].attempts < MaxAttempts
  /\ batches' = [batches EXCEPT ![b].attempts = @ + 1, ![b].signer = signingKey,
                                ![b].nextAttempt = now + delay]
  /\ UNCHANGED <<deviceState, rows, receipts, batchEvents, anchors, storedKeys,
                 cryptoState, appending>>

(* record_retry: only the cursor of a pending batch moves.                 *)
RecordRetry(b, now, delay) ==
  /\ b \in Pending
  /\ batches[b].attempts < MaxAttempts
  /\ batches' = [batches EXCEPT ![b].attempts = @ + 1,
                                ![b].nextAttempt = now + delay]
  /\ UNCHANGED <<deviceState, rows, receipts, batchEvents, anchors, storedKeys,
                 cryptoState, appending>>

InBatchAnything(b) == EventIds

(* The events an acknowledgement's UPDATE of the receipts names.           *)
InBatch(b) == {i \in EventIds : <<b, i>> \in batchEvents}

(* The rows its DELETE names.                                              *)
RowsOfSpool(b) == DOMAIN rows

RowsOf(b) == {s \in DOMAIN rows : rows[s].batch = b}

PruneSequenceOnly(b) == prunedSequence' = b.last /\ UNCHANGED prunedHead

(* The pruned prefix, and the hash the first row left is linked to.        *)
PruneTo(b) == prunedSequence' = b.last /\ prunedHead' = b.head

(* anchor_receipts takes a receipt id once and a batch once (its PRIMARY   *)
(* KEY and UNIQUE): the insert rolls the acknowledgement back otherwise.   *)
FreshReceipt(receipt, b) ==
  receipt \notin DOMAIN anchors /\ \A r \in DOMAIN anchors : anchors[r] # b

(* acknowledge, for a batch that is still pending.  Receipts are found     *)
(* through batch_events, rows through their batch_id.                      *)
Acknowledge(b, receipt) ==
  /\ Oldest(b)
  /\ FreshReceipt(receipt, b)
  /\ batches' = [batches EXCEPT ![b].state = "acknowledged"]
  /\ anchors' = Put(anchors, receipt, b)
  /\ receipts' = [i \in DOMAIN receipts |->
       IF i \in InBatch(b) THEN [receipts[i] EXCEPT !.acknowledged = TRUE]
                           ELSE receipts[i]]
  /\ batchEvents' = {p \in batchEvents : p[1] # b}
  /\ rows' = [s \in DOMAIN rows \ RowsOf(b) |-> rows[s]]
  /\ PruneTo(b)
  /\ UNCHANGED <<nextSequence, chainHead, storedKeys, cryptoState, appending>>

-----------------------------------------------------------------------------
(* DeviceKeyManager.rotate: a new version becomes the stored active one.   *)
RotateStoredKey(purpose) ==
  /\ storedKeys[purpose] < MaxVersion
  /\ storedKeys' = [storedKeys EXCEPT ![purpose] = @ + 1]
  /\ UNCHANGED <<tables, cryptoState, appending>>

(* add_encryption_key with any version the store can load.  The write lock *)
(* waits for the callers inside append.                                    *)
AddEncryptionKey(version, makeActive) ==
  /\ Idle
  /\ version <= storedKeys.encryption
  /\ heldKeys' = heldKeys \union {version}
  /\ activeKey' = IF makeActive THEN version ELSE activeKey
  /\ UNCHANGED <<tables, storedKeys, signingKey, appending>>

RotateSigningKey ==
  /\ Idle
  /\ signingKey' = storedKeys.signing
  /\ UNCHANGED <<tables, storedKeys, heldKeys, activeKey, appending>>

RestartWithOldKeys ==
  /\ activeKey' = storedKeys.encryption
  /\ signingKey' = storedKeys.signing
  /\ appending' = [c \in Callers |-> NoEvent]
  /\ UNCHANGED <<tables, storedKeys, heldKeys>>

(* A crash or an exit, and open with the stored active keys: committed     *)
(* rows survive (WAL, synchronous = FULL), the crypto state holds one      *)
(* encryption key again and every caller is gone.                          *)
Restart ==
  /\ heldKeys' = {storedKeys.encryption}
  /\ activeKey' = storedKeys.encryption
  /\ signingKey' = storedKeys.signing
  /\ appending' = [c \in Callers |-> NoEvent]
  /\ UNCHANGED <<tables, storedKeys>>

AppendNext ==
  \E c \in Callers :
    \/ \E e \in Event : BeginAppend(c, e)
    \/ ReplayAppend(c)
    \/ RefuseAppend(c)
    \/ CommitAppend(c)

UploadNext ==
  \/ \E first, last \in DOMAIN rows, now \in Times :
       CreateBatch(first, last, now)
  \/ \E b \in DOMAIN batches :
       \/ \E now \in Times, delay \in Delays : RecordRetry(b, now, delay)
       \/ \E receipt \in ReceiptIds : Acknowledge(b, receipt)

KeyNext ==
  \/ \E purpose \in {"encryption", "signing"} : RotateStoredKey(purpose)
  \/ \E version \in Versions, makeActive \in BOOLEAN :
       AddEncryptionKey(version, makeActive)
  \/ RotateSigningKey

Next == AppendNext \/ UploadNext \/ KeyNext \/ Restart

Spec == Init /\ [][Next]_vars

-----------------------------------------------------------------------------
Row == [event : Event, previous : Hash, hash : Hash, keyVersion : Versions,
        state : {"queued", "batched"}, batch : BatchIds \union {NoBatch}]

Receipt == [sequence : Nat, hash : Hash, acknowledged : BOOLEAN]

Batch == [state : {"pending", "acknowledged"}, signer : Versions,
          attempts : Nat, nextAttempt : Nat]

(* Every table holds rows of its schema's shape, and the process holds the *)
(* key it seals with.                                                      *)
TypeOK ==
  /\ nextSequence \in Nat \ {0} /\ chainHead \in Hash
  /\ prunedSequence \in Nat /\ prunedHead \in Hash
  /\ DOMAIN rows \subseteq Nat /\ \A s \in DOMAIN rows : rows[s] \in Row
  /\ DOMAIN receipts \subseteq EventIds
  /\ \A i \in DOMAIN receipts : receipts[i] \in Receipt
  /\ DOMAIN batches \subseteq BatchIds
  /\ \A b \in DOMAIN batches : batches[b] \in Batch
  /\ batchEvents \subseteq BatchIds \X EventIds
  /\ DOMAIN anchors \subseteq ReceiptIds
  /\ \A r \in DOMAIN anchors : anchors[r] \in DOMAIN batches
  /\ storedKeys \in [encryption : Versions, signing : Versions]
  /\ heldKeys \subseteq Versions /\ activeKey \in heldKeys
  /\ signingKey \in Versions
  /\ appending \in [Callers -> Event \union {NoEvent}]

(* The sequences, links and head that verify_integrity compares agree in   *)
(* every state a crash can leave: the rows are the sequences after the     *)
(* pruned one up to the last, each linked to the one before it, the first  *)
(* to the pruned head and the last to the chain head.  The walk decrypts   *)
(* each row as well, which is no part of this: after RotateStoredKey and   *)
(* Restart the process holds the new encryption key alone, and the walk    *)
(* stops with MissingKey at a row under an older one until                 *)
(* AddEncryptionKey brings that back.                                      *)
ChainIntact ==
  /\ DOMAIN rows = (prunedSequence + 1)..(nextSequence - 1)
  /\ \A s \in DOMAIN rows :
       /\ rows[s].hash = EventHash(rows[s].previous, rows[s].event)
       /\ rows[s].previous = IF s = prunedSequence + 1 THEN prunedHead
                                                        ELSE rows[s - 1].hash
  /\ chainHead = IF nextSequence = prunedSequence + 1
                 THEN prunedHead ELSE rows[nextSequence - 1].hash

(* The batches ever cut tile the sequences without gap or overlap: the     *)
(* acknowledged ones exactly the pruned prefix, and at most one is pending *)
(* (next_batch cuts none while one is), starting where the prefix ends.  A *)
(* batch is acknowledged exactly when one anchor receipt names it.         *)
BatchesTileLog ==
  /\ \A b \in DOMAIN batches : b.first <= b.last /\ b.last < nextSequence
  /\ \A b, c \in DOMAIN batches : b = c \/ b.last < c.first \/ c.last < b.first
  /\ \A s \in 1..prunedSequence :
       \E b \in DOMAIN batches \ Pending : b.first <= s /\ s <= b.last
  /\ \A b \in DOMAIN batches \ Pending : 0 < b.first /\ b.last <= prunedSequence
  /\ \A b, c \in Pending : b = c
  /\ \A b \in Pending : b.first = prunedSequence + 1
  /\ \A b \in DOMAIN batches : (\E r \in DOMAIN anchors : anchors[r] = b) <=> b \notin Pending
  /\ \A r, q \in DOMAIN anchors : anchors[r] = anchors[q] => r = q

(* What load_batch returns for the pending batch is what the server        *)
(* accepts after the batches acknowledged so far: its rows are exactly     *)
(* first..last, no more than MaxBatch of them, its signed head is the hash *)
(* of the last, and batch_events names the same events as the rows do, so  *)
(* an acknowledgement marks the receipts of the rows it deletes.           *)
UploadVerifies ==
  \A b \in Pending :
    LET mine == RowsOf(b)
    IN /\ mine = b.first..b.last
       /\ Cardinality(mine) <= MaxBatch
       /\ rows[b.last].hash = b.head
       /\ \A s \in mine : rows[s].state = "batched"
       /\ InBatch(b) = {rows[s].event.id : s \in mine}

(* It is also the next of a stream that holds what was acknowledged, which *)
(* is what the ingestion asks of an upload (verifyCompanionBatch and       *)
(* assertContinuesStream): it links to the pruned head, and its own head   *)
(* covers that and its own events, one each.                               *)
UploadContinues ==
  \A b \in Pending :
    /\ rows[b.first].previous = prunedHead
    /\ Len(prunedHead) = b.first - 1 /\ Len(b.head) = b.last
    /\ SubSeq(b.head, 1, b.first - 1) = prunedHead

(* The batches are cut right, and the pending one can be uploaded.         *)
BatchesUpload == BatchesTileLog /\ UploadVerifies /\ UploadContinues

(* No capture is lost or counted twice: the receipts number the events     *)
(* 1..next-1, one each, and an event's payload is still in the spool       *)
(* exactly as long as its receipt is not acknowledged.                     *)
ReceiptsExact ==
  /\ \A s \in 1..(nextSequence - 1) :
       \E i \in DOMAIN receipts : receipts[i].sequence = s
  /\ \A i \in DOMAIN receipts : receipts[i].sequence \in 1..(nextSequence - 1)
  /\ \A i, j \in DOMAIN receipts :
       receipts[i].sequence = receipts[j].sequence => i = j
  /\ \A i \in DOMAIN receipts :
       IF receipts[i].acknowledged
       THEN receipts[i].sequence <= prunedSequence
       ELSE /\ receipts[i].sequence \in DOMAIN rows
            /\ rows[receipts[i].sequence].event.id = i
            /\ rows[receipts[i].sequence].hash = receipts[i].hash

(* The limits hold whatever callers race for the last slot.                *)
WithinLimits ==
  Cardinality(DOMAIN rows) <= MaxPending /\ SpoolBytes <= MaxBytes

(* A capture, once durable, is never forgotten or renumbered: append of    *)
(* the same id returns the same sequence and hash for ever, also after the *)
(* payload is gone, and an acknowledgement is never taken back.            *)
CapturesStable ==
  \A i \in DOMAIN receipts :
    /\ i \in DOMAIN receipts'
    /\ receipts'[i].sequence = receipts[i].sequence
    /\ receipts'[i].hash = receipts[i].hash
    /\ receipts[i].acknowledged => receipts'[i].acknowledged

(* Entries are deleted only by the acknowledgement of their own batch      *)
(* (requirement 6.3), and whatever stays keeps its place in the chain.     *)
DeletedOnlyWhenAcknowledged ==
  \A s \in DOMAIN rows :
    IF s \in DOMAIN rows'
    THEN /\ rows'[s].event = rows[s].event
         /\ rows'[s].hash = rows[s].hash
         /\ rows[s].batch # NoBatch => rows'[s].batch = rows[s].batch
    ELSE /\ rows[s].batch \in Pending
         /\ batches'[rows[s].batch].state = "acknowledged"

(* A retry sends the batch that was signed first: a pending batch keeps    *)
(* its signer and events, attempts only grow, and an acknowledged one is   *)
(* never touched again, whatever restarts and rotations come between.      *)
BatchesImmutable ==
  \A b \in DOMAIN batches :
    /\ b \in DOMAIN batches'
    /\ batches'[b].signer = batches[b].signer
    /\ batches'[b].attempts >= batches[b].attempts
    /\ b \notin Pending => batches'[b] = batches[b]
    /\ b \in Pending' => InBatch(b)' = InBatch(b)

(* What is written stays what it is, whatever races, restarts and          *)
(* rotations come between: the three of them, of every step.               *)
HistoryIsKept ==
  [][CapturesStable /\ DeletedOnlyWhenAcknowledged /\ BatchesImmutable]_vars

(* The spool as an append-only log: the head of the chain is its length,   *)
(* what was pruned its delivered prefix.                                   *)
Log == INSTANCE EventLog WITH log <- chainHead, delivered <- prunedSequence

(* The spool implements the append-only log with a delivered prefix: no    *)
(* append, acknowledgement or restart of spool/mod.rs does anything else.  *)
SpoolIsEventLog == Log!LogSpec
=============================================================================
