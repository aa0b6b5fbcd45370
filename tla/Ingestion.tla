----------------------------- MODULE Ingestion -----------------------------
(***************************************************************************)
(* The worker's ingestion of event batches (apps/worker/src/domain/        *)
(* ingestion/service.ts) over its three stores, and the queue consumer     *)
(* that anchors what was ingested (queues/event-consumer.ts).              *)
(*                                                                         *)
(* A request is one invocation of ingestEventBatch, or of the recovery of  *)
(* what was stored and not enqueued.  Between two awaits any other         *)
(* invocation may run, so every read or write of a store is an action; an  *)
(* invocation may be abandoned between any two of them, which stands for a *)
(* crash, a lost reply of a store (whose effect may or may not have taken  *)
(* place) and a 503.  The object store, the database and the queue are     *)
(* external: what the code relies on is a put that happens only if the key *)
(* is free, serializable transactions on one row, and delivery at least    *)
(* once.                                                                   *)
(*                                                                         *)
(* Abstractions.  One device and one open stream of it.  A hash is the     *)
(* sequence of the events it covers, as in Spool.  A batch record stands   *)
(* for its own logical digest, which covers all its fields.  A ciphertext  *)
(* and the object version it is stored under are the number of the call of *)
(* protect that made it: each draws a new random nonce.  Numbers that no   *)
(* store and no invocation holds any more are used again.                  *)
(***************************************************************************)
EXTENDS Integers, Sequences, FiniteSets, SequencesExt

CONSTANTS
  Events,        \* what a batch may carry
  Batches,       \* uploads of the device: what parses and verifies
  Requests,      \* concurrent invocations of ingestEventBatch
  MaxKey,        \* bound: versions of the device's signing key
  MaxSeals,      \* bound: ciphertexts that exist at a time
  MaxFailures,   \* bound: invocations abandoned
  MaxRetries     \* max_retries of the queue's consumer

(* verifyCompanionBatch: every event links to the one before it, the first *)
(* to the previous hash the batch claims and the last is the signed head.  *)
Verified(b) ==
  /\ b.previous \in Seq(Events) /\ b.head \in Seq(Events)
  /\ b.first \in Nat \ {0}
  /\ b.last \in Nat /\ b.first <= b.last
  /\ IsPrefix(b.previous, b.head)
  /\ Len(b.head) = Len(b.previous) + (b.last - b.first + 1)

ASSUME IngestionAssumption ==
  /\ \A b \in Batches : Verified(b) /\ b.signer \in 1..MaxKey
  /\ MaxKey \in Nat \ {0}
  /\ IsFiniteSet(Batches) /\ IsFiniteSet(Requests)
  /\ MaxSeals \in Nat
  /\ MaxSeals >= Cardinality(Batches) + Cardinality(Requests)
  /\ MaxFailures \in Nat
  /\ MaxRetries \in Nat

VARIABLES
  deviceKey,     \* device credential: the signing key version registered
  stream,        \* event_streams row: last_monotonic_sequence, chain_head
  stored,        \* ingest_batches, by batch_id
  objects,       \* the bucket, by object key; the key is the batch
  requests,      \* what each invocation has read so far
  failures,      \* invocations abandoned so far
  queue,         \* messages of the ingest queue, with their attempts
  deadLetters,   \* pointers in the dead letter queue
  anchors,       \* event_anchors, by anchor_sequence
  receipts       \* batches a signed receipt was ever returned for

stores == <<stream, stored, objects>>
consumed == <<queue, deadLetters, anchors>>
vars == <<deviceKey, stores, requests, failures, consumed, receipts>>

-----------------------------------------------------------------------------
Id(b) == [first |-> b.first, last |-> b.last, head |-> b.head]

Idle == [step |-> "idle"]

Pointer(row) == [batch |-> row.batch, version |-> row.version]

Pointers == [batch : Batches, version : 1..MaxSeals]

Messages == [pointer : Pointers, attempts : 0..MaxRetries]

Message(pointer) == [pointer |-> pointer, attempts |-> 0]

(* f with x mapped to v.                                                   *)
Put(f, x, v) == [y \in DOMAIN f \union {x} |-> IF y = x THEN v ELSE f[y]]

Become(r, next) == requests' = [requests EXCEPT ![r] = next]

ContinuesUnlinked(b, state) == b.first = state.sequence + 1

ContinuesAhead(b, state) == b.first > state.sequence

(* assertContinuesStream; an empty stream stands for sequence 0 and the    *)
(* genesis hash.                                                           *)
Continues(b, state) ==
  b.first = state.sequence + 1 /\ b.previous = state.head

(* The ciphertexts that a store or an invocation holds.                    *)
Seals ==
  {objects[b] : b \in DOMAIN objects} \union {stored[i].version : i \in DOMAIN stored}
    \union {requests[r].seal : r \in {q \in Requests : requests[q].step \in {"put", "commit"}}}

(* A ciphertext that differs from every one of them.                       *)
NewSeal == CHOOSE seal \in 1..MaxSeals : seal \notin Seals

-----------------------------------------------------------------------------
Init ==
  /\ deviceKey = 1
  /\ stream = [sequence |-> 0, head |-> <<>>]
  /\ stored = <<>>
  /\ objects = <<>>
  /\ requests = [r \in Requests |-> Idle]
  /\ failures = 0
  /\ queue = {}
  /\ deadLetters = {}
  /\ anchors = <<>>
  /\ receipts = {}

(* authenticate: the credential is that of the device, with the key the    *)
(* batch is signed under.                                                  *)
Authenticated(b) == b.signer = deviceKey

(* findExisting: a row of this batch id.                                   *)
Exists(b) == Id(b) \in DOMAIN stored

(* classifyExistingBatch: a duplicate, and not a conflict.                 *)
Duplicate(b) == Exists(b) /\ stored[Id(b)].batch = b

(* A rejected request (401, 403, batch_conflict) changes nothing.          *)
Receive(r, b) ==
  /\ requests[r] = Idle
  /\ Authenticated(b)
  /\ \/ /\ Duplicate(b)
        /\ Become(r, [step |-> "deliver", row |-> stored[Id(b)]])
     \/ /\ ~Exists(b)
        /\ Become(r, [step |-> "load", batch |-> b])
  /\ UNCHANGED <<deviceKey, stores, failures, consumed, receipts>>

(* loadStreamState, then protect: what is stored is sealed under a fresh   *)
(* nonce, the state read is kept for the commit.                           *)
Load(r) ==
  /\ requests[r].step = "load"
  /\ Become(r, IF Continues(requests[r].batch, stream)
               THEN [step |-> "put", batch |-> requests[r].batch,
                     expected |-> stream, seal |-> NewSeal]
               ELSE Idle)
  /\ UNCHANGED <<deviceKey, stores, failures, consumed, receipts>>

PutOverwriting(b, seal) == objects' = Put(objects, b, seal)

(* The bucket's put with onlyIf: an object is never replaced.              *)
PutIfAbsent(b, seal) ==
  objects' = IF b \in DOMAIN objects THEN objects ELSE Put(objects, b, seal)

(* putImmutable.  The head, the conditional put and the second head have   *)
(* the outcome of one test-and-set.  An object that is there already was   *)
(* sealed by another call, so its ciphertext digest differs: the request   *)
(* ends in object_store_conflict.                                          *)
PutObject(r) ==
  LET q == requests[r]
  IN /\ q.step = "put"
     /\ PutIfAbsent(q.batch, q.seal)
     /\ Become(r, IF objects'[q.batch] = q.seal
                  THEN [q EXCEPT !.step = "commit"] ELSE Idle)
     /\ UNCHANGED <<deviceKey, stream, stored, failures, consumed,
                    receipts>>

MatchesUnchecked(q) == TRUE

(* streamMatchesExpected, and the compare-and-swap of the stream's row.    *)
Matches(q) == stream = q.expected /\ q.batch.first = stream.sequence + 1

(* commitStoredBatch: one transaction that locks the stream's row; created,*)
(* or a duplicate.                                                         *)
Commit(r) ==
  LET q   == requests[r]
      row == [batch |-> q.batch, version |-> q.seal,
              state |-> "stored_not_enqueued"]
  IN /\ q.step = "commit"
     /\ \/ /\ Duplicate(q.batch)
           /\ Become(r, [step |-> "deliver", row |-> stored[Id(q.batch)]])
           /\ UNCHANGED <<stream, stored>>
        \/ /\ ~Exists(q.batch)
           /\ Matches(q)
           /\ stored' = Put(stored, Id(q.batch), row)
           /\ stream' = [sequence |-> q.batch.last, head |-> q.batch.head]
           /\ Become(r, [step |-> "deliver", row |-> row])
     /\ UNCHANGED <<deviceKey, objects, failures, consumed, receipts>>

(* The same, rolled back and answered 409: out of order, or a batch of     *)
(* another digest under this id.                                           *)
RollBack(r) ==
  LET q == requests[r]
  IN /\ q.step = "commit"
     /\ ~Duplicate(q.batch)
     /\ Exists(q.batch) \/ ~Matches(q)
     /\ Become(r, Idle)
     /\ UNCHANGED <<deviceKey, stores, failures, consumed, receipts>>

(* deliverAndReceipt publishes unless the row it read was enqueued.        *)
Publish(r) ==
  /\ requests[r].step = "deliver"
  /\ requests[r].row.state # "enqueued"
  /\ queue' = queue \union {Message(Pointer(requests[r].row))}
  /\ Become(r, [requests[r] EXCEPT !.step = "mark"])
  /\ UNCHANGED <<deviceKey, stores, failures, deadLetters, anchors,
                 receipts>>

SetEnqueued(b) ==
  stored' = [stored EXCEPT ![Id(b)].state = "enqueued"]

(* markEnqueued; a failure of it is swallowed and the receipt still goes.  *)
MarkEnqueued(r) ==
  /\ requests[r].step = "mark"
  /\ SetEnqueued(requests[r].row.batch) \/ UNCHANGED stored
  /\ Become(r, [requests[r] EXCEPT !.step = "respond"])
  /\ UNCHANGED <<deviceKey, stream, objects, failures, consumed,
                 receipts>>

RespondUnpublished(r) ==
  /\ requests[r].step \in {"deliver", "respond"}
  /\ receipts' = receipts \union {requests[r].row.batch}
  /\ Become(r, Idle)
  /\ UNCHANGED <<deviceKey, stores, failures, consumed>>

(* The signed receipt; its id is derived from the digest.                  *)
Respond(r) ==
  /\ \/ requests[r].step = "respond"
     \/ requests[r].step = "deliver" /\ requests[r].row.state = "enqueued"
  /\ receipts' = receipts \union {requests[r].row.batch}
  /\ Become(r, Idle)
  /\ UNCHANGED <<deviceKey, stores, failures, consumed>>

(* recoverStoredNotEnqueued, of a record: it is republished and marked, and*)
(* nobody gets a receipt.  Every row is stored_not_enqueued at first, and  *)
(* the list with it may have been read then.  When it runs is up to the    *)
(* caller.                                                                 *)
Republish(r) ==
  /\ requests[r] = Idle
  /\ \E i \in DOMAIN stored :
       /\ queue' = queue \union {Message(Pointer(stored[i]))}
       /\ Become(r, [step |-> "recovered",
                     row |-> [stored[i] EXCEPT !.state = "stored_not_enqueued"]])
  /\ UNCHANGED <<deviceKey, stores, failures, deadLetters, anchors, receipts>>

MarkRecovered(r) ==
  /\ requests[r].step = "recovered"
  /\ SetEnqueued(requests[r].row.batch)
  /\ Become(r, Idle)
  /\ UNCHANGED <<deviceKey, stream, objects, failures, consumed, receipts>>

(* A crash, or a store's failure: the invocation ends where it is.         *)
Abandon(r) ==
  /\ requests[r] # Idle
  /\ failures < MaxFailures
  /\ failures' = failures + 1
  /\ Become(r, Idle)
  /\ UNCHANGED <<deviceKey, stores, consumed, receipts>>

-----------------------------------------------------------------------------
(* readVerifiedPlaintext finds the version the pointer names.              *)
Readable(p) == p.batch \in DOMAIN objects /\ objects[p.batch] = p.version

Anchor(b) == [head |-> b.head, signer |-> b.signer]

(* persistEventBatch accepts the envelope: the row is there with the same  *)
(* digest, and no other anchor is at its last sequence.                    *)
Persistable(p) ==
  /\ Id(p.batch) \in DOMAIN stored
  /\ stored[Id(p.batch)].batch = p.batch
  /\ p.batch.last \in DOMAIN anchors
       => anchors[p.batch.last] = Anchor(p.batch)

(* The consumer's transaction: insert the anchor once, mark the batch.     *)
PersistEventBatch(p) ==
  /\ Readable(p) /\ Persistable(p)
  /\ anchors' = Put(anchors, p.batch.last, Anchor(p.batch))
  /\ SetEnqueued(p.batch)

(* consume and ack.                                                        *)
Consume(m) ==
  /\ PersistEventBatch(m.pointer)
  /\ queue' = queue \ {m}
  /\ UNCHANGED <<deviceKey, stream, objects, requests, failures,
                 deadLetters, receipts>>

RedeliverOnceMore(m) ==
  /\ queue' = (queue \ {m}) \union {[m EXCEPT !.attempts = @ + 1]}
  /\ UNCHANGED deadLetters

(* The queue delivers m again after retry, or to the dead letter queue     *)
(* once its attempts are used up.                                          *)
Redeliver(m) ==
  IF m.attempts < MaxRetries
  THEN /\ queue' = (queue \ {m}) \union {[m EXCEPT !.attempts = @ + 1]}
       /\ UNCHANGED deadLetters
  ELSE /\ queue' = queue \ {m}
       /\ deadLetters' = deadLetters \union {m.pointer}

(* Any failure is retried, also the ones classified not retryable; the     *)
(* transaction may have committed before the acknowledgement was lost.     *)
ConsumeFails(m) ==
  /\ Redeliver(m)
  /\ PersistEventBatch(m.pointer) \/ UNCHANGED <<anchors, stored>>
  /\ UNCHANGED <<deviceKey, stream, objects, requests, failures,
                 receipts>>

-----------------------------------------------------------------------------
(* Registration of the device's next signing key; outside this service.    *)
RegisterKey ==
  /\ deviceKey < MaxKey
  /\ deviceKey' = deviceKey + 1
  /\ UNCHANGED <<stores, requests, failures, consumed, receipts>>

Serve(r) ==
  \/ Load(r) \/ PutObject(r) \/ Commit(r) \/ RollBack(r) \/ Publish(r)
  \/ MarkEnqueued(r) \/ Respond(r) \/ MarkRecovered(r)

Next ==
  \/ \E r \in Requests, b \in Batches : Receive(r, b)
  \/ \E r \in Requests : Republish(r) \/ Serve(r) \/ Abandon(r)
  \/ \E m \in queue : Consume(m) \/ ConsumeFails(m)
  \/ RegisterKey

Spec == Init /\ [][Next]_vars

(* The runtime runs every invocation to its next await, the queue keeps    *)
(* delivering, and the device keeps uploading what was not acknowledged.   *)
Fairness ==
  /\ \A r \in Requests : WF_vars(Serve(r))
  /\ \A b \in Batches : SF_vars(\E r \in Requests : Receive(r, b))
  /\ \A m \in Messages : WF_vars(m \in queue /\ (Consume(m) \/ ConsumeFails(m)))

FairSpec == Spec /\ Fairness

-----------------------------------------------------------------------------
StreamStates == [sequence : Nat, head : {<<>>} \union {b.head : b \in Batches}]

Rows == [batch : Batches, version : 1..MaxSeals,
         state : {"stored_not_enqueued", "enqueued"}]

RequestStates ==
  {Idle}
    \union [step : {"load"}, batch : Batches]
    \union [step : {"put", "commit"}, batch : Batches,
            expected : StreamStates, seal : 1..MaxSeals]
    \union [step : {"deliver", "mark", "respond", "recovered"}, row : Rows]

(* The stores' rows have the shape of their schema.                        *)
TypeOK ==
  /\ deviceKey \in 1..MaxKey
  /\ stream \in StreamStates
  /\ DOMAIN stored \subseteq {Id(b) : b \in Batches}
  /\ \A i \in DOMAIN stored : stored[i] \in Rows /\ Id(stored[i].batch) = i
  /\ DOMAIN objects \subseteq Batches
  /\ \A b \in DOMAIN objects : objects[b] \in 1..MaxSeals
  /\ requests \in [Requests -> RequestStates]
  /\ failures \in 0..MaxFailures
  /\ queue \subseteq Messages
  /\ deadLetters \subseteq Pointers
  /\ DOMAIN anchors \subseteq Nat
  /\ receipts \subseteq Batches

Accepted == {stored[i].batch : i \in DOMAIN stored}

Committed(b) == Id(b) \in DOMAIN stored /\ stored[Id(b)].batch = b

Published(b) ==
  \/ \E m \in queue : m.pointer.batch = b
  \/ \E p \in deadLetters : p.batch = b

Anchored(b) == b.last \in DOMAIN anchors /\ anchors[b.last] = Anchor(b)

Processed(b) == Anchored(b) \/ \E p \in deadLetters : p.batch = b

(* Whatever uploads race, the batches committed form one chain: they tile  *)
(* the sequences up to the stream's, each links to the head of the one     *)
(* before it, and the stream's head is that of the last.  Two batches that *)
(* start at the same event are never both accepted.                        *)
OneChain ==
  /\ \A n \in 1..stream.sequence :
       \E b \in Accepted : b.first <= n /\ n <= b.last
  /\ \A b, c \in Accepted : b = c \/ b.last < c.first \/ c.last < b.first
  /\ \A b \in Accepted :
       /\ b.last <= stream.sequence
       /\ IsPrefix(b.head, stream.head)
       /\ IF b.first = 1 THEN b.previous = <<>>
                         ELSE \E c \in Accepted : c.last = b.first - 1
                                                  /\ c.head = b.previous
  /\ Len(stream.head) = stream.sequence

(* A receipt lets the companion delete its only copy, so by then the batch *)
(* is committed, its object is stored, and its pointer is on its way to    *)
(* the consumer, held as a dead letter, or consumed.  So it is when the    *)
(* state column says enqueued, which lets a later upload skip the queue.   *)
ReceiptsHonoured ==
  /\ \A b \in receipts : Committed(b) /\ Readable(Pointer(stored[Id(b)]))
  /\ \A b \in receipts \union
             {stored[i].batch : i \in {k \in DOMAIN stored : stored[k].state = "enqueued"}} :
       Published(b) \/ Anchored(b)

(* "Do not enqueue a dangling object pointer" (design.md): each pointer    *)
(* delivered, however late, is one the consumer can read and persist.      *)
PointersResolve ==
  \A p \in {m.pointer : m \in queue} \union deadLetters :
    Readable(p) /\ Persistable(p)

(* Objects nobody will commit any more under keys that the stream has still *)
(* to come to: every upload of them ends in object_store_conflict.         *)
Blocked ==
  {b \in DOMAIN objects \ Accepted :
     /\ b.first > stream.sequence
     /\ \A r \in Requests : requests[r].step = "commit" => requests[r].batch # b}

(* What was answered, published or recorded as published is really there;  *)
(* and what is there without a record of it keeps no upload out, but for   *)
(* one batch for every invocation that was lost: a race leaves only what   *)
(* the stream has passed.                                                  *)
NothingDangles ==
  ReceiptsHonoured /\ PointersResolve /\ Cardinality(Blocked) <= failures

(* The stream only grows at its end, and a committed batch keeps its       *)
(* object and never goes back to stored_not_enqueued.                      *)
AcceptedStaysAccepted ==
  [][/\ IsPrefix(stream.head, stream'.head)
     /\ \A i \in DOMAIN stored :
          /\ i \in DOMAIN stored'
          /\ stored'[i].batch = stored[i].batch
          /\ stored'[i].version = stored[i].version
          /\ stored[i].state = "enqueued" => stored'[i].state = "enqueued"
     /\ \A n \in DOMAIN anchors : n \in DOMAIN anchors' /\ anchors'[n] = anchors[n]
    ]_vars

(* The service as one stream: what is committed is its log, and a batch is *)
(* handed over when a pointer to it is published, until it is anchored.    *)
Stream == INSTANCE EvidenceStream WITH
  log          <- stream.head,
  accepted     <- Accepted,
  handedOver   <- {b \in Accepted : Published(b) \/ Anchored(b)},
  anchored     <- {b \in Accepted : Anchored(b)},
  acknowledged <- receipts

(* Every upload takes effect at once or not at all, whatever awaits of     *)
(* ingestEventBatch and of the consumer interleave, fail and are repeated: *)
(* no step of theirs does anything else to the evidence.                   *)
ServiceIsStream == Stream!StreamSpec

(* Both of it: what the service adds, and what it keeps.                   *)
EvidenceIsKept == ServiceIsStream /\ AcceptedStaysAccepted

(* A batch once committed reaches the consumer, or is held as a dead       *)
(* letter, as long as the device repeats the upload it has no receipt for. *)
CommittedIsProcessed == \A b \in Batches : Committed(b) ~> Processed(b)

(* "Neon is unavailable: retry idempotently" (design.md): an upload that   *)
(* is the next of the stream and is repeated succeeds in the end.          *)
RetriesSucceed ==
  \A b \in Batches : Continues(b, stream) ~> Committed(b)
=============================================================================
