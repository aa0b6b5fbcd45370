---------------------------- MODULE EvidenceStream ----------------------------
(***************************************************************************)
(* What the ingestion service promises to the devices that upload and to   *)
(* whoever reads the anchors: one log of events that grows by whole        *)
(* batches at its end, each accepted in one step however many uploads are  *)
(* under way, handed over to the consumer once it is accepted, and         *)
(* anchored or acknowledged only once it is handed over.                   *)
(***************************************************************************)
EXTENDS Naturals, Sequences

CONSTANT Batches        \* the uploads: first, last, previous and head

VARIABLES
  log,                  \* every event accepted, in order
  accepted,             \* the batches it is made of
  handedOver,           \* those on their way to the consumer, or there
  anchored,             \* those the consumer has anchored
  acknowledged          \* those the device has a receipt for

streamVars == <<log, accepted, handedOver, anchored, acknowledged>>

StreamInit ==
  /\ log = <<>>
  /\ accepted = {} /\ handedOver = {} /\ anchored = {} /\ acknowledged = {}

(* A batch is accepted where the log ends, and becomes its end.            *)
Accept(b) ==
  /\ log' = b.head
  /\ b.previous = log /\ b.first = Len(log) + 1
  /\ accepted' = accepted \union {b}
  /\ UNCHANGED <<handedOver, anchored, acknowledged>>

HandOver(b) ==
  /\ handedOver' = handedOver \union {b}
  /\ UNCHANGED <<log, accepted, anchored, acknowledged>>

Anchor(b) ==
  /\ anchored' = anchored \union {b}
  /\ UNCHANGED <<log, accepted, handedOver, acknowledged>>

(* The device may delete its copy: the batch is beyond being lost.         *)
Acknowledge(b) ==
  /\ acknowledged' = acknowledged \union {b}
  /\ UNCHANGED <<log, accepted, handedOver, anchored>>

StreamNext ==
  \/ \E b \in Batches \ accepted        : Accept(b)
  \/ \E b \in accepted \ handedOver     : HandOver(b)
  \/ \E b \in handedOver \ anchored     : Anchor(b)
  \/ \E b \in handedOver \ acknowledged : Acknowledge(b)

StreamSpec == StreamInit /\ [][StreamNext]_streamVars

=============================================================================
