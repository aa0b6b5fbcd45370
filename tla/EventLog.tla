------------------------------ MODULE EventLog ------------------------------
(***************************************************************************)
(* What the companion's spool promises to the code that records evidence   *)
(* and to the server that receives it: an append-only log of events, each  *)
(* event id in it once, of which a growing prefix has been delivered.      *)
(* Nothing is ever removed from, changed in or reordered within the log.   *)
(***************************************************************************)
EXTENDS Naturals, Sequences

CONSTANT Event          \* the events: records with an id and a payload

VARIABLES
  log,                  \* every event captured, in local sequence order
  delivered             \* how many of them the server has acknowledged

logVars == <<log, delivered>>

LogInit == log = <<>> /\ delivered = 0

(* An event enters the log at most once: a second capture of the id is the *)
(* first one's replay, whatever payload comes with it.                     *)
Capture(e) ==
  /\ \A i \in 1..Len(log) : log[i].id # e.id
  /\ log' = Append(log, e)
  /\ UNCHANGED delivered

(* The delivered prefix grows by a whole batch, never past the log.        *)
Deliver(n) ==
  /\ delivered < n
  /\ n <= Len(log)
  /\ delivered' = n
  /\ UNCHANGED log

LogNext ==
  \/ \E e \in Event : Capture(e)
  \/ \E n \in 1..Len(log) : Deliver(n)

LogSpec == LogInit /\ [][LogNext]_logVars

=============================================================================
