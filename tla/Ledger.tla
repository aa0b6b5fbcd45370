------------------------------- MODULE Ledger -------------------------------
(***************************************************************************)
(* The two append-only records of packages/db that are keyed by an         *)
(* idempotency key: audit_log (audit-service.ts) and external_operations   *)
(* (external-operation-service.ts).  Both INSERT ... ON CONFLICT DO        *)
(* NOTHING, and when that inserts nothing SELECT the entry of the key and  *)
(* compare what it is bound to.  What an entry is bound to beside its id   *)
(* (actor, action, object, outcome, time and digests, or project,          *)
(* provider, kind and fingerprint) is one value.                           *)
(***************************************************************************)
EXTENDS Naturals

CONSTANTS
  Writers,   \* calls that can be under way at a time
  Keys,      \* idempotency keys and operation keys of a workspace
  Ids,       \* ids a caller gives its entry
  Bindings,  \* what an entry can be about
  None

Entry == [id : Ids, binding : Bindings]

LedgerAssumption == None \notin Keys \union Entry

VARIABLES
  entries,  \* the entry of every key, or None
  writes    \* what each caller writes and where it is

vars == <<entries, writes>>

NoWrite == [step |-> "idle", key |-> None, entry |-> None, answer |-> "none"]

Init ==
  /\ entries = [k \in Keys |-> None]
  /\ writes = [w \in Writers |-> NoWrite]

-----------------------------------------------------------------------------
(* A caller has an event to record or an operation to reserve; a delivery  *)
(* that is repeated comes again with the same key.                         *)
Offer(w) ==
  /\ writes[w].step \in {"idle", "answered"}
  /\ \E k \in Keys, e \in Entry :
       writes' = [writes EXCEPT ![w] =
         [step |-> "insert", key |-> k, entry |-> e, answer |-> "none"]]
  /\ UNCHANGED entries

Answer(w, answer) ==
  writes' = [writes EXCEPT ![w].step = "answered", ![w].answer = answer]

(* The INSERT: the first one to come with a key is the entry of that key.  *)
Insert(w) ==
  LET write == writes[w]
  IN /\ write.step = "insert"
     /\ IF entries[write.key] = None
        THEN /\ entries' = [entries EXCEPT ![write.key] = write.entry]
             /\ Answer(w, "ok")
        ELSE writes' = [writes EXCEPT ![w].step = "select"] /\ UNCHANGED entries

SameId(existing, expected) == existing # None /\ existing.id = expected.id

(* sameAuditBinding, and the comparison of reserveExternalOperation.       *)
SameBinding(existing, expected) ==
  existing # None /\ existing.id = expected.id /\ existing.binding = expected.binding

Select(w) ==
  LET write == writes[w]
  IN /\ write.step = "select"
     /\ Answer(w, IF SameBinding(entries[write.key], write.entry) THEN "ok" ELSE "conflict")
     /\ UNCHANGED entries

Next == \E w \in Writers : Offer(w) \/ Insert(w) \/ Select(w)

Spec == Init /\ [][Next]_vars

-----------------------------------------------------------------------------
(* The entries and the calls have their types.                             *)
TypeOK ==
  /\ entries \in [Keys -> Entry \union {None}]
  /\ \A w \in Writers :
       /\ writes[w].step \in {"idle", "insert", "select", "answered"}
       /\ writes[w].key \in Keys \union {None}
       /\ writes[w].entry \in Entry \union {None}
       /\ writes[w].answer \in {"none", "ok", "conflict"}

(* Of all who come with one key, exactly those with the event or operation *)
(* that took it are told it is recorded (appendAuditEvent,                 *)
(* reserveExternalOperation): nobody goes on on the strength of an entry   *)
(* that is about something else, and nobody is refused its own.            *)
OneBindingPerKey ==
  \A w \in Writers : writes[w].answer # "none" =>
    (writes[w].answer = "ok" <=> entries[writes[w].key] = writes[w].entry)
=============================================================================
