--------------------------- MODULE ModelRegistry ---------------------------
(***************************************************************************)
(* The versions of a prompt template (services/model-registry.ts): a       *)
(* version is proposed, promoted to the one active version of its template *)
(* when an evaluation of it passes the gate, and retired.  Callers run     *)
(* beside each other; a call loads the version, then the evidence, and     *)
(* only then asks the store, which compares the revision.  The stores are  *)
(* ports without an implementation in the repository and do what the       *)
(* comments of the ports ask for.                                          *)
(*                                                                         *)
(* One template.  What a version is made of (model, prompt, schema and     *)
(* sampling digests, hence its fingerprint) is one value, its content.     *)
(***************************************************************************)
EXTENDS Naturals

CONSTANTS
  Versions,  \* version ids
  Contents,  \* what a version can be made of
  Callers,   \* calls that can be under way at a time
  MaxRevision,  \* bound: a version of this revision is not promoted again
  None

VARIABLES
  versions,  \* the versions of the registry
  evidence,  \* the evaluation of every version, as the evidence store has it
  calls      \* what each caller does and where it is

vars == <<versions, evidence, calls>>

NoVersion == [state |-> "none", content |-> None, revision |-> 0, proof |-> None]
NoCall == [step |-> "idle", version |-> None, revision |-> 0, proof |-> None]

(* BraintrustPromotionEvidence: the content that was evaluated and the     *)
(* first test of evaluatePromotionGate that it fails, if any: not ended,   *)
(* another suite or too few cases, a rate below its minimum, or a leak.    *)
Evidence == [content : Contents, flaw : {"none", "incomplete", "suite", "rate", "leak"}]

(* A row of model_prompt_versions, and the evaluation_runs of versions.    *)
Version == [state : {"none", "proposed", "active", "retired"},
            content : Contents \union {None}, revision : Nat,
            proof : Evidence \union {None}]
Evaluations == [Versions -> Evidence \union {None}]

Init ==
  /\ versions = [v \in Versions |-> NoVersion]
  /\ evidence = [v \in Versions |-> None]
  /\ calls = [c \in Callers |-> NoCall]

-----------------------------------------------------------------------------
(* propose and createProposed: an id that is taken keeps its content, and  *)
(* a caller with another content is told of a conflict.                    *)
Propose ==
  /\ \E v \in Versions, content \in Contents :
       /\ versions[v].state = "none"
       /\ versions' = [versions EXCEPT ![v] =
            [state |-> "proposed", content |-> content, revision |-> 0, proof |-> None]]
  /\ UNCHANGED <<evidence, calls>>

(* An evaluation of a version changes; it may be of another content.       *)
Evaluate ==
  /\ \E v \in Versions, e \in Evidence :
       evidence[v] = None /\ evidence' = [evidence EXCEPT ![v] = e]
  /\ UNCHANGED <<versions, calls>>

PassesAnyGate(version, e) == e # None /\ e.flaw = "none"

(* evaluatePromotionGate without a failure.                                *)
PassesGate(version, e) ==
  /\ e # None
  /\ e.content = version.content
  /\ e.flaw = "none"

(* promote up to the gate.  A proposed version must have the revision the  *)
(* caller has seen.  One that is active already is gated and activated     *)
(* again without that test; a revision the store would refuse changes      *)
(* nothing, so the caller has the one that is current here as well.        *)
LoadToPromote(c) ==
  /\ calls[c].step = "idle"
  /\ \E v \in Versions :
       /\ versions[v].state \in {"proposed", "active"} /\ versions[v].revision < MaxRevision
       /\ calls' = [calls EXCEPT ![c] = [step |-> "gate", version |-> v,
                                         revision |-> versions[v].revision, proof |-> None]]
  /\ UNCHANGED <<versions, evidence>>

Gate(c) ==
  LET v == calls[c].version
  IN /\ calls[c].step = "gate"
     /\ calls' = [calls EXCEPT ![c] =
          IF PassesGate(versions[v], evidence[v])
          THEN [calls[c] EXCEPT !.step = "activate", !.proof = evidence[v]] ELSE NoCall]
     /\ UNCHANGED <<versions, evidence>>

(* retire up to the store.  A version that is retired is answered as such. *)
LoadToRetire(c) ==
  /\ calls[c].step = "idle"
  /\ \E v \in Versions :
       /\ versions[v].state \in {"proposed", "active"}
       /\ calls' = [calls EXCEPT ![c] = [step |-> "retire", version |-> v,
                                         revision |-> versions[v].revision, proof |-> None]]
  /\ UNCHANGED <<versions, evidence>>

UnchangedUnchecked(c) == TRUE

(* What activate and retire compare, under the store's lock.               *)
Unchanged(c) == versions[calls[c].version].revision = calls[c].revision

(* activate: the version is bound to its evidence, and another that was    *)
(* active before is retired with it.                                       *)
Activated(c) ==
  [v \in Versions |->
     IF v = calls[c].version
     THEN [versions[v] EXCEPT !.state = "active", !.revision = @ + 1, !.proof = calls[c].proof]
     ELSE IF versions[v].state = "active"
     THEN [versions[v] EXCEPT !.state = "retired", !.revision = @ + 1]
     ELSE versions[v]]

Activate(c) ==
  /\ calls[c].step = "activate" /\ Unchanged(c)
  /\ versions' = Activated(c)
  /\ calls' = [calls EXCEPT ![c] = NoCall]
  /\ UNCHANGED evidence

Retire(c) ==
  /\ calls[c].step = "retire" /\ Unchanged(c)
  /\ versions' = [versions EXCEPT ![calls[c].version].state = "retired",
                                  ![calls[c].version].revision = @ + 1]
  /\ calls' = [calls EXCEPT ![c] = NoCall]
  /\ UNCHANGED evidence

(* A conflict, a replay of the same key, or a call that is lost.           *)
GiveUp(c) ==
  /\ calls[c].step # "idle"
  /\ calls' = [calls EXCEPT ![c] = NoCall]
  /\ UNCHANGED <<versions, evidence>>

Next ==
  \/ Propose \/ Evaluate
  \/ \E c \in Callers :
       \/ LoadToPromote(c) \/ Gate(c) \/ LoadToRetire(c)
       \/ Activate(c) \/ Retire(c) \/ GiveUp(c)

Spec == Init /\ [][Next]_vars

-----------------------------------------------------------------------------
(* The versions have their states, and a proof once they were active.      *)
TypeOK ==
  /\ versions \in [Versions -> Version] /\ evidence \in Evaluations
  /\ \A v \in Versions : versions[v].state = "active" => versions[v].proof \in Evidence

(* At most one version is active, and an active version passed an          *)
(* evaluation of the very content it has, however promotions and           *)
(* retirements interleave between the reads of a call and its write        *)
(* (promote, evaluatePromotionGate, activate).                             *)
ActiveIsEvaluated ==
  \A v \in Versions : versions[v].state = "active" =>
    /\ versions[v].proof.content = versions[v].content
    /\ versions[v].proof.flaw = "none"
    /\ \A w \in Versions : versions[w].state = "active" => w = v

(* A retired version is never active again (promote, retire).              *)
KeepsRetired ==
  \A v \in Versions : versions[v].state = "retired" => versions'[v].state = "retired"

RetiredForGood == [][KeepsRetired]_vars
=============================================================================
