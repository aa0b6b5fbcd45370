--------------------------- MODULE Configuration ---------------------------
(***************************************************************************)
(* The versioned documents of a project: its goal, its behaviour contract  *)
(* and its optimality policy (apps/worker/src/api/configuration/service.ts *)
(* and postgres-store.ts), and a candidate that was made under the first   *)
(* revision of each.                                                       *)
(*                                                                         *)
(* A request reads the current revision on one connection, computes the    *)
(* next one, and appends it in a transaction on another, under an advisory *)
(* lock of the project and the kind of document.  The candidates that the  *)
(* append makes stale are locked by its UPDATE until COMMIT, so the        *)
(* transaction is one action.  The module composes it with the callers of  *)
(* StateTransitions, which change the state of the same candidate.         *)
(*                                                                         *)
(* Abstractions.  One project, which nothing deletes.  The steps of a      *)
(* contract and the constraints of a policy are sets with, of each, what   *)
(* the service tells apart; their order is left out, and so are texts,     *)
(* digests and times.  "sound" is what assertValidBehaviorContract and     *)
(* assertValidProjectGoal ask of a stored document beyond what an edit is  *)
(* asked for: unique exit statuses and assertion ids, a realm id exactly   *)
(* with a known realm, assertions that fit their kind, ids of legal        *)
(* length.  A request that is refused changes nothing and is not shown.    *)
(***************************************************************************)
EXTENDS Integers, Sequences

CONSTANTS
  RoleOf,         \* membershipRole of each user, None for no member
  Steps,          \* step ids of the contract
  Checks,         \* those that are required and build, lint, typecheck, test or smoke
  Edits,          \* edits that can be under way at a time
  Candidate,      \* the candidate
  Callers,        \* callers that change its state
  Keys,           \* their idempotency keys
  MaxRevisions,   \* bound: revisions appended
  MaxChanges,     \* bound: changes of the candidate that callers ask for
  AllSound,       \* whether callers send only what a later read accepts
  None

Roles == {"owner", "maintainer", "developer", "reviewer", "observer", "member"}

Kinds == {"project_goal", "behavior_contract", "optimality_policy"}

ConfigurationAssumption ==
  /\ \A user \in DOMAIN RoleOf : RoleOf[user] \in Roles \union {None}
  /\ Checks \subseteq Steps
  /\ MaxRevisions \in Nat
  /\ AllSound \in BOOLEAN
  /\ None \notin Keys \union {"configuration"}

VARIABLES
  revisions,   \* configuration_revisions of each kind, by version
  edits,       \* the append each request is about to make, or None
  candidates,  \* the candidate
  calls        \* callers of transitionCandidate

vars == <<revisions, edits, candidates, calls>>

T == INSTANCE StateTransitions WITH
       Objects <- {Candidate}, KindOf <- [o \in {Candidate} |-> "candidate"],
       rows <- candidates

-----------------------------------------------------------------------------
(* A revision: the version it was made from, whether a read accepts it,    *)
(* and its content.                                                        *)
Goal(base, sound) == [base |-> base, sound |-> sound]

Contract(base, sound, review, steps, enabled) ==
  [base |-> base, sound |-> sound, review |-> review, steps |-> steps, enabled |-> enabled]

(* guard is a constraint of protectedConstraintIds, extra one that is not. *)
Policy(base, guard, extra) ==
  [base |-> base, sound |-> TRUE, guard |-> guard, extra |-> extra]

Version(kind) == Len(revisions[kind])

Current(kind) == revisions[kind][Version(kind)]

Appended ==
  Version("project_goal") + Version("behavior_contract") + Version("optimality_policy") - 3

Init ==
  /\ revisions = [project_goal |-> <<Goal(0, TRUE)>>,
                  behavior_contract |-> <<Contract(0, TRUE, "needs_review", Steps, Steps)>>,
                  optimality_policy |-> <<Policy(0, "as it was", TRUE)>>]
  /\ edits = [e \in Edits |-> None]
  /\ T!Init

-----------------------------------------------------------------------------
(* #authorize for a mutation.                                              *)
MayEdit(user) == RoleOf[user] \in {"owner", "maintainer"}

(* What a caller may send: only a read tells the unsound from the sound.   *)
Sendable == IF AllSound THEN {TRUE} ELSE BOOLEAN

(* reviseProjectGoal: the text and the priorities are checked, the ids it  *)
(* makes for priorities that have none are not.                            *)
RevisedGoals(base) == {Goal(base, sound) : sound \in Sendable}

(* reviseContract: an edited contract has to be reviewed again.            *)
Revised(base, sound, steps, enabled) ==
  Contract(base, sound, "needs_review", steps, enabled)

(* editBehaviorContract and decodeBehaviorSteps: any non-empty list of     *)
(* steps that are well formed one by one.                                  *)
EditedContracts(base) ==
  UNION {{Revised(base, sound, steps, enabled) : enabled \in SUBSET steps, sound \in Sendable} :
           steps \in SUBSET Steps \ {{}}}

(* reorderSteps: the same steps, each once.                                *)
ReorderedContracts(base, current) ==
  {Revised(base, current.sound, current.steps, current.enabled)}

(* setStepEnabled: one of the steps is switched on or off.                 *)
SwitchedContracts(base, current) ==
  UNION {{Revised(base, current.sound, current.steps, current.enabled \union {s}),
          Revised(base, current.sound, current.steps, current.enabled \ {s})} :
           s \in current.steps}

(* acceptContract: a contract that is not invalidated and has an enabled   *)
(* required check.                                                         *)
AcceptedContracts(base, current) ==
  IF current.review = "invalidated" \/ current.enabled \intersect Checks = {} THEN {}
  ELSE {Contract(base, current.sound, "accepted", current.steps, current.enabled)}

(* reviseOptimalityPolicy and assertPolicySemantics: every protected       *)
(* constraint is in the old policy and, the same, in the new one.          *)
KeepsProtected(current, next) == current.guard # "gone" /\ next.guard = current.guard

RevisedPolicies(base, current) ==
  {next \in [base : {base}, sound : {TRUE}, guard : {"as it was", "changed", "gone"},
             extra : BOOLEAN] :
     KeepsProtected(current, next)}

(* What the handlers make of the revision they have read.                  *)
NextRevisions(kind, base, current) ==
  CASE kind = "project_goal" -> RevisedGoals(base)
    [] kind = "behavior_contract" ->
         EditedContracts(base) \union ReorderedContracts(base, current)
           \union SwitchedContracts(base, current) \union AcceptedContracts(base, current)
    [] OTHER -> RevisedPolicies(base, current)

-----------------------------------------------------------------------------
(* #appendContract and its like for the two others: what the store is given.*)
Submit(e, kind, next) == edits' = [edits EXCEPT ![e] = [kind |-> kind, next |-> next]]

(* A request is authorized, reads the current revision and computes the    *)
(* next one; the version its user has seen must be the one it reads.  A    *)
(* revision that does not pass the check of the read is not returned.      *)
Read(e) ==
  /\ edits[e] = None
  /\ Appended < MaxRevisions
  /\ \E user \in DOMAIN RoleOf, kind \in Kinds :
       /\ MayEdit(user)
       /\ Current(kind).sound
       /\ \E next \in NextRevisions(kind, Version(kind), Current(kind)) :
            Submit(e, kind, next)
  /\ UNCHANGED <<revisions, candidates, calls>>

(* The candidate names the first revision of every document.               *)
Bound(version) == version = 1

StaledNone(version) == candidates

(* The UPDATE of the candidates bound to the version that is replaced.     *)
Staled(version) ==
  [c \in DOMAIN candidates |->
     IF Bound(version) /\ candidates[c].state \notin {"stale", "applied"}
     THEN T!Changed(candidates[c], "stale", "configuration")
     ELSE candidates[c]]

ReplacesWhatever(edit) == TRUE

(* #append: under the lock the current version is read again.              *)
Replaces(edit) == Version(edit.kind) = edit.next.base

(* appendProjectGoalRevision and its two siblings.                         *)
AppendTo(kind, next) == revisions' = [revisions EXCEPT ![kind] = Append(@, next)]

AppendRevision(e) ==
  /\ edits[e] # None /\ Replaces(edits[e])
  /\ AppendTo(edits[e].kind, edits[e].next)
  /\ candidates' = Staled(edits[e].next.base)
  /\ edits' = [edits EXCEPT ![e] = None]
  /\ UNCHANGED calls

(* The version has been replaced meanwhile, or the transaction fails: it   *)
(* is rolled back.                                                         *)
RollBack(e) ==
  /\ edits[e] # None
  /\ edits' = [edits EXCEPT ![e] = None]
  /\ UNCHANGED <<revisions, candidates, calls>>

Next ==
  \/ \E e \in Edits : Read(e) \/ AppendRevision(e) \/ RollBack(e)
  \/ T!Next /\ UNCHANGED <<revisions, edits>>

Spec == Init /\ [][Next]_vars

-----------------------------------------------------------------------------
(* The documents, and what a request asks the store to append.             *)
Documents ==
  [base : Nat, sound : BOOLEAN] \union
  [base : Nat, sound : BOOLEAN, review : {"needs_review", "accepted"},
   steps : SUBSET Steps, enabled : SUBSET Steps] \union
  [base : Nat, sound : BOOLEAN, guard : {"as it was", "changed", "gone"}, extra : BOOLEAN]

AppendConfigurationRevision == [kind : Kinds, next : Documents]

(* The revisions and the edits have their types.                           *)
TypeOK ==
  /\ \A kind \in Kinds : \A i \in 1..Version(kind) : revisions[kind][i].base \in 0..MaxRevisions
  /\ \A i \in 1..Version("behavior_contract") :
       LET contract == revisions["behavior_contract"][i] IN
       /\ contract.enabled \subseteq contract.steps /\ contract.steps \subseteq Steps
       /\ contract.review \in {"needs_review", "accepted"}
  /\ edits \in [Edits -> {None} \union AppendConfigurationRevision]

(* No edit is lost: every revision was made from the one before it.  So an *)
(* accepted contract has the very steps its maintainer saw, with a check   *)
(* among those enabled, and the protected constraints of a policy are in   *)
(* every revision as they were in the first (#append, reviseContract,      *)
(* acceptContract, assertPolicySemantics).                                 *)
EditsBuildOnEachOther ==
  \A kind \in Kinds : \A i \in 1..Version(kind) :
    LET revision == revisions[kind][i] IN
    /\ revision.base = i - 1
    /\ kind = "behavior_contract" /\ revision.review = "accepted" =>
         /\ revision.enabled \intersect Checks # {}
         /\ revision.steps = revisions[kind][i - 1].steps
         /\ revision.enabled = revisions[kind][i - 1].enabled
    /\ kind = "optimality_policy" => revision.guard = revisions[kind][1].guard

(* A candidate is on its way to a verdict, has one or is approved only     *)
(* while every document it was made under is the current one, however an   *)
(* edit and the callers that change its state interleave                   *)
(* (requirements.md 12.7).                                                 *)
NothingStandsOnReplaced ==
  (\E kind \in Kinds : Version(kind) > 1) =>
    \A c \in DOMAIN candidates : candidates[c].state \in {"stale", "applied"}

(* Whoever is told that a change of a candidate is made or conflicts is    *)
(* told the truth, though edits make candidates stale beside them.         *)
AnswersTrue == T!AnswersTrue

(* A contract that was edited can be read, and edited again: its commands  *)
(* are reviewed, edited, ordered, enabled and disabled (requirement 10.2). *)
EditsStayReadable == Current("behavior_contract").sound
=============================================================================
