------------------------------ MODULE MCControl ------------------------------
(***************************************************************************)
(* Control for TLC: values for its constants, and behaviours in which one  *)
(* component moves and the others stay as they begin, so that no state of  *)
(* one is multiplied with another's.                                       *)
(***************************************************************************)
EXTENDS Control, TLC

CONSTANTS t1, t2     \* the targets

VARIABLE part

-----------------------------------------------------------------------------
MCKindOf == [o \in Objects |-> o]

MCRoleOf == [u \in {"owner", "reviewer", "stranger"} |->
               IF u = "stranger" THEN None ELSE u]

MCFound == "c1" :> {"f1", "f2"} @@ "c2" :> {"f2", "f3"}

Proposal(made_of, package, file) ==
  [parses |-> TRUE, evidence |-> made_of, package |-> package, file |-> file,
   keeps |-> TRUE, probes |-> TRUE]

AllowedIn(manifests) ==
  [manifests |-> manifests, lockfiles |-> {"lock"}, permitted |-> TRUE,
   targets |-> TRUE, probes |-> TRUE]

MCPacketOf == "q1" :> AllowedIn({"manifest"}) @@ "q2" :> AllowedIn({"lock"})

MCPlans == {Proposal("finding", "expected", "manifest"),
            Proposal("invented", "expected", "manifest"),
            Proposal("finding", "other", "manifest"),
            Proposal("finding", "expected", "lock")}

-----------------------------------------------------------------------------
H(type, path, size) ==
  [type |-> type, sound |-> TRUE, path |-> path, size |-> size, link |-> FALSE]

MCHeaders ==
  {H("0", <<"r", "package.json">>, 1), H("5", <<"r", "">>, 0), H("0", <<"r", "a">>, 1),
   H("0", <<"r", "a", "b">>, 0), H("0", <<"q", "a">>, 0), H("0", <<"r", "a", "">>, 1),
   H("x", <<"r", "a", "">>, 0), H("L", <<"r", "..">>, 1), H("L", <<"r", ".npmrc">>, 1),
   H("L", <<"r", "package.json">>, 1), H("g", None, 0), H("2", <<"r", "a">>, 0)}

MCOperation == [package |-> "p", version |-> "2"]

-----------------------------------------------------------------------------
(* The order of the targets matters only where the two sorts differ.       *)
MCOrder == <<t1, t2>>
MCSymmetry == Permutations(Targets)

Asks(requirements, default, egress, cores) ==
  [requirements |-> requirements, default |-> default, egress |-> egress, cores |-> cores]

Needs(os, node, capabilities) == [os |-> os, node |-> node, capabilities |-> capabilities]

MCTargetRequests ==
  {Asks({}, TRUE, None, 1), Asks({}, FALSE, None, 1), Asks({}, TRUE, None, 4),
   Asks({Needs("linux", "22.1.0", {"npm"})}, FALSE, {"registry"}, 2),
   Asks({Needs("linux", None, {}), Needs("windows", None, {})}, FALSE, None, 1),
   Asks({Needs(None, None, {"gpu"})}, TRUE, None, 1),
   Asks({}, TRUE, {"registry", "elsewhere"}, 1)}

(* What is known of a run that went well, on a machine with so many cores. *)
Well(cores) ==
  [cleaned |-> TRUE, blocked |-> FALSE, supported |-> TRUE, exceeded |-> FALSE,
   timedOut |-> FALSE, failed |-> FALSE, canary |-> "none",
   preflight |-> [reached |-> {"provider", "guest", "dns", "repository", "registry",
                               "capability"},
                  cores |-> cores, skewed |-> FALSE]]

MCFaults ==
  {Well(1), Well(2), [Well(2) EXCEPT !.cleaned = FALSE],
   [Well(2) EXCEPT !.blocked = TRUE, !.failed = TRUE],
   [Well(2) EXCEPT !.supported = FALSE], [Well(2) EXCEPT !.exceeded = TRUE],
   [Well(2) EXCEPT !.failed = TRUE],
   [Well(2) EXCEPT !.failed = TRUE, !.canary = "failed"],
   [Well(2) EXCEPT !.failed = TRUE, !.canary = "passed"],
   [Well(2) EXCEPT !.timedOut = TRUE, !.canary = "passed"]}

-----------------------------------------------------------------------------
tVars == <<rows, transitions>>
lVars == <<entries, writes>>
eVars == <<revisions, edits, candidates, calls>>
rVars == <<active, reconciliations, requested, done>>
gVars == <<ops, workers, posts, started, answered>>
pVars == <<versions, evidence, promotions>>
mVars == <<archive, pending, paths, root, bytes, step, uploaded, tree, baseline,
           original>>
vVars == <<contract, subject, asked, plan, runs, cost, cache, attestation>>
vars == <<part, tVars, lVars, eVars, rVars, gVars, pVars, mVars, vVars>>

(* A component that does not move begins in one of its initial states.     *)
Resting(name, state) == part # name => state

MCInit ==
  /\ part \in {"transitions", "ledger", "configuration", "reconciliation",
               "generation", "registry", "materializer", "verification"}
  /\ T!Init
  /\ Resting("transitions",
             DOMAIN rows = {"job"} /\ \A o \in DOMAIN rows : rows[o].state = "queued")
  /\ E!Init
  /\ Resting("configuration", \A c \in DOMAIN candidates : candidates[c].state = "draft")
  /\ R!Init /\ Resting("reconciliation", active = {})
  /\ V!Init /\ Resting("verification", asked = Asks({}, TRUE, None, 1))
  /\ L!Init /\ G!Init /\ P!Init /\ M!Init

MCNext ==
  /\ UNCHANGED part
  /\ \/ /\ part = "transitions" /\ T!Next
        /\ UNCHANGED <<lVars, eVars, rVars, gVars, pVars, mVars, vVars>>
     \/ /\ part = "ledger" /\ L!Next
        /\ UNCHANGED <<tVars, eVars, rVars, gVars, pVars, mVars, vVars>>
     \/ /\ part = "configuration" /\ E!Next
        /\ UNCHANGED <<tVars, lVars, rVars, gVars, pVars, mVars, vVars>>
     \/ /\ part = "reconciliation" /\ R!Next
        /\ UNCHANGED <<tVars, lVars, eVars, gVars, pVars, mVars, vVars>>
     \/ /\ part = "generation" /\ G!Next
        /\ UNCHANGED <<tVars, lVars, eVars, rVars, pVars, mVars, vVars>>
     \/ /\ part = "registry" /\ P!Next
        /\ UNCHANGED <<tVars, lVars, eVars, rVars, gVars, mVars, vVars>>
     \/ /\ part = "materializer" /\ M!Next
        /\ UNCHANGED <<tVars, lVars, eVars, rVars, gVars, pVars, vVars>>
     \/ /\ part = "verification" /\ V!Next
        /\ UNCHANGED <<tVars, lVars, eVars, rVars, gVars, pVars, mVars>>

MCSpec == MCInit /\ [][MCNext]_vars
=============================================================================
