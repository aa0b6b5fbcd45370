------------------------------ MODULE Verification ------------------------------
(***************************************************************************)
(* What it takes for a candidate to be called verified: a behaviour        *)
(* contract that is discovered, accepted and invalidated                   *)
(* (domain/configuration/behavior-policy.ts), a target derived from every  *)
(* requirement (services/derive-validation-target.ts), runs scheduled      *)
(* within a budget and reused from a cache (services/validation-safety.ts),*)
(* and the one classifier that may say so                                  *)
(* (services/validation-outcomes.ts).                                      *)
(*                                                                         *)
(* The repository has these as functions of facts; what calls them is not  *)
(* in it.  Here each is called with the facts as they stand, while the     *)
(* contract, the source input, the candidate patch and the policy may      *)
(* change between any two calls.  A digest is the version of what it       *)
(* digests, and nothing returns to an earlier one.  A target and its digest*)
(* are one; the eight other digests of a cache key do not change here.     *)
(***************************************************************************)
EXTENDS Integers, Sequences, FiniteSets, SequencesExt

CONSTANTS
  Targets,         \* target ids
  CodeUnitOrder, LocaleOrder,     \* the ids as sort() and localeCompare order them
  Requests,        \* what policy, repository, CI and user may ask for
  Faults,          \* what may be known of a run that has ended
  MaxActive, MaxCost, MaxAttempts,   \* the budget
  MaxVersion,      \* bound on the version of the contract, and on all the changes
                   \* of what is judged
  None

VARIABLES
  contract,        \* the behaviour contract
  subject,         \* digests of what is judged, and whether the source is fresh
  asked,           \* requirements and egress policy derived from
  plan,            \* what deriveMvpValidationTarget answered
  runs,            \* of each target: attempts, running, result
  cost,            \* what is reserved
  cache,           \* the safe cache entries
  attestation

vars == <<contract, subject, asked, plan, runs, cost, cache, attestation>>

Kinds == <<"install", "build", "lint", "typecheck", "test", "smoke", "benchmark">>
RequiredKinds == {"install", "build", "typecheck", "test"}

(* The one target the planner knows.                                       *)
Available == [os |-> "linux", node |-> "22.1.0", capabilities |-> {"npm"},
              denyAll |-> TRUE, allowlist |-> TRUE, hosts |-> {"registry"}, cores |-> 2]

(* A requirement may leave out a field, or have one that is malformed.     *)
Requirement == [os : {None, "linux", "windows", " "}, node : {None, "22.1.0", "20.0.0", "lts"},
                capabilities : SUBSET {"npm", "gpu"}]

(* What preflight finds before a run: what was reached and delivered.      *)
Services == {"provider", "guest", "dns", "repository", "registry", "capability"}
Preflight == [reached : SUBSET Services, cores : Nat, skewed : BOOLEAN]

(* What is known of a run that has ended; the control canary is a command  *)
(* that ran after a failure, in a fresh sandbox of the same target.        *)
Facts == [cleaned : BOOLEAN, blocked : BOOLEAN, supported : BOOLEAN, exceeded : BOOLEAN,
          timedOut : BOOLEAN, failed : BOOLEAN, canary : {"none", "passed", "failed"},
          preflight : Preflight]

(* ValidationTargetDerivationInput; a default asks for the one target when *)
(* nothing else does, egress is the hosts to reach or None.                *)
Request == [requirements : SUBSET Requirement, default : BOOLEAN, cores : Nat \ {0},
            egress : {None} \union SUBSET STRING]

Outcomes == <<"security_blocked", "unsupported_target_or_capability",
              "resource_budget_failed", "timed_out", "infrastructure_failed",
              "project_or_candidate_failed", "inconclusive">>

(* The source input, the candidate patch and the policy, after at most     *)
(* MaxVersion - 1 changes.                                                 *)
Versions == 1..MaxVersion
Digests == {d \in [source : Versions, patch : Versions, policy : Versions] :
              d.source + d.patch + d.policy <= MaxVersion + 2}

(* The versions a run depends on; what it leaves behind.                   *)
Key == Targets \X (0..MaxVersion) \X Digests
Result == [key : Key, facts : Facts,
           outcome : ToSet(Outcomes) \union {"cleanup_failed", "passed"}]

(* What is asked for is what validateInput lets through; no result is none.*)
VerificationAssumption ==
  /\ IsFiniteSet(Targets)
  /\ Faults \subseteq Facts
  /\ \A a \in Requests : a \in Request
  /\ {MaxActive, MaxCost, MaxAttempts} \subseteq Nat /\ MaxVersion \in Nat \ {0}
  /\ None \notin {"invalid_or_missing_requirement", "target_unavailable",
                  "capability_unavailable"}
  /\ None \notin [key : Key] \union Result
  /\ ToSet(CodeUnitOrder) = Targets /\ ToSet(LocaleOrder) = Targets

NoRun == [attempts |-> 0, running |-> FALSE, result |-> None]

Init ==
  /\ contract = [state |-> "none", version |-> 0, steps |-> {}]
  /\ subject = [digests |-> [source |-> 1, patch |-> 1, policy |-> 1], fresh |-> TRUE]
  /\ asked \in Requests
  /\ plan = None
  /\ runs = [t \in Targets |-> NoRun]
  /\ cost = 0 /\ cache = {} /\ attestation = None

-----------------------------------------------------------------------------
(* discoverNpmBehaviorContract: an install step of a lock file, then the   *)
(* known scripts in their order; no steps is an error.                     *)
Discover(scripts) ==
  /\ contract.state = "none"
  /\ scripts # {}
  /\ contract' = [state |-> "needs_review", version |-> 1, steps |-> scripts]
  /\ UNCHANGED <<subject, asked, plan, runs, cost, cache, attestation>>

(* acceptBehaviorContract: some enabled step is required.                  *)
Accept ==
  /\ contract.state \in {"needs_review", "invalidated"}
  /\ contract.steps \intersect RequiredKinds # {}
  /\ contract' = [contract EXCEPT !.state = "accepted"]
  /\ UNCHANGED <<subject, asked, plan, runs, cost, cache, attestation>>

(* invalidateBehaviorContract, when the sources it was found in change.    *)
Invalidate ==
  /\ contract.state # "none"
  /\ contract.version < MaxVersion
  /\ contract' = [contract EXCEPT !.state = "invalidated", !.version = @ + 1]
  /\ UNCHANGED <<subject, asked, plan, runs, cost, cache, attestation>>

(* The source grows stale, or is read anew; another patch is proposed, or  *)
(* the policy is edited.                                                   *)
SubjectChanges ==
  /\ \/ subject' = [subject EXCEPT !.fresh = FALSE]
     \/ \E d \in Digests, change \in {"source", "patch", "policy"} :
          /\ d = [subject.digests EXCEPT ![change] = @ + 1]
          /\ subject' = [digests |-> d, fresh |-> subject.fresh \/ change = "source"]
  /\ subject' # subject
  /\ UNCHANGED <<contract, asked, plan, runs, cost, cache, attestation>>

-----------------------------------------------------------------------------
ValidRequirement(r) ==
  /\ r.os # None \/ r.node # None \/ r.capabilities # {}
  /\ r.os # " "
  /\ r.node # "lts"

MatchesAvailable(r) == /\ r.os \in {None, Available.os}
                       /\ r.node \in {None, Available.node}

(* Why a requirement is not met; None when it is.                          *)
RequirementFailure(r) ==
  IF ~ValidRequirement(r) THEN "invalid_or_missing_requirement"
  ELSE IF ~MatchesAvailable(r) THEN "target_unavailable"
  ELSE IF ~(r.capabilities \subseteq Available.capabilities) THEN "capability_unavailable"
  ELSE None

(* deriveNetworkPolicy, of the hosts allowed or None to deny all: None when*)
(* the target cannot enforce it.                                           *)
NetworkPolicy(egress) ==
  IF egress = None THEN (IF Available.denyAll THEN {} ELSE None)
  ELSE IF Available.allowlist /\ egress # {} /\ egress \subseteq Available.hosts
       THEN egress ELSE None

DeriveDropping ==
  LET met == {r \in asked.requirements : RequirementFailure(r) = None} IN
  /\ plan = None
  /\ plan' = IF (met = {} /\ ~asked.default) \/ NetworkPolicy(asked.egress) = None
             THEN [supported |-> FALSE, failed |-> asked.requirements]
             ELSE [supported |-> TRUE, failed |-> {}]
  /\ UNCHANGED <<contract, subject, asked, runs, cost, cache, attestation>>

(* deriveMvpValidationTarget: required entries are never dropped.          *)
Derive ==
  LET failed == {r \in asked.requirements : RequirementFailure(r) # None} IN
  /\ plan = None
  /\ plan' = IF asked.requirements = {} /\ ~asked.default
             THEN [supported |-> FALSE, failed |-> {}]
             ELSE [supported |-> /\ failed = {}
                                 /\ asked.cores <= Available.cores
                                 /\ NetworkPolicy(asked.egress) # None,
                   failed |-> failed]
  /\ UNCHANGED <<contract, subject, asked, runs, cost, cache, attestation>>

-----------------------------------------------------------------------------
Active == {t \in Targets : runs[t].running}

DecisionUnlimited(t) ==
  IF runs[t].running THEN "duplicate"
  ELSE IF runs[t].attempts + 1 > MaxAttempts THEN "attempt_budget"
  ELSE IF cost + 1 > MaxCost THEN "cost_budget"
  ELSE "acquire"

(* decideValidationSchedule, in the order of its checks; the limits of a   *)
(* repository, a target and a registry are like that of the workspace, and *)
(* the time budget like the one of attempts.                               *)
Decision(t) ==
  IF runs[t].running THEN "duplicate"
  ELSE IF runs[t].attempts + 1 > MaxAttempts THEN "attempt_budget"
  ELSE IF cost + 1 > MaxCost THEN "cost_budget"
  ELSE IF Cardinality(Active) >= MaxActive THEN "workspace_concurrency"
  ELSE "acquire"

(* The facts a run of a target depends on: its semantic cache key.         *)
CacheKey(t) == <<t, contract.version, subject.digests>>

(* A run starts, under the facts of the moment.                            *)
Acquire(t) ==
  /\ plan # None
  /\ plan.supported
  /\ Decision(t) = "acquire"
  /\ cost' = cost + 1
  /\ runs' = [runs EXCEPT ![t] = [attempts |-> @.attempts + 1, running |-> TRUE,
                                  result |-> [key |-> CacheKey(t)]]]
  /\ UNCHANGED <<contract, subject, asked, plan, cache, attestation>>

(* assessInfrastructurePreflight: no failure code.                         *)
Ready(preflight) ==
  preflight.reached = Services /\ preflight.cores >= asked.cores /\ ~preflight.skewed

FaultUnchecked(f) ==
  IF ~f.cleaned THEN "cleanup_failed"
  ELSE IF f.blocked THEN "security_blocked"
  ELSE IF f.timedOut THEN "timed_out"
  ELSE IF f.failed THEN "project_or_candidate_failed"
  ELSE "passed"

(* classifyValidationFault: what a run comes to; the project is blamed for *)
(* a failure when the canary has passed and for nothing else.              *)
Fault(f) ==
  IF ~f.cleaned THEN "cleanup_failed"
  ELSE IF f.blocked THEN "security_blocked"
  ELSE IF ~f.supported THEN "unsupported_target_or_capability"
  ELSE IF f.exceeded THEN "resource_budget_failed"
  ELSE IF ~Ready(f.preflight) \/ f.canary = "failed" THEN "infrastructure_failed"
  ELSE IF (f.timedOut \/ f.failed) /\ f.canary # "passed" THEN "inconclusive"
  ELSE IF f.timedOut THEN "timed_out"
  ELSE IF f.failed THEN "project_or_candidate_failed"
  ELSE "passed"

(* It ends; a pass from a fresh sandbox, attested and intact, is cached    *)
(* (isSafeValidationCacheEntry).                                           *)
Finish(t, facts, safe) ==
  /\ runs[t].running
  /\ runs' = [runs EXCEPT ![t].running = FALSE,
                          ![t].result = [key |-> @.key, facts |-> facts, outcome |-> Fault(facts)]]
  /\ cache' = IF safe /\ Fault(facts) = "passed"
              THEN cache \union {[key |-> runs[t].result.key, facts |-> facts]} ELSE cache
  /\ UNCHANGED <<contract, subject, asked, plan, cost, attestation>>

(* A cached pass stands for a run of the same key.                         *)
Reuse(t) ==
  /\ plan # None
  /\ plan.supported
  /\ ~runs[t].running
  /\ \E entry \in cache :
       /\ entry.key = CacheKey(t)
       /\ runs' = [runs EXCEPT ![t].result =
                     [key |-> entry.key, facts |-> entry.facts, outcome |-> "passed"]]
  /\ UNCHANGED <<contract, subject, asked, plan, cost, cache, attestation>>

-----------------------------------------------------------------------------
Finished(t) == ~runs[t].running /\ runs[t].result # None

(* The runner attests results that were all had under one contract, source,*)
(* patch and policy, and binds those.  Nothing in the repository does it   *)
(* yet: that it attests no others is what VerifiedIsEarned takes on trust. *)
Attest ==
  /\ attestation = None
  /\ \A t \in Targets : Finished(t)
  /\ \E c \in 0..MaxVersion, d \in Digests :
       /\ \A t \in Targets : runs[t].result.key = <<t, c, d>>
       /\ attestation' = [contract |-> c, digests |-> d, targets |-> Targets, fresh |-> TRUE]
  /\ UNCHANGED <<contract, subject, asked, plan, runs, cost, cache>>

AttestationAges ==
  /\ attestation # None
  /\ \/ attestation' = [attestation EXCEPT !.fresh = FALSE]
     \/ attestation' = None
  /\ attestation' # attestation
  /\ UNCHANGED <<contract, subject, asked, plan, runs, cost, cache>>

AttestationUnbound(a) == a.digests = subject.digests /\ a.targets = Targets

(* attestationMatchesFacts: the digests, then the attested targets against *)
(* the required ones place by place, each in an order of its own.          *)
AttestationMatches(a) ==
  /\ a.contract = contract.version
  /\ a.digests = subject.digests
  /\ a.targets = Targets
  /\ CodeUnitOrder = LocaleOrder

(* The outcomes that some target has come to, in the order they count in.  *)
Had == {i \in DOMAIN Outcomes : \E t \in Targets : runs[t].result.outcome = Outcomes[i]}

(* classifyValidationOutcome, of the facts as they stand.                  *)
Status ==
  IF Targets = {} THEN "inconclusive"
  ELSE IF \E t \in Targets : ~Finished(t) THEN "inconclusive"
  ELSE IF \E t \in Targets : ~runs[t].result.facts.cleaned THEN "cleanup_failed"
  ELSE IF contract.state # "accepted" \/ ~subject.fresh THEN "inconclusive"
  ELSE IF Had # {} THEN Outcomes[CHOOSE i \in Had : \A j \in Had : i <= j]
  ELSE IF attestation = None THEN "inconclusive"
  ELSE IF ~attestation.fresh \/ ~AttestationMatches(attestation) THEN "inconclusive"
  ELSE "verified"

Next ==
  \/ \E scripts \in {{"lint"}, {"install", "test"}} : Discover(scripts)
  \/ Accept \/ Invalidate \/ SubjectChanges \/ Derive
  \/ \E t \in Targets :
       \/ Acquire(t) \/ Reuse(t)
       \/ \E f \in Faults, safe \in BOOLEAN : Finish(t, f, safe)
  \/ Attest \/ AttestationAges

Spec == Init /\ [][Next]_vars

-----------------------------------------------------------------------------
(* The row of behavior_contracts, the answer of the planner, the rows of   *)
(* validation_jobs, of validation_cache_entries and of attestations.       *)
ContractRow == [state : {"none", "needs_review", "accepted", "invalidated"},
                version : 0..MaxVersion, steps : SUBSET ToSet(Kinds)]
Plan == [supported : BOOLEAN, failed : SUBSET Requirement]
JobRow == [attempts : 0..MaxAttempts, running : BOOLEAN,
           result : {None} \union [key : Key] \union Result]
CacheEntry == [key : Key, facts : Facts]
Attestation == [contract : 0..MaxVersion, digests : Digests,
                targets : SUBSET Targets, fresh : BOOLEAN]

(* The limits of ValidationScheduleBudget.                                 *)
WithinBudget ==
  /\ Cardinality(Active) <= MaxActive
  /\ cost <= MaxCost
  /\ \A t \in Targets : runs[t].attempts <= MaxAttempts

(* Every variable has its type, and the runs are within their budget.      *)
TypeOK ==
  /\ contract \in ContractRow
  /\ subject \in [digests : Digests, fresh : BOOLEAN]
  /\ plan \in {None} \union Plan
  /\ runs \in [Targets -> JobRow]
  /\ cache \subseteq CacheEntry
  /\ attestation \in {None} \union Attestation
  /\ WithinBudget

(* A verified candidate has passed on every target, for every requirement, *)
(* on a machine that was as asked, with the contract, the source, the patch*)
(* and the policy it is judged by, that contract was accepted with a       *)
(* required step, and every sandbox is gone, however these and the cache   *)
(* changed on the way, given a runner that attests results of one contract,*)
(* source, patch and policy only; and a candidate is not called failed     *)
(* unless its commands did and the same command of its target passed       *)
(* elsewhere, on a machine that was ready (classifyValidationOutcome and   *)
(* all that gives it its facts).                                           *)
VerifiedIsEarned ==
  /\ Status = "project_or_candidate_failed" =>
       \E t \in Targets :
         LET f == runs[t].result.facts IN
         /\ f.failed /\ f.canary = "passed" /\ f.cleaned
         /\ f.preflight.cores >= asked.cores
  /\ Status = "verified" =>
    /\ contract.state = "accepted"
    /\ contract.steps \intersect RequiredKinds # {}
    /\ subject.fresh
    /\ \A t \in Targets :
         /\ LET f == runs[t].result.facts IN
            /\ f.cleaned /\ f.supported
            /\ ~(f.blocked \/ f.exceeded \/ f.timedOut \/ f.failed)
            /\ f.preflight.reached = Services /\ f.preflight.cores >= asked.cores
         /\ runs[t].result.key = <<t, contract.version, subject.digests>>
    /\ asked.requirements = {} => asked.default
    /\ \A r \in asked.requirements :
         /\ r.os \in {None, Available.os} /\ r.node \in {None, Available.node}
         /\ r.capabilities \subseteq Available.capabilities
    /\ asked.egress # None => asked.egress \subseteq Available.hosts
    /\ asked.cores <= Available.cores
=============================================================================
