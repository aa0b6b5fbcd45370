----------------------------- MODULE Generation -----------------------------
(***************************************************************************)
(* From a candidate request to a candidate under validation               *)
(* (services/generate-candidate.ts): the work is reserved, Fireworks is    *)
(* asked for a plan (packages/integrations/src/fireworks), the plan is     *)
(* guarded, or made by rule when the provider is down, and its validation  *)
(* is started.  Deliveries of a request are repeated, run beside each      *)
(* other and may be lost between two awaits.                               *)
(*                                                                         *)
(* Abstractions.  A plan and the packet it answers are what                *)
(* guardCandidatePlan tells apart; texts and digests are left out.  The    *)
(* stores are ports without an implementation in the repository; they do   *)
(* what the comments of the ports ask for.  A delivery that finds its work *)
(* in progress changes nothing and is made again later.  A completion      *)
(* carries no attempt and the port says of no check, so it is stored over  *)
(* whatever is there: that one delivery executes a request at a time is    *)
(* all that stands between two outcomes.                                   *)
(***************************************************************************)
EXTENDS Integers, FiniteSets

CONSTANTS
  Requests,              \* requests, each for an accepted finding
  PacketOf,              \* the reasoning packet of each
  Files,                 \* files of the repository
  Plans,                 \* plans the model may answer with
  Workers,               \* deliveries at a time
  MaxAttempts,           \* budget.maxAttempts of the service, 1 to 3
  MaxTransportAttempts,  \* maximumTransportAttempts of the client, 1 to 3
  None

(* A plan adds a package to a file on some evidence.  parses: it has the   *)
(* schema and no unsafe text; keeps: versions, sections, expected changes  *)
(* and the number of operations are those of the packet; probes: it        *)
(* predicts and probes required targets, and nothing else.                 *)
Plan == [parses : BOOLEAN, evidence : {"finding", "packet", "invented"},
         package : {"expected", "other"}, file : Files, keeps : BOOLEAN, probes : BOOLEAN]

(* What buildCandidateReasoningPacket lets through: it does not ask that a *)
(* manifest is no lockfile, or that required targets come with probes.     *)
Packet == [manifests : SUBSET Files, lockfiles : SUBSET Files, permitted : BOOLEAN,
           targets : BOOLEAN, probes : BOOLEAN]

GenerationAssumption ==
  /\ MaxAttempts \in 1..3
  /\ MaxTransportAttempts \in 1..3
  /\ Plans \subseteq Plan /\ PacketOf \in [Requests -> Packet]

VARIABLES
  ops,        \* the external operation of every request
  workers,    \* generations under way
  posts,      \* HTTP requests made for every request
  started,    \* requests whose candidate is under validation
  answered    \* requests whose delivery has been acknowledged

vars == <<ops, workers, posts, started, answered>>

NoOp == [state |-> "free", attempt |-> 0, plan |-> None]
NoWorker == [step |-> "idle", request |-> None, attempt |-> 0, left |-> 0, plan |-> None]

Init ==
  /\ ops = [q \in Requests |-> NoOp]
  /\ workers = [w \in Workers |-> NoWorker]
  /\ posts = [q \in Requests |-> 0]
  /\ started = {} /\ answered = {}

-----------------------------------------------------------------------------
(* The guard: parseCandidatePlan, the tests of unsafe text, and what the   *)
(* packet allows.                                                          *)
guardCandidatePlan(packet, plan) ==
  /\ plan.parses
  /\ plan.evidence = "finding"
  /\ plan.file \in packet.manifests \ packet.lockfiles
  /\ packet.permitted
  /\ plan.package = "expected"
  /\ plan.keeps
  /\ plan.probes = packet.targets
  /\ packet.targets => packet.probes

QuickFixesUnguarded(packet) ==
  {[parses |-> TRUE, evidence |-> "finding", package |-> "expected", file |-> file,
    keeps |-> TRUE, probes |-> TRUE] : file \in packet.manifests}

(* createDeterministicNpmQuickFix: the plans it can make, one or none.     *)
QuickFixes(packet) ==
  {plan \in {[parses |-> TRUE, evidence |-> "finding", package |-> "expected", file |-> file,
              keeps |-> TRUE, probes |-> packet.targets /\ packet.probes] :
               file \in packet.manifests} :
     Cardinality(packet.manifests) = 1 /\ guardCandidatePlan(packet, plan)}

-----------------------------------------------------------------------------
(* Generation.  generateStructured: how often the client may post.         *)
Attempts(attempt) ==
  IF MaxTransportAttempts < MaxAttempts - attempt + 1
  THEN MaxTransportAttempts ELSE MaxAttempts - attempt + 1

(* A worker that has reserved the operation; a reservation beyond the      *)
(* budget is refused before any request is made, which is a known failure. *)
Executing(q, attempt) ==
  [step |-> IF attempt > MaxAttempts THEN "reject" ELSE "post",
   request |-> q, attempt |-> attempt, left |-> Attempts(attempt), plan |-> None]

NeverInProgress(q) == FALSE

(* "A concurrent claimant receives in_progress."                           *)
InProgress(q) == \E w \in Workers : workers[w].step # "idle" /\ workers[w].request = q

(* reserveCandidateGeneration for work that is free, or whose delivery     *)
(* ended without completing it: the next attempt of the operation.         *)
Reserve(w) ==
  /\ workers[w].step = "idle"
  /\ \E q \in Requests \ answered :
       /\ ops[q].state \in {"free", "claimed"} /\ ops[q].attempt <= MaxAttempts
       /\ ~InProgress(q)
       /\ ops' = [ops EXCEPT ![q].state = "claimed", ![q].attempt = @ + 1]
       /\ workers' = [workers EXCEPT ![w] = Executing(q, ops[q].attempt + 1)]
  /\ UNCHANGED <<posts, started, answered>>

(* The reservation answers with a completion.                              *)
Replay(w) ==
  /\ workers[w].step = "idle"
  /\ \E q \in Requests \ answered :
       \/ /\ ops[q].state = "accepted"
          /\ workers' = [workers EXCEPT ![w] = [NoWorker EXCEPT !.step = "start", !.request = q]]
          /\ UNCHANGED answered
       \/ /\ ops[q].state = "rejected"
          /\ answered' = answered \union {q}
          /\ UNCHANGED workers
  /\ UNCHANGED <<ops, posts, started>>

(* How one request to the provider ends: with an answer, with a failure    *)
(* that may be tried again, or with one that may not.                      *)
Failures == [code : {"timeout", "provider_error", "provider_response_invalid"}, again : {TRUE}]
            \union [code : {"output_truncated", "provider_error"}, again : {FALSE}]

(* generateCandidateWithDeterministicFallback.                             *)
FallsBack(failure) == failure.code \in {"provider_error", "timeout"}

Accepting(w, plan) == [workers EXCEPT ![w].step = "accept", ![w].plan = plan]
Rejecting(w) == [workers EXCEPT ![w].step = "reject"]

(* The last failure of the client: the quick fix, or the end.              *)
GivenUp(w, failure) ==
  LET fixes == QuickFixes(PacketOf[workers[w].request])
  IN IF FallsBack(failure) /\ fixes # {}
     THEN \E plan \in fixes : workers' = Accepting(w, plan)
     ELSE workers' = Rejecting(w)

Post(w) ==
  LET worker == workers[w]
  IN /\ worker.step = "post"
     /\ posts' = [posts EXCEPT ![worker.request] = @ + 1]
     /\ \/ \E plan \in Plans :
             workers' = IF guardCandidatePlan(PacketOf[worker.request], plan)
                        THEN Accepting(w, plan) ELSE Rejecting(w)
        \/ \E failure \in Failures :
             IF failure.again /\ worker.left > 1
             THEN workers' = [workers EXCEPT ![w].left = @ - 1]
             ELSE GivenUp(w, failure)
     /\ UNCHANGED <<ops, started, answered>>

CompleteRejected(w) ==
  /\ workers[w].step = "reject"
  /\ ops' = [ops EXCEPT ![workers[w].request].state = "rejected"]
  /\ answered' = answered \union {workers[w].request}
  /\ workers' = [workers EXCEPT ![w] = NoWorker]
  /\ UNCHANGED <<posts, started>>

CompleteAccepted(w) ==
  /\ workers[w].step = "accept"
  /\ ops' = [ops EXCEPT ![workers[w].request].state = "accepted",
                        ![workers[w].request].plan = workers[w].plan]
  /\ workers' = [workers EXCEPT ![w].step = "start"]
  /\ UNCHANGED <<posts, started, answered>>

StartValidation(w) ==
  /\ workers[w].step = "start"
  /\ started' = started \union {workers[w].request}
  /\ answered' = answered \union {workers[w].request}
  /\ workers' = [workers EXCEPT ![w] = NoWorker]
  /\ UNCHANGED <<ops, posts>>

(* An unknown error, a completion that fails, or a lost delivery.          *)
Lose(w) ==
  /\ workers[w].step # "idle"
  /\ workers' = [workers EXCEPT ![w] = NoWorker]
  /\ UNCHANGED <<ops, posts, started, answered>>

Next ==
  \E w \in Workers :
    \/ Reserve(w) \/ Replay(w) \/ Post(w) \/ CompleteRejected(w)
    \/ CompleteAccepted(w) \/ StartValidation(w) \/ Lose(w)

Spec == Init /\ [][Next]_vars

-----------------------------------------------------------------------------
(* The external operation of a request, and what a delivery has reserved.  *)
CandidateGenerationReservation ==
  [state : {"free", "claimed", "accepted", "rejected"},
   attempt : 0..MaxAttempts + 1, plan : {None} \union Plan]

Execution ==
  [step : {"idle", "post", "accept", "reject", "start"}, request : {None} \union Requests,
   attempt : 0..MaxAttempts + 1, left : 0..MaxTransportAttempts, plan : {None} \union Plan]

(* The variables have their types.                                         *)
TypeOK ==
  /\ started \subseteq Requests /\ answered \subseteq Requests
  /\ ops \in [Requests -> CandidateGenerationReservation]
  /\ workers \in [Workers -> Execution]

(* A request whose delivery is acknowledged is rejected for good or its    *)
(* candidate is under validation, whatever was lost or repeated on the way *)
(* (generate, startValidation).                                            *)
AnsweredIsSettled ==
  \A q \in answered : ops[q].state = "rejected" \/ (ops[q].state = "accepted" /\ q \in started)

(* Only a candidate that adds the expected package to a manifest that may  *)
(* be written, with the probes its targets require, is ever validated,     *)
(* whoever proposed it (guardCandidatePlan, createDeterministicNpmQuickFix, *)
(* startValidation).                                                       *)
ValidatedIsGuarded ==
  \A q \in started :
    LET plan == ops[q].plan
        packet == PacketOf[q]
    IN /\ ops[q].state = "accepted"
       /\ plan.package = "expected" /\ plan.evidence = "finding"
       /\ plan.file \in packet.manifests /\ plan.file \notin packet.lockfiles
       /\ packet.permitted /\ (packet.targets => plan.probes)

(* What a request may cost over all its attempts: the last attempt of the  *)
(* budget posts once, the one before it at most twice, and no attempt      *)
(* beyond the budget posts at all (generateStructured).                    *)
PostsBounded ==
  \A q \in Requests : 2 * posts[q] <= MaxAttempts * (MaxAttempts + 1)
=============================================================================
