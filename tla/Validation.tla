----------------------------- MODULE Validation -----------------------------
(***************************************************************************)
(* The validation of one repair candidate in two provider sandboxes        *)
(* (apps/worker/src/workflows/validate-candidate.ts and                    *)
(* services/validate-candidate.ts, over the Daytona client).               *)
(*                                                                         *)
(* A delivery of the workflow reserves the batch, runs the baseline and    *)
(* the candidate concurrently, each in a sandbox of its own, and stores    *)
(* one verdict.  Every call to the provider is an action with an effect    *)
(* and an answer, and either may be missing; a delivery may be lost        *)
(* between any two of them.                                                *)
(*                                                                         *)
(* The store of reservations is external: it lets one delivery execute at  *)
(* a time and may let another take over from one that has ended.  So is    *)
(* the provider: a sandbox carries the label of its run kind, may appear   *)
(* after the call that asked for it has failed, and vanishes when its time *)
(* to live is over.                                                        *)
(*                                                                         *)
(* Abstractions.  A run asks for at most one sandbox, which bears the name *)
(* of the run.  A passed command that is followed by another changes       *)
(* nothing.  Durations, digests, receipts and the run records returned     *)
(* with the verdict are left out.                                          *)
(***************************************************************************)
EXTENDS Integers, FiniteSets

CONSTANTS
  Deliveries,   \* deliveries of the workflow message
  MaxFaults,    \* bound: failed calls, lost deliveries, expired sandboxes
  None

Kinds == {"baseline", "candidate"}
Runs == Deliveries \X Kinds

Statuses == {"behavior_contract_missing", "cleanup_failed",
             "infrastructure_error", "baseline_already_passed",
             "inconclusive", "verified", "candidate_failed"}

ValidationAssumption ==
  MaxFaults \in Nat /\ None \notin Deliveries \union Runs \union Statuses

VARIABLES
  accepted,     \* plan.acceptedBehaviorContract
  planned,      \* the runs for which the plan has any command
  reservation,  \* who may execute the batch, and the stored verdict
  delivery,     \* new, validating, linking or over
  runs,         \* the local state of #run
  sandboxes,    \* none, requested, live or deleted, by the run that asked
  late,         \* sandboxes that appeared after their delivery had ended
  touched,      \* the runs that put source into a sandbox
  summaries,    \* terminal summaries appended to the reasoning trace
  faults        \* faults so far

provider == <<sandboxes, late, touched>>
vars == <<accepted, planned, reservation, delivery, runs, provider, summaries, faults>>

-----------------------------------------------------------------------------
NewRun == [step |-> "find", sandbox |-> None, provisioned |-> FALSE,
           infrastructure |-> FALSE, commands |-> "none", cleaned |-> FALSE]

Init ==
  /\ accepted \in BOOLEAN /\ planned \in SUBSET Kinds
  /\ reservation = [owner |-> None, status |-> None]
  /\ delivery = [d \in Deliveries |-> "new"]
  /\ runs = [r \in Runs |-> NewRun]
  /\ sandboxes = [r \in Runs |-> "none"]
  /\ late = {}
  /\ touched = [r \in Runs |-> {}]
  /\ summaries = {}
  /\ faults = 0

At(r, step) == /\ accepted /\ delivery[r[1]] = "validating"
               /\ runs[r].step = step

Become(r, next) == runs' = [runs EXCEPT ![r] = next]

(* The catch block; finally has something to delete only if the sandbox is *)
(* known.                                                                  *)
Caught(x) == [x EXCEPT !.infrastructure = TRUE,
                       !.step = IF x.sandbox = None THEN "done" ELSE "cleanup"]

Throw(r) == Become(r, Caught(runs[r]))

Fault == faults < MaxFaults /\ faults' = faults + 1

Step(r, A) == A /\ UNCHANGED <<accepted, planned, reservation, delivery, summaries>>

(* findSandboxByOperationKey lists by label and takes the first.           *)
Labelled(kind) == {s \in Runs : s[2] = kind /\ sandboxes[s] = "live"}

-----------------------------------------------------------------------------
(* beginOneTargetValidation.  The store need not notice that the owner of  *)
(* the reservation has ended.                                              *)
Begin(d) ==
  /\ delivery[d] = "new"
  /\ LET owner == reservation.owner
     IN \/ /\ reservation.status = None
           /\ owner = None \/ (owner # None /\ delivery[owner] = "over")
           /\ reservation' = [reservation EXCEPT !.owner = d]
           /\ delivery' = [delivery EXCEPT ![d] = "validating"]
        \/ /\ reservation.status = None /\ owner # None      \* in_progress
           /\ delivery' = [delivery EXCEPT ![d] = "over"]
           /\ UNCHANGED reservation
        \/ /\ reservation.status # None                      \* replayed
           /\ delivery' = [delivery EXCEPT ![d] = "linking"]
           /\ UNCHANGED reservation
  /\ UNCHANGED <<accepted, planned, runs, provider, summaries, faults>>

Recovered(x, s) == Caught([x EXCEPT !.sandbox = s])

(* A sandbox left by an earlier delivery is deleted, never used.           *)
Find(r) ==
  /\ At(r, "find")
  /\ \/ /\ \/ \E s \in Labelled(r[2]) : Become(r, Recovered(runs[r], s))
           \/ /\ Labelled(r[2]) = {}
              /\ Become(r, [runs[r] EXCEPT !.step = "provision"])
        /\ UNCHANGED faults
     \/ Throw(r) /\ Fault
  /\ Step(r, UNCHANGED provider)

RequestSandbox(r) ==
  /\ At(r, "provision")
  /\ sandboxes' = [sandboxes EXCEPT ![r] = "requested"]
  /\ Become(r, [runs[r] EXCEPT !.step = "provisioning"])
  /\ Step(r, UNCHANGED <<late, touched, faults>>)

Provisioned(r) ==
  /\ At(r, "provisioning") /\ sandboxes[r] \in {"live", "deleted"}
  /\ Become(r, [runs[r] EXCEPT !.step = "inspect", !.sandbox = r])
  /\ Step(r, UNCHANGED <<provider, faults>>)

(* create() fails, or gives up on a sandbox that exists or will exist.     *)
ProvisionFails(r) ==
  /\ At(r, "provisioning")
  /\ Throw(r) /\ Fault
  /\ Step(r, UNCHANGED provider)

(* What the provider says of a sandbox that is asked for.                  *)
Ready(s) == sandboxes[s] = "live"

(* A call on the run's sandbox: to the next step, or an exception; there   *)
(* is no answer from a sandbox that is gone.                               *)
Call(r, step, next) ==
  /\ At(r, step)
  /\ \/ /\ Ready(runs[r].sandbox)
        /\ Become(r, next) /\ UNCHANGED faults
     \/ /\ sandboxes[runs[r].sandbox] = "deleted"
        /\ Throw(r) /\ UNCHANGED faults
     \/ Throw(r) /\ Fault

(* inspectSandbox; a sandbox that is not ready is a fault of the provider. *)
Inspect(r) ==
  /\ Call(r, "inspect", [runs[r] EXCEPT !.step = "source", !.provisioned = TRUE])
  /\ Step(r, UNCHANGED provider)

Touch(r) == touched' = [touched EXCEPT ![runs[r].sandbox] = @ \union {r}]

MaterializeSource(r) ==
  /\ Call(r, "source",
       [runs[r] EXCEPT !.step = IF r[2] = "candidate" THEN "candidate" ELSE "commands"])
  /\ Touch(r)
  /\ Step(r, UNCHANGED <<sandboxes, late>>)

MaterializeCandidate(r) ==
  /\ Call(r, "candidate", [runs[r] EXCEPT !.step = "commands"])
  /\ Touch(r)
  /\ Step(r, UNCHANGED <<sandboxes, late>>)

(* A command exits, well or not, or is stopped when its time is over; its  *)
(* hosts are open while it runs, and an answer that does not parse, or     *)
(* hosts that cannot be closed again, are exceptions.                      *)
ExecuteCommand(r, result) ==
  Call(r, "commands", [runs[r] EXCEPT !.step = "cleanup", !.commands = result])

(* The commands run until one does not pass; of an empty list none runs,   *)
(* and nothing is asked of the sandbox.                                    *)
RunCommands(r) ==
  /\ \/ /\ r[2] \in planned
        /\ \E result \in {"passed", "failed", "timed_out"} : ExecuteCommand(r, result)
     \/ /\ r[2] \notin planned
        /\ At(r, "commands")
        /\ Become(r, [runs[r] EXCEPT !.step = "cleanup"])
        /\ UNCHANGED faults
  /\ Step(r, UNCHANGED provider)

CleanupAssumed(x, deleted) == [x EXCEPT !.step = "done", !.cleaned = TRUE]

Cleaned(x, deleted) ==
  [x EXCEPT !.step = "done", !.cleaned = deleted,
            !.infrastructure = @ \/ ~deleted]

(* The finally block.  deleteSandbox fails for a sandbox that is gone, and *)
(* its answer may be lost.                                                 *)
Cleanup(r) ==
  LET s == runs[r].sandbox
  IN /\ At(r, "cleanup")
     /\ \/ /\ Ready(s)
           /\ sandboxes' = [sandboxes EXCEPT ![s] = "deleted"]
           /\ Become(r, Cleaned(runs[r], TRUE)) /\ UNCHANGED faults
        \/ /\ Ready(s)
           /\ sandboxes' \in {sandboxes, [sandboxes EXCEPT ![s] = "deleted"]}
           /\ Become(r, Cleaned(runs[r], FALSE)) /\ Fault
        \/ /\ sandboxes[s] = "deleted"
           /\ Become(r, Cleaned(runs[r], FALSE)) /\ UNCHANGED <<sandboxes, faults>>
     /\ Step(r, UNCHANGED <<late, touched>>)

-----------------------------------------------------------------------------
CanaryPassed == TRUE

(* No control canary runs: controlCanaryPassed is always undefined.        *)
ControlCanaryPassed == FALSE

(* classifyRun and classifyValidationFault: a run in which no command      *)
(* failed or was stopped has passed, one without commands too.             *)
TerminalClass(x) ==
  IF ~x.cleaned THEN "cleanup_failed"
  ELSE IF x.infrastructure \/ ~x.provisioned THEN "infrastructure_failed"
  ELSE IF x.commands \notin {"failed", "timed_out"} THEN "passed"
  ELSE IF ~ControlCanaryPassed THEN "inconclusive"
  ELSE IF x.commands = "timed_out" THEN "timed_out"
  ELSE "project_or_candidate_failed"

(* CandidateValidationService.validate.                                    *)
Status(d) ==
  LET class == [k \in Kinds |-> TerminalClass(runs[<<d, k>>])]
      baseline == class["baseline"]
      candidate == class["candidate"]
  IN IF ~accepted THEN "behavior_contract_missing"
     ELSE IF \E k \in Kinds : ~runs[<<d, k>>].cleaned THEN "cleanup_failed"
     ELSE IF \E k \in Kinds : class[k] = "infrastructure_failed"
          THEN "infrastructure_error"
     ELSE IF baseline = "passed" THEN "baseline_already_passed"
     ELSE IF baseline # "project_or_candidate_failed" THEN "inconclusive"
     ELSE IF candidate = "passed" THEN "verified"
     ELSE IF candidate = "project_or_candidate_failed" THEN "candidate_failed"
     ELSE "inconclusive"

(* completeOneTargetValidation; without its answer the delivery is over.   *)
Complete(d) ==
  /\ delivery[d] = "validating"
  /\ accepted => \A k \in Kinds : runs[<<d, k>>].step = "done"
  /\ \/ /\ reservation' = [reservation EXCEPT !.status = Status(d)]
        /\ delivery' = [delivery EXCEPT ![d] = "linking"]
        /\ UNCHANGED faults
     \/ /\ reservation' \in {reservation, [reservation EXCEPT !.status = Status(d)]}
        /\ delivery' = [delivery EXCEPT ![d] = "over"]
        /\ Fault
  /\ UNCHANGED <<accepted, planned, runs, provider, summaries>>

(* A summary that cannot be appended is deferred.                          *)
LinkSummaryBestEffort(d) ==
  /\ delivery[d] = "linking"
  /\ delivery' = [delivery EXCEPT ![d] = "over"]
  /\ \/ summaries' = summaries \union {reservation.status} /\ UNCHANGED faults
     \/ UNCHANGED summaries /\ Fault
  /\ UNCHANGED <<accepted, planned, reservation, runs, provider>>

-----------------------------------------------------------------------------
Lose(d) ==
  /\ delivery[d] \in {"validating", "linking"}
  /\ delivery' = [delivery EXCEPT ![d] = "over"]
  /\ Fault
  /\ UNCHANGED <<accepted, planned, reservation, runs, provider, summaries>>

(* The provider creates what was asked for, also when nobody waits.        *)
Appear(s) ==
  /\ sandboxes[s] = "requested"
  /\ sandboxes' = [sandboxes EXCEPT ![s] = "live"]
  /\ late' = IF delivery[s[1]] = "over" THEN late \union {s} ELSE late
  /\ UNCHANGED <<accepted, planned, reservation, delivery, runs, touched, summaries,
                 faults>>

(* The time to live of a sandbox is over.                                  *)
Expire(s) ==
  /\ sandboxes[s] = "live"
  /\ sandboxes' = [sandboxes EXCEPT ![s] = "deleted"]
  /\ Fault
  /\ UNCHANGED <<accepted, planned, reservation, delivery, runs, late, touched,
                 summaries>>

Next ==
  \/ \E d \in Deliveries :
       Begin(d) \/ Complete(d) \/ LinkSummaryBestEffort(d) \/ Lose(d)
  \/ \E r \in Runs :
       \/ Find(r) \/ RequestSandbox(r) \/ Provisioned(r) \/ ProvisionFails(r)
       \/ Inspect(r) \/ MaterializeSource(r) \/ MaterializeCandidate(r)
       \/ RunCommands(r) \/ Cleanup(r)
  \/ \E s \in Runs : Appear(s) \/ Expire(s)

Spec == Init /\ [][Next]_vars

-----------------------------------------------------------------------------
(* The row of a batch; what #run knows of itself, its phases and its       *)
(* outcome; and what there is of each sandbox.                             *)
Reservation == [owner : Deliveries \union {None}, status : Statuses \union {None}]

Run == [step : {"find", "provision", "provisioning", "inspect", "source",
                "candidate", "commands", "cleanup", "done"},
        sandbox : Runs \union {None}, provisioned : BOOLEAN,
        infrastructure : BOOLEAN,
        commands : {"none", "passed", "failed", "timed_out"},
        cleaned : BOOLEAN]

(* Every variable has its type.                                            *)
TypeOK ==
  /\ accepted \in BOOLEAN /\ planned \subseteq Kinds
  /\ reservation \in Reservation
  /\ delivery \in [Deliveries -> {"new", "validating", "linking", "over"}]
  /\ runs \in [Runs -> Run]
  /\ sandboxes \in [Runs -> {"none", "requested", "live", "deleted"}]
  /\ late \subseteq Runs
  /\ touched \in [Runs -> SUBSET Runs]
  /\ summaries \subseteq Statuses
  /\ faults \in 0..MaxFaults

(* After a stored verdict other than cleanup_failed no more sandboxes of a *)
(* kind are alive than appeared late, after the delivery that had asked    *)
(* for them: each of the others has been deleted, whichever deliveries     *)
(* asked for them and were lost, unless a late one was found and deleted   *)
(* in its place (#run, findSandboxByOperationKey takes the first it finds).*)
Accounted ==
  reservation.status \notin {None, "cleanup_failed"} =>
    \A k \in Kinds : Cardinality(Labelled(k)) <= Cardinality({s \in late : s[2] = k})

(* A verdict on the project or the candidate comes from two sandboxes that *)
(* the delivery had created itself, that no other run put source into and  *)
(* that are gone, and from the commands the plan has, run in them; a plan  *)
(* without commands for the baseline counts as a baseline that passed, and *)
(* a failing baseline is no proof as long as no control canary vouches for *)
(* the sandbox (#run, classifyRun, validate).  The reasoning trace gets no *)
(* other summary than the stored verdict's, replays included.              *)
VerdictIsEarned ==
  LET d == reservation.owner
  IN /\ summaries \subseteq {reservation.status}
     /\ reservation.status \in {"baseline_already_passed", "inconclusive",
                                "verified", "candidate_failed"} =>
          /\ \A k \in Kinds : /\ touched[<<d, k>>] = {<<d, k>>}
                              /\ sandboxes[<<d, k>>] = "deleted"
                              /\ runs[<<d, k>>].commands # "none" <=> k \in planned
          /\ reservation.status = "baseline_already_passed" <=>
               runs[<<d, "baseline">>].commands \in {"none", "passed"}
          /\ reservation.status \notin {"verified", "candidate_failed"}

=============================================================================
