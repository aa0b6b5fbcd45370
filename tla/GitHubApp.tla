------------------------------- MODULE GitHubApp -------------------------------
(***************************************************************************)
(* What the worker does with GitHub's app webhooks                         *)
(* (apps/worker/src/github/webhook.ts), with the lifecycle of an           *)
(* installation (installation-lifecycle.ts and its Postgres store), and    *)
(* with a request for a credential of one repository (the two brokers).    *)
(* The delivery store, the queue and the queue's consumer are interfaces   *)
(* only: the store is what its contract says, the queue may hand a message *)
(* over late, twice and in any order, and the consumer applies installation*)
(* events.                                                                 *)
(***************************************************************************)
EXTENDS Naturals, FiniteSets

CONSTANTS
  Deliveries,      \* what GitHub delivers, each as often as it likes
  Content,         \* the content of a delivery: a record of Contents
  Installations,   \* the installations a delivery or a request may name
  Linked,          \* the installations linked to a workspace
  Archived,        \* the linked installations whose repository is archived
  Workers,         \* requests being handled
  None

VARIABLES
  stored,          \* the outcome of each stored delivery
  queue,           \* the deliveries whose message has been published
  link,            \* the row of each linked installation
  job,             \* what each worker is doing
  answers          \* what has been answered to each delivery

vars == <<stored, queue, link, job, answers>>

Purposes == {"contents_read", "contents_write", "pull_requests_write"}

Contents == [size : {"fits", "too_large", "empty"}, signed : BOOLEAN,
             id : BOOLEAN, event : STRING, action : STRING,
             installation : Installations \union {None}]

ContentAssumption == /\ Content \in [Deliveries -> Contents]
                     /\ Archived \subseteq Linked
                     /\ Linked \subseteq Installations

AllowedActions ==
  [installation |-> {"created", "deleted", "new_permissions_accepted",
                     "suspend", "unsuspend"},
   installation_repositories |-> {"added", "removed"},
   pull_request |-> {"closed", "opened", "reopened", "synchronize"},
   push |-> {""}]                        \* a push carries no action

\* The first check a request fails, in the order they are made.
Refusal(c) ==
  IF c.size = "too_large" THEN "payload_too_large"
  ELSE IF c.size = "empty" THEN "invalid_body"
  ELSE IF ~c.signed THEN "invalid_signature"
  ELSE IF ~c.id THEN "invalid_delivery"
  ELSE IF c.event \notin DOMAIN AllowedActions THEN "invalid_event"
  ELSE IF c.installation = None THEN "invalid_body"
  ELSE None

Accepted(c) == c.action \in AllowedActions[c.event]

Idle == [at |-> "idle"]

Init == /\ stored = [d \in Deliveries |-> "absent"]
        /\ queue = {}
        /\ link = [i \in Linked |-> [suspended |-> FALSE, deleted |-> FALSE]]
        /\ job = [w \in Workers |-> Idle]
        /\ answers = [d \in Deliveries |-> {}]

Answer(w, d, code) == /\ answers' = [answers EXCEPT ![d] = @ \union {code}]
                      /\ job' = [job EXCEPT ![w] = Idle]

\* The store's claim: one worker at a time works on a stored delivery.
Claimed(d) == \E w \in Workers : job[w].at \in {"publish", "mark"} /\ job[w].d = d

Refuse(w, d) == /\ job[w] = Idle
                /\ Refusal(Content[d]) # None
                /\ Answer(w, d, Refusal(Content[d]))
                /\ UNCHANGED <<stored, queue, link>>

\* reserve() stores the delivery and takes the claim, or says it was handled.
Reserve(w, d) ==
  /\ job[w] = Idle
  /\ Refusal(Content[d]) = None
  /\ \/ /\ stored[d] \in {"enqueued", "ignored"}
        /\ Answer(w, d, "duplicate")
        /\ UNCHANGED stored
     \/ /\ stored[d] \in {"absent", "pending"}
        /\ ~Claimed(d)
        /\ stored' = [stored EXCEPT ![d] = "pending"]
        /\ job' = [job EXCEPT ![w] =
             [at |-> IF Accepted(Content[d]) THEN "publish" ELSE "mark", d |-> d]]
        /\ UNCHANGED answers
     \/ Answer(w, d, "storage_unavailable") /\ UNCHANGED stored
  /\ UNCHANGED <<queue, link>>

PublishFailureSwallowed(w) ==
  /\ job[w].at = "publish"
  /\ job' = [job EXCEPT ![w].at = "mark"]
  /\ UNCHANGED <<stored, queue, link, answers>>

Publish(w) ==
  /\ job[w].at = "publish"
  /\ queue' = queue \union {job[w].d}
  /\ job' = [job EXCEPT ![w].at = "mark"]
  /\ UNCHANGED <<stored, link, answers>>

Outcome(d) == IF Accepted(Content[d]) THEN "enqueued" ELSE "ignored"

MarkHandled(w) ==
  /\ job[w].at = "mark"
  /\ LET d == job[w].d
     IN  /\ stored' = [stored EXCEPT ![d] = Outcome(d)]
         /\ Answer(w, d, Outcome(d))
  /\ UNCHANGED <<queue, link>>

\* Publishing or marking fails, before or after it took effect: the answer is
\* 503 and the delivery stays as the store has it.
StepFails(w) ==
  /\ job[w].at \in {"publish", "mark"}
  /\ LET d == job[w].d
     IN  /\ \/ UNCHANGED <<stored, queue>>
            \/ job[w].at = "publish" /\ queue' = queue \union {d} /\ UNCHANGED stored
            \/ job[w].at = "mark" /\ stored' = [stored EXCEPT ![d] = Outcome(d)]
               /\ UNCHANGED queue
         /\ Answer(w, d, "storage_unavailable")
  /\ UNCHANGED link

----------------------------------------------------------------------------

AfterReviving(row, action) ==
  CASE action = "deleted" -> [suspended |-> TRUE, deleted |-> TRUE]
    [] action = "suspend" -> [row EXCEPT !.suspended = TRUE]
    [] action = "unsuspend" -> [row EXCEPT !.suspended = FALSE]
    [] OTHER -> [suspended |-> FALSE, deleted |-> FALSE]

\* The statement of each lifecycle action, on the row of the installation.
After(row, action) ==
  IF row.deleted THEN row
  ELSE CASE action = "deleted" -> [suspended |-> TRUE, deleted |-> TRUE]
         [] action = "suspend" -> [row EXCEPT !.suspended = TRUE]
         [] action = "unsuspend" -> [row EXCEPT !.suspended = FALSE]
         [] OTHER -> row

\* A message of the queue reaches the consumer, again or for the first time;
\* an installation nobody linked changes nothing.
ApplyInstallationLifecycle(d) ==
  /\ d \in queue
  /\ Content[d].event = "installation"
  /\ LET i == Content[d].installation
     IN  /\ i \in Linked
         /\ link' = [link EXCEPT ![i] = After(@, Content[d].action)]
  /\ UNCHANGED <<stored, queue, job, answers>>

Authorized(i, purpose) ==
  /\ i \in Linked
  /\ ~link[i].suspended
  /\ ~link[i].deleted
  /\ purpose # "contents_read" => i \notin Archived

Permissions(purpose) ==
  CASE purpose = "contents_read" -> {"contents:read"}
    [] purpose = "contents_write" -> {"contents:write"}
    [] purpose = "pull_requests_write" -> {"pull_requests:write"}

\* isRepositoryCredentialAuthorized, then the provider is asked.
AskForCredential(w, i, purpose) ==
  /\ job[w] = Idle
  /\ Authorized(i, purpose)
  /\ job' = [job EXCEPT ![w] = [at |-> "issue", i |-> i, purpose |-> purpose]]
  /\ UNCHANGED <<stored, queue, link, answers>>

\* The provider's credential, or any of the ways it is not one.
IssueCredential(w) ==
  /\ job[w].at = "issue"
  /\ job' = [job EXCEPT ![w] = Idle]
  /\ UNCHANGED <<stored, queue, link, answers>>

Next == \/ \E w \in Workers :
             \/ \E d \in Deliveries : Refuse(w, d) \/ Reserve(w, d)
             \/ Publish(w) \/ MarkHandled(w) \/ StepFails(w)
             \/ \E i \in Installations, p \in Purposes : AskForCredential(w, i, p)
             \/ IssueCredential(w)
        \/ \E d \in Deliveries : ApplyInstallationLifecycle(d)

Spec == Init /\ [][Next]_vars

----------------------------------------------------------------------------

\* Every variable stays in its type.
TypeOK ==
  /\ stored \in [Deliveries -> {"absent", "pending", "enqueued", "ignored"}]
  /\ queue \subseteq Deliveries
  /\ link \in [Linked -> [suspended : BOOLEAN, deleted : BOOLEAN]]
  /\ \A w \in Workers : job[w].at \in {"idle", "publish", "mark", "issue"}
  /\ \A w \in Workers : job[w].at = "issue" => Permissions(job[w].purpose) # {}

\* A delivery that GitHub is told is dealt with is: one answered as enqueued or
\* as a duplicate of an accepted one is in the queue, whatever failed before,
\* and one the code ignores never is (webhook.ts:343-363).
DealtWith ==
  \A d \in Deliveries :
    /\ answers[d] \intersect {"enqueued", "duplicate"} # {} /\ Accepted(Content[d])
         => d \in queue
    /\ d \in queue => Refusal(Content[d]) = None /\ Accepted(Content[d])

\* An installation GitHub has told us is deleted stays so, whichever of its
\* events come late or again, and no credential is asked for it after
\* (postgres-installation-state-store.ts:60-90).
KeepsDeleted ==
  \A i \in Linked : link[i].deleted =>
    /\ link'[i].deleted
    /\ \A w \in Workers :
         job'[w].at = "issue" /\ job'[w].i = i => job[w] = job'[w]

(* KeepsDeleted holds of every step (recordDeletedInstallation).           *)
DeletedForGood == [][KeepsDeleted]_vars
=============================================================================
