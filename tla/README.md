# A formal model of the Environment Reconciler

The repository is a system that watches what coding agents do to a developer's
environment, carries the evidence to a server and turns disagreements between
manifests and observed state into validated repairs. This directory holds TLA+
modules translated from its source, TLC configurations that check them on small
instances, and proofs checked by TLAPS.

## 1. The system

```
 VS Code extension ── commands ──> companion controller ── spawn, IPC ──> companion (Rust)
                                                                           │ lease, redaction
                                                                           v
                                                                   encrypted spool (SQLite)
                                                                           │ signed batches
                                                                           v
 browser ──> worker (Cloudflare): routes, sessions ── ingestion service ── R2 + Postgres + queue
   ^ polls           │                                                     │
   └─ updates        │ configuration, collaboration                        v
                     └───────────── reconciliation <── checkpoints <── queue consumer
                                          │ findings, candidates
                                          v
                  candidate generation ── validation in two sandboxes ── verification ── pull request
                                          │                                               ^
                                          v                                               │
                                        outbox                      GitHub app: webhooks, repository access
```

| component | state it keeps | operations | what is hard about it | correctness |
|---|---|---|---|---|
| encrypted spool (`crates/companion/src/spool/mod.rs`) | six SQLite tables, the crypto state in memory | append, next_batch, record_retry, acknowledge, key rotation, open | two lookups in append with the connection released between them; restart between any two transactions; a batch that must be sent again unchanged | links and head agree, nothing is lost, counted twice or deleted early |
| observation lease (`observation_lease.rs`) | state, deadline, quiet barrier, lineage, live set | process start and exit, end, poll, checkpoint done | reports late and out of order, deadline racing quiet period | a drain that ends early missed nothing; it always ends |
| companion runtime and IPC (`main.rs`, `ipc.rs`, extension `companion/ipc.ts`) | the active observation in memory, a socket, one connection at a time | handshake; status, start, checkpoint, stop | client timeouts after the effect, crash with an active observation, retries on fresh connections | evidence per session is well formed; an outcome tells the truth about its request |
| device key store (`REDACTEDs.rs-f30112b81faa`) | versions and the active one per purpose, in the OS store | load, rotate | two writes per rotation; two first launches | the active version can be loaded |
| ingestion service (`apps/worker/src/domain/ingestion`) | none of its own: bucket, Postgres rows, queue | ingestEventBatch | every await of two concurrent requests; invocation lost between put, commit, publish and mark | one chain per stream, receipts are honoured |
| queue consumer (`apps/worker/src/queues`) | anchors | consume, retry, dead letter, recovery | duplicates and any order | each batch is anchored or kept as a dead letter |
| GitHub credential and sessions (`apps/worker/src/auth`) | credential row with a refresh lease, browser sessions | access token, sign-in, logout, revoke | single-use refresh grants, leases that expire, lost answers | no rotation is lost or overwritten, a call revokes only after a grant GitHub refuses, nobody is let in after a logout |
| devices, workspaces, projects (`api/device-enrollments`, `devices`, `workspaces`, `projects`) | enrolments, invitations, device credentials, members | create, redeem, register, authenticate, revoke, link | one-time grants redeemed twice, at the second they expire | one caller is served, in time |
| extension (`apps/extension/src`) | stored connection, project, capture | start, stop, scan, connect, link, disconnect | commands race over one controller and one stored capture | the stored capture is the observed one |
| collaboration (`api/collaboration`) | members, comments, approvals, audit | role change, approve, comment, revoke device | READ COMMITTED transactions | one owner left, approvals final |
| configuration (`api/configuration`) | revisions per project, candidates | read, edit, append a revision | versions checked outside the advisory lock; candidates changed at the same time | no edit is lost, stale candidates are marked, a document stays readable |
| state transitions, audit, external operations (`packages/db/src`) | state columns, transition keys, entries by idempotency key | transition, append, reserve | retries after later transitions, conflicting insertions | a repeated call is told what happened |
| checkpoint reconciliation (`services/reconcile-checkpoint.ts`) | findings, candidate requests | reconcile | findings read before they are replaced; lost deliveries | every finding of a finished checkpoint is requested a candidate |
| candidate generation (`services/generate-candidate.ts`, `integrations/src/fireworks`) | reserved operations | reserve, post, guard, fall back, complete, start | a delivery lost anywhere; two executions | only guarded plans are validated; completed work is settled |
| model registry (`services/model-registry.ts`) | versions of a prompt template | propose, promote, retire | load, judge and activate are three steps | the active version passed the gate |
| npm materializer (`services/npm-validation-materializer.ts`) | a sandbox workspace | inspect, upload, extract, mutate, npm, verify, download | names and sizes given by header, prefix or extended header, slashes at their end | what tar writes was inspected; only the operation has changed |
| candidate validation (`services/validate-candidate.ts`, `workflows`) | sandboxes, reservation, result | provision, run, clean up, complete | lost provider answers, crash between begin and complete, sandboxes that appear late | no more sandboxes outlive a verdict than appeared late; a verdict rests on the plan's commands |
| verification rules (`validation-safety.ts`, `derive-validation-target.ts`, `validation-outcomes.ts`, `behavior-policy.ts`) | contract, schedule, cache, attestation | derive, acquire, finish, reuse, attest | facts that age between two steps | verified means that every required target passed, now |
| pull requests (`apps/worker/src/github/client.ts`) | branch and pull request on GitHub | apply the changes and open | pushes between two calls, lost answers, repeats | a pull request offers what was verified |
| GitHub app and repository access (`apps/worker/src/github`) | installation state, deliveries | webhook, lifecycle, credentials, paged listings | deliveries lost, late and repeated; lists that change while read | deleted stays deleted; only what the user has is authorized |
| Braintrust outbox (`services/braintrust-outbox.ts`) | outbox rows | enqueue, claim, export, record | stale claims, failing bookkeeping | attempts bounded, exported is final |
| web polling (`apps/web/src/hooks`, `api`; worker `api/workspace-updates`) | what is shown, cursor, etag | poll, rerun, answer | an effect that runs again while a poll is under way | what is shown is what its etag names, and catches up |
| reconciliation rules (`packages/REDACTED/src`) | none | pure functions | precedence of evidence | rule output is the definition of a disagreement |

`PROJECT.json` lists the remaining parts (provider adapters, redaction,
ecosystem adapters, generated contracts, the demo) with the reason each is not
modelled, and every hazard of the code at its line.

## 2. Modules

| module | what it is | uses |
|---|---|---|
| `EventLog` | abstract: an append-only log with a delivered prefix | |
| `Spool` | the spool, one variable per table, one action per transaction | `EventLog`, by refinement |
| `ObservationLease` | the lease against a late process observer | |
| `CaptureSession` | editor commands, companion controller and companion runtime of one machine | |
| `Ipc` | one local connection after another: bind, handshake, request, answer | |
| `EvidenceStream` | abstract: one log that grows by whole batches, each accepted, handed over, anchored and acknowledged in that order | |
| `Ingestion` | the ingestion service over its three stores, the consumer, its recovery | `EvidenceStream`, by refinement |
| `GitHubCredential` | refresh lease, sign-in, revocation and sessions of a user | |
| `Accounts` | sessions, enrolments, invitations, devices, linked projects | |
| `Collaboration` | requests as statements of READ COMMITTED transactions | |
| `StateTransitions`, `Ledger` | the compare-and-set of a state; the two records by idempotency key | |
| `Configuration` | goals, contracts, policies, and the candidate made under them | `StateTransitions`, composed |
| `Reconciliation` | findings replaced and candidates requested | |
| `Generation` | from a candidate request to a validation | |
| `ModelRegistry` | versions of a prompt template | |
| `Materializer` | one candidate made real in a sandbox | |
| `Validation` | one batch: deliveries of the workflow, two sandboxes, the provider | |
| `Verification` | contract, targets, schedule, cache, verdict | |
| `PullRequest`, `RepositoryAccess`, `GitHubApp` | what is asked of GitHub, and what it tells | |
| `Outbox` | rows, drains and the trace provider | |
| `WorkspacePolling` | the polling hook, its client and the route | |
| `Companion` | `ObservationLease` and `CaptureSession` | both, instantiated |
| `Access` | `GitHubCredential`, `GitHubApp`, `PullRequest`, `RepositoryAccess`, `Accounts`, `Ipc`, `Collaboration` | all, instantiated |
| `WorkerServices` | `Validation`, `Outbox`, `WorkspacePolling`, `Ingestion` | all, instantiated |
| `Control` | `StateTransitions`, `Configuration`, `Ledger`, `Reconciliation`, `ModelRegistry`, `Generation`, `Verification`, `Materializer` | all, instantiated |
| `MCSpool`, `MCIngestion` | constants of one module for TLC | |
| `MCCollaboration`, `MCConfiguration`, `MCPullRequest` | constants of the runs that show a violation | |
| `MCCompanion`, `MCAccess`, `MCWorkerServices`, `MCControl` | constants of `Companion`, `Access`, `WorkerServices`, `Control`, and the behaviours TLC searches | |
| `SpoolProofs`, `SpoolTablesProofs`, `IngestionProofs` | theorems about `Spool`, its tables, `Ingestion` | TLAPS |
| `CompanionProofs` | theorems about `Companion`, and about the commands of `MCCompanion` that never overlap | TLAPS |
| `GitHubProofs`, `AccessProofs` | theorems about `Access`; the first has the four components that talk to GitHub, the second extends it | TLAPS |
| `WorkerServicesProofs`, `ControlProofs` | theorems about `WorkerServices` and `Control` | TLAPS |

`Companion`, `Access`, `WorkerServices` and `Control` set components that share
no state side by side. Each component has variables of its own, `Spec` is the
conjunction of the components' specifications, and a property is that of one
component or the conjunction of what several of them promise of the same kind.
The theorems are about these `Spec`s (one, `ClaimIsTrueAlways`, is about the
part `serial` of `MCCompanion`, whose commands never overlap). TLC would multiply the states of one
component with those of the others, so the `MC` modules let one component move
(`part` says which) while the others stay as they begin; as no component reads
another's variables, every state of a component is met that way.

### On the developer's machine

`Spool`: variables are the tables and columns of `initialize_schema`;
`storedKeys` is the operating system's credential store, `heldKeys`,
`activeKey` and `signingKey` are `CryptoState`, and `appending` holds what a
thread inside `append` carries from its first lookup to its transaction.
`append` is four actions (begin, replay, refuse, commit), `next_batch` one,
`record_retry` one, `acknowledge` one with everything its transaction does.
Reloading a pending batch, a duplicate acknowledgement and reads change no
table and have no action. A hash is the sequence of events it covers, so a
chain is linked exactly when the sequences extend each other. `Restart` is a
crash or an exit at any point.

`ObservationLease`: the methods of the lease are the actions. Host and observer
are external: processes fork and exit, and the observer reports each start and
each exit at most `MaxDelay` later, starts in order, exits in any order after
their own start. `PolicyAssumption` states what the quiet period is for: it
exceeds the reporting delay.

`CaptureSession`: `stored` is `PersistentExtensionState`, `child` and `ipc` are
the controller's fields, `proc`, `signalled` and `active` what is known of each
Companion process, `log` the evidence of all sessions, `inbox` the requests a
Companion has not served. The editor is one thread, so an action is what a
command does between two awaits. The exit event of a process resumes every
`stop()` that waits for it at once. A request that timed out stays in `inbox`
and may be served later. SIGTERM only sets a token the accept loop reads after
a connection, hence `Kill` after the timeout. `Crash` is a Companion that ends
on its own, `HostRestart` an extension host that ends and activates again.

`Ipc` is what `CaptureSession` takes for granted, a request that is served once
or fails: the socket is bound before it is private, one connection is served at
a time, both sides prove the secret of the launch over both nonces, the client
times out, and `#request` of the controller tries again on a fresh connection
exactly after the errors that leave no doubt. A code of authentication is the
triple of what it is made of.

### Evidence on the server

`Ingestion`: one `requests[r]` record per invocation holds what it has read so
far and the step it resumes at; every await of `ingestEventBatch` and
`#deliverAndReceipt` is an action. `Abandon` is an invocation that ends between
two awaits, `RollBack` a transaction that finds the stream moved on.
`Republish` and `MarkRecovered` are `recoverStoredNotEnqueued` of the consumer,
for rows that were committed and never published. Bucket, database and queue
are external: a put that happens only if the key is free, a transaction on the
stream's row, delivery at least once with a bounded number of attempts before
the dead letter queue. A ciphertext is the number of the call of `protect` that
made it, since each draws a fresh nonce.

### Who may do what

`GitHubCredential`: `calls[c]` is one call of `accessToken`, with the clock it
read, the grant it read and the pair it obtained; `signIns[s]` one OAuth
callback. Each SQL statement or transaction is an action, as is each answer of
GitHub. Token pairs are numbered as GitHub mints them.

`Accounts`: a call of `Begin` names what is asked (authenticate, logout, redeem
an enrolment or an invitation, use or revoke a device, invite, link) and each
read and each write of the service is an action of its own: the row that
`SessionRequest`, `FindGrant` or `DeviceRequest` read may be gone when
`SessionAnswer`, `ConsumeGrant` or `DeviceAnswer` use it.

`Collaboration`: a request is authorized on a connection of its own, then
`LockMember`, `CountOwners`, `InsertApproval` or `RevokeDevice` are the
statements of its transaction, and `Commit` makes its writes and its audit
record visible together. Row locks and keys being inserted are `Free`.

`GitHubApp`: a worker's `job` is the delivery it handles between the awaits of
`handleGitHubWebhook` (reserve, publish, mark) or the credential it asks for.
The delivery store, the queue and its consumer are what their interfaces say.
`RepositoryAccess`: one call lists the user's installations and then the
repositories of one, page by page, while GitHub changes both between pages.
`PullRequest`: a call carries what it has read and made from one request to
GitHub to the next; `Push` is somebody else's, `Lose` an invocation that ends.

### From a checkpoint to a verified change

`StateTransitions` is the UPDATE and, on a miss, the SELECT of
`state-transitions.ts` for callers that repeat their calls; `Ledger` the INSERT
... ON CONFLICT DO NOTHING and the SELECT of the audit log and of external
operations. `Configuration` reads a revision on one connection (`Read`) and
appends on another (`AppendRevision`, with the candidates it makes stale, or
`RollBack`); it is composed with the callers of `StateTransitions` over the
same candidate, so a candidate may be moved on and made stale in either order.

`Reconciliation` and `Generation` have one record per delivery, with the await
it stands at; deliveries are repeated, run beside each other and are lost. In
`Generation` a plan and the packet it answers are what `guardCandidatePlan`
tells apart, and `Attempts` is the client's budget of requests. The reservation
port promises that a concurrent claimant receives `in_progress` (`InProgress`);
completions carry no attempt, and none is assumed to be refused.
`ModelRegistry` loads, judges and asks the store in three actions.

`Materializer` inspects an archive header by header as
`inspectTrustedTarGzipArchive` does, with what a pax or long name header leaves
for the next entry in `pending`. A name is the sequence of its segments, the last
one empty if it ends in a slash: `normalizeArchivePath` drops that slash
(`Normalized`). `Extract` is tar, which names entries by its own rules and makes a
directory of a regular file whose name ends in a slash (`MakesFile`). Then one dependency is set, npm may do anything to the workspace,
and `VerifyTree` compares it with the inventory taken before. `Start` refuses an
archive of the wrong size or digest, `ReaderFails` is a stream that ends early
or exceeds the reader's limit.

`Validation`: `runs[<<d, k>>]` is the local state of `#run` for delivery `d` and
kind `k`, one action per provider call in the order of the source; `Caught` is
its catch block and decides whether `finally` has anything to delete. A call may
fail with or without its effect. `RequestSandbox` and `Appear` are apart because
the provider may create a sandbox after the call that asked for it has failed;
`late` remembers those whose delivery was over by then. `Begin` and `Complete`
take the store of reservations from the contract in the source: one delivery
executes, another may take over from one that has ended. `planned` are the runs
the plan has commands for; of an empty list nothing runs, and the run counts as
passed. `Accounted` counts: the next delivery takes the first sandbox it finds,
which may be a late one, so that another stays alive in its place.

`Verification` calls the rules with the facts as they stand while the contract,
the source, the candidate patch and the policy (`subject`) change between any two
calls; of the thirteen digests of a cache key those four and the target's are
kept, the others do not change: `Derive` answers the targets that are
asked for, `Acquire` and `Finish` schedule their runs within the budget,
`Reuse` takes a result of the cache, `Attest` asks the one classifier that may
say verified. A run ends with one of `Faults`, what is known of it. The runner is
not in the repository: that it attests results of one contract, source, patch
and policy only (`Attest`) is what `VerifiedIsEarned` takes on trust. `Acquire`
decides and takes a slot in one step, since nothing in the repository does either.

`Outbox`: `drains[d].queue` is what a drain has claimed and not settled, head
first, each record with the attempt its claim counted. `due` stands for
`nextAttemptAt` and for the age of a claim. Whether a failure may be retried is a
flag of the error, which goes with no failure class (`Failures`). The store accepts an outcome only
for the row's latest attempt, which is what the attempt count is passed for and
what the fake of the test suite does.

`WorkspacePolling`: `effect` is what the present run of the hook's effect closes
over, `requests[r]` the request of run `r` on its way, `view` what the hook
returns. `Rerun` is React's: closures start anew, what is shown stays. A body is
named by the version and the cursor it is computed from, and is its own etag.

## 3. Runs

Six runs pass. What each asks:

| run | parts and bounds | question |
|---|---|---|
| `spool` | 3 event ids, 2 payloads, 2 threads, limits of 3 events and 3 bytes, batches of 2, 2 key versions, 1 retry | do the tables agree after every interleaving; may any step forget a capture, delete early or alter a signed batch; does the spool implement `EventLog`? |
| `ingestion` | 4 batches (two in a chain; under the next key a fork of it and the second one signed again), 2 requests, 6 seals, 1 lost invocation | do two concurrent uploads ever fork the stream, break a receipt or leave one without evidence; does the service implement `EvidenceStream`? |
| `companion` | lease: 2 descendants and a foreign process, quiet 2, timeout 4, delay 1, clock 6. capture: 2 commands at a time, 3 issued, 2 processes, 1 crash, no restart. serial: 1 command at a time, 4 issued, 3 processes, 1 restart of the host, no crash. Processes are launched in one order. 387,000 states | does a drain miss a process, time out without reason or never end; is the evidence of a session well formed, is a Companion lost sight of, does what is told to end do so; is the saved capture what is observed? |
| `access` | credential: 2 calls, 2 sign-ins, a refresh life of 3 and a clock of 4 while nothing is lost, time and losses at most 2 together otherwise. app: 4 deliveries (an installation deleted and created, a pull request labelled, a push without signature), 2 installations of which one is linked, 2 workers. pull request: a verified and a changed operation, 2 workers, 1 push, 3 commits. repositories: 2 installations and 2 repositories, or 1 and 3, pages of 1, 2 pages at most, 2 changes. sessions, enrolments and invitations: 2 callers, 3 or 4 calls, clock 2. ipc: one caller with and one without the secret, 2 attempts. collaboration: 2 users, a device, 2 requests at a time, 3 issued, 1 fault. 782,000 states | is a rotation lost; is anybody let in who is out; is a grant redeemed twice; is GitHub told a delivery is dealt with that is not; does a pull request offer anything else than was verified; does an outcome lie about its request; are approvals final and the audit log exact? |
| `worker_services` | validation: 3 deliveries, the third only where no candidate run has begun, 2 faults, plans with commands and without. outbox: 2 rows, 2 drains, batches of 2, 2 attempts, 2 faults. polling: 2 changes, 2 runs of the effect, 2 failures, one partial version. ingestion: 1 batch, 2 requests, 2 lost invocations, 1 redelivery. 306,000 states | are sandboxes accounted for and verdicts earned; do rows settle within their attempts; does the page catch up; is what was committed processed? |
| `control` | transitions: 3 kinds of rows, 2 callers, 2 keys. ledger: 2 writers, 1 key, 2 ids. configuration: 3 users, 2 edits at a time, 2 revisions, forms a read accepts (the others are the question of `configuration_unreadable`), a caller that moves the candidate. reconciliation: 2 checkpoints with a common finding, 2 deliveries. generation: 2 requests of which one may not be granted, 4 plans, 2 attempts of 3 requests, 2 deliveries. registry: 2 versions, 2 callers, 2 promotions. materializer: archives of up to 4 headers out of 12, 2 entries, 2 units of bytes. verification: 2 targets that are alike, 7 requests, 10 ends of a run, 1 run at a time, cost 2, 1 attempt, 1 change. 808,000 states | are repeated calls told what happened; is an edit lost or a stale candidate left; is anything undone that was final; is an unguarded plan validated; is the tree changed by more than the operation; is verified earned? |

Six runs show a violation, each of one property that a document, a comment or a
test of the repository states:

* `ingestion_retry`: `design.md` line 1425 wants retries to be idempotent; an
  invocation lost between the object put and the commit leaves an object sealed
  with another nonce, and every retry answers `object_store_conflict`. How far
  that goes is part of `NothingDangles`, and proved: each lost invocation keeps
  out at most one batch the stream has still to come to (`Blocked`), and the
  loser of a race none.
* `capture_link`: the message of `extension.ts` line 231 says that observation
  "remains paused until you start it", but `saveProject` (`storage.ts` line 57)
  only drops the saved capture and the Companion goes on observing.
* `github_credential_race`: the comment of `revokeCredentialAndSessions`
  restricts revocation to a grant the provider has refused; because the grant is
  read before the lease is taken, the slower of two calls presents the grant the
  faster has rotated out, and revokes the credential just renewed.
* `last_owner`: `service.test.ts` line 108 wants at least one owner preserved;
  the transaction locks the row of its target and counts owners it has not
  locked, so two transactions that demote different owners both commit.
* `configuration_unreadable`: a PATCH of a behaviour contract is checked by less
  than the next read of it asks, so one accepted edit makes every later read and
  edit throw; requirement 10.2 says the commands can be reviewed and edited.
* `pull_request_retry`: requirements.md line 589 wants retries to reconcile the
  existing resource; a repeated operation makes a new commit, finds the branch of
  its first attempt with another head and answers `branch_conflict`.

Why the bounds are enough. In the spool three events make a full batch, a
partial one and a queued row at once, the byte limit is reached by one large and
one small payload, and two threads are all that the connection's lock lets
compete for a slot; one rotation separates a row's key from the active one. In
ingestion four batches contain every relation two uploads of a stream can have:
duplicate, successor, fork, same id with another digest. The lease's clock lets
a drain start late, be disturbed once and reach the deadline. Two overlapping
commands meet every pair of the editor's handlers, and the third acts on what
they left; four serial commands are start, stop, start and one more, which is
what it takes for a late request of one session to meet the next. In the
credential two calls suffice for every race over one lease, and two sign-ins
for a row that is replaced while a call is on its way; the clock passes the life
of a refresh grant only while nothing is lost, which is when a call that is
merely slow meets it. A repository listing of
two pages can lose an item between them, and one of three exceeds its pages.
The webhooks contain the deletion of an installation, an event of it that may
come late, one of a pull request and one that is refused. Two callers of a one-time
grant race for it, a third redeems it late. Three deliveries of a validation are
two that are lost, one of them with a sandbox that appears late, and one that
finds what they left; the two kinds of runs share nothing but their delivery, so
what three deliveries do to one is shown by the baseline's. Two drains are one
that is overtaken and one that overtakes; two faults exhaust the two attempts. Two runs
of the polling effect are one whose answer comes late and the present one. Four
headers are an extended header, the entry it speaks of and two more of which one
may be under the other. Everything else races two callers, which is what one
compare-and-set, one lock or one key can tell apart.

Events, threads, receipts and requests are interchangeable in `spool` and
`ingestion`, the calls and the sign-ins of the credential in `access`, the targets
of the verification in `control`; runs that check liveness use none. Deadlock is checked in `spool` and `ingestion_retry`. The
other runs may stop: every invocation, command, delivery or request is over and
nobody asks for more, or the bounded clock has stopped.

### Fairness

The lease assumes that time passes, that the observer reports, and that the
owner of the lease polls it, which is how `advance` is meant to be called. In
`capture` the steps by which a command continues are fair per command: timers
fire and promises settle; nothing is assumed of the Companion, which may never
answer, or of the user. In `Outbox` drains are started again and again, their
calls are answered or fail, backoffs and the leases of lost claims end; lost
drains and leases that end while their drain is at work are bounded. In
`WorkspacePolling` a timer that is set rings, and a request is answered or
fails. For `Ingestion` the runtime resumes an invocation that can run, the
queue delivers a message it holds (Cloudflare's at-least-once delivery), and a
device repeats an upload it has no receipt for (strong fairness, since a request
slot must be free at the time; the spool keeps a batch pending until it is
acknowledged); lost invocations are not fair and are bounded. Everything else is
safety and assumes nothing.

## 4. Theorems

Each holds for every value of the module's constants that satisfies the named
assumption. An invariant the runs check is seldom inductive; what it takes in
addition is the argument.

* `SpoolProofs`, under `LimitsAssumption` and `NoBatchAssumption`: `SpecTypeOK`; `SpecChainIntact`, the
  links and the head that `verify_integrity` walks along (not the keys it decrypts
  with: the rows sealed before a rotation cannot be read after a restart), for which the pending batch must own exactly the
  rows up to its last sequence (`PendingOwnsPrefix`) and the newest hash cover
  every event so far (`HeadCoversLog`); `SpecImplementsEventLog`, the log being
  the chain head and the delivered prefix the pruned sequence.
* `SpoolTablesProofs`, under the same: `SpecBatchesUpload`, `SpecReceiptsExact`,
  `SpecHistoryIsKept`, `SpecWithinLimits`. An acknowledgement finds receipts
  through `batch_events` and rows through their batch id; that these are the
  same needs that `batch_events` has entries of the pending batch only
  (`EventsOfPending`) and that every row has the receipt of its event
  (`RowsHaveReceipts`). `BatchesUpload` includes what the service's
  `verifyCompanionBatch` and `assertContinuesStream` ask of the pending batch,
  `UploadContinues`: that it links to the last event acknowledged needs that a
  row's hash covers its predecessor's and the first one the pruned head
  (`HashesCover`). The bytes of the spool are a sum over the rows, a fold. Its
  value is the number of units of the rows' sizes (`SumCounts`); a least set of
  rows for which it were not would have a row to take away
  (`FS_StrictSubsetOrderingWellFounded`), and of finite sets of units the
  library tells how many there are (`Weighed`).
* `IngestionProofs`, under `IngestionAssumption`: `TypeOKAlways`,
  `OneChainAlways`, `NothingDanglesAlways`, `EvidenceIsKeptAlways`. The
  invariant says what still holds of what an invocation read before its await;
  it is kept because the stores only grow (`Kept`), and the chain by the
  comparison of the stream's state in the commit. `NothingDangles` counts the
  objects left behind (`LeftBehind`): the state a request has read is the
  present one or the stream has passed it (`RacesLost`), so whoever loses the
  commit leaves an object the stream has passed. The last theorem is the
  refinement of `EvidenceStream` (and that nothing accepted is altered): an
  upload takes effect where it commits, for a batch nobody can have published
  or anchored (`CommitRefines`); whatever is published first hands it over,
  later copies do nothing (`SendingRefines`); the consumer anchors the batch of
  its message and no other, because two accepted batches never end at the same
  event (`ConsumerRefines`).
* `CompanionProofs`, under `CompanionAssumption` (the policy of the drain and
  the bounds of the commands): `CompanionTyped`, `DrainCanFinishAlways`,
  `NothingMissedAlways`, `CheckpointIsEvidenceAlways`, `NoOrphanAlways`.
  `LeaseSound` relates the lease to the host it sees only through reports: a
  process to be reported whose parent is known and gone started before the
  quiet barrier rose (`QuietCovers`), so a quiet period longer than the delay of
  reports leaves none. `CaptureSound` relates a process to the log: it is active
  exactly between the start and the stop of its session, has one request to
  start, and each request leaves at most one event. Whoever waits for an exit
  has sent the signal; that is why a Companion nobody refers to is on its way
  out. `ClaimIsTrueAlways` holds of commands that never overlap, by `SerialSound`:
  what the one command has done of what it will do, and that a request which is
  served late reaches nobody who is observed (`LateIsHarmless`).
* `GitHubProofs` and `AccessProofs`, under `AccessAssumption`: `AccessTyped`,
  `AccessRotationIsKept`, `AccessCredentialsAreKept`, `AccessDealtWith`,
  `AccessOnlyTheVerified`, `AccessOutIsOut`, `AccessRedeemedOnce`,
  `AccessOutcomesTellTruth`, `AccessDecisionsHonoured`. `CredentialSound`: while
  nothing is lost, who has spent the grant in the row holds its lease, or was
  outlived by it (`SpentByHolder`), and a pair still to be stored is nobody else's.
  `AppSound`: a worker publishes what passed every check and marks what the
  queue has. `PullSound` follows a call from what it has checked to its commit
  and its branch: a commit of an operation is exact and on its base, and a branch
  that holds it stays. `RepositoriesSound`: which pages a
  call has read, and that what it found is exactly what those pages hold unless
  the lists have changed meanwhile. `AccountsSound`: rows only grow, and the
  call about to register is the one that consumed the enrolment; who was served
  by a grant is who consumed it, and nobody else (`RedeemedSound`). `IpcSound`:
  how far the Companion is with a connection and how far its caller; only the
  last connection of a caller is live. `CollaborationSound`: two transactions
  never hold the same row, and what was decided, or revoked, when one has locked
  its row has not changed since. From it follows what remains true where run
  `last_owner` fails, `LoneDemotionsKeepAnOwner`: a workspace of finitely many
  users that has an owner keeps one in every behaviour in which no two
  transactions that demote one overlap. That condition is a hypothesis about
  the behaviour (`DemotionsApart`), which the code does not enforce.
* `WorkerServicesProofs`, under `WorkerServicesAssumption`:
  `WorkerServicesTyped`, `AccountedAlways`, `VerdictIsEarnedAlways`,
  `OutcomesTrueAlways`. `ValidationSound`: one delivery owns the reservation and
  the verdict is what its runs came to; besides the sandbox its owner knows of, a
  kind has no more alive than came late (`LiveOnes`, by counting: each step takes
  from the living, or adds one to both). `Ran`: a run that came through its
  commands ran one exactly if the plan has any. `OutboxSound`: a claim that is the
  latest of its row is one drain's, and every stale claim taken over, like every
  claim nobody guards any more, costs a fault. `PollingSound`: what the effect closes over is what
  its request asks with and what the page shows. `SealsSound`: what a row
  records, or a commit is about to, is the seal of the stored object; otherwise
  a fresh seal need not exist.
* `ControlProofs`, under `ControlAssumption`: `ControlTyped`,
  `ControlAnswersTrue`, `ControlEditsHold`, `ControlGuarded`,
  `ControlNothingUndone`, `ControlOnlyTheOperation`, `ControlVerifiedIsEarned`.
  Each service has its invariant, named in the head of the module. The log of an
  object climbs its graph, for any graph that only leads upwards in some rank
  (`TransitionsSound`); revisions build on each other and the candidate is of
  those it names until it is stale (`ConfigurationSound`), and what a read
  refuses is the last of its kind (`ReadableSound`, hence `ReadableOrLast`, which
  bounds what `configuration_unreadable` shows); whoever is answered, or refused
  the INSERT, left an entry (`LedgerSound`); what a promotion saw of a version stays so at that revision
  (`RegistrySound`); a result rests on versions no older than an attestation
  needs (`VerificationSound`); what is pending is what extends the next entry
  (`MaterializerSound`).

But for the two that bound a violation (`LoneDemotionsKeepAnOwner`,
`ReadableOrLast`), the theorems listed in
`PROJECT.json` state the very properties the runs check. All the invariants
above are conjunctions of named parts. Two places of the models were
corrected because a proof failed there: a file whose name is the root directory
alone is not extracted (`FilesExtracted` of `Materializer`), and the row dates
the life of a grant from when its caller read the clock, a little before GitHub
issued it (`Outlived` of `GitHubCredential`).

Only model-checked: liveness (`EndsWhenTold`, `Settles`, `CommittedIsProcessed`:
the prover has neither ENABLED nor a rule for fairness). Every safety property
of a passing run is proved.

## 5. Not modelled

Cryptography (hashes, signatures and ciphertexts are what they cover), text
(redaction, canonical JSON, file formats), clients' HTTP, rendering (`App.tsx`),
generated code, parsers of manifests and lock files, provider adapters, the
reconciliation rules (pure functions; what they find for a checkpoint is a
constant of `Reconciliation`), the sponsor demo. No disk corruption and no
tampering: the spool's tables are what the transactions wrote.

Not in the repository, and therefore external or absent: the uploader that would
connect the spool to the ingestion service, the consumer of webhook messages,
the service behind the workspace updates, and the Postgres ports of devices,
workspaces, projects, reconciliation, generation, the registry and validation.
Those that a module needs do what their interfaces' comments ask for.
`index.ts` answers every webhook with 503 (lines 268 to 276), so `GitHubApp` is
the handler as it would run once it is wired. `EventBatchConsumer.handleDelivery`
is called by tests only.

Of the modelled parts: `Validation` leaves receipts and run records out, and a
sandbox that the provider creates after its delivery is over is ended by its
time to live, or by a later delivery that happens to find it (`Accounted` counts
these). `Configuration` has one candidate, there from the start. `CaptureSession` leaves
coverage reports and the service's API out. `Ipc` leaves the Windows pipe out,
which has no read timeout. `GitHubApp` leaves the reading of repository content
out, `GitHubCredential` the sealed cookie of the sign-in.

The key store's `rotate` is one step of `Spool`: its two writes to the
credential store, and two processes that launch first at the same time, are not
modelled.

## 6. Plan

1. The two writes of the key store's rotation as steps of `Spool`, with their
   restart in between, and the first launch of two processes.
2. `Spool` and `Ingestion` over a network that loses and repeats, once there is
   an uploader: what was pruned is what the server holds.
3. Proofs: the key store's two writes, once they are steps.
4. The reconciliation rules against a reference definition over bounded
   evidence.
