# Formal model of deploy-api

This directory models the deployment service in TLA+: how a deployment request
becomes a job, how the job reaches a worker, and what the job's database row
says while requests, retries, timeouts, crashes and restarts interleave; what
the attempts of a job build, verify and hand to the cluster; and what clients
and the learning analyzer read meanwhile. TLC checks the modules on small
instances; TLAPS proves the main safety properties for every size.

## 1. Inventory of the system

| Component | State it keeps | Operations | Interacts with |
|---|---|---|---|
| Job creation, `internal/api/handlers.go` | none between requests; a transaction while one runs | `handleCreateJob` | Postgres (six calls), Redis (one call) |
| Job storage, `internal/models/db.go`, migrations | tables `jobs`, `idempotency_keys`, `job_events`; unique index `idx_jobs_one_active_deploy` | `CreateJobTx`, `CreateIdempotencyKeyTx`, `GetActiveDeployment`, `UpdateJobStatus`, `ListJobs`, ... | API and worker |
| Job model, `internal/models/job.go` | - | statuses, stages, `ValidTransition`, `IsTerminal` | nothing calls the last two |
| Task queue, `internal/queue` over asynq | tasks in Redis: pending, active, retried count, archive | `EnqueueDeployJob`, delivery, retry, timeout, shutdown | API pushes, worker consumes |
| Worker and orchestrator, `cmd/worker`, `internal/worker/orchestrator.go` | one attempt per slot | deploy handler, `Execute` | queue, Postgres, stages |
| Key clean-up, `cmd/worker/main.go` | - | hourly `DeleteExpiredIdempotencyKeys` | races requests |
| Stages, `internal/worker/{clone,build,push,manifest,verify,apply,health}.go` | workspace directory, images, cluster objects | one function per stage | Docker, registry, k3s |
| Verification, `internal/verification/heuristic.go` | - | four checks and a score | manifest directory |
| Job reads, `handleListJobs`, `handleGetJob`, `ListJobs`, `GetJob` | the client's offset | count and page, one row | read what requests and the worker write |
| Authorization, `internal/api/{router,middleware,abac}.go`, `policies/abac` | - | route, role and action to verdict | every API request |
| Learning, `internal/learning` | - | daily statistics over finished jobs | Postgres, read only |
| Migrations, `internal/migrations` | schema version | `Run` at start of both processes | Postgres |
| AI judge, logging, tracing, metrics | - | - | the judge is never called |

What is hard in this system:

- `handleCreateJob` decides on two reads that are stale by the time it writes.
  The unique indexes of Postgres are the real arbiters, and one of them makes a
  request wait for another request's open transaction.
- One request writes two stores. Job and key are one transaction; the task in
  Redis is not part of it.
- asynq repeats attempts. A retry runs `Execute` from its first line on a job
  that may be FAILED, RUNNING or even COMPLETED, possibly while a newer job of
  the same target exists.
- A status update can be lost (ended context), applied without being confirmed
  (lost reply), or overwrite what someone else wrote (it has no condition).
- The workspace directory, the image in the Docker daemon, the image in the
  registry and the one on a node outlive an attempt and are named after the job.
  A retry works over what is left, while the branch has moved on, and a push
  reaches the registry before anything is verified.
- A list of jobs is read by two statements and page by page by offset, from a
  table that others write.

What makes each part correct: at most one active job per target; equal requests
share one job for 24 hours; a 201 is about a real job; a created job reaches the
queue and ends; two attempts never deploy one target together; the recorded
stage follows the pipeline; a task that is done belongs to a job that says so;
an attempt applies what it cloned; a request that names the namespace it acts on
is decided as the README's table of tokens says; a scan of the list misses only
what left it.

## 2. Modules

| Module | Models |
|---|---|
| `JobModel` | statuses, stages, `validTransitions`, `IsTerminal`, the index predicate |
| `Admission` | the abstract promise: admission of a request in one atomic step |
| `Intake` | `handleCreateJob` call by call, both tables, the index, the pool, key expiry; the worker as an environment that updates statuses |
| `Deployment` | extends `Intake` with asynq and the worker: one action per call of the deploy handler and of `Execute` |
| `AuditTrail` | `UpdateJobStatus` as its two statements: one job's row and its `job_events` under Execute's calls |
| `Verification` | MANIFEST_GENERATING and VERIFYING: rendering, the four checks, the score |
| `Pipeline` | extends `Verification` with CLONING, BUILDING, PUSHING and the hand-over to the cluster, over several attempts at one job |
| `Rollout` | APPLYING and HEALTH_CHECKING of several jobs in one cluster, next to the cluster's controllers |
| `Authorization` | routes, middleware and policy |
| `Listing` | extends `Authorization` with the two read handlers, a client that pages through the list, and the writers of the table |
| `Learning` | one analysis of finished jobs, from the query to the recommendation |
| `MCIntake`, `MCDeployment`, `MCPipeline`, `MCRollout`, `MCReads` | instances for TLC |
| `IntakeProofs`, `DeploymentProofs`, `AuditTrailProofs`, `VerificationProofs`, `RolloutProofs`, `PipelineProofs`, `ListingProofs`, `LearningProofs` | theorems |

`Deployment` EXTENDS `Intake` and reuses its request actions and its two status
updates, so `Intake`'s specification is both a component and the abstraction of
the whole. `Intake` in turn implements `Admission` (`ImplementsAdmission`).
`Deployment` reduces a status update to one step and a stage to success or
failure; `AuditTrail` opens the first, `Pipeline` (with `Verification`) and
`Rollout` open the second. `Listing` reads what `Intake` and `Deployment` write,
reduced to rows that appear and change their status as `StatusMoves` of
`JobModel` says; that the writers make no other moves is a theorem
(`StatusesMove`).

### Intake and the code

A request's name stands for the UUID of the job it may create, because a
request inserts at most one job. `status` is `jobs.status` with ABSENT for a row
that does not exist or is not committed; `keys` is `idempotency_keys`; `pc` is
the place in `handleCreateJob`:

| `pc` | next call | action |
|---|---|---|
| lookup | `GetIdempotencyKey` | replay 201, or go on (also on any error) |
| guard | `GetActiveDeployment` | 409, or go on (also on any error) |
| begin | `BeginTx` | takes a pooled connection |
| insert | `CreateJobTx` | waits for an uncommitted row of the target; then succeeds or violates the index (500) |
| key | `CreateIdempotencyKeyTx` | succeeds, or conflicts and rolls back |
| recover | `GetIdempotencyKey` again | 201 with the original response, or 409 |
| commit | `Commit` | both rows appear at once |
| enqueue | `EnqueueDeployJob` | pushes the task, 201 |

Postgres is modelled at the level the code relies on: statements are atomic, an
insert that conflicts with an uncommitted row of a unique index waits, a
transaction's rows become visible at its commit. An error of `Commit` or
`Enqueue` leaves open whether the call took effect. The death of a handler
(process crash or recovered panic) rolls back its transaction at that moment,
unless its `Commit` was already on its way.

The unique index covers exactly the triple that `Target` stands for, and the
digest includes all three fields, hence `TargetOf` is a function of the digest.
Hash collisions are left out.

`Cancel` is the operator's `UPDATE jobs SET status='FAILED' WHERE id=...` of
README.md:263. It has no condition on the status: meant for an active job, it
may reach the row after the job has ended, and make COMPLETED into FAILED.

`KeyAges` lets 24 hours pass for a key at any moment. That is more than the
clock allows while a request is in flight (a request lives 60 seconds), so the
safety results do not depend on clocks.

### Deployment and the code

`task`, `retried` and `at`/`pos` are the asynq task, its failed attempts, and
the place of the running attempt in the handler and in `Execute`. Each stage is
two actions, `EnterStage` (`UpdateJobStatus(RUNNING, stage)`, whose error makes
`Execute` return at once) and `RunStage`; `RecordFailure` is the update whose
error is dropped, `RecordSuccess` the last update, whose error fails the
attempt. `WorkerCrash` ends an attempt at any point, with a status update on its
way applied or not, and `Timeout` the context of one: a call that was in Postgres
returns the context's error and the attempt ends with it; a stage returns the
context's error to `Execute`, which then records FAILED on the context that has
ended (`at` is "late"), in vain. asynq (external, v0.26) is modelled from how
`queue.go` configures it: at-least-once delivery, MaxRetry retries and then the
archive, attempts with an expired lease count as failed, a graceful shutdown
puts unfinished tasks back without counting. `Requeue` lets the abandoned
handler's status update land or not, because the process exits under it.

Faults are selected by the constants `Faults` (of requests: `db`, `redis`,
`crash`, `operator` for the manual cancel of the README, `expiry` for the 24
hours) and `WorkerFaults` (`stage`, `db`, `timeout`, `crash`, `shutdown`), so
that each run shows which fault a property survives.

### AuditTrail and the code

`step` is the next statement of the attempt: `update` (the UPDATE, whose error
makes the caller return), `insert` (the INSERT of the event, whose error is
dropped), `stage` (the stage function runs). `call` holds the arguments of
`UpdateJobStatus`. `writes` and `origins` are history variables: every value
`UpdateJobStatus` gave the row, and for each event the place in `writes` of the
update it records. `Cancel` is the operator's UPDATE, which writes the status
alone, at any time, and leaves no event.
`Coalesce` is the identity on its first argument because the Go string that is
passed is never NULL.

### Verification and the code

`pc` walks through the four checks in the order of `RunHeuristicVerification`.
A check's text is reduced to the one thing the score asks of it, whether it
contains "not installed" or "skipping" (`skipped`). A program that is installed
and fails may print either word, hence `ToolFailure`. Overrides are sets with at
most one element, as the Go pointers are; CPU is counted in ten-thousandths of
a core so that `int(cores * 1000)` really truncates, and negative values are
included because the API does not check them.

Quantities are a number and a unit; `parseMemory` goes up to the `Gi` suffix,
the largest that TLC's 32-bit integers hold. The templates produce `m` and `Mi`.

### Pipeline and the code

`at` is the stage of the current attempt. `workspace` is the commit in
`/tmp/workspaces/<id>`, `local` and `registry` the image under the job's tag in
the daemon and in the registry, `node` the image a node has pulled. Commits are
numbered in the order in which they became the branch's latest, which is what
the shallow clone takes. `EndAttempt` ends an attempt between or inside the
stages, for whatever reason, and optionally takes the container's workspace with
it; `CloneFails` leaves the directory empty; `Build` and `Push` may be cut off
after the daemon or the registry has the image. Nodes pull under Kubernetes'
default for a tag other than `latest` (IfNotPresent; the template sets no
policy): once, at any moment after the Deployment exists.

One attempt of the job runs at a time. This is an assumption, about asynq: a task
is active in one worker until it is acknowledged, rescheduled or its lease has
expired. It is built into `Deployment` as well, whose `at` has one place per job.
`OneDeployerPerTarget` compares different jobs and says nothing of it. An attempt
whose time is over while it is still in a command is outside both models.

### Rollout and the code

One action per call to the Kubernetes API. `doc` is the document the loop of
`apply.go` has reached, `skipped` the kinds whose documents the loop passed over
(an unreadable file, a document that does not parse or has no name, a kind that
`RESTMapping` does not know), `service` the service `checkServiceEndpoint` picked. The model keeps three of the
twelve documents, in the order of `os.ReadDir`. `Fail` ends a stage and forgets
its local variables; the objects it applied stay. `Abandon` stands for whatever
ends an attempt from outside. Pods and endpoints change through four actions of
the cluster's controllers, without fairness: a pod may never come up.
`checkServiceEndpoint` does not use the attempt's context, so its two calls may
run on after the task's time is over; the model allows that, `Abandon` being
optional.

### Authorization, Listing and the code

A request carries its method, pattern, token and `?namespace=`, and with `target`
what the middleware does not look at: the body's `target_namespace` of a POST, or
the namespace of the job whose id a GET names. `ActsOn` is the set of namespaces
its handler goes by: `target`, or for a list the parameter, and all of them
without it. `Route` is
`MountRoutes`, `authMiddleware` its checks in the code's order, `allow` the
policy. The policy engine must be up before the server starts, so the
middleware's nil check is never taken.

The middleware judges a request by the parameter, or by `sandbox`, whatever the
handler acts on; its comment at middleware.go:23 says that this is not meant to
stay. So README.md:90-92, by which dev-token is for sandbox and staging, holds of
those requests of dev-token only that act on exactly the namespace they are judged
by. The others (`JudgedElsewhere`: a POST for another namespace than its parameter
names, a list without the parameter, a GET of a job elsewhere) are let through or
refused by a namespace that has nothing to do with them. `AnsweredAsDocumented` is
about all requests but these, and holds every answered row of a list against the
table as well.

`Listing` continues in the handler:
`CountJobs` and `FetchPage` are the two statements of `ListJobs`, each on its own
snapshot. The client advances its offset by the rows it received and repeats a
page that was answered with 500. `CommitJob` and `UpdateJobStatus` are the other
writers; `steady`, `departures` and `arrivals` are history variables that say what
the client could have expected. `created_at` is set before the insert that may
wait for another transaction, so jobs become visible in any order; two rows with
the same microsecond are left out.

### Learning and the code

The table is given, the most recently updated row first. `ListCompletedJobs` takes
the places of the ended rows of the window, `todo` are those the loop has not come
to, and `AnalyzeRow`, the loop's body, takes the first of them. Go maps are functions, the map order of
the result is left out, and the average of the CPU overrides is a fraction where
the code has a float.

## 3. Runs

| Run | Instance | Shows |
|---|---|---|
| `IntakeSafety` | 4 requests, 2 targets, pool 2, expiry | types, write-once keys, no job without a task, every request is answered |
| `IntakeFaults` | 3 requests on 1 target and an invalid one, every fault | exclusion, deduplication, job with key, honest responses, clean refusals, refinement of `Admission` |
| `DeploymentShutdown` | 2 versions of a target, stage failures, restarts, 2 retries | types, one deployer per target, no stuck job, errors are recorded, every job ends once restarts cease |
| `DeploymentFaults` | the same with stage failures, database errors, timeouts, crashes, an operator, 1 retry | success means recorded, stage order, every task leaves the queue, a manual cancel of a stuck job holds, refinement of `Intake` |
| `PipelineRetries` | 3 attempts, 3 commits, every override, tool selection and tool answer | an attempt applies what it cloned, retries are fresh, nothing older than what was verified runs; score range, missing tools cost nothing, the verdict is never negative |
| `RolloutFaults` | 2 jobs in one namespace, one never ready, 2 attempts, every fault | complete application, what the verdict rests on, every attempt ends |
| `TrailFaults` | 2 attempts, every fault, an operator | an error message belongs to the present status, only the operator fails a job without one, events are a subsequence of the updates |
| `Reads` | every request; scans of 3 jobs with 3 writes; every table of up to 3 rows out of 28 | decisions and lists are the documented ones where the namespace judged is the one acted on, what a scan can miss and repeat, total against rows, exact patterns and suggestions |
| `IntakeDuplicates` | violation | a concurrent duplicate is answered 500 |
| `IntakeOrphan` | violation | a crash between commit and push leaves a job that blocks its target |
| `DeploymentTimeout` | violation | after a timeout in a stage, `Execute` returns with the job RUNNING |
| `RolloutNeighbour` | violation | a job is completed on another job's pods, before it has one |

Bounds. Two identical requests are enough for every race between duplicates; a
third request with another version of the same target meets both an open
transaction and a finished job; a second target shows that the exclusion does
not spread. One retry already reopens a job next to a newer one; two let it be
reopened, lose its target and be reopened again. Two connections can be exhausted
by one transaction that waits for another. In `Rollout` and `AuditTrail` two
attempts are enough, one that failed and its repetition, as nothing but the row,
the objects and the pods survives an attempt. Two jobs are the smallest shared
namespace, and one of them always comes first in the list of services.
`Pipeline` needs three attempts and three commits: a node may keep the first
one's image, the registry the second one's, while the third is being verified.
Three rows, a page of one and three writes (`MaxWrites`) let a page shrink,
grow and shift between two requests; three rows (`MaxRows`) hold two failures of
one stage, with and without a message, next to another row. In `MCReads` the two
readers run side by side without meeting: neither writes, so a behaviour is a
client's or the analyzer's.

Deadlock checking is off because a finite set of requests is eventually served
and the system then rests; bounded attempts, scans and a single analysis or
audit trail simply end.

Fairness. `Handle(r)` and `Attempt(j)` are weakly fair: net/http and asynq run a
handler until it returns, asynq polls while it has a free slot, and its
scheduler and recoverer are periodic. Nothing is assumed about arrivals, faults,
timeouts, shutdowns, expiry or the clean-up. An endless series of graceful
shutdowns starves a task, since a task that is put back does not count as
failed; `EveryJobEnds` therefore assumes `ShutdownsCease`, that the worker is not
restarted for ever. `EveryTaskSettles` needs no such premise, because its run has
no shutdowns, and a crash or timeout counts as a failed attempt. `RFairSpec`
makes the two stages of each job weakly fair: every call returns, and the poll
loop has a deadline (`PodsTimeout`), so nothing is asked of the cluster.

### What the violations mean

1. *Concurrent duplicates.* Both miss the key and pass the guard; the second
   insert waits in the unique index and fails. `ErrIdempotencyKeyExists` is
   reached only if the first job has already ended.
2. *Orphans.* After the commit nothing but the handler pushes the task. If it
   dies, or Redis refuses, the job stays QUEUED: requests for the target get 409,
   and the identical request is answered 201 with the job that never runs.
3. *Timeouts.* The 30 minutes end while a stage runs. The stage returns the
   context's error, `UpdateJobStatus(FAILED)` runs on the same context and fails,
   its error is dropped, and `Execute` returns with the job RUNNING.
   `ErrorMeansFailed` is about the errors `Execute` does try to record; the errors
   of a status update return without any attempt to do so.
4. *Neighbours.* `waitForPodsReady` lists the namespace, not the job. Between the
   patch of a Deployment and the creation of its pod, the ready pods of an
   earlier job are enough, and so is the earlier job's service.

### What the models also show

`VerificationNeverBlocks` holds, and that is worth knowing: the two built-in
checks accept everything the templates can produce, and two of at most four
checks reach the threshold of 50. What kubeconform and trivy report therefore
never stops a deployment.

`NothingOlderRuns` is weaker than one would like, and cannot be stronger: on a
retry the Deployment of an earlier attempt is still in the cluster and names the
same tag, so a node that had not pulled it yet may start the new image as soon
as it is pushed, before it is verified; and a node that had keeps running the
earlier one, although the job is COMPLETED with a newer commit.

`ScanMissesOnlyDepartures` says that paging by offset is safe against new jobs,
which only repeat rows, but not with `?status=`: each row ahead of the client's
offset that leaves the filter can hide one row from the scan.

`SuccessIsRecorded` is a property of steps, because its state counterpart (a
completed task has a COMPLETED job) is false: the operator's UPDATE may come
after the last write. What the code does ensure is that asynq is told of a success
only by the step that wrote COMPLETED, also by an attempt that repeats a completed
one, and that nothing else touches the row afterwards.

`ErrorMeansTerminal` is what remains of "on any error, the job status is updated
to Failed" without timeouts and database errors: an attempt that repeats a
completed one after a shutdown can end with an error, and leaves COMPLETED.

Met while modelling, and not the subject of a run:

- A retry, or an attempt that overwrites a manual `UPDATE jobs SET
  status='FAILED'`, moves a job out of a status the code calls terminal;
  `UpdateJobStatus` has no condition on the current status. `EveryJobEnds`
  shows that such a job still ends. An attempt in its last stage may even turn
  the operator's FAILED into COMPLETED, and the operator's UPDATE a job that has
  just become COMPLETED into FAILED, without a message; both moves are in
  `StatusMoves`.
- dev-token's restriction to sandbox and staging does not reach a request that
  acts on another namespace than its `?namespace=` (see Authorization above).
- The README says each transition is in `job_events`; an attempt that ends
  between the two statements, or a failed INSERT, leaves a gap.
  `EventsAreWrites` is what remains true.
- README.md:268 says the trivy scan is skipped if the image is not accessible;
  the code counts it as failed, unless trivy's own output contains "skipping",
  which takes any failed tool out of the score.
- README.md:229 names `GET /api/v1/recommendations`; no such route is mounted.
- A CPU suggestion may be zero or negative; the memory suggestion is guarded.
- `limit` has no upper bound, and a malformed job id is answered 500.
- The API's shutdown waits 10 seconds, while a request may live for 60: a handler
  may be cut off, with the same consequences as a crash.
- A job's workspace is removed only when the job is cloned again.
- `checkServiceEndpoint` looks at the first service only, although its comment
  speaks of at least one.

## 4. Proofs

`IntakeProofs` proves, for all constants satisfying `IntakeAssumption`, that
`IInv` is inductive. The properties alone are not: exclusion between an insert
and a committed job needs `UncommittedIsExclusive`; that an insert adds a new
job needs `Uncreated`; that a commit does not replace a live key needs
`CommitClear`, which in turn is kept because two transactions with one digest
have one target; that refusals left no job needs `Unanswered`. The proof reduces
the handler's ten actions to three lemmas (it moves on, it answers, it commits)
and the status updates to one; that the operator's UPDATE may hit a finished job
costs nothing, since it only takes a job out of the index. From `IInv` follow `TypeCorrect`,
`TargetExclusion`, `TransactionExclusion`, `KeyedJobs`, `Deduplication`,
`HonestResponses`, `CleanRefusals`, `TasksHaveJobs` and `WriteOnceKeys`.
`EveryJobQueued` (no job without a task) assumes that no call fails and no
handler dies; `HandlerLeavesNoOrphan` is its step.

`ImplementsAdmission` follows step by step: the commit is `Admit`, a 201 is
`Accept`, a status update is `Release`, `Reopen` or invisible.
`WritersKeepToMoves` says which status changes a row can see at all.

`DeploymentProofs` proves `Composition` (`ImplementsIntake`), so that all of the
above holds with the worker attached (`StatusesMove` among it), and with `DInv`, which relates the place
of each attempt to its job's row, `DTypeCorrect`, `CompletionRecorded`,
`StagesInOrder`, `CancelHolds` and, if no operator rewrites statuses,
`DeployerExclusion`. `NobodyStuck` and `ErrorsAreRecorded` assume `Calm`: only
stages fail and workers are only restarted gracefully. `CalmInv` adds to `DInv`
that an active job has a task and that an error was recorded (`SettledOK`); the
refused status update of a retry is the case where both need the exclusion.
`CompletionRecorded` (`SuccessIsRecorded`) and `RestIsStable`, the step behind
`CancelHolds`, have one exception in common, the operator's UPDATE: nothing else
moves a job that was reported as done, or an ended job that has no task.
`EndedForGood` states the latter for every ended job, under every fault; where
no operator interferes it is the part of `EveryJobEnds` that is not liveness.

`AuditTrailProofs` proves `TrailTypeCorrect` and `MessagesAgree`: the arguments of
every call agree (`NextCallOK`), the row takes both over in one statement, and
differs from the latest update at most by an operator's FAILED (`LastWord`).
`TrailIsHonest` says that the events are updates the row went through, each at
most once and in their order. Its invariant adds `Pending`: between an update and
its event the latest entry of `writes` is the one about to be recorded, and no
event stands for it yet.

`VerificationProofs` proves `NeverBlocks` for every set of integers as
overrides. The invariant says which documents were rendered and that the two
built-in checks passed; `TwoPassedSuffice` is the counting: the counted checks
are two, three or four, and at least two of them passed. `VTypeCorrect` shows
the code's cut at 100 to be redundant; `MissingToolsAreFree` is the case in which
all counted checks passed.

`PipelineProofs` follows one commit through the stages (`PInv`): what is known of
the verification stage is kept by the others because the checks live in the
memory of an attempt (`VInvAtRest`, `VInvBeforeRendering`). `PipelineTypeCorrect`,
`Provenance` and `FreshRetries` follow. `VerifiedFirst` needs `Ages` in addition:
the images under the tag only get younger, so what was verified stays a lower
bound for what is pushed later and for what a node has kept.

`ListingProofs` proves `ListingTypeCorrect`, `RequestsDecidedAsDocumented` for any
set of namespaces, and `ScanComplete`. The second has two halves: the policy
agrees with the table wherever it is asked about the namespace acted on
(`PolicyAsDocumented`), and a page shows only such namespaces
(`PageIsPermitted`), because the request being served has passed the middleware
(`Serving`) and the statement filters by what was judged. The third's invariant
counts the rows that have
slipped under the client's offset unseen (`Lost`): a page adds none, because
ranks have no gaps (`RanksAreGapless`) and the rows of a page are the next ones
after the offset (`PageSize`), and a write adds at most one, and only when a row
ceases to match, because ranks then fall by at most one (`RankDrops`); new rows
only raise them (`RankGrows`). `ScanRepeats` and `TotalsAgree` rest on `PageInv`,
which counts in the other direction: the received rows that later pages will show
once more (`Again`) are bounded by the arrivals so far (`RepeatInv`), and between
the two statements of `ListJobs` the matching rows differ from the total by the
arrivals and departures since the count (`CountInv`).

`LearningProofs` proves `PatternsExact` and `SuggestionsReasonable` for tables of
any length. The loop has looked at the places `jobs \ todo`: a stage's counter is
the cardinality of its failures among them and its example one of their messages
(`FailuresInv`); a sum is not computed again but bounded, `low * count <= total
<= high * count` for overrides `low` and `high` among them (`SumOf`), which needs
no induction over the rows. `QuotientBetween` takes the bounds through the
division, which truncates towards zero, and is why the guard `> 0` on memory
matters.

`RolloutProofs` proves `RInv`: the documents before `doc` are applied or skipped
(`Progress`), which becomes `CompleteApplication` when the loop ends, and the
service under examination is one of the namespace (`LocalService`), from which
`VerdictIsLocal` follows. `OneJob` and `FailKeepsRInv` reduce the stages'
actions to what one job's step must keep.

Only model-checked is liveness, which is out of the prover's reach:
`EveryRequestAnswered`, `EveryJobEnds`, `EveryTaskSettles` and
`EveryRolloutEnds`. `ErrorMeansFailed`, `DuplicateNever500`,
`ConflictMeansInProgress` and `CompletedHasPods` are refuted by their runs. Every
other property of a run is the subject of a theorem.

## 5. Not modelled

- The AI judge: nothing calls it. `queue.EnqueueLearningTask` and the learning
  task type have no producer; the queue package's middlewares are not installed.
- `CreateJob`, `CreateJobEvent`, `ListJobEvents` and the `created_after` and
  `created_before` filters: no code outside the tests uses them.
- Migrations: run by both processes at start; the locking is in the migration
  library.
- Logging, tracing, metrics, JSON encodings, URL and flag parsing, process wiring.
- The inside of git, docker, trivy, kubeconform and Kubernetes: external, modelled
  by what their calls can leave behind.
- In `Verification`, reading and writing files does not fail and YAML parses,
  because the files were written by the same attempt; a failed write ends the
  attempt like any failed stage.
- `Rollout` is not composed with `Deployment`: the former already allows any two
  jobs of one namespace to run their stages side by side, which is more than
  `OneDeployerPerTarget` lets happen for one target.
