------------------------------- MODULE Intake -------------------------------
(***************************************************************************)
(* POST /api/v1/jobs.  handleCreateJob (internal/api/handlers.go) against  *)
(* the two Postgres tables it reads and writes (internal/models/db.go,     *)
(* migration 000002), the asynq queue in Redis, and the hourly clean-up of *)
(* idempotency keys.  Each database or Redis call of a handler is one      *)
(* action, so the calls of concurrent requests interleave as they do in    *)
(* the API process.  The worker appears only through the status updates it *)
(* makes; Deployment refines it.                                           *)
(*                                                                         *)
(* A request creates at most one job, under a fresh UUID: the request's    *)
(* own name stands for that UUID.                                          *)
(***************************************************************************)
EXTENDS JobModel, Naturals, FiniteSets

CONSTANTS
    Requests,   \* requests clients may send, and the jobs they may create
    Hashes,     \* values of idempotencyHash
    Targets,    \* (repo_url, branch, target_namespace) triples
    HashOf,     \* the digest of each request
    TargetOf,   \* the target of a digest: the digest covers all three fields
    WellFormed, \* the requests whose body decodes and has the required fields
    PoolSize,   \* connections in the API's pgxpool
    Faults,     \* what may happen in an instance: "db", "redis", "crash",
                \* "operator" (a manual cancel), "expiry" (24 hours pass)
    NoJob

ASSUME IntakeAssumption ==
    /\ HashOf \in [Requests -> Hashes]
    /\ TargetOf \in [Hashes -> Targets]
    /\ WellFormed \subseteq Requests
    /\ PoolSize \in Nat \ {0}
    /\ Faults \subseteq {"db", "redis", "crash", "operator", "expiry"}
    /\ NoJob \notin Requests

VARIABLES
    status,     \* jobs.status, "ABSENT" before the inserting transaction commits
    keys,       \* idempotency_keys: the job a digest's row names
    aged,       \* jobs whose key row is, or was when deleted, older than 24h
    enqueued,   \* jobs whose task was pushed to asynq
    pc,         \* how far each handler has come
    resp        \* the response of each finished handler

vars == <<status, keys, aged, enqueued, pc, resp>>

InTransaction == {"insert", "key", "commit"}
Calls == {"lookup", "guard", "begin", "recover", "enqueue"} \cup InTransaction
Codes == {"201", "400", "409", "500"}
NoResponse == [code |-> "none", job |-> NoJob]

Target(r) == TargetOf[HashOf[r]]

Jobs == {r \in Requests : status[r] # "ABSENT"}

\* GetActiveDeployment's query and the rows of the partial unique index.
ActiveOn(t) == {j \in Jobs : Target(j) = t /\ IsActive(status[j])}

\* Transactions that hold an uncommitted row in the unique index: Postgres
\* makes a second insert (or reactivating update) of the target wait for them.
Uncommitted(t) == {r \in Requests : pc[r] \in {"key", "commit"} /\ Target(r) = t}

\* Variant: no deferred rollback, so a refused insert keeps its connection.
HasConnAfterError(r) == pc[r] \in InTransaction \/ resp[r].code = "500"

\* A transaction keeps its connection; every other call borrows one for the
\* duration of the call.  The conflict path rolls back before it reads again.
HasConn(r) == pc[r] \in InTransaction
ConnFree == Cardinality({r \in Requests : HasConn(r)}) < PoolSize

DbFails == "db" \in Faults
RedisFails == "redis" \in Faults
OperatorCancels == "operator" \in Faults

InFlight(r) == pc[r] \in Calls

Init ==
    /\ status = [r \in Requests |-> "ABSENT"]
    /\ keys = [h \in Hashes |-> NoJob]
    /\ aged = {}
    /\ enqueued = {}
    /\ pc = [r \in Requests |-> "idle"]
    /\ resp = [r \in Requests |-> NoResponse]

-----------------------------------------------------------------------------
(* The handler *)

Goto(r, label) ==
    /\ pc' = [pc EXCEPT ![r] = label]
    /\ UNCHANGED resp

Answer(r, code, job) ==
    /\ pc' = [pc EXCEPT ![r] = "done"]
    /\ resp' = [resp EXCEPT ![r] = [code |-> code, job |-> job]]

db == <<status, keys, aged>>

\* A request arrives, its body is decoded and validated.
Receive(r) ==
    /\ pc[r] = "idle"
    /\ \/ r \in WellFormed /\ Goto(r, "lookup")
       \/ r \notin WellFormed /\ Answer(r, "400", NoJob)
    /\ UNCHANGED <<db, enqueued>>

\* 1. Replay the cached response; any error reads as "no such key".
GetIdempotencyKey(r) ==
    /\ pc[r] = "lookup"
    /\ \/ /\ ConnFree /\ keys[HashOf[r]] # NoJob
          /\ Answer(r, "201", keys[HashOf[r]])
       \/ /\ (ConnFree /\ keys[HashOf[r]] = NoJob) \/ DbFails
          /\ Goto(r, "guard")
    /\ UNCHANGED <<db, enqueued>>

\* 2. Refuse while the target has an active job; an error reads as "none".
GetActiveDeployment(r) ==
    /\ pc[r] = "guard"
    /\ \/ /\ ConnFree
          /\ \E j \in ActiveOn(Target(r)) : Answer(r, "409", j)
       \/ /\ (ConnFree /\ ActiveOn(Target(r)) = {}) \/ DbFails
          /\ Goto(r, "begin")
    /\ UNCHANGED <<db, enqueued>>

\* 3. One transaction for the job row and the key row.
BeginTx(r) ==
    /\ pc[r] = "begin"
    /\ \/ ConnFree /\ Goto(r, "insert")
       \/ DbFails /\ Answer(r, "500", NoJob)
    /\ UNCHANGED <<db, enqueued>>

\* The insert waits for an uncommitted row of the same target, then succeeds
\* or violates idx_jobs_one_active_deploy.
CreateJobTx(r) ==
    /\ pc[r] = "insert"
    /\ \/ /\ Uncommitted(Target(r)) = {} /\ ActiveOn(Target(r)) = {}
          /\ Goto(r, "key")
       \/ /\ Uncommitted(Target(r)) = {} /\ ActiveOn(Target(r)) # {}
          /\ Answer(r, "500", NoJob)
       \/ DbFails /\ Answer(r, "500", NoJob)
    /\ UNCHANGED <<db, enqueued>>

\* Variant: ON CONFLICT DO UPDATE.
UpsertIdempotencyKeyTx(r) ==
    /\ pc[r] = "key"
    /\ Goto(r, "commit")
    /\ UNCHANGED <<db, enqueued>>

\* Variant: the transaction is committed, not rolled back, on a conflict.
KeepJobOnConflict(r) ==
    /\ pc[r] = "key"
    /\ \/ keys[HashOf[r]] = NoJob /\ Goto(r, "commit") /\ UNCHANGED status
       \/ /\ keys[HashOf[r]] # NoJob /\ Goto(r, "recover")
          /\ status' = [status EXCEPT ![r] = "QUEUED"]
    /\ UNCHANGED <<keys, aged, enqueued>>

\* INSERT ... ON CONFLICT (hash) DO NOTHING; on a conflict the transaction is
\* rolled back, job row included.
CreateIdempotencyKeyTx(r) ==
    /\ pc[r] = "key"
    /\ \/ keys[HashOf[r]] = NoJob /\ Goto(r, "commit")
       \/ keys[HashOf[r]] # NoJob /\ Goto(r, "recover")
       \/ DbFails /\ Answer(r, "500", NoJob)
    /\ UNCHANGED <<db, enqueued>>

\* Variant: the conflict path answers with its own, rolled back, job.
RecoverOwnJob(r) ==
    /\ pc[r] = "recover"
    /\ Answer(r, "201", r)
    /\ UNCHANGED <<db, enqueued>>

\* The original response, or 409 when it cannot be read.
RecoverKey(r) ==
    /\ pc[r] = "recover"
    /\ \/ /\ ConnFree /\ keys[HashOf[r]] # NoJob
          /\ Answer(r, "201", keys[HashOf[r]])
       \/ /\ (ConnFree /\ keys[HashOf[r]] = NoJob) \/ DbFails
          /\ Answer(r, "409", NoJob)
    /\ UNCHANGED <<db, enqueued>>

\* Variant: the key is written outside the transaction.
CommittedWithoutKey(r) ==
    /\ status' = [status EXCEPT ![r] = "QUEUED"]
    /\ UNCHANGED <<keys, aged>>

\* The transaction's effect: both rows become visible at once.
Committed(r) ==
    /\ status' = [status EXCEPT ![r] = "QUEUED"]
    /\ keys' = [keys EXCEPT ![HashOf[r]] = r]
    /\ UNCHANGED aged

\* Variant: Commit's error is not looked at.
CommitErrorIgnored(r) ==
    /\ pc[r] = "commit"
    /\ Committed(r) \/ (DbFails /\ UNCHANGED db)
    /\ Goto(r, "enqueue")
    /\ UNCHANGED enqueued

\* When Commit returns an error the transaction may or may not have committed.
Commit(r) ==
    /\ pc[r] = "commit"
    /\ \/ Committed(r) /\ Goto(r, "enqueue")
       \/ /\ DbFails
          /\ Committed(r) \/ UNCHANGED db
          /\ Answer(r, "500", NoJob)
    /\ UNCHANGED enqueued

\* Variant: the request is answered and the task never pushed.
AnswerWithoutTask(r) ==
    /\ pc[r] = "enqueue"
    /\ Answer(r, "201", r)
    /\ UNCHANGED <<db, enqueued>>

\* 4. and 5. Push the task and answer.  The TaskID is the job's own id.
EnqueueDeployJob(r) ==
    /\ pc[r] = "enqueue"
    /\ \/ /\ enqueued' = enqueued \cup {r}
          /\ Answer(r, "201", r)
       \/ /\ RedisFails
          /\ enqueued' \in {enqueued, enqueued \cup {r}}
          /\ Answer(r, "500", NoJob)
    /\ UNCHANGED db

\* The API process dies (or the handler panics) and the client hears nothing.
\* A call that was on its way to Postgres or Redis may still take effect; an
\* open transaction is otherwise rolled back.
Crash(r) ==
    /\ "crash" \in Faults
    /\ InFlight(r)
    /\ \/ UNCHANGED <<db, enqueued>>
       \/ pc[r] = "commit" /\ Committed(r) /\ UNCHANGED enqueued
       \/ pc[r] = "enqueue" /\ enqueued' = enqueued \cup {r} /\ UNCHANGED db
    /\ Answer(r, "lost", NoJob)

Handle(r) ==
    \/ GetIdempotencyKey(r)
    \/ GetActiveDeployment(r)
    \/ BeginTx(r)
    \/ CreateJobTx(r)
    \/ CreateIdempotencyKeyTx(r)
    \/ RecoverKey(r)
    \/ Commit(r)
    \/ EnqueueDeployJob(r)

-----------------------------------------------------------------------------
(* The worker, as far as the API can see it, and the key clean-up *)

\* Variant: the unique index does not cover running jobs.
ActivateRegardless(j) == Uncommitted(Target(j)) = {}

\* UpdateJobStatus(RUNNING): any attempt may write it, the first one or a
\* retry of a job that already ended; the unique index applies to it too.
MayActivate(j) ==
    /\ ActiveOn(Target(j)) \subseteq {j}
    /\ Uncommitted(Target(j)) = {}

WorkerStart(j) ==
    /\ j \in enqueued
    /\ MayActivate(j)
    /\ status' = [status EXCEPT ![j] = "RUNNING"]
    /\ UNCHANGED <<keys, aged, enqueued, pc, resp>>

\* Variant: the status and stage arguments are swapped.
FinishSwapped(j, s) ==
    /\ j \in enqueued
    /\ status[j] = "RUNNING"
    /\ status' = [status EXCEPT ![j] = "HEALTH_CHECKING"]
    /\ UNCHANGED <<keys, aged, enqueued, pc, resp>>

\* UpdateJobStatus(COMPLETED or FAILED) by an attempt that had written RUNNING;
\* by then an operator may have ended the job.
WorkerFinish(j, s) ==
    /\ j \in enqueued
    /\ status[j] = "RUNNING" \/ (OperatorCancels /\ status[j] = "FAILED")
    /\ status' = [status EXCEPT ![j] = s]
    /\ UNCHANGED <<keys, aged, enqueued, pc, resp>>

\* The documented way to cancel a job: UPDATE jobs SET status='FAILED' WHERE
\* id=...  It has no condition on the status, which may have changed since the
\* operator looked: also a job that has just ended COMPLETED becomes FAILED.
Cancel(j) ==
    /\ OperatorCancels
    /\ j \in Jobs
    /\ status' = [status EXCEPT ![j] = "FAILED"]
    /\ UNCHANGED <<keys, aged, enqueued, pc, resp>>

\* The key row of job j passes the age of 24 hours.
KeyAges(j) ==
    /\ "expiry" \in Faults
    /\ j \in Jobs \ aged
    /\ aged' = aged \cup {j}
    /\ UNCHANGED <<status, keys, enqueued, pc, resp>>

\* Variant: the cut-off lies in the future.
DeleteAllKeys ==
    /\ \E h \in Hashes : keys[h] # NoJob
    /\ keys' = [h \in Hashes |-> NoJob]
    /\ UNCHANGED <<status, aged, enqueued, pc, resp>>

DeleteExpiredIdempotencyKeys ==
    /\ \E h \in Hashes : keys[h] \in aged
    /\ keys' = [h \in Hashes |-> IF keys[h] \in aged THEN NoJob ELSE keys[h]]
    /\ UNCHANGED <<status, aged, enqueued, pc, resp>>

Next ==
    \/ \E r \in Requests :
          \/ Receive(r)
          \/ Handle(r)
          \/ Crash(r)
          \/ WorkerStart(r)
          \/ WorkerFinish(r, "COMPLETED")
          \/ WorkerFinish(r, "FAILED")
          \/ Cancel(r)
          \/ KeyAges(r)
    \/ DeleteExpiredIdempotencyKeys

Spec == Init /\ [][Next]_vars

\* A handler's goroutine runs until it returns: net/http keeps scheduling it,
\* and its request context bounds each call.
Fairness == \A r \in Requests : WF_vars(Handle(r))

FairSpec == Spec /\ Fairness

-----------------------------------------------------------------------------
(* Properties *)

TypeOK ==
    /\ status \in [Requests -> JobStatuses \cup {"ABSENT"}]
    /\ keys \in [Hashes -> Requests \cup {NoJob}]
    /\ aged \subseteq Requests
    /\ enqueued \subseteq Requests
    /\ pc \in [Requests -> Calls \cup {"idle", "done"}]
    /\ resp \in [Requests -> [code : Codes \cup {"none", "lost"},
                              job : Requests \cup {NoJob}]]

\* At most one QUEUED or RUNNING job per (repository, branch, namespace),
\* whatever concurrent requests and retrying attempts do: the purpose of the
\* guard in handleCreateJob and of idx_jobs_one_active_deploy.
OneActivePerTarget ==
    \A i, j \in Jobs :
        Target(i) = Target(j) /\ IsActive(status[i]) /\ IsActive(status[j])
            => i = j

\* An uncommitted job row excludes every other one, and every active job, of
\* its target.  So the key insert of CreateIdempotencyKeyTx, made by a
\* transaction that holds such a row, never meets an uncommitted row of its
\* digest and never waits: handlers cannot deadlock in Postgres.
UncommittedIsExclusive ==
    \A r \in Requests : \A i \in Requests :
        /\ pc[r] \in {"key", "commit"}
        /\ Target(i) = Target(r)
        => /\ pc[i] \in {"key", "commit"} => i = r
           /\ ~IsActive(status[i])

\* Two jobs for the same request contents exist only when the key of one of
\* them is past its 24 hours (README: "identical request within 24h").
DeduplicatedFor24h ==
    \A i, j \in Jobs :
        HashOf[i] = HashOf[j] /\ i # j => i \in aged \/ j \in aged

\* A job that may still be replayed is found by its digest: job row and key row
\* are never one without the other, even when the handler dies in between.
JobHasKey ==
    \A j \in Jobs \ aged : keys[HashOf[j]] = j

\* A 201, new or replayed, names a committed job with the digest of the request.
AcceptedIsDurable ==
    \A r \in Requests :
        resp[r].code = "201" =>
            /\ resp[r].job \in Jobs
            /\ HashOf[resp[r].job] = HashOf[r]

\* A request that is refused (400 or 409) left no job behind, also when it was
\* refused after it had inserted one.
RefusedLeavesNoTrace ==
    \A r \in Requests : resp[r].code \in {"400", "409"} => r \notin Jobs

\* The queue never holds a task for a job that is not in the database, so
\* GetJob in the deploy handler finds every job it is handed.
NoPhantomTask == enqueued \subseteq Jobs

\* Without faults no job sits QUEUED, blocking its target, with neither a task
\* in the queue nor a handler about to push one.
NoOrphan ==
    \A j \in Jobs : j \in enqueued \/ pc[j] = "enqueue"

\* README: an identical request within 24h is an "Idempotent replay" answered
\* 201.  Here: no request is answered 500 while a job with its digest exists.
DuplicateNever500 ==
    \A r \in Requests : resp[r].code = "500" =>
        \A j \in Jobs \ {r} : HashOf[j] # HashOf[r]

\* README: 409 means "Job already in progress for this target".  Here: a job
\* named by a 409 is one the queue knows, or is about to know.
ConflictMeansInProgress ==
    \A r \in Requests :
        resp[r].code = "409" /\ resp[r].job # NoJob =>
            resp[r].job \in enqueued \/ pc[resp[r].job] = "enqueue"

\* A key row changes in two ways only: it appears together with its own job,
\* and it disappears when it is older than 24 hours.  A replayed response is
\* therefore never overwritten by a later request.
WrittenOnce(h) ==
    keys'[h] # keys[h] =>
        \/ keys[h] = NoJob /\ keys'[h] \notin Jobs /\ status'[keys'[h]] = "QUEUED"
        \/ keys[h] \in aged /\ keys'[h] = NoJob

KeysAreWriteOnce == [][\A h \in Hashes : WrittenOnce(h)]_vars

\* Every request that arrived is answered: waiting for another transaction's
\* row or for a pooled connection never lasts for ever.
EveryRequestAnswered ==
    \A r \in Requests : InFlight(r) ~> pc[r] = "done"

\* The handler implements atomic admission: a target is held by its active
\* job, and a client is bound by the 201 it received.
MemberOf(S) == IF S = {} THEN NoJob ELSE CHOOSE j \in S : TRUE

HolderOf(t) == MemberOf(ActiveOn(t))

AcceptedJob(r) == IF resp[r].code = "201" THEN resp[r].job ELSE NoJob

A == INSTANCE Admission WITH
        holder <- [t \in Targets |-> HolderOf(t)],
        current <- keys,
        admitted <- Jobs,
        expired <- aged,
        answer <- [r \in Requests |-> AcceptedJob(r)]

ImplementsAdmission == A!AdmissionSpec
=============================================================================
