----------------------------- MODULE Deployment -----------------------------
(***************************************************************************)
(* The whole deployment service: the request handlers of Intake together   *)
(* with the worker that runs the jobs.  A task pushed by EnqueueDeployJob   *)
(* (internal/queue/queue.go) is delivered by asynq, with retries, to the   *)
(* deploy handler (cmd/worker/main.go), which loads the job and runs        *)
(* Orchestrator.Execute (internal/worker/orchestrator.go): seven stages,   *)
(* each preceded by a status update in Postgres.                           *)
(*                                                                         *)
(* asynq is external; the model has what the code relies on: a task stays  *)
(* in Redis until it is acknowledged, a failed, timed-out or abandoned     *)
(* attempt is retried MaxRetry times and then archived, and a graceful     *)
(* shutdown hands the task back without counting the attempt.              *)
(***************************************************************************)
EXTENDS Intake, Sequences

CONSTANTS
    Concurrency,    \* asynq worker slots
    MaxRetry,       \* asynq.MaxRetry of a deploy task
    WorkerFaults    \* "stage", "db", "timeout", "crash", "shutdown"

ASSUME DeploymentAssumption ==
    /\ Concurrency \in Nat \ {0}
    /\ MaxRetry \in Nat
    /\ WorkerFaults \subseteq {"stage", "db", "timeout", "crash", "shutdown"}

VARIABLES
    stage,      \* jobs.current_stage
    task,       \* state of the job's task, meaningful once it is enqueued
    retried,    \* attempts of the task that counted as failed
    at,         \* where the running attempt's handler is
    pos         \* the stage of Execute the attempt has reached

wvars == <<stage, task, retried, at, pos>>
dvars == <<vars, wvars>>

\* Variant: two stages are called in the wrong order.
PushBeforeBuild ==
    <<"CLONING", "PUSHING", "BUILDING", "MANIFEST_GENERATING",
      "VERIFYING", "APPLYING", "HEALTH_CHECKING">>

\* The stages in the order Execute calls them.
ExecuteOrder ==
    <<"CLONING", "BUILDING", "PUSHING", "MANIFEST_GENERATING",
      "VERIFYING", "APPLYING", "HEALTH_CHECKING">>

LastPos == Len(ExecuteOrder)

TaskStates == {"pending", "active", "archived", "completed"}

\* load: GetJob; update: UpdateJobStatus(RUNNING, ...); run: the stage function;
\* fail, complete: the final UpdateJobStatus; late: UpdateJobStatus(FAILED) on a
\* context that has ended; ok, err: the handler has returned; dead: the
\* attempt's process is gone and its lease has not yet expired.
Steps == {"load", "update", "run", "fail", "late", "complete", "ok", "err"}

Busy == {j \in Requests : at[j] \in Steps}

DInit ==
    /\ Init
    /\ stage = [j \in Requests |-> ""]
    /\ task = [j \in Requests |-> "pending"]
    /\ retried = [j \in Requests |-> 0]
    /\ at = [j \in Requests |-> "off"]
    /\ pos = [j \in Requests |-> 1]

-----------------------------------------------------------------------------
(* asynq *)

Dequeue(j) ==
    /\ j \in enqueued
    /\ task[j] = "pending"
    /\ Cardinality(Busy) < Concurrency
    /\ task' = [task EXCEPT ![j] = "active"]
    /\ at' = [at EXCEPT ![j] = "load"]
    /\ pos' = [pos EXCEPT ![j] = 1]
    /\ UNCHANGED <<vars, stage, retried>>

\* handleSucceededMessage: the task leaves Redis.
Acknowledge(j) ==
    /\ at[j] = "ok"
    /\ task' = [task EXCEPT ![j] = "completed"]
    /\ at' = [at EXCEPT ![j] = "off"]
    /\ UNCHANGED <<vars, stage, retried, pos>>

\* Variant: no bound on the retries.
RescheduleForEver(j) ==
    task' = [task EXCEPT ![j] = "pending"] /\ UNCHANGED retried

\* A failed attempt, or one whose lease expired because its worker died, is
\* scheduled again until MaxRetry attempts have failed.
Reschedule(j) ==
    IF retried[j] < MaxRetry
    THEN /\ task' = [task EXCEPT ![j] = "pending"]
         /\ retried' = [retried EXCEPT ![j] = @ + 1]
    ELSE /\ task' = [task EXCEPT ![j] = "archived"]
         /\ UNCHANGED retried

Retry(j) ==
    /\ at[j] \in {"err", "dead"}
    /\ Reschedule(j)
    /\ at' = [at EXCEPT ![j] = "off"]
    /\ UNCHANGED <<vars, stage, pos>>

-----------------------------------------------------------------------------
(* The deploy handler and Orchestrator.Execute *)

Step(j, label) ==
    /\ at' = [at EXCEPT ![j] = label]
    /\ UNCHANGED <<task, retried>>

WorkerDbFails == "db" \in WorkerFaults

\* UpdateJobStatus(RUNNING, ExecuteOrder[pos]) takes effect.
WriteRunning(j) ==
    /\ WorkerStart(j)
    /\ stage' = [stage EXCEPT ![j] = ExecuteOrder[pos[j]]]

\* Variant: the status and stage arguments are swapped.
WriteFinalSwapped(j, s) ==
    /\ WorkerFinish(j, ExecuteOrder[pos[j]])
    /\ stage' = [stage EXCEPT ![j] = s]

WriteFinal(j, s) ==
    /\ WorkerFinish(j, s)
    /\ stage' = [stage EXCEPT ![j] = ExecuteOrder[pos[j]]]

NoWrite == UNCHANGED <<vars, stage>>

LoadJob(j) ==
    /\ at[j] = "load"
    /\ \/ j \in Jobs /\ Step(j, "update")
       \/ (j \notin Jobs \/ WorkerDbFails) /\ Step(j, "err")
    /\ NoWrite /\ UNCHANGED pos

\* Variant: Execute goes on when the status update fails.
EnterRegardless(j) ==
    /\ at[j] = "update"
    /\ WriteRunning(j) \/ (~(ActiveOn(Target(j)) \subseteq {j}) /\ NoWrite)
    /\ Step(j, "run")
    /\ UNCHANGED pos

\* An error here makes Execute return without recording FAILED.  The update
\* waits for an uncommitted job row of the target and is refused by the unique
\* index while another job of the target is active.
EnterStage(j) ==
    /\ at[j] = "update"
    /\ \/ WriteRunning(j) /\ Step(j, "run")
       \/ /\ ~(ActiveOn(Target(j)) \subseteq {j})
          /\ NoWrite /\ Step(j, "err")
       \/ /\ WorkerDbFails
          /\ WriteRunning(j) \/ NoWrite
          /\ Step(j, "err")
    /\ UNCHANGED pos

\* Variant: a negative verdict returns without recording the failure.
VerdictNotRecorded(j) ==
    /\ at[j] = "run"
    /\ \/ /\ pos[j] < LastPos
          /\ pos' = [pos EXCEPT ![j] = @ + 1]
          /\ Step(j, "update")
       \/ pos[j] = LastPos /\ UNCHANGED pos /\ Step(j, "complete")
       \/ "stage" \in WorkerFaults /\ UNCHANGED pos /\ Step(j, "err")
    /\ NoWrite

\* The stage function returns; for VERIFYING and HEALTH_CHECKING a negative
\* verdict counts as an error.
RunStage(j) ==
    /\ at[j] = "run"
    /\ \/ /\ pos[j] < LastPos
          /\ pos' = [pos EXCEPT ![j] = @ + 1]
          /\ Step(j, "update")
       \/ pos[j] = LastPos /\ UNCHANGED pos /\ Step(j, "complete")
       \/ "stage" \in WorkerFaults /\ UNCHANGED pos /\ Step(j, "fail")
    /\ NoWrite

\* Variant: the failure is not written.
FailureNotWritten(j) ==
    /\ at[j] \in {"fail", "late"}
    /\ NoWrite
    /\ Step(j, "err")
    /\ UNCHANGED pos

\* Variant: a failed job is put back to QUEUED for its retry.
FailureAsQueued(j) ==
    /\ at[j] = "fail"
    /\ status' = [status EXCEPT ![j] = "QUEUED"]
    /\ UNCHANGED <<keys, aged, enqueued, pc, resp, stage, pos>>
    /\ Step(j, "err")

\* `_ = UpdateJobStatus(FAILED)`: whether it worked is not looked at.  On the
\* ended context of a late attempt it never does.
RecordFailure(j) ==
    /\ \/ at[j] = "fail" /\ WriteFinal(j, "FAILED")
       \/ at[j] = "fail" /\ WorkerDbFails /\ NoWrite
       \/ at[j] = "late" /\ NoWrite
    /\ Step(j, "err")
    /\ UNCHANGED pos

\* Variant: the error of the last status update is not looked at.
SuccessErrorIgnored(j) ==
    /\ at[j] = "complete"
    /\ WriteFinal(j, "COMPLETED") \/ (WorkerDbFails /\ NoWrite)
    /\ Step(j, "ok")
    /\ UNCHANGED pos

\* The last update decides whether asynq is told that the task succeeded.
RecordSuccess(j) ==
    /\ at[j] = "complete"
    /\ \/ WriteFinal(j, "COMPLETED") /\ Step(j, "ok")
       \/ /\ WorkerDbFails
          /\ WriteFinal(j, "COMPLETED") \/ NoWrite
          /\ Step(j, "err")
    /\ UNCHANGED pos

\* A status update that was on its way when the attempt ended.
WriteInFlight(j) ==
    \/ NoWrite
    \/ at[j] = "update" /\ WriteRunning(j)
    \/ at[j] = "fail" /\ WriteFinal(j, "FAILED")
    \/ at[j] = "complete" /\ WriteFinal(j, "COMPLETED")

\* Graceful shutdown: after ShutdownTimeout unfinished tasks are put back, and
\* the process exits under the handlers.
Requeue(j) ==
    /\ "shutdown" \in WorkerFaults
    /\ at[j] \in Steps
    /\ WriteInFlight(j)
    /\ task' = [task EXCEPT ![j] = "pending"]
    /\ at' = [at EXCEPT ![j] = "off"]
    /\ UNCHANGED <<retried, pos>>

\* Variant: the handler does not look at its context and goes on.
TimeoutUnnoticed(j) ==
    /\ "timeout" \in WorkerFaults
    /\ at[j] \in Steps \ {"late", "ok", "err"}
    /\ Reschedule(j)
    /\ UNCHANGED <<vars, stage, at, pos>>

\* The 30 minutes of asynq.Timeout are over: asynq reschedules the task, and
\* everything the handler still tries in Postgres fails on the ended context.
\* A stage returns the context's error, which Execute then tries to record; a
\* call that was in Postgres returns it and ends the handler, although the
\* statement may have taken effect.
Timeout(j) ==
    /\ "timeout" \in WorkerFaults
    /\ at[j] \in Steps \ {"late", "ok", "err"}
    /\ IF at[j] = "run"
       THEN NoWrite /\ Step(j, "late")
       ELSE WriteInFlight(j) /\ Step(j, "err")
    /\ UNCHANGED pos

WorkerCrash(j) ==
    /\ "crash" \in WorkerFaults
    /\ at[j] \in Steps
    /\ WriteInFlight(j)
    /\ Step(j, "dead")
    /\ UNCHANGED pos

-----------------------------------------------------------------------------

ApiStep ==
    /\ \/ \E r \in Requests :
             Receive(r) \/ Handle(r) \/ Crash(r) \/ Cancel(r) \/ KeyAges(r)
       \/ DeleteExpiredIdempotencyKeys
    /\ UNCHANGED wvars

Attempt(j) ==
    \/ Dequeue(j)
    \/ LoadJob(j)
    \/ EnterStage(j)
    \/ RunStage(j)
    \/ RecordFailure(j)
    \/ RecordSuccess(j)
    \/ Acknowledge(j)
    \/ Retry(j)

DNext ==
    \/ ApiStep
    \/ \E j \in Requests :
          \/ Attempt(j)
          \/ Requeue(j)
          \/ Timeout(j)
          \/ WorkerCrash(j)

DSpec == DInit /\ [][DNext]_dvars

\* asynq polls while it has a free slot, its recoverer and scheduler run
\* periodically, and a handler runs until it returns or its timeout ends it.
DFairness ==
    \A j \in Requests :
        /\ WF_dvars(Handle(j) /\ UNCHANGED wvars)
        /\ WF_dvars(Attempt(j))

DFairSpec == DSpec /\ DFairness

-----------------------------------------------------------------------------
(* Properties *)

DTypeOK ==
    /\ TypeOK
    /\ stage \in [Requests -> PipelineStages \cup {""}]
    /\ task \in [Requests -> TaskStates]
    /\ retried \in [Requests -> 0..MaxRetry]
    /\ at \in [Requests -> Steps \cup {"off", "dead"}]
    /\ pos \in [Requests -> 1..LastPos]

\* The composed system is an instance of Intake's: whatever Intake promises
\* about requests, jobs and keys holds with the real worker attached.
ImplementsIntake == Spec

\* Two attempts never work on the same target at once: a retried job cannot
\* start while a newer one of its target is being deployed, nor the reverse.
\* Nothing but the unique index and the order of Execute's updates ensures it.
OneDeployerPerTarget ==
    \A i, j \in Requests :
        /\ at[i] \in {"run", "fail", "complete"}
        /\ at[j] \in {"run", "fail", "complete"}
        /\ Target(i) = Target(j)
        => i = j

\* current_stage moves to CLONING when an attempt starts, otherwise along
\* validTransitions, and only while the job is RUNNING: ValidTransition, which
\* nobody calls, describes what Execute does, retries and lost replies included.
StageStep(j) ==
    stage'[j] # stage[j] =>
        /\ status'[j] = "RUNNING"
        /\ stage'[j] = "CLONING" \/ ValidTransition(stage[j], stage'[j])

StageDiscipline == [][\A j \in Requests : StageStep(j)]_dvars

\* asynq has been told, or is about to be told, that the job was deployed.
Succeeded(j) == at[j] = "ok" \/ task[j] = "completed"

\* asynq is told of a success only by the step that wrote COMPLETED at the last
\* stage, also when the task was repeated on a completed job; from then on
\* nothing changes the job's row but an operator's UPDATE that comes too late.
SuccessStep(j) ==
    Succeeded(j)' =>
        \/ /\ ~Succeeded(j)
           /\ status'[j] = "COMPLETED" /\ stage'[j] = "HEALTH_CHECKING"
        \/ /\ Succeeded(j)
           /\ status'[j] = status[j] \/ Cancel(j)
           /\ stage'[j] = stage[j]

SuccessIsRecorded == [][\A j \in Requests : SuccessStep(j)]_dvars

\* A task that may still run the job is in the queue, or about to be pushed.
HasTask(j) ==
    \/ j \in enqueued /\ task[j] \in {"pending", "active"}
    \/ pc[j] = "enqueue"

\* A job that is QUEUED or RUNNING still has a task that can end it, or its
\* handler is about to push one: it does not block its target for ever.
NoStuckJob ==
    \A j \in Jobs : IsActive(status[j]) => HasTask(j)

\* The README's remedy for a stuck job, UPDATE jobs SET status='FAILED', is
\* overwritten by a running attempt but holds once the job really is stuck: as
\* soon as no task of the job is left, a FAILED job stays FAILED and its target
\* stays free for the next request.
ManualCancelHolds ==
    [][\A j \in Jobs :
          ~HasTask(j) /\ status[j] = "FAILED" => status'[j] = "FAILED"]_dvars

\* "On any error, the job status is updated to Failed" (Execute's comment), said
\* of the errors that Execute does try to record: when a stage has failed,
\* Execute returns with the job FAILED.
ErrorMeansFailed ==
    [][\A j \in Requests :
          at[j] \in {"fail", "late"} /\ at'[j] = "err" => status'[j] = "FAILED"]_dvars

\* What remains of the comment for every error, while nothing but stages fails
\* and shutdowns repeat attempts: the repetition of an attempt that had already
\* succeeded, and was not acknowledged, may end with an error because a newer
\* job of the target is active.  The row still says how the job ended; an
\* attempt never ends with an error and an active job.
ErrorMeansTerminal ==
    \A j \in Requests : at[j] = "err" => IsTerminal(status[j])

\* Whatever fails, and however often, every pushed task leaves the queue: it is
\* completed or, after MaxRetry retries, archived.
EveryTaskSettles ==
    \A j \in Requests :
        j \in enqueued ~> task[j] \in {"completed", "archived"}

\* The worker is not restarted for ever.
ShutdownsCease == <>[][\A j \in Requests : ~Requeue(j)]_dvars

\* As long as nothing but stages fails, every created job ends COMPLETED or
\* FAILED for good, also one whose retries lose the target to a newer job, and
\* also one that shutdowns put back again and again, once they cease.
EveryJobEnds ==
    ShutdownsCease =>
        \A j \in Requests : j \in Jobs ~> [](IsTerminal(status[j]))
=============================================================================
