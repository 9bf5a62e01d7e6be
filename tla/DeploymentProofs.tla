-------------------------- MODULE DeploymentProofs --------------------------
(***************************************************************************)
(* Proofs about the composed service, for every number of jobs, slots and  *)
(* retries and every combination of faults.                                *)
(***************************************************************************)
EXTENDS Deployment, IntakeProofs

\* The attempt of j has written RUNNING in this round, and only an operator can
\* have taken that back.
Deploying(j) ==
    status[j] = "RUNNING" \/ (OperatorCancels /\ status[j] = "FAILED")

\* What a job's row says follows from where its attempt is.
AttemptOK(j) ==
    /\ at[j] # "off" => task[j] = "active"
    /\ task[j] # "pending" => j \in enqueued
    /\ at[j] \in {"run", "fail", "complete"} => Deploying(j)
    /\ at[j] = "update" /\ pos[j] > 1 => Deploying(j)
    /\ at[j] \in {"run", "fail", "complete"} => stage[j] = ExecuteOrder[pos[j]]
    /\ at[j] = "update" /\ pos[j] > 1 => stage[j] = ExecuteOrder[pos[j] - 1]
    /\ at[j] = "load" => pos[j] = 1
    /\ at[j] = "complete" => pos[j] = LastPos
    /\ Succeeded(j) =>
         /\ status[j] = "COMPLETED" \/ (OperatorCancels /\ status[j] = "FAILED")
         /\ stage[j] = "HEALTH_CHECKING"

DInv ==
    /\ IInv
    /\ DTypeOK
    /\ \A j \in Requests : AttemptOK(j)

-----------------------------------------------------------------------------
(* The order of the stages *)

\* Execute's calls follow the transition table, from its first stage to its last.
LEMMA ExecuteFollowsTransitions ==
    /\ LastPos = 7
    /\ \A p \in 1..7 : ExecuteOrder[p] \in PipelineStages
    /\ \A p \in 2..7 : ValidTransition(ExecuteOrder[p - 1], ExecuteOrder[p])
    /\ ExecuteOrder[1] = "CLONING"
    /\ ExecuteOrder[7] = "HEALTH_CHECKING"
<1>1. LastPos = 7
  BY DEF LastPos, ExecuteOrder
<1>2. \A p \in 1..7 : ExecuteOrder[p] \in PipelineStages
  BY DEF ExecuteOrder, PipelineStages
<1>3. \A p \in 2..7 : ValidTransition(ExecuteOrder[p - 1], ExecuteOrder[p])
  <2> SUFFICES ASSUME NEW p \in 2..7
               PROVE  ValidTransition(ExecuteOrder[p - 1], ExecuteOrder[p])
    OBVIOUS
  <2>1. p = 2 \/ p = 3 \/ p = 4 \/ p = 5 \/ p = 6 \/ p = 7
    OBVIOUS
  <2> QED
    BY <2>1 DEF ValidTransition, validTransitions, ExecuteOrder
<1> QED
  BY <1>1, <1>2, <1>3 DEF ExecuteOrder

-----------------------------------------------------------------------------
(* The composed system is an instance of Intake *)

\* Every step is one of Intake's, or none of its variables change.
LEMMA StepOfIntake == [DNext]_dvars => [Next]_vars
<1> SUFFICES ASSUME [DNext]_dvars PROVE [Next]_vars
  OBVIOUS
<1>1. CASE UNCHANGED dvars
  BY <1>1 DEF dvars
<1>2. CASE ApiStep
  BY <1>2 DEF ApiStep, Next
<1>3. ASSUME NEW j \in Requests, Attempt(j) \/ Requeue(j) \/ Timeout(j) \/ WorkerCrash(j)
      PROVE  [Next]_vars
  <2>1. \/ UNCHANGED vars
        \/ WriteRunning(j) \/ WriteFinal(j, "FAILED") \/ WriteFinal(j, "COMPLETED")
    BY <1>3 DEF Attempt, Requeue, Timeout, WorkerCrash, WriteInFlight, NoWrite,
         Dequeue, LoadJob, EnterStage, RunStage, RecordFailure, RecordSuccess,
         Acknowledge, Retry
  <2> QED
    BY <2>1 DEF WriteRunning, WriteFinal, Next
<1> QED
  BY <1>1, <1>2, <1>3 DEF DNext

\* The worker keeps to what Intake assumes of it, so every theorem about Intake
\* holds of the composed system.
THEOREM Composition == DSpec => ImplementsIntake
<1>1. DInit => Init
  BY DEF DInit
<1> QED
  BY <1>1, StepOfIntake, PTL DEF DSpec, Spec, ImplementsIntake

\* In particular the inductive invariant of Intake holds of the composed service.
THEOREM ComposedIInv == DSpec => []IInv
BY Composition, Invariance, PTL DEF ImplementsIntake

\* So do the statuses of its jobs, whatever Execute, asynq and operators do.
THEOREM StatusesMove == DSpec => StatusDiscipline
BY Composition, WritersKeepToMoves, PTL DEF ImplementsIntake

-----------------------------------------------------------------------------
(* The inductive invariant *)

\* A step that leaves a job's row and attempt alone keeps its AttemptOK.
LEMMA AttemptFrame ==
    ASSUME NEW j \in Requests, AttemptOK(j),
           \/ status'[j] = status[j] \/ status[j] = "ABSENT"
           \/ OperatorCancels /\ status'[j] = "FAILED",
           stage'[j] = stage[j], task'[j] = task[j], at'[j] = at[j], pos'[j] = pos[j],
           enqueued \subseteq enqueued'
    PROVE  AttemptOK(j)'
BY DEF AttemptOK, Deploying, Succeeded, OperatorCancels

\* A request handler, an operator or the clean-up changes the row of a job that
\* has a task in one way only: a cancellation.
LEMMA ApiKeepsAttempts ==
    ASSUME DInv, ApiStep, NEW j \in Requests PROVE AttemptOK(j)'
<1>1. /\ stage'[j] = stage[j] /\ task'[j] = task[j] /\ at'[j] = at[j] /\ pos'[j] = pos[j]
  BY DEF ApiStep, wvars
<1>2. ASSUME NEW r \in Requests, Receive(r) \/ Handle(r) \/ Crash(r)
      PROVE  (status'[j] = status[j] \/ status[j] = "ABSENT") /\ enqueued \subseteq enqueued'
  <2>1. CASE pc[r] = "commit" /\ Committed(r) /\ UNCHANGED enqueued
    BY <2>1 DEF DInv, IInv, TypeOK, Uncreated, Committed
  <2>2. CASE UNCHANGED db /\ enqueued \subseteq enqueued'
    BY <2>2 DEF db
  <2>3. \/ pc[r] = "commit" /\ Committed(r) /\ UNCHANGED enqueued
        \/ UNCHANGED db /\ enqueued \subseteq enqueued'
    BY <1>2 DEF Receive, Handle, GetIdempotencyKey, GetActiveDeployment, BeginTx,
         CreateJobTx, CreateIdempotencyKeyTx, RecoverKey, Commit,
         EnqueueDeployJob, Crash
  <2> QED
    BY <2>1, <2>2, <2>3
<1>3. ASSUME NEW r \in Requests, Cancel(r)
      PROVE  /\ \/ status'[j] = status[j]
                \/ OperatorCancels /\ status'[j] = "FAILED"
             /\ enqueued \subseteq enqueued'
  BY <1>3 DEF Cancel, DInv, IInv, TypeOK
<1>4. ASSUME \/ \E r \in Requests : KeyAges(r)
             \/ DeleteExpiredIdempotencyKeys
      PROVE  status'[j] = status[j] /\ enqueued \subseteq enqueued'
  BY <1>4 DEF KeyAges, DeleteExpiredIdempotencyKeys
<1>5. /\ \/ status'[j] = status[j] \/ status[j] = "ABSENT"
         \/ OperatorCancels /\ status'[j] = "FAILED"
      /\ enqueued \subseteq enqueued'
  BY <1>2, <1>3, <1>4 DEF ApiStep
<1> QED
  BY <1>1, <1>5, AttemptFrame DEF DInv

\* The variables of the worker stay in their ranges.
LEMMA WorkerTypes ==
    ASSUME DInv, IInv', NEW j \in Requests,
           Attempt(j) \/ Requeue(j) \/ Timeout(j) \/ WorkerCrash(j)
    PROVE  DTypeOK'
<1>0. /\ LastPos = 7 /\ \A p \in 1..7 : ExecuteOrder[p] \in PipelineStages
      /\ MaxRetry \in Nat
  BY ExecuteFollowsTransitions, DeploymentAssumption
<1>t. /\ stage \in [Requests -> PipelineStages \cup {""}]
      /\ task \in [Requests -> TaskStates]
      /\ retried \in [Requests -> 0..MaxRetry]
      /\ at \in [Requests -> Steps \cup {"off", "dead"}]
      /\ pos \in [Requests -> 1..7]
  BY <1>0 DEF DInv, DTypeOK
<1>1. TypeOK'
  BY DEF IInv
<1>2. stage' \in [Requests -> PipelineStages \cup {""}]
  <2>1. \/ UNCHANGED stage
        \/ stage' = [stage EXCEPT ![j] = ExecuteOrder[pos[j]]]
    BY DEF Attempt, Requeue, Timeout, WorkerCrash, WriteInFlight, NoWrite,
         Dequeue, LoadJob, EnterStage, RunStage, RecordFailure, RecordSuccess,
         Acknowledge, Retry, WriteRunning, WriteFinal
  <2> QED
    BY <1>0, <1>t, <2>1
<1>3. task' \in [Requests -> TaskStates] /\ retried' \in [Requests -> 0..MaxRetry]
  <2>1. CASE Retry(j)
    <3>1. \/ retried' = retried
          \/ retried[j] < MaxRetry /\ retried' = [retried EXCEPT ![j] = @ + 1]
      BY <2>1 DEF Retry, Reschedule
    <3>2. \E t \in TaskStates : task' = [task EXCEPT ![j] = t]
      BY <2>1 DEF Retry, Reschedule, TaskStates
    <3>3. retried[j] \in 0..MaxRetry
      BY <1>t
    <3>4. retried[j] < MaxRetry => retried[j] + 1 \in 0..MaxRetry
      BY <1>0, <3>3
    <3>5. retried' \in [Requests -> 0..MaxRetry]
      BY <1>t, <3>1, <3>4
    <3> QED
      BY <1>t, <3>2, <3>5
  <2>2. CASE ~Retry(j)
    BY <1>t, <2>2 DEF Attempt, Requeue, Timeout, WorkerCrash, Dequeue, LoadJob, EnterStage,
         RunStage, RecordFailure, RecordSuccess, Acknowledge, Step, TaskStates
  <2> QED
    BY <2>1, <2>2
<1>4. at' \in [Requests -> Steps \cup {"off", "dead"}]
  BY <1>t DEF Attempt, Requeue, Timeout, WorkerCrash, Dequeue, LoadJob, EnterStage,
       RunStage, RecordFailure, RecordSuccess, Acknowledge, Retry, Step, Steps
<1>5. pos' \in [Requests -> 1..LastPos]
  <2>1. \/ pos' = pos
        \/ pos' = [pos EXCEPT ![j] = 1]
        \/ pos[j] < LastPos /\ pos' = [pos EXCEPT ![j] = @ + 1]
    BY DEF Attempt, Requeue, Timeout, WorkerCrash, Dequeue, LoadJob, EnterStage,
         RunStage, RecordFailure, RecordSuccess, Acknowledge, Retry
  <2>2. pos[j] \in 1..7
    BY <1>t
  <2>3. pos[j] < 7 => pos[j] + 1 \in 1..7
    BY <2>2
  <2>4. \/ pos' = pos
        \/ pos' = [pos EXCEPT ![j] = 1]
        \/ pos[j] + 1 \in 1..7 /\ pos' = [pos EXCEPT ![j] = pos[j] + 1]
    BY <1>0, <2>1, <2>3
  <2>5. 1 \in 1..7
    OBVIOUS
  <2>6. pos' \in [Requests -> 1..7]
    BY <1>t, <2>4, <2>5
  <2> QED
    BY <1>0, <2>6
<1> QED
  BY <1>1, <1>2, <1>3, <1>4, <1>5 DEF DTypeOK

\* A worker's step for one job leaves the rows of the others alone.
LEMMA WorkerKeepsRows ==
    ASSUME DInv, NEW j \in Requests, NEW i \in Requests \ {j},
           Attempt(j) \/ Requeue(j) \/ Timeout(j) \/ WorkerCrash(j)
    PROVE  status'[i] = status[i] /\ stage'[i] = stage[i] /\ enqueued' = enqueued
<1>1. NoWrite \/ WriteRunning(j) \/ WriteFinal(j, "FAILED") \/ WriteFinal(j, "COMPLETED")
  BY DEF Attempt, Requeue, Timeout, WorkerCrash, WriteInFlight, NoWrite,
       Dequeue, LoadJob, EnterStage, RunStage, RecordFailure, RecordSuccess,
       Acknowledge, Retry
<1> QED
  BY <1>1 DEF NoWrite, WriteRunning, WriteFinal, WorkerStart, WorkerFinish, vars,
       DInv, DTypeOK, TypeOK

\* A worker's step for one job leaves the attempts of the others alone.
LEMMA WorkerKeepsOthers ==
    ASSUME DInv, NEW j \in Requests, NEW i \in Requests \ {j},
           Attempt(j) \/ Requeue(j) \/ Timeout(j) \/ WorkerCrash(j)
    PROVE  AttemptOK(i)'
<1>1. status'[i] = status[i] /\ stage'[i] = stage[i] /\ enqueued' = enqueued
  BY WorkerKeepsRows
<1>2. task'[i] = task[i] /\ at'[i] = at[i] /\ pos'[i] = pos[i]
  BY DEF Attempt, Requeue, Timeout, WorkerCrash, Dequeue, LoadJob, EnterStage,
       RunStage, RecordFailure, RecordSuccess, Acknowledge, Retry, Reschedule,
       Step, DInv, DTypeOK
<1> QED
  BY <1>1, <1>2, AttemptFrame DEF DInv

\* What the three kinds of status update do to the row of their own job.
LEMMA Writes ==
    ASSUME DInv, NEW j \in Requests
    PROVE  /\ NoWrite => /\ status'[j] = status[j] /\ stage'[j] = stage[j]
                         /\ enqueued' = enqueued
           /\ WriteRunning(j) => /\ status'[j] = "RUNNING" /\ enqueued' = enqueued
                                 /\ stage'[j] = ExecuteOrder[pos[j]]
           /\ \A s : WriteFinal(j, s) => /\ status'[j] = s /\ enqueued' = enqueued
                                         /\ stage'[j] = ExecuteOrder[pos[j]]
BY DEF NoWrite, WriteRunning, WriteFinal, WorkerStart, WorkerFinish, vars, DInv,
     DTypeOK, TypeOK

\* A worker's step keeps the AttemptOK of its own job.
LEMMA WorkerKeepsAttempt ==
    ASSUME DInv, NEW j \in Requests,
           Attempt(j) \/ Requeue(j) \/ Timeout(j) \/ WorkerCrash(j)
    PROVE  AttemptOK(j)'
<1>0. /\ AttemptOK(j) /\ LastPos = 7 /\ pos[j] \in 1..7
      /\ ExecuteOrder[7] = "HEALTH_CHECKING"
      /\ task \in [Requests -> TaskStates] /\ pos \in [Requests -> 1..7]
      /\ at \in [Requests -> Steps \cup {"off", "dead"}]
  BY ExecuteFollowsTransitions DEF DInv, DTypeOK
<1>1. CASE Dequeue(j)
  BY <1>0, <1>1 DEF Dequeue, AttemptOK, Succeeded, vars
<1>2. CASE LoadJob(j)
  BY <1>0, <1>2, Writes DEF LoadJob, Step, AttemptOK, Succeeded
<1>3. CASE EnterStage(j)
  BY <1>0, <1>3, Writes DEF EnterStage, Step, AttemptOK, Succeeded, Deploying
<1>4. CASE RunStage(j)
  BY <1>0, <1>4, Writes DEF RunStage, Step, AttemptOK, Succeeded, Deploying
<1>5. CASE RecordFailure(j)
  BY <1>0, <1>5, Writes DEF RecordFailure, Step, AttemptOK, Succeeded
<1>6. CASE RecordSuccess(j)
  BY <1>0, <1>6, Writes DEF RecordSuccess, Step, AttemptOK, Succeeded
<1>7. CASE Acknowledge(j)
  BY <1>0, <1>7 DEF Acknowledge, AttemptOK, Succeeded, vars
<1>8. CASE Retry(j)
  BY <1>0, <1>8 DEF Retry, Reschedule, AttemptOK, Succeeded, vars
<1>9. CASE Requeue(j)
  BY <1>0, <1>9, Writes DEF Requeue, WriteInFlight, NoWrite, AttemptOK, Succeeded, vars
<1>10. CASE Timeout(j)
  BY <1>0, <1>10, Writes DEF Timeout, WriteInFlight, Step, Steps, AttemptOK, Succeeded
<1>11. CASE WorkerCrash(j)
  BY <1>0, <1>11, Writes DEF WorkerCrash, WriteInFlight, Step, Steps, AttemptOK, Succeeded
<1> QED
  BY <1>1, <1>2, <1>3, <1>4, <1>5, <1>6, <1>7, <1>8, <1>9, <1>10, <1>11 DEF Attempt

LEMMA InitDInv == DInit /\ IInv => DInv
<1> SUFFICES ASSUME DInit, IInv PROVE DInv
  OBVIOUS
<1>1. DTypeOK
  <2>1. 0 \in 0..MaxRetry /\ 1 \in 1..LastPos
    BY ExecuteFollowsTransitions, DeploymentAssumption
  <2> QED
    BY <2>1 DEF DInit, IInv, DTypeOK, TaskStates
<1>2. ASSUME NEW j \in Requests PROVE AttemptOK(j)
  BY DEF DInit, AttemptOK, Succeeded
<1> QED
  BY <1>1, <1>2 DEF DInv

LEMMA NextDInv == DInv /\ IInv' /\ [DNext]_dvars => DInv'
<1> SUFFICES ASSUME DInv, IInv', [DNext]_dvars PROVE DInv'
  OBVIOUS
<1>1. CASE ApiStep
  <2>1. DTypeOK'
    BY <1>1 DEF ApiStep, DInv, IInv, DTypeOK, wvars
  <2> QED
    BY <1>1, <2>1, ApiKeepsAttempts DEF DInv
<1>2. ASSUME NEW j \in Requests, Attempt(j) \/ Requeue(j) \/ Timeout(j) \/ WorkerCrash(j)
      PROVE  DInv'
  BY <1>2, WorkerTypes, WorkerKeepsOthers, WorkerKeepsAttempt DEF DInv
<1>3. CASE UNCHANGED dvars
  BY <1>3 DEF dvars, wvars, vars, DInv, IInv, DTypeOK, AttemptOK, Succeeded, Deploying
<1> QED
  BY <1>1, <1>2, <1>3 DEF DNext

\* Every reachable state satisfies the inductive invariant of the composed service.
THEOREM DInvariance == DSpec => []DInv
<1>1. DInit /\ IInv => DInv
  BY InitDInv
<1>2. DInv /\ IInv' /\ [DNext]_dvars => DInv'
  BY NextDInv
<1> QED
  BY <1>1, <1>2, ComposedIInv, PTL DEF DSpec

-----------------------------------------------------------------------------
(* Theorems *)

\* The variables of the composed system stay in their ranges.
THEOREM DTypeCorrect == DSpec => []DTypeOK
<1>1. DInv => DTypeOK
  BY DEF DInv
<1> QED
  BY <1>1, DInvariance, PTL

\* As long as no operator rewrites a status by hand, two attempts never work on
\* the same target at once, whatever is retried, times out or crashes.
THEOREM DeployerExclusion ==
    ASSUME "operator" \notin Faults
    PROVE  DSpec => []OneDeployerPerTarget
<1>1. DInv => OneDeployerPerTarget
  <2> SUFFICES ASSUME DInv,
                      NEW i \in Requests, at[i] \in {"run", "fail", "complete"},
                      NEW j \in Requests, at[j] \in {"run", "fail", "complete"},
                      Target(i) = Target(j)
               PROVE  i = j
    BY DEF OneDeployerPerTarget
  <2>1. status[i] = "RUNNING" /\ status[j] = "RUNNING"
    BY DEF DInv, AttemptOK, Deploying, OperatorCancels
  <2> QED
    BY <2>1 DEF DInv, IInv, OneActivePerTarget, Jobs, IsActive
<1> QED
  BY <1>1, DInvariance, PTL

\* asynq is told of a success only by the step that wrote COMPLETED, and later
\* only an operator's UPDATE changes the row, for any faults and retries.
THEOREM CompletionRecorded == DSpec => SuccessIsRecorded
<1>1. ASSUME DInv, DNext, NEW j \in Requests PROVE SuccessStep(j)
  <2>0. /\ AttemptOK(j) /\ LastPos = 7 /\ ExecuteOrder[7] = "HEALTH_CHECKING"
        /\ status \in [Requests -> JobStatuses \cup {"ABSENT"}]
        /\ stage \in [Requests -> PipelineStages \cup {""}]
        /\ task \in [Requests -> TaskStates]
        /\ at \in [Requests -> Steps \cup {"off", "dead"}]
    BY <1>1, ExecuteFollowsTransitions DEF DInv, DTypeOK, TypeOK
  <2>1. CASE ApiStep
    <3>1. stage'[j] = stage[j] /\ (Succeeded(j)' <=> Succeeded(j))
      BY <2>1 DEF ApiStep, wvars, Succeeded
    <3>2. ASSUME Succeeded(j) PROVE status'[j] = status[j] \/ Cancel(j)
      <4>1. status[j] # "ABSENT"
        BY <2>0, <3>2 DEF AttemptOK
      <4>2. ASSUME NEW r \in Requests, Receive(r) \/ Handle(r) \/ Crash(r)
            PROVE  status'[j] = status[j]
        <5>1. status' = status \/ (pc[r] = "commit" /\ Committed(r))
          BY <4>2 DEF Receive, Handle, Crash, GetIdempotencyKey, GetActiveDeployment,
               BeginTx, CreateJobTx, CreateIdempotencyKeyTx, RecoverKey, Commit,
               EnqueueDeployJob, db
        <5>2. pc[r] = "commit" => status[r] = "ABSENT"
          BY <1>1 DEF DInv, IInv, Uncreated, InTransaction
        <5> QED  BY <2>0, <4>1, <5>1, <5>2 DEF Committed
      <4>3. ASSUME NEW r \in Requests, Cancel(r)
            PROVE  status'[j] = status[j] \/ Cancel(j)
        BY <2>0, <4>3 DEF Cancel
      <4> QED
        BY <2>1, <4>2, <4>3 DEF ApiStep, KeyAges, DeleteExpiredIdempotencyKeys
    <3> QED  BY <3>1, <3>2 DEF SuccessStep
  <2>2. ASSUME NEW i \in Requests, i # j,
               Attempt(i) \/ Requeue(i) \/ Timeout(i) \/ WorkerCrash(i)
        PROVE  SuccessStep(j)
    <3>1. status'[j] = status[j] /\ stage'[j] = stage[j]
      BY <1>1, <2>2, WorkerKeepsRows
    <3>2. task'[j] = task[j] /\ at'[j] = at[j]
      BY <2>0, <2>2 DEF Attempt, Requeue, Timeout, WorkerCrash, Dequeue, LoadJob,
           EnterStage, RunStage, RecordFailure, RecordSuccess, Acknowledge, Retry,
           Reschedule, Step
    <3> QED  BY <3>1, <3>2 DEF SuccessStep, Succeeded
  <2>3. CASE RecordSuccess(j)
    <3>1. at[j] = "complete" /\ pos[j] = 7 /\ task[j] # "completed"
      BY <2>0, <2>3 DEF RecordSuccess, AttemptOK
    <3>2. ~Succeeded(j) /\ task'[j] = task[j]
      BY <3>1, <2>3 DEF Succeeded, RecordSuccess, Step
    <3>3. at'[j] = "ok" => status'[j] = "COMPLETED" /\ stage'[j] = "HEALTH_CHECKING"
      <4>1. WriteFinal(j, "COMPLETED") \/ at' = [at EXCEPT ![j] = "err"]
        BY <2>3 DEF RecordSuccess, Step
      <4>2. CASE WriteFinal(j, "COMPLETED")
        <5>1. status'[j] = "COMPLETED" /\ stage'[j] = ExecuteOrder[pos[j]]
          BY <1>1, <4>2, Writes
        <5> QED  BY <2>0, <3>1, <5>1
      <4> QED  BY <2>0, <4>1, <4>2
    <3> QED  BY <3>1, <3>2, <3>3 DEF SuccessStep, Succeeded
  <2>4. CASE Acknowledge(j)
    BY <2>4 DEF Acknowledge, SuccessStep, Succeeded, vars
  <2>5. ASSUME \/ Attempt(j) /\ ~RecordSuccess(j) /\ ~Acknowledge(j)
               \/ Requeue(j) \/ Timeout(j) \/ WorkerCrash(j)
        PROVE  ~Succeeded(j)'
    <3>1. task[j] # "completed"
      BY <2>0, <2>5 DEF Attempt, Requeue, Timeout, WorkerCrash, Dequeue, LoadJob,
           EnterStage, RunStage, RecordFailure, Retry, AttemptOK, Steps
    <3> QED
      BY <2>0, <2>5, <3>1 DEF Attempt, Requeue, Timeout, WorkerCrash, Dequeue, LoadJob,
           EnterStage, RunStage, RecordFailure, Retry, Reschedule, Step, Succeeded
  <2> QED
    BY <1>1, <2>1, <2>2, <2>3, <2>4, <2>5 DEF DNext, SuccessStep
<1>2. DInv /\ [DNext]_dvars => [\A j \in Requests : SuccessStep(j)]_dvars
  BY <1>1
<1> QED
  BY <1>2, DInvariance, PTL DEF DSpec, SuccessIsRecorded

\* The recorded stage moves along the transition table or starts over.
THEOREM StagesInOrder == DSpec => StageDiscipline
<1>1. ASSUME DInv, DNext, NEW j \in Requests PROVE StageStep(j)
  <2>1. CASE stage'[j] = stage[j]
    BY <2>1 DEF StageStep
  <2>2. ASSUME WriteRunning(j), at[j] = "update" PROVE StageStep(j)
    <3>1. status'[j] = "RUNNING" /\ stage'[j] = ExecuteOrder[pos[j]]
      BY <1>1, <2>2, Writes
    <3>2. pos[j] \in 1..7
      BY <1>1, ExecuteFollowsTransitions DEF DInv, DTypeOK
    <3>3. CASE pos[j] = 1
      BY <3>1, <3>3, ExecuteFollowsTransitions DEF StageStep
    <3>4. CASE pos[j] # 1
      <4>1. pos[j] \in 2..7 /\ stage[j] = ExecuteOrder[pos[j] - 1]
        BY <1>1, <2>2, <3>2, <3>4 DEF DInv, AttemptOK
      <4> QED
        BY <3>1, <4>1, ExecuteFollowsTransitions DEF StageStep
    <3> QED
      BY <3>3, <3>4
  <2>3. ASSUME NEW s, WriteFinal(j, s), at[j] \in {"fail", "complete"}
        PROVE  stage'[j] = stage[j]
    BY <1>1, <2>3, Writes DEF DInv, AttemptOK
  <2>4. \/ stage'[j] = stage[j]
        \/ WriteRunning(j) /\ at[j] = "update"
        \/ \E s : WriteFinal(j, s) /\ at[j] \in {"fail", "complete"}
    <3>1. CASE ApiStep
      BY <3>1 DEF ApiStep, wvars
    <3>2. ASSUME NEW i \in Requests,
                 Attempt(i) \/ Requeue(i) \/ Timeout(i) \/ WorkerCrash(i)
          PROVE  \/ UNCHANGED stage
                 \/ WriteRunning(i) /\ at[i] = "update"
                 \/ \E s : WriteFinal(i, s) /\ at[i] \in {"fail", "complete"}
      BY <3>2 DEF Attempt, Requeue, Timeout, WorkerCrash, WriteInFlight, NoWrite,
           Dequeue, LoadJob, EnterStage, RunStage, RecordFailure, RecordSuccess,
           Acknowledge, Retry
    <3>3. ASSUME NEW i \in Requests \ {j}, NEW s, WriteRunning(i) \/ WriteFinal(i, s)
          PROVE  stage'[j] = stage[j]
      BY <1>1, <3>3 DEF WriteRunning, WriteFinal, DInv, DTypeOK
    <3> QED
      BY <1>1, <3>1, <3>2, <3>3 DEF DNext
  <2> QED
    BY <2>1, <2>2, <2>3, <2>4
<1>2. DInv /\ [DNext]_dvars => [\A j \in Requests : StageStep(j)]_dvars
  BY <1>1
<1> QED
  BY <1>2, DInvariance, PTL DEF DSpec, StageDiscipline
-----------------------------------------------------------------------------
(* When only stages fail and workers are only restarted gracefully *)

Calm ==
    /\ WorkerFaults \subseteq {"stage", "shutdown"}
    /\ Faults \cap {"db", "redis", "crash"} = {}

\* No attempt is cut off, an error leaves the row with a final status, a task is
\* pushed once, and an active job has a task.
SettledOK(j) ==
    /\ at[j] \notin {"dead", "late"}
    /\ at[j] = "err" => IsTerminal(status[j])
    /\ pc[j] = "enqueue" => j \notin enqueued
    /\ IsActive(status[j]) => HasTask(j)

CalmInv == \A j \in Requests : SettledOK(j)

\* How a request handler's step and the other steps of ApiStep look to one job.
LEMMA ApiKeepsSettled ==
    ASSUME Calm, DInv, CalmInv, ApiStep, NEW j \in Requests PROVE SettledOK(j)'
<1>0. /\ SettledOK(j) /\ AttemptOK(j) /\ UNCHANGED wvars
      /\ pc \in [Requests -> Calls \cup {"idle", "done"}]
      /\ status \in [Requests -> JobStatuses \cup {"ABSENT"}]
      /\ pc[j] \in Calls \ {"enqueue"} => status[j] = "ABSENT"
      /\ enqueued \subseteq Jobs
      /\ ~DbFails /\ ~RedisFails /\ "crash" \notin Faults
  BY DEF CalmInv, ApiStep, DInv, IInv, TypeOK, Uncreated, NoPhantomTask, Calls,
       InTransaction, Calm, DbFails, RedisFails
<1>1. ASSUME NEW r \in Requests \ {j}, Receive(r) \/ Handle(r) \/ Crash(r)
      PROVE  SettledOK(j)'
  <2>1. \E label : pc' = [pc EXCEPT ![r] = label]
    BY <1>0, <1>1 DEF Receive, Handle, Crash, GetIdempotencyKey, GetActiveDeployment,
         BeginTx, CreateJobTx, CreateIdempotencyKeyTx, RecoverKey, Commit,
         EnqueueDeployJob, Goto, Answer
  <2>2. /\ status' = status \/ Committed(r)
        /\ enqueued' = enqueued \/ enqueued' = enqueued \cup {r}
    BY <1>0, <1>1 DEF Receive, Handle, Crash, GetIdempotencyKey, GetActiveDeployment,
         BeginTx, CreateJobTx, CreateIdempotencyKeyTx, RecoverKey, Commit,
         EnqueueDeployJob, db
  <2>3. pc'[j] = pc[j] /\ status'[j] = status[j] /\ (j \in enqueued' <=> j \in enqueued)
    BY <1>0, <1>1, <2>1, <2>2 DEF Committed
  <2> QED  BY <1>0, <2>3 DEF SettledOK, HasTask, wvars
<1>2. CASE Commit(j)
  <2>1. /\ pc'[j] = "enqueue" /\ enqueued' = enqueued /\ status'[j] = "QUEUED"
        /\ j \notin enqueued
    BY <1>0, <1>2 DEF Commit, Committed, Goto, Calls, InTransaction, Jobs
  <2>2. at[j] = "off"
    BY <1>0, <2>1 DEF AttemptOK
  <2> QED  BY <1>0, <2>1, <2>2 DEF SettledOK, HasTask, wvars
<1>3. CASE EnqueueDeployJob(j)
  <2>1. pc'[j] = "done" /\ enqueued' = enqueued \cup {j} /\ status' = status /\ pc[j] = "enqueue"
    BY <1>0, <1>3 DEF EnqueueDeployJob, Answer, db
  <2>2. task[j] = "pending"
    BY <1>0, <2>1 DEF SettledOK, AttemptOK
  <2> QED  BY <1>0, <2>1, <2>2 DEF SettledOK, HasTask, wvars
<1>4. ASSUME (Receive(j) \/ Handle(j)) /\ ~Commit(j) /\ ~EnqueueDeployJob(j)
      PROVE  SettledOK(j)'
  <2>1. UNCHANGED <<status, enqueued>> /\ pc[j] # "enqueue"
    BY <1>4 DEF Receive, Handle, GetIdempotencyKey, GetActiveDeployment,
         BeginTx, CreateJobTx, CreateIdempotencyKeyTx, RecoverKey, db
  <2>2. \E label \in {"lookup", "guard", "begin", "insert", "key", "recover", "commit", "done"} :
           pc' = [pc EXCEPT ![j] = label]
    BY <1>0, <1>4 DEF Receive, Handle, GetIdempotencyKey, GetActiveDeployment,
         BeginTx, CreateJobTx, CreateIdempotencyKeyTx, RecoverKey, Goto, Answer
  <2>3. pc'[j] # "enqueue"
    BY <1>0, <2>2
  <2> QED  BY <1>0, <2>1, <2>3 DEF SettledOK, HasTask, wvars
<1>5. ~Crash(j)
  BY <1>0 DEF Crash
<1>6. ASSUME NEW r \in Requests, Cancel(r) PROVE SettledOK(j)'
  <2>1. status'[j] = status[j] \/ status'[j] = "FAILED"
    BY <1>0, <1>6 DEF Cancel
  <2> QED  BY <1>0, <1>6, <2>1 DEF Cancel, SettledOK, HasTask, wvars, IsActive, IsTerminal
<1>7. ASSUME UNCHANGED <<status, enqueued, pc>> PROVE SettledOK(j)'
  BY <1>0, <1>7 DEF SettledOK, HasTask, wvars
<1> QED
  BY <1>1, <1>2, <1>3, <1>4, <1>5, <1>6, <1>7
     DEF ApiStep, KeyAges, DeleteExpiredIdempotencyKeys, Handle

\* A worker's step, for its own job and for the others.
LEMMA WorkerKeepsSettled ==
    ASSUME Calm, DInv, DInv', CalmInv, NEW j \in Requests, NEW i \in Requests,
           Attempt(j) \/ Requeue(j) \/ Timeout(j) \/ WorkerCrash(j)
    PROVE  SettledOK(i)'
<1>0. /\ SettledOK(i) /\ AttemptOK(j) /\ AttemptOK(j)'
      /\ ~WorkerDbFails /\ ~Timeout(j) /\ ~WorkerCrash(j)
      /\ task \in [Requests -> TaskStates] /\ enqueued \subseteq Jobs
      /\ at \in [Requests -> Steps \cup {"off", "dead"}]
      /\ status \in [Requests -> JobStatuses \cup {"ABSENT"}]
  <2>1. SettledOK(i) /\ AttemptOK(j) /\ AttemptOK(j)'
    BY DEF CalmInv, DInv
  <2>2. ~WorkerDbFails /\ ~Timeout(j) /\ ~WorkerCrash(j)
    BY DEF Calm, WorkerDbFails, Timeout, WorkerCrash
  <2> QED  BY <2>1, <2>2 DEF DInv, DTypeOK, IInv, TypeOK, NoPhantomTask
<1>1. UNCHANGED <<pc, enqueued>>
  BY <1>0 DEF Attempt, Requeue, Dequeue, LoadJob, EnterStage, RunStage, RecordFailure,
       RecordSuccess, Acknowledge, Retry, NoWrite, WriteInFlight, WriteRunning, WriteFinal,
       WorkerStart, WorkerFinish, vars
<1>2. CASE i # j
  <2>1. status'[i] = status[i] /\ task'[i] = task[i] /\ at'[i] = at[i]
    BY <1>0, <1>2 DEF Attempt, Requeue, Dequeue, LoadJob, EnterStage, RunStage,
         RecordFailure, RecordSuccess, Acknowledge, Retry, Reschedule, NoWrite, Step,
         WriteInFlight, WriteRunning, WriteFinal, WorkerStart, WorkerFinish, vars
  <2> QED  BY <1>0, <1>1, <2>1 DEF SettledOK, HasTask
<1>3. CASE i = j
  <2>0. /\ at'[j] \in Steps => task'[j] = "active" /\ j \in enqueued
        /\ task[j] = "active" => j \in enqueued
    BY <1>0, <1>1 DEF AttemptOK, Steps
  <2>1. CASE Dequeue(j)
    BY <1>0, <1>1, <1>3, <2>0, <2>1 DEF Dequeue, SettledOK, HasTask, vars
  <2>2. CASE LoadJob(j)
    <3>1. j \in Jobs
      BY <1>0, <2>2 DEF LoadJob, AttemptOK
    <3>2. at' = [at EXCEPT ![j] = "update"] /\ UNCHANGED <<status, task>>
      BY <1>0, <2>2, <3>1 DEF LoadJob, Step, NoWrite, vars
    <3> QED  BY <1>0, <1>1, <1>3, <3>2 DEF SettledOK, HasTask
  <2>3. CASE EnterStage(j)
    <3>1. CASE WriteRunning(j) /\ Step(j, "run")
      BY <1>0, <1>1, <1>3, <2>0, <3>1 DEF Step, Steps, SettledOK, HasTask
    <3>2. CASE ~(ActiveOn(Target(j)) \subseteq {j}) /\ NoWrite /\ Step(j, "err")
      <4>1. at[j] = "update"
        BY <2>3 DEF EnterStage
      <4>2. j \in Jobs
        BY <1>0, <4>1 DEF AttemptOK
      <4>3. PICK k \in Jobs \ {j} : Target(k) = Target(j) /\ IsActive(status[k])
        BY <3>2 DEF ActiveOn
      <4>4. ~IsActive(status[j])
        BY <4>2, <4>3 DEF DInv, IInv, OneActivePerTarget
      <4>5. IsTerminal(status[j])
        BY <1>0, <4>2, <4>4 DEF Jobs, IsActive, IsTerminal, JobStatuses
      <4> QED  BY <1>0, <1>1, <1>3, <3>2, <4>4, <4>5 DEF Step, NoWrite, vars, SettledOK, HasTask
    <3> QED  BY <1>0, <2>3, <3>1, <3>2 DEF EnterStage
  <2>4. CASE RunStage(j)
    BY <1>0, <1>1, <1>3, <2>0, <2>4 DEF RunStage, Step, NoWrite, vars, SettledOK, HasTask
  <2>5. CASE RecordFailure(j)
    <3>1. WriteFinal(j, "FAILED") /\ at' = [at EXCEPT ![j] = "err"]
      BY <1>0, <1>3, <2>5 DEF RecordFailure, Step, SettledOK
    <3>2. status'[j] = "FAILED"
      BY <3>1, Writes
    <3> QED  BY <1>0, <1>1, <1>3, <3>1, <3>2 DEF SettledOK, IsTerminal, IsActive
  <2>6. CASE RecordSuccess(j)
    <3>1. WriteFinal(j, "COMPLETED") /\ at' = [at EXCEPT ![j] = "ok"]
      BY <1>0, <2>6 DEF RecordSuccess, Step
    <3>2. status'[j] = "COMPLETED"
      BY <3>1, Writes
    <3> QED  BY <1>0, <1>1, <1>3, <3>1, <3>2 DEF SettledOK, IsTerminal, IsActive
  <2>7. CASE Acknowledge(j)
    <3>1. status[j] \in {"COMPLETED", "FAILED"} /\ status' = status /\ at' = [at EXCEPT ![j] = "off"]
      BY <1>0, <2>7 DEF Acknowledge, AttemptOK, Succeeded, vars
    <3> QED  BY <1>0, <1>1, <1>3, <3>1 DEF SettledOK, IsActive
  <2>8. CASE Retry(j)
    <3>1. IsTerminal(status[j]) /\ status' = status /\ at' = [at EXCEPT ![j] = "off"]
      BY <1>0, <1>3, <2>8 DEF Retry, SettledOK, vars
    <3> QED  BY <1>0, <1>1, <1>3, <3>1 DEF SettledOK, IsActive, IsTerminal
  <2>9. CASE Requeue(j)
    <3>1. /\ task' = [task EXCEPT ![j] = "pending"]
          /\ at' = [at EXCEPT ![j] = "off"] /\ j \in enqueued
      BY <1>0, <2>0, <2>9 DEF Requeue, AttemptOK, Steps
    <3> QED  BY <1>0, <1>1, <1>3, <3>1 DEF SettledOK, HasTask
  <2> QED
    BY <1>0, <2>1, <2>2, <2>3, <2>4, <2>5, <2>6, <2>7, <2>8, <2>9 DEF Attempt
<1> QED  BY <1>2, <1>3

\* Every reachable state of a calm service is settled in this sense.
THEOREM CalmInvariance == ASSUME Calm PROVE DSpec => []CalmInv
<1>1. DInit => CalmInv
  BY DEF DInit, Init, CalmInv, SettledOK, IsActive
<1>2. DInv /\ DInv' /\ CalmInv /\ [DNext]_dvars => CalmInv'
  <2> SUFFICES ASSUME DInv, DInv', CalmInv, [DNext]_dvars, NEW j \in Requests
               PROVE  SettledOK(j)'
    BY DEF CalmInv
  <2>1. CASE UNCHANGED dvars
    BY <2>1 DEF CalmInv, SettledOK, HasTask, dvars, vars, wvars
  <2> QED  BY <2>1, ApiKeepsSettled, WorkerKeepsSettled DEF DNext
<1> QED  BY <1>1, <1>2, DInvariance, PTL DEF DSpec

\* If only stages fail and workers are only restarted gracefully, no job is left
\* active without a task, for any number of jobs, slots, retries and restarts.
THEOREM NobodyStuck == ASSUME Calm PROVE DSpec => []NoStuckJob
<1>1. CalmInv => NoStuckJob
  BY DEF CalmInv, SettledOK, NoStuckJob, Jobs
<1> QED  BY <1>1, CalmInvariance, PTL

\* Under the same assumption an attempt that ends with an error leaves its job
\* with a final status.
THEOREM ErrorsAreRecorded == ASSUME Calm PROVE DSpec => []ErrorMeansTerminal
<1>1. CalmInv => ErrorMeansTerminal
  BY DEF CalmInv, SettledOK, ErrorMeansTerminal
<1> QED  BY <1>1, CalmInvariance, PTL

-----------------------------------------------------------------------------
(* When no task of a job is left *)

\* Nobody but an operator touches the row of an ended job any more, and nobody
\* queues it again.
LEMMA RestIsStable ==
    ASSUME DInv, DNext, NEW j \in Jobs, ~HasTask(j), IsTerminal(status[j])
    PROVE  (status'[j] = status[j] \/ Cancel(j)) /\ stage'[j] = stage[j] /\ ~HasTask(j)'
<1>0. /\ j \in Requests /\ AttemptOK(j) /\ at[j] = "off"
      /\ pc[j] \notin {"enqueue", "commit"}
      /\ status \in [Requests -> JobStatuses \cup {"ABSENT"}]
      /\ stage \in [Requests -> PipelineStages \cup {""}]
      /\ task \in [Requests -> TaskStates]
      /\ pc \in [Requests -> Calls \cup {"idle", "done"}]
  BY DEF DInv, DTypeOK, IInv, TypeOK, Uncreated, InTransaction, Jobs, HasTask, AttemptOK
<1>1. ASSUME NEW r \in Requests, Receive(r) \/ Handle(r) \/ Crash(r), UNCHANGED wvars
      PROVE  status'[j] = status[j] /\ stage'[j] = stage[j] /\ ~HasTask(j)'
  <2>1. status'[j] = status[j]
    <3>1. status' = status \/ (pc[r] = "commit" /\ Committed(r))
      BY <1>1 DEF Receive, Handle, Crash, GetIdempotencyKey, GetActiveDeployment,
           BeginTx, CreateJobTx, CreateIdempotencyKeyTx, RecoverKey, Commit,
           EnqueueDeployJob, db
    <3> QED  BY <1>0, <3>1 DEF Committed
  <2>2. enqueued' = enqueued \/ (pc[r] = "enqueue" /\ enqueued' = enqueued \cup {r})
    BY <1>1 DEF Receive, Handle, Crash, GetIdempotencyKey, GetActiveDeployment,
         BeginTx, CreateJobTx, CreateIdempotencyKeyTx, RecoverKey, Commit,
         EnqueueDeployJob, db
  <2>3. j \in enqueued' => j \in enqueued
    BY <1>0, <2>2
  <2>4. pc'[j] # "enqueue"
    <3>1. \/ pc[r] = "commit" /\ pc' = [pc EXCEPT ![r] = "enqueue"]
          \/ \E label \in {"lookup", "guard", "begin", "insert", "key", "recover", "commit", "done"} :
               pc' = [pc EXCEPT ![r] = label]
      BY <1>0, <1>1 DEF Receive, Handle, Crash, GetIdempotencyKey, GetActiveDeployment,
           BeginTx, CreateJobTx, CreateIdempotencyKeyTx, RecoverKey, Commit,
           EnqueueDeployJob, Goto, Answer
    <3> QED  BY <1>0, <3>1
  <2> QED  BY <1>0, <1>1, <2>1, <2>3, <2>4 DEF HasTask, wvars
<1>2. ASSUME NEW r \in Requests, Cancel(r), UNCHANGED wvars
      PROVE  (status'[j] = status[j] \/ Cancel(j)) /\ stage'[j] = stage[j] /\ ~HasTask(j)'
  BY <1>0, <1>2 DEF Cancel, HasTask, wvars
<1>3. ASSUME NEW i \in Requests, Attempt(i) \/ Requeue(i) \/ Timeout(i) \/ WorkerCrash(i)
      PROVE  status'[j] = status[j] /\ stage'[j] = stage[j] /\ ~HasTask(j)'
  <2>1. UNCHANGED <<enqueued, pc>>
    BY <1>3 DEF Attempt, Requeue, Timeout, WorkerCrash, WriteInFlight, Dequeue,
         LoadJob, EnterStage, RunStage, RecordFailure, RecordSuccess, Acknowledge,
         Retry, NoWrite, WriteRunning, WriteFinal, WorkerStart, WorkerFinish, vars
  <2>2. CASE i # j
    <3>1. status'[j] = status[j] /\ stage'[j] = stage[j]
      <4>1. NoWrite \/ WriteRunning(i) \/ WriteFinal(i, "FAILED") \/ WriteFinal(i, "COMPLETED")
        BY <1>3 DEF Attempt, Requeue, Timeout, WorkerCrash, WriteInFlight, NoWrite,
             Dequeue, LoadJob, EnterStage, RunStage, RecordFailure, RecordSuccess,
             Acknowledge, Retry
      <4> QED
        BY <1>0, <2>2, <4>1 DEF NoWrite, WriteRunning, WriteFinal, WorkerStart, WorkerFinish, vars
    <3>2. task'[j] = task[j]
      BY <1>0, <1>3, <2>2 DEF Attempt, Requeue, Timeout, WorkerCrash, Dequeue, LoadJob, EnterStage,
           RunStage, RecordFailure, RecordSuccess, Acknowledge, Retry, Reschedule, Step
    <3> QED  BY <2>1, <3>1, <3>2 DEF HasTask
  <2>3. CASE i = j
    <3>1. task[j] # "pending" \/ j \notin enqueued
      BY DEF HasTask
    <3>2. FALSE
      BY <1>0, <1>3, <2>3, <3>1 DEF Attempt, Requeue, Timeout, WorkerCrash, Dequeue, LoadJob,
           EnterStage, RunStage, RecordFailure, RecordSuccess, Acknowledge, Retry, Steps
    <3> QED  BY <3>2
  <2> QED  BY <2>2, <2>3
<1>4. ASSUME UNCHANGED <<status, enqueued, pc>>, UNCHANGED wvars
      PROVE  status'[j] = status[j] /\ stage'[j] = stage[j] /\ ~HasTask(j)'
  BY <1>4 DEF HasTask, wvars
<1> QED
  BY <1>1, <1>2, <1>3, <1>4 DEF DNext, ApiStep, KeyAges, DeleteExpiredIdempotencyKeys

\* Whatever fails: the manual remedy for a stuck job is not undone.
THEOREM CancelHolds == DSpec => ManualCancelHolds
<1>1. ASSUME DInv, DNext, NEW j \in Jobs, ~HasTask(j), status[j] = "FAILED"
      PROVE  status'[j] = "FAILED"
  <2>1. status'[j] = status[j] \/ Cancel(j)
    BY <1>1, RestIsStable DEF IsTerminal
  <2> QED  BY <1>1, <2>1 DEF Cancel, DInv, DTypeOK, TypeOK, Jobs
<1>2. DInv /\ [DNext]_dvars =>
        [\A j \in Jobs : ~HasTask(j) /\ status[j] = "FAILED" => status'[j] = "FAILED"]_dvars
  BY <1>1
<1> QED  BY <1>2, DInvariance, PTL DEF DSpec, ManualCancelHolds

\* Whatever fails: once a job has ended and no task of it is left, no task is
\* pushed for it again and no attempt, request or clean-up touches its row: only
\* an operator can, and only to make it FAILED.  Where nobody does, it is the
\* "for good" of EveryJobEnds, for any number of jobs, retries and faults.
AtRest(j) == ~HasTask(j) /\ IsTerminal(status[j])

RestStep(j) ==
    AtRest(j) => /\ status'[j] = status[j] \/ (Cancel(j) /\ status'[j] = "FAILED")
                 /\ stage'[j] = stage[j]
                 /\ AtRest(j)'

RestIsFinal == [][\A j \in Jobs : RestStep(j)]_dvars

THEOREM EndedForGood == DSpec => RestIsFinal
<1>1. ASSUME DInv, DNext, NEW j \in Jobs, AtRest(j) PROVE RestStep(j)
  <2>1. (status'[j] = status[j] \/ Cancel(j)) /\ stage'[j] = stage[j] /\ ~HasTask(j)'
    BY <1>1, RestIsStable DEF AtRest
  <2>2. Cancel(j) => status'[j] = "FAILED"
    BY <1>1 DEF Cancel, DInv, DTypeOK, TypeOK, Jobs
  <2> QED  BY <1>1, <2>1, <2>2 DEF RestStep, AtRest, IsTerminal
<1>2. DInv /\ [DNext]_dvars => [\A j \in Jobs : RestStep(j)]_dvars
  BY <1>1 DEF RestStep
<1> QED  BY <1>2, DInvariance, PTL DEF DSpec, RestIsFinal
=============================================================================
