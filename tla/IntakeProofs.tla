---------------------------- MODULE IntakeProofs ----------------------------
(***************************************************************************)
(* Proofs about Intake, for every set of requests, digests and targets,    *)
(* every pool size and every combination of faults.                        *)
(***************************************************************************)
EXTENDS Intake, TLAPS

\* Before its transaction commits, a request has no job.
Uncreated ==
    \A r \in Requests :
        pc[r] \in {"idle", "lookup", "guard", "begin", "insert", "key",
                   "recover", "commit"}
            => status[r] = "ABSENT"

\* A key row names an existing job with the row's digest.
KeyOwner ==
    \A h \in Hashes :
        keys[h] # NoJob => keys[h] \in Jobs /\ HashOf[keys[h]] = h

\* A transaction that inserted its key row is alone with that digest.
CommitClear ==
    \A r \in Requests : pc[r] = "commit" => keys[HashOf[r]] = NoJob

\* A handler pushes a task only after its job was committed.
Created == \A r \in Requests : pc[r] = "enqueue" => r \in Jobs

Unanswered ==
    \A r \in Requests : pc[r] # "done" => resp[r] = NoResponse

IInv ==
    /\ TypeOK
    /\ Uncreated
    /\ UncommittedIsExclusive
    /\ OneActivePerTarget
    /\ KeyOwner
    /\ JobHasKey
    /\ CommitClear
    /\ Created
    /\ NoPhantomTask
    /\ Unanswered
    /\ AcceptedIsDurable
    /\ RefusedLeavesNoTrace

-----------------------------------------------------------------------------
(* The three ways in which a handler's step changes the state *)

\* A handler that only moves on, having written nothing, keeps the invariant
\* if it keeps what the later steps rely on.
LEMMA GotoKeepsIInv ==
    ASSUME IInv, NEW r \in Requests, NEW label \in Calls,
           pc[r] \in {"idle", "lookup", "guard", "begin", "insert", "key"},
           Goto(r, label), UNCHANGED <<db, enqueued>>,
           label # "enqueue",
           label = "key" => Uncommitted(Target(r)) = {} /\ ActiveOn(Target(r)) = {},
           label = "commit" => pc[r] = "key" /\ keys[HashOf[r]] = NoJob
    PROVE  IInv'
<1> USE IntakeAssumption DEF IInv, Goto, db
<1>1. Jobs' = Jobs
  BY DEF Jobs
<1>2. TypeOK'
  BY DEF TypeOK, Calls, InTransaction
<1>3. Uncreated'
  BY DEF Uncreated, TypeOK, Calls, InTransaction
<1>4. UncommittedIsExclusive'
  <2>1. CASE label = "key"
    <3>1. \A i \in Requests : Target(i) = Target(r) =>
             pc[i] \notin {"key", "commit"} /\ ~IsActive(status[i])
      BY <2>1 DEF Uncommitted, ActiveOn, Jobs, IsActive
    <3> QED
      BY <3>1 DEF UncommittedIsExclusive, TypeOK, Target
  <2>2. CASE label # "key"
    BY <2>2 DEF UncommittedIsExclusive, TypeOK, Target
  <2> QED
    BY <2>1, <2>2
<1>5. OneActivePerTarget'
  BY <1>1 DEF OneActivePerTarget, Target
<1>6. KeyOwner' /\ JobHasKey' /\ NoPhantomTask'
  BY <1>1 DEF KeyOwner, JobHasKey, NoPhantomTask
<1>7. CommitClear'
  BY DEF CommitClear, TypeOK
<1>8. Created'
  BY <1>1 DEF Created, TypeOK
<1>9. Unanswered'
  BY DEF Unanswered, TypeOK
<1>10. AcceptedIsDurable' /\ RefusedLeavesNoTrace'
  BY <1>1 DEF AcceptedIsDurable, RefusedLeavesNoTrace
<1> QED
  BY <1>2, <1>3, <1>4, <1>5, <1>6, <1>7, <1>8, <1>9, <1>10

\* A handler that answers, having written at most to the queue, keeps the
\* invariant if what it says is true.
LEMMA AnswerKeepsIInv ==
    ASSUME IInv, NEW r \in Requests, NEW code \in Codes \cup {"lost"},
           NEW job \in Requests \cup {NoJob},
           pc[r] # "done",
           Answer(r, code, job), UNCHANGED db,
           enqueued' \in {enqueued, enqueued \cup {r}},
           enqueued' # enqueued => r \in Jobs,
           code = "201" => job \in Jobs /\ HashOf[job] = HashOf[r],
           code \in {"400", "409"} => r \notin Jobs
    PROVE  IInv'
<1> USE IntakeAssumption DEF IInv, Answer, db
<1>1. Jobs' = Jobs
  BY DEF Jobs
<1>2. TypeOK'
  BY DEF TypeOK
<1>3. Uncreated'
  BY DEF Uncreated, TypeOK
<1>4. UncommittedIsExclusive'
  BY DEF UncommittedIsExclusive, TypeOK, Target
<1>5. OneActivePerTarget'
  BY <1>1 DEF OneActivePerTarget, Target
<1>6. KeyOwner' /\ JobHasKey' /\ NoPhantomTask'
  BY <1>1 DEF KeyOwner, JobHasKey, NoPhantomTask
<1>7. CommitClear'
  BY DEF CommitClear, TypeOK
<1>8. Created'
  BY <1>1 DEF Created, TypeOK
<1>9. Unanswered'
  BY DEF Unanswered, TypeOK
<1>10. AcceptedIsDurable'
  BY <1>1 DEF AcceptedIsDurable, TypeOK
<1>11. RefusedLeavesNoTrace'
  BY <1>1 DEF RefusedLeavesNoTrace, TypeOK
<1> QED
  BY <1>2, <1>3, <1>4, <1>5, <1>6, <1>7, <1>8, <1>9, <1>10, <1>11

\* A commit, noticed or not, keeps the invariant.
LEMMA CommittedKeepsIInv ==
    ASSUME IInv, NEW r \in Requests, pc[r] = "commit", Committed(r),
           UNCHANGED enqueued,
           \/ Goto(r, "enqueue")
           \/ \E code \in {"500", "lost"} : Answer(r, code, NoJob)
    PROVE  IInv'
<1> USE IntakeAssumption DEF IInv, Committed
<1> DEFINE h == HashOf[r]
<1>0. /\ r \notin Jobs /\ Jobs' = Jobs \cup {r}
      /\ keys[h] = NoJob /\ h \in Hashes
      /\ \E label \in {"enqueue", "done"} : pc' = [pc EXCEPT ![r] = label]
      /\ resp[r] = NoResponse
  <2>1. status[r] = "ABSENT" /\ keys[h] = NoJob /\ resp[r] = NoResponse
    BY DEF Uncreated, CommitClear, Unanswered
  <2>2. h \in Hashes
    BY DEF IntakeAssumption
  <2>3. Jobs' = Jobs \cup {r}
    BY DEF Jobs, TypeOK
  <2>4. \E label \in {"enqueue", "done"} : pc' = [pc EXCEPT ![r] = label]
    BY DEF Goto, Answer
  <2> QED
    BY <2>1, <2>2, <2>3, <2>4 DEF Jobs
<1>1. \A i \in Requests \ {r} : Target(i) = Target(r) =>
          pc[i] \notin {"key", "commit"} /\ ~IsActive(status[i])
  BY DEF UncommittedIsExclusive
<1>2. TypeOK'
  <2>1. status' \in [Requests -> JobStatuses \cup {"ABSENT"}]
    BY DEF TypeOK, JobStatuses
  <2>2. keys' \in [Hashes -> Requests \cup {NoJob}]
    BY DEF TypeOK
  <2>3. pc' \in [Requests -> Calls \cup {"idle", "done"}]
    BY <1>0 DEF TypeOK, Calls
  <2>4. resp' \in [Requests -> [code : Codes \cup {"none", "lost"},
                               job : Requests \cup {NoJob}]]
    <3>1. CASE Goto(r, "enqueue")
      BY <3>1 DEF Goto, TypeOK
    <3>2. CASE \E code \in {"500", "lost"} : Answer(r, code, NoJob)
      BY <3>2 DEF Answer, TypeOK, Codes
    <3> QED
      BY <3>1, <3>2
  <2> QED
    BY <2>1, <2>2, <2>3, <2>4 DEF TypeOK
<1>3. Uncreated'
  BY DEF Uncreated, TypeOK, Goto, Answer
<1>4. UncommittedIsExclusive'
  BY <1>0, <1>1 DEF UncommittedIsExclusive, TypeOK, Target
<1>5. OneActivePerTarget'
  BY <1>0, <1>1 DEF OneActivePerTarget, TypeOK, Target, Jobs
<1>6. KeyOwner'
  BY <1>0 DEF KeyOwner, TypeOK
<1>7. JobHasKey'
  BY <1>0 DEF JobHasKey, TypeOK, Jobs
<1>8. CommitClear'
  <2> SUFFICES ASSUME NEW i \in Requests, pc'[i] = "commit" PROVE keys'[HashOf[i]] = NoJob
    BY DEF CommitClear
  <2>1. i # r /\ pc[i] = "commit"
    BY <1>0 DEF TypeOK
  <2>2. HashOf[i] # h
    BY <1>1, <2>1 DEF Target
  <2> QED
    BY <2>1, <2>2 DEF CommitClear, TypeOK
<1>9. Created' /\ NoPhantomTask'
  BY <1>0 DEF Created, NoPhantomTask, TypeOK
<1>10. Unanswered'
  BY <1>0 DEF Unanswered, TypeOK, Goto, Answer
<1>11. AcceptedIsDurable'
  BY <1>0 DEF AcceptedIsDurable, TypeOK, Goto, Answer
<1>12. RefusedLeavesNoTrace'
  BY <1>0 DEF RefusedLeavesNoTrace, TypeOK, Goto, Answer, NoResponse
<1> QED
  BY <1>2, <1>3, <1>4, <1>5, <1>6, <1>7, <1>8, <1>9, <1>10, <1>11, <1>12

-----------------------------------------------------------------------------
(* The actions *)

LEMMA InitIInv == Init => IInv
BY IntakeAssumption
   DEF Init, IInv, TypeOK, Uncreated, UncommittedIsExclusive, OneActivePerTarget,
       KeyOwner, JobHasKey, CommitClear, Created, NoPhantomTask, Unanswered,
       AcceptedIsDurable, RefusedLeavesNoTrace, Jobs, NoResponse, IsActive

\* Everything a handler does, including dying.
LEMMA HandlerKeepsIInv ==
    ASSUME IInv, NEW r \in Requests, Receive(r) \/ Handle(r) \/ Crash(r)
    PROVE  IInv'
<1> USE IntakeAssumption
<1> DEFINE h == HashOf[r]
<1>0. /\ h \in Hashes
      /\ keys[h] # NoJob => keys[h] \in Jobs /\ HashOf[keys[h]] = h
      /\ \A j \in ActiveOn(Target(r)) : j \in Requests
      /\ pc[r] \notin {"enqueue", "done"} => r \notin Jobs
      /\ keys[h] \in Requests \cup {NoJob}
  BY DEF IInv, KeyOwner, ActiveOn, Jobs, Uncreated, TypeOK, Calls, InTransaction
<1>1. CASE Receive(r)
  <2>1. CASE r \in WellFormed /\ Goto(r, "lookup")
    BY <1>1, <2>1, GotoKeepsIInv DEF Receive, Calls
  <2>2. CASE Answer(r, "400", NoJob)
    BY <1>0, <1>1, <2>2, AnswerKeepsIInv DEF Receive, Codes
  <2> QED
    BY <1>1, <2>1, <2>2 DEF Receive
<1>2. CASE GetIdempotencyKey(r)
  <2>1. CASE keys[h] # NoJob /\ Answer(r, "201", keys[h])
    BY <1>0, <1>2, <2>1, AnswerKeepsIInv DEF GetIdempotencyKey, Codes
  <2>2. CASE Goto(r, "guard")
    BY <1>2, <2>2, GotoKeepsIInv DEF GetIdempotencyKey, Calls
  <2> QED
    BY <1>2, <2>1, <2>2 DEF GetIdempotencyKey
<1>3. CASE GetActiveDeployment(r)
  <2>1. ASSUME NEW j \in ActiveOn(Target(r)), Answer(r, "409", j) PROVE IInv'
    BY <1>0, <1>3, <2>1, AnswerKeepsIInv DEF GetActiveDeployment, Codes
  <2>2. CASE Goto(r, "begin")
    BY <1>3, <2>2, GotoKeepsIInv DEF GetActiveDeployment, Calls
  <2> QED
    BY <1>3, <2>1, <2>2 DEF GetActiveDeployment
<1>4. CASE BeginTx(r)
  <2>1. CASE Goto(r, "insert")
    BY <1>4, <2>1, GotoKeepsIInv DEF BeginTx, Calls, InTransaction
  <2>2. CASE Answer(r, "500", NoJob)
    BY <1>0, <1>4, <2>2, AnswerKeepsIInv DEF BeginTx, Codes
  <2> QED
    BY <1>4, <2>1, <2>2 DEF BeginTx
<1>5. CASE CreateJobTx(r)
  <2>1. CASE /\ Uncommitted(Target(r)) = {} /\ ActiveOn(Target(r)) = {}
             /\ Goto(r, "key")
    BY <1>5, <2>1, GotoKeepsIInv DEF CreateJobTx, Calls, InTransaction
  <2>2. CASE Answer(r, "500", NoJob)
    BY <1>0, <1>5, <2>2, AnswerKeepsIInv DEF CreateJobTx, Codes
  <2> QED
    BY <1>5, <2>1, <2>2 DEF CreateJobTx
<1>6. CASE CreateIdempotencyKeyTx(r)
  <2>1. CASE keys[h] = NoJob /\ Goto(r, "commit")
    BY <1>6, <2>1, GotoKeepsIInv DEF CreateIdempotencyKeyTx, Calls, InTransaction
  <2>2. CASE Goto(r, "recover")
    BY <1>6, <2>2, GotoKeepsIInv DEF CreateIdempotencyKeyTx, Calls
  <2>3. CASE Answer(r, "500", NoJob)
    BY <1>0, <1>6, <2>3, AnswerKeepsIInv DEF CreateIdempotencyKeyTx, Codes
  <2> QED
    BY <1>6, <2>1, <2>2, <2>3 DEF CreateIdempotencyKeyTx
<1>7. CASE RecoverKey(r)
  <2>1. CASE keys[h] # NoJob /\ Answer(r, "201", keys[h])
    BY <1>0, <1>7, <2>1, AnswerKeepsIInv DEF RecoverKey, Codes
  <2>2. CASE Answer(r, "409", NoJob)
    BY <1>0, <1>7, <2>2, AnswerKeepsIInv DEF RecoverKey, Codes
  <2> QED
    BY <1>7, <2>1, <2>2 DEF RecoverKey
<1>8. CASE Commit(r)
  <2>1. CASE Committed(r)
    BY <1>8, <2>1, CommittedKeepsIInv DEF Commit
  <2>2. CASE UNCHANGED db /\ Answer(r, "500", NoJob)
    BY <1>0, <1>8, <2>2, AnswerKeepsIInv DEF Commit, Codes
  <2> QED
    BY <1>8, <2>1, <2>2 DEF Commit
<1>9. CASE EnqueueDeployJob(r)
  <2>0. r \in Jobs
    BY <1>9 DEF EnqueueDeployJob, IInv, Created
  <2>1. CASE enqueued' = enqueued \cup {r} /\ Answer(r, "201", r)
    BY <2>0, <1>9, <2>1, AnswerKeepsIInv DEF EnqueueDeployJob, Codes
  <2>2. CASE /\ enqueued' \in {enqueued, enqueued \cup {r}}
             /\ Answer(r, "500", NoJob)
    BY <2>0, <1>9, <2>2, AnswerKeepsIInv DEF EnqueueDeployJob, Codes
  <2> QED
    BY <1>9, <2>1, <2>2 DEF EnqueueDeployJob
<1>10. CASE Crash(r)
  <2>0. pc[r] # "done"
    BY <1>10 DEF Crash, InFlight, Calls, InTransaction
  <2>1. CASE UNCHANGED <<db, enqueued>>
    BY <1>10, <2>0, <2>1, AnswerKeepsIInv DEF Crash
  <2>2. CASE pc[r] = "commit" /\ Committed(r) /\ UNCHANGED enqueued
    BY <1>10, <2>2, CommittedKeepsIInv DEF Crash
  <2>3. CASE /\ pc[r] = "enqueue" /\ enqueued' = enqueued \cup {r}
             /\ UNCHANGED db
    <3>1. r \in Jobs
      BY <2>3 DEF IInv, Created
    <3> QED
      BY <1>10, <2>0, <2>3, <3>1, AnswerKeepsIInv DEF Crash
  <2> QED
    BY <1>10, <2>1, <2>2, <2>3 DEF Crash
<1> QED
  BY <1>1, <1>2, <1>3, <1>4, <1>5, <1>6, <1>7, <1>8, <1>9, <1>10 DEF Handle

\* A status update of an existing job keeps the invariant unless it makes a job
\* active next to another one of its target.
LEMMA StatusUpdateKeepsIInv ==
    ASSUME IInv, NEW j \in Jobs, NEW s \in JobStatuses,
           IsActive(s) => MayActivate(j),
           status' = [status EXCEPT ![j] = s],
           UNCHANGED <<keys, aged, enqueued, pc, resp>>
    PROVE  IInv'
<1> USE IntakeAssumption DEF IInv
<1>1. j \in Requests /\ status[j] # "ABSENT" /\ Jobs' = Jobs
  BY DEF Jobs, TypeOK, JobStatuses
<1>2. TypeOK'
  BY <1>1 DEF TypeOK
<1>3. Uncreated'
  BY <1>1 DEF Uncreated, TypeOK
<1>4. UncommittedIsExclusive'
  <2>1. IsActive(s) => \A r \in Requests :
           Target(r) = Target(j) => pc[r] \notin {"key", "commit"}
    BY DEF MayActivate, Uncommitted
  <2> QED
    BY <1>1, <2>1 DEF UncommittedIsExclusive, TypeOK, Target
<1>5. OneActivePerTarget'
  <2>1. IsActive(s) => \A i \in Jobs :
           Target(i) = Target(j) /\ IsActive(status[i]) => i = j
    BY DEF MayActivate, ActiveOn
  <2> QED
    BY <1>1, <2>1 DEF OneActivePerTarget, TypeOK, Target
<1>6. KeyOwner' /\ JobHasKey' /\ NoPhantomTask' /\ CommitClear'
  BY <1>1 DEF KeyOwner, JobHasKey, NoPhantomTask, CommitClear
<1>7. Created' /\ Unanswered' /\ AcceptedIsDurable' /\ RefusedLeavesNoTrace'
  BY <1>1 DEF Created, Unanswered, AcceptedIsDurable, RefusedLeavesNoTrace, NoResponse
<1> QED
  BY <1>2, <1>3, <1>4, <1>5, <1>6, <1>7

\* The worker's and the operator's updates, and the expiry of keys.
LEMMA EnvironmentKeepsIInv ==
    ASSUME IInv,
           \/ \E j \in Requests : \/ WorkerStart(j)
                                  \/ WorkerFinish(j, "COMPLETED")
                                  \/ WorkerFinish(j, "FAILED")
                                  \/ Cancel(j)
                                  \/ KeyAges(j)
           \/ DeleteExpiredIdempotencyKeys
    PROVE  IInv'
<1> USE IntakeAssumption
<1>0. enqueued \subseteq Jobs /\ ~IsActive("ABSENT")
  BY DEF IInv, NoPhantomTask, IsActive
<1>1. ASSUME NEW j \in Requests, WorkerStart(j) PROVE IInv'
  BY <1>0, <1>1, StatusUpdateKeepsIInv DEF WorkerStart, JobStatuses
<1>2. ASSUME NEW j \in Requests, NEW s \in {"COMPLETED", "FAILED"}, WorkerFinish(j, s)
      PROVE  IInv'
  BY <1>0, <1>2, StatusUpdateKeepsIInv DEF WorkerFinish, JobStatuses, IsActive
<1>3. ASSUME NEW j \in Requests, Cancel(j) PROVE IInv'
  BY <1>0, <1>3, StatusUpdateKeepsIInv DEF Cancel, JobStatuses, IsActive
<1>4. ASSUME NEW j \in Requests, KeyAges(j) PROVE IInv'
  <2> USE <1>4 DEF KeyAges, IInv
  <2>1. Jobs' = Jobs
    BY DEF Jobs
  <2>2. TypeOK' /\ Uncreated' /\ UncommittedIsExclusive'
    BY DEF TypeOK, Jobs, Uncreated, UncommittedIsExclusive, Target
  <2>3. OneActivePerTarget' /\ KeyOwner' /\ JobHasKey' /\ CommitClear'
    BY <2>1 DEF OneActivePerTarget, KeyOwner, JobHasKey, CommitClear, Target
  <2>4. Created' /\ NoPhantomTask' /\ Unanswered' /\ AcceptedIsDurable'
    BY <2>1 DEF Created, NoPhantomTask, Unanswered, AcceptedIsDurable, NoResponse
  <2> QED
    BY <2>1, <2>2, <2>3, <2>4 DEF RefusedLeavesNoTrace
<1>5. ASSUME DeleteExpiredIdempotencyKeys PROVE IInv'
  <2> USE <1>5 DEF DeleteExpiredIdempotencyKeys, IInv
  <2>1. Jobs' = Jobs
    BY DEF Jobs
  <2>2. TypeOK' /\ Uncreated' /\ UncommittedIsExclusive'
    BY DEF TypeOK, Uncreated, UncommittedIsExclusive, Target
  <2>3. KeyOwner' /\ CommitClear'
    BY <2>1 DEF KeyOwner, CommitClear
  <2>4. JobHasKey'
    BY <2>1 DEF JobHasKey, Jobs
  <2>5. OneActivePerTarget' /\ Created' /\ NoPhantomTask' /\ Unanswered'
    BY <2>1 DEF OneActivePerTarget, Created, NoPhantomTask, Unanswered, Target, NoResponse
  <2>6. AcceptedIsDurable' /\ RefusedLeavesNoTrace'
    BY <2>1 DEF AcceptedIsDurable, RefusedLeavesNoTrace
  <2> QED
    BY <2>2, <2>3, <2>4, <2>5, <2>6
<1> QED
  BY <1>1, <1>2, <1>3, <1>4, <1>5

LEMMA NextIInv == IInv /\ [Next]_vars => IInv'
<1> SUFFICES ASSUME IInv, [Next]_vars PROVE IInv'
  OBVIOUS
<1>1. CASE Next
  BY <1>1, HandlerKeepsIInv, EnvironmentKeepsIInv DEF Next
<1>2. CASE UNCHANGED vars
  BY <1>2 DEF vars, IInv, TypeOK, Uncreated, UncommittedIsExclusive,
       OneActivePerTarget, KeyOwner, JobHasKey, CommitClear, Created,
       NoPhantomTask, Unanswered, AcceptedIsDurable, RefusedLeavesNoTrace, Jobs,
       Target, NoResponse
<1> QED
  BY <1>1, <1>2

-----------------------------------------------------------------------------
(* Theorems *)

\* Every reachable state satisfies the inductive invariant.
THEOREM Invariance == Spec => []IInv
<1> QED
  BY InitIInv, NextIInv, PTL DEF Spec

\* The variables stay in their ranges.
THEOREM TypeCorrect == Spec => []TypeOK
<1>1. IInv => TypeOK
  BY DEF IInv
<1> QED
  BY <1>1, Invariance, PTL

\* A target never has two QUEUED or RUNNING jobs, whatever requests, retrying
\* attempts, cancellations and failing calls do.
THEOREM TargetExclusion == Spec => []OneActivePerTarget
<1>1. IInv => OneActivePerTarget
  BY DEF IInv
<1> QED
  BY <1>1, Invariance, PTL

\* No transaction's key insert ever waits for another transaction.
THEOREM TransactionExclusion == Spec => []UncommittedIsExclusive
<1>1. IInv => UncommittedIsExclusive
  BY DEF IInv
<1> QED
  BY <1>1, Invariance, PTL

\* A committed job younger than 24 hours always has the key row that replays its
\* response.
THEOREM KeyedJobs == Spec => []JobHasKey
<1>1. IInv => JobHasKey
  BY DEF IInv
<1> QED
  BY <1>1, Invariance, PTL

\* Job and key row are never one without the other, so the same contents are
\* deployed twice only when 24 hours lie between.
THEOREM Deduplication == Spec => []DeduplicatedFor24h
<1>1. IInv => DeduplicatedFor24h
  BY DEF IInv, JobHasKey, DeduplicatedFor24h
<1> QED
  BY <1>1, Invariance, PTL

\* A 201, new or replayed, names a committed job for the same contents.
THEOREM HonestResponses == Spec => []AcceptedIsDurable
<1>1. IInv => AcceptedIsDurable
  BY DEF IInv
<1> QED
  BY <1>1, Invariance, PTL

\* A request refused with 400 or 409 left no job behind.
THEOREM CleanRefusals == Spec => []RefusedLeavesNoTrace
<1>1. IInv => RefusedLeavesNoTrace
  BY DEF IInv
<1> QED
  BY <1>1, Invariance, PTL

\* No task runs ahead of its job's row.
THEOREM TasksHaveJobs == Spec => []NoPhantomTask
<1>1. IInv => NoPhantomTask
  BY DEF IInv
<1> QED
  BY <1>1, Invariance, PTL

\* Without faults a handler pushes the task of every job it commits.
LEMMA HandlerLeavesNoOrphan ==
    ASSUME Faults \cap {"db", "redis", "crash"} = {}, IInv, NoOrphan,
           NEW r \in Requests, Receive(r) \/ Handle(r) \/ Crash(r)
    PROVE  NoOrphan'
<1>1. ~DbFails /\ ~RedisFails /\ "crash" \notin Faults
  BY DEF DbFails, RedisFails
<1>2. pc \in [Requests -> Calls \cup {"idle", "done"}] /\ status \in [Requests -> JobStatuses \cup {"ABSENT"}]
  BY DEF IInv, TypeOK
<1>3. CASE Commit(r)
  <2>1. Jobs' \subseteq Jobs \cup {r} /\ pc' = [pc EXCEPT ![r] = "enqueue"] /\ UNCHANGED enqueued
    BY <1>1, <1>2, <1>3 DEF Commit, Committed, Goto, Jobs
  <2> QED  BY <1>2, <2>1 DEF NoOrphan, Jobs
<1>4. CASE EnqueueDeployJob(r)
  <2>1. Jobs' = Jobs /\ pc' = [pc EXCEPT ![r] = "done"] /\ enqueued' = enqueued \cup {r}
    BY <1>1, <1>4 DEF EnqueueDeployJob, Answer, Jobs, db
  <2> QED  BY <1>2, <2>1 DEF NoOrphan, Jobs
<1>5. ASSUME pc[r] # "enqueue", UNCHANGED <<db, enqueued>>,
             \A i \in Requests \ {r} : pc'[i] = pc[i]
      PROVE  NoOrphan'
  BY <1>5 DEF NoOrphan, Jobs, db
<1>6. /\ Receive(r) => pc[r] = "idle" /\ UNCHANGED <<db, enqueued>>
      /\ Handle(r) => \/ Commit(r) \/ EnqueueDeployJob(r)
                      \/ pc[r] # "enqueue" /\ UNCHANGED <<db, enqueued>>
      /\ ~Crash(r)
  BY <1>1 DEF Receive, Handle, Crash, GetIdempotencyKey, GetActiveDeployment,
       BeginTx, CreateJobTx, CreateIdempotencyKeyTx, RecoverKey
<1>7. \E label : pc' = [pc EXCEPT ![r] = label]
  BY <1>1 DEF Receive, Handle, Crash, GetIdempotencyKey, GetActiveDeployment,
       BeginTx, CreateJobTx, CreateIdempotencyKeyTx, RecoverKey, Commit,
       EnqueueDeployJob, Goto, Answer
<1>8. \A i \in Requests \ {r} : pc'[i] = pc[i]
  BY <1>2, <1>7
<1> QED  BY <1>3, <1>4, <1>5, <1>6, <1>8

\* Without failing calls and dying handlers, every committed job's task is in the
\* queue or about to be pushed: the orphans of IntakeOrphan need a fault.
THEOREM EveryJobQueued ==
    ASSUME Faults \cap {"db", "redis", "crash"} = {}
    PROVE  Spec => []NoOrphan
<1>1. Init => NoOrphan
  BY DEF Init, NoOrphan, Jobs
<1>2. IInv /\ NoOrphan /\ [Next]_vars => NoOrphan'
  <2> SUFFICES ASSUME IInv, NoOrphan, [Next]_vars PROVE NoOrphan'
    OBVIOUS
  <2>1. ASSUME NEW r \in Requests, Receive(r) \/ Handle(r) \/ Crash(r) PROVE NoOrphan'
    BY <2>1, HandlerLeavesNoOrphan
  <2>2. enqueued \subseteq Jobs
    BY DEF IInv, NoPhantomTask
  <2>3. ASSUME NEW j \in Jobs, \E s : status' = [status EXCEPT ![j] = s],
               UNCHANGED <<enqueued, pc>>
        PROVE  NoOrphan'
    BY <2>3 DEF NoOrphan, Jobs
  <2>4. ASSUME NEW j \in Requests, \/ WorkerStart(j) \/ WorkerFinish(j, "COMPLETED")
                                  \/ WorkerFinish(j, "FAILED") \/ Cancel(j)
        PROVE  NoOrphan'
    <3>1. j \in Jobs
      BY <2>2, <2>4 DEF WorkerStart, WorkerFinish, Cancel
    <3> QED  BY <2>3, <2>4, <3>1 DEF WorkerStart, WorkerFinish, Cancel
  <2>5. ASSUME UNCHANGED <<status, enqueued, pc>> PROVE NoOrphan'
    BY <2>5 DEF NoOrphan, Jobs
  <2> QED
    BY <2>1, <2>4, <2>5 DEF Next, KeyAges, DeleteExpiredIdempotencyKeys, vars
<1> QED
  BY <1>1, <1>2, Invariance, PTL DEF Spec

\* A stored response is never replaced, and is removed only after 24 hours.
THEOREM WriteOnceKeys == Spec => KeysAreWriteOnce
<1>1. ASSUME IInv, Next, NEW h \in Hashes PROVE WrittenOnce(h)
  <2>1. ASSUME NEW r \in Requests, pc[r] = "commit", Committed(r) PROVE WrittenOnce(h)
    BY <1>1, <2>1, IntakeAssumption
       DEF WrittenOnce, Committed, IInv, TypeOK, Uncreated, CommitClear, Jobs
  <2>2. ASSUME DeleteExpiredIdempotencyKeys PROVE WrittenOnce(h)
    BY <2>2 DEF WrittenOnce, DeleteExpiredIdempotencyKeys
  <2>3. \/ UNCHANGED keys
        \/ \E r \in Requests : pc[r] = "commit" /\ Committed(r)
        \/ DeleteExpiredIdempotencyKeys
    BY <1>1 DEF Next, Receive, Handle, GetIdempotencyKey, GetActiveDeployment,
         BeginTx, CreateJobTx, CreateIdempotencyKeyTx, RecoverKey, Commit,
         EnqueueDeployJob, Crash, WorkerStart, WorkerFinish, Cancel, KeyAges, db
  <2> QED
    BY <2>1, <2>2, <2>3 DEF WrittenOnce
<1>2. IInv /\ [Next]_vars =>
        [\A h \in Hashes : WrittenOnce(h)]_vars
  BY <1>1 DEF WrittenOnce, vars
<1> QED
  BY <1>2, Invariance, PTL DEF Spec, KeysAreWriteOnce

\* A job appears as QUEUED, and its status then moves as StatusMoves says.
StatusMove(j) ==
    \/ status'[j] = status[j]
    \/ status[j] = "ABSENT" /\ status'[j] = "QUEUED"
    \/ <<status[j], status'[j]>> \in StatusMoves

StatusDiscipline == [][\A j \in Requests : StatusMove(j)]_vars

\* The readers of the jobs table, Listing, assume of its writers that they make
\* no other moves: handlers, attempts, repeated or overtaken, and operators
\* indeed make none.
THEOREM WritersKeepToMoves == Spec => StatusDiscipline
<1>1. ASSUME IInv, Next, NEW j \in Requests PROVE StatusMove(j)
  <2>0. /\ status \in [Requests -> JobStatuses \cup {"ABSENT"}] /\ enqueued \subseteq Jobs
        /\ j \in enqueued => status[j] \in JobStatuses
    BY <1>1 DEF IInv, TypeOK, NoPhantomTask, Jobs
  <2>1. ASSUME NEW r \in Requests, pc[r] = "commit", Committed(r) PROVE StatusMove(j)
    BY <1>1, <2>0, <2>1 DEF StatusMove, Committed, IInv, Uncreated, InTransaction
  <2>2. ASSUME NEW r \in Requests, WorkerStart(r) PROVE StatusMove(j)
    <3>1. status' = [status EXCEPT ![r] = "RUNNING"] /\ r \in enqueued
      BY <2>2 DEF WorkerStart
    <3> QED  BY <2>0, <3>1 DEF StatusMove, StatusMoves, JobStatuses
  <2>3. ASSUME NEW r \in Requests, NEW s \in {"COMPLETED", "FAILED"}, WorkerFinish(r, s)
        PROVE  StatusMove(j)
    BY <2>0, <2>3 DEF WorkerFinish, StatusMove, StatusMoves
  <2>4. ASSUME NEW r \in Requests, Cancel(r) PROVE StatusMove(j)
    <3>1. r \in Jobs /\ status' = [status EXCEPT ![r] = "FAILED"]
      BY <2>4 DEF Cancel
    <3> QED  BY <2>0, <3>1 DEF Jobs, JobStatuses, StatusMove, StatusMoves
  <2>5. \/ UNCHANGED status
        \/ \E r \in Requests : pc[r] = "commit" /\ Committed(r)
        \/ \E r \in Requests : \/ WorkerStart(r) \/ Cancel(r)
                               \/ WorkerFinish(r, "COMPLETED") \/ WorkerFinish(r, "FAILED")
    BY <1>1 DEF Next, Receive, Handle, GetIdempotencyKey, GetActiveDeployment,
         BeginTx, CreateJobTx, CreateIdempotencyKeyTx, RecoverKey, Commit,
         EnqueueDeployJob, Crash, KeyAges, DeleteExpiredIdempotencyKeys, db
  <2> QED
    BY <2>1, <2>2, <2>3, <2>4, <2>5 DEF StatusMove
<1>2. IInv /\ [Next]_vars => [\A j \in Requests : StatusMove(j)]_vars
  BY <1>1 DEF StatusMove, vars
<1> QED
  BY <1>2, Invariance, PTL DEF Spec, StatusDiscipline

-----------------------------------------------------------------------------
(* Intake implements Admission: the commit of the transaction is the atomic *)
(* admission, a 201 is the acceptance, and every other call of the handler   *)
(* is invisible.                                                            *)


LEMMA MemberOfSingleton ==
    MemberOf({}) = NoJob /\ \A j : MemberOf({j}) = j
BY DEF MemberOf

\* Only status updates and commits move the holders.
LEMMA HoldersKept ==
    UNCHANGED status => Jobs' = Jobs /\ \A t \in Targets : HolderOf(t)' = HolderOf(t)
BY DEF HolderOf, ActiveOn, Jobs, Target

\* An active job is the holder of its target.
LEMMA HolderIsActive ==
    ASSUME IInv, NEW t \in Targets, NEW j \in ActiveOn(t)
    PROVE  ActiveOn(t) = {j} /\ HolderOf(t) = j
<1>1. ActiveOn(t) = {j}
  BY DEF IInv, OneActivePerTarget, ActiveOn
<1> QED
  BY <1>1, MemberOfSingleton DEF HolderOf

\* A step of a handler that leaves the tables alone: it is invisible unless it
\* answers 201.
LEMMA AnswerRefines ==
    ASSUME IInv, NEW r \in Requests, pc[r] # "done", UNCHANGED db,
           \/ \E label \in Calls : Goto(r, label)
           \/ \E code \in Codes \cup {"lost"} :
                 \E job \in Requests \cup {NoJob} :
                    /\ Answer(r, code, job)
                    /\ code = "201" =>
                          job \in Jobs /\ (job = r \/ job = keys[HashOf[r]])
    PROVE  A!AdmissionNext \/ UNCHANGED A!avars
<1> USE IntakeAssumption
<1>0. /\ Jobs' = Jobs /\ [t \in Targets |-> HolderOf(t)]' = [t \in Targets |-> HolderOf(t)]
      /\ UNCHANGED <<keys, aged>>
  BY HoldersKept DEF db
<1>1. resp[r] = NoResponse /\ resp \in [Requests -> [code : Codes \cup {"none", "lost"},
                                                    job : Requests \cup {NoJob}]]
  BY DEF IInv, Unanswered, TypeOK
<1>2. ASSUME NEW label \in Calls, Goto(r, label) PROVE UNCHANGED A!avars
  BY <1>0, <1>2 DEF Goto, AcceptedJob, A!avars
<1>3. ASSUME NEW code \in Codes \cup {"lost"}, NEW job \in Requests \cup {NoJob},
             Answer(r, code, job), code # "201"
      PROVE  UNCHANGED A!avars
  <2>1. \A i \in Requests : AcceptedJob(i)' = AcceptedJob(i)
    BY <1>1, <1>3 DEF Answer, AcceptedJob, NoResponse
  <2> QED
    BY <1>0, <2>1 DEF A!avars
<1>4. ASSUME NEW job \in Jobs, Answer(r, "201", job),
             job = r \/ job = keys[HashOf[r]]
      PROVE  A!Accept(r)
  <2>1. AcceptedJob(r) = NoJob
    BY <1>1 DEF AcceptedJob, NoResponse
  <2>2. \A i \in Requests :
           AcceptedJob(i)' = IF i = r THEN job ELSE AcceptedJob(i)
    BY <1>1, <1>4 DEF Answer, AcceptedJob
  <2>3. [i \in Requests |-> AcceptedJob(i)]'
           = [[i \in Requests |-> AcceptedJob(i)] EXCEPT ![r] = job]
    BY <2>2
  <2> QED
    BY <1>0, <1>4, <2>1, <2>3 DEF A!Accept
<1> QED
  BY <1>2, <1>3, <1>4 DEF A!AdmissionNext

\* A commit admits the request's job.
LEMMA CommittedRefines ==
    ASSUME IInv, NEW r \in Requests, pc[r] = "commit", Committed(r),
           \/ Goto(r, "enqueue")
           \/ \E code \in {"500", "lost"} : Answer(r, code, NoJob)
    PROVE  A!Admit(r)
<1> USE IntakeAssumption
<1> DEFINE T == TargetOf[HashOf[r]]
<1>1. /\ r \notin Jobs /\ keys[HashOf[r]] = NoJob /\ T \in Targets
      /\ resp[r] = NoResponse
      /\ status \in [Requests -> JobStatuses \cup {"ABSENT"}]
      /\ resp \in [Requests -> [code : Codes \cup {"none", "lost"},
                               job : Requests \cup {NoJob}]]
  BY DEF IInv, Uncreated, CommitClear, Jobs, Unanswered, TypeOK
<1>2. Jobs' = Jobs \cup {r}
  BY <1>1 DEF Committed, Jobs
<1>3. ActiveOn(T) = {}
  BY DEF IInv, UncommittedIsExclusive, ActiveOn, Jobs, Target
<1>4. \A t \in Targets : ActiveOn(t)' = IF t = T THEN {r} ELSE ActiveOn(t)
  BY <1>1, <1>2, <1>3 DEF ActiveOn, Committed, Target, IsActive, Jobs
<1>5. HolderOf(T) = NoJob
  BY <1>3, MemberOfSingleton DEF HolderOf
<1>6. \A t \in Targets : HolderOf(t)' = IF t = T THEN r ELSE HolderOf(t)
  BY <1>4, MemberOfSingleton DEF HolderOf
<1>7. \A i \in Requests : AcceptedJob(i)' = AcceptedJob(i)
  BY <1>1 DEF Goto, Answer, AcceptedJob, NoResponse
<1> QED
  BY <1>1, <1>2, <1>5, <1>6, <1>7 DEF A!Admit, A!ATarget, Committed

\* A status update frees its target, takes it again, or changes nothing.
LEMMA StatusUpdateRefines ==
    ASSUME IInv, IInv', NEW j \in Jobs, NEW s \in JobStatuses,
           status' = [status EXCEPT ![j] = s],
           UNCHANGED <<keys, aged, resp>>
    PROVE  A!AdmissionNext \/ UNCHANGED A!avars
<1> USE IntakeAssumption
<1> DEFINE T == TargetOf[HashOf[j]]
<1>1. /\ j \in Requests /\ T \in Targets
      /\ status \in [Requests -> JobStatuses \cup {"ABSENT"}]
      /\ Jobs' = Jobs
  <2>0. /\ j \in Requests /\ status[j] # "ABSENT"
        /\ status \in [Requests -> JobStatuses \cup {"ABSENT"}]
    BY DEF IInv, TypeOK, Jobs
  <2>1. s # "ABSENT" /\ T \in Targets
    BY <2>0 DEF JobStatuses, IntakeAssumption
  <2>2. \A i \in Requests : status'[i] # "ABSENT" <=> status[i] # "ABSENT"
    BY <2>0, <2>1
  <2> QED
    BY <2>0, <2>1, <2>2 DEF Jobs
<1>2. \A t \in Targets : ActiveOn(t)' =
         IF t # T THEN ActiveOn(t)
         ELSE IF IsActive(s) THEN ActiveOn(t) \cup {j} ELSE ActiveOn(t) \ {j}
  BY <1>1 DEF ActiveOn, Target, Jobs
<1>3. \A t \in Targets \ {T} : HolderOf(t)' = HolderOf(t)
  BY <1>2 DEF HolderOf
<1>4. \A i \in Requests : AcceptedJob(i)' = AcceptedJob(i)
  BY DEF AcceptedJob
<1>5. CASE IsActive(s) <=> IsActive(status[j])
  <2>1. ActiveOn(T)' = ActiveOn(T)
    BY <1>1, <1>2, <1>5 DEF ActiveOn, Target
  <2>2. \A t \in Targets : HolderOf(t)' = HolderOf(t)
    BY <1>3, <2>1 DEF HolderOf
  <2> QED
    BY <1>1, <1>4, <2>2 DEF A!avars
<1>6. CASE IsActive(status[j]) /\ ~IsActive(s)
  <2>1. ActiveOn(T) = {j} /\ HolderOf(T) = j
    BY <1>1, <1>6, HolderIsActive DEF ActiveOn, Target
  <2>2. HolderOf(T)' = NoJob
    BY <1>1, <1>2, <1>6, <2>1, MemberOfSingleton DEF HolderOf
  <2>3. A!Release(T)
    BY <1>1, <1>3, <1>4, <2>1, <2>2 DEF A!Release
  <2> QED
    BY <1>1, <2>3 DEF A!AdmissionNext
<1>7. CASE ~IsActive(status[j]) /\ IsActive(s)
  <2>1. j \in ActiveOn(T)'
    BY <1>1, <1>2, <1>7
  <2>2. ActiveOn(T)' = {j}
    BY <2>1 DEF IInv, OneActivePerTarget, ActiveOn
  <2>3. ActiveOn(T) = {}
    BY <1>1, <1>2, <1>7, <2>2 DEF ActiveOn
  <2>4. HolderOf(T) = NoJob /\ HolderOf(T)' = j
    BY <2>2, <2>3, MemberOfSingleton DEF HolderOf
  <2>5. A!Reopen(j)
    BY <1>1, <1>3, <1>4, <2>4 DEF A!Reopen, A!ATarget
  <2> QED
    BY <1>1, <2>5 DEF A!AdmissionNext
<1> QED
  BY <1>5, <1>6, <1>7

\* Every step of Intake is a step of Admission or leaves it unchanged.
LEMMA NextRefines ==
    ASSUME IInv, IInv', Next PROVE A!AdmissionNext \/ UNCHANGED A!avars
<1> USE IntakeAssumption
<1>0. enqueued \subseteq Jobs /\ ~IsActive("ABSENT")
  BY DEF IInv, NoPhantomTask, IsActive
<1>1. ASSUME NEW r \in Requests, Receive(r) \/ Handle(r) \/ Crash(r)
      PROVE  A!AdmissionNext \/ UNCHANGED A!avars
  <2>1. CASE Committed(r) /\ pc[r] = "commit" /\ (Commit(r) \/ Crash(r))
    BY <2>1, CommittedRefines DEF Commit, Crash, A!AdmissionNext
  <2>2. CASE UNCHANGED db
    <3>1. pc[r] # "done"
      BY <1>1 DEF Receive, Handle, Crash, InFlight, Calls, InTransaction,
           GetIdempotencyKey, GetActiveDeployment, BeginTx, CreateJobTx,
           CreateIdempotencyKeyTx, RecoverKey, Commit, EnqueueDeployJob
    <3>2. /\ keys[HashOf[r]] # NoJob => keys[HashOf[r]] \in Jobs
          /\ pc[r] = "enqueue" => r \in Jobs
          /\ ActiveOn(Target(r)) \subseteq Requests /\ Jobs \subseteq Requests
      BY DEF IInv, KeyOwner, Created, ActiveOn, Jobs
    <3>3. \/ \E label \in Calls : Goto(r, label)
          \/ \E code \in Codes \cup {"lost"} :
                \E job \in Requests \cup {NoJob} :
                   /\ Answer(r, code, job)
                   /\ code = "201" =>
                         job \in Jobs /\ (job = r \/ job = keys[HashOf[r]])
      <4> USE <3>2 DEF Calls, InTransaction, Codes
      <4>1. CASE Receive(r)
        BY <4>1 DEF Receive
      <4>2. CASE GetIdempotencyKey(r)
        BY <4>2 DEF GetIdempotencyKey
      <4>3. CASE GetActiveDeployment(r)
        BY <4>3 DEF GetActiveDeployment
      <4>4. CASE BeginTx(r) \/ CreateJobTx(r) \/ CreateIdempotencyKeyTx(r)
        BY <4>4 DEF BeginTx, CreateJobTx, CreateIdempotencyKeyTx
      <4>5. CASE RecoverKey(r)
        BY <4>5 DEF RecoverKey
      <4>6. CASE Commit(r)
        BY <4>6 DEF Commit
      <4>7. CASE EnqueueDeployJob(r)
        BY <4>7 DEF EnqueueDeployJob
      <4>8. CASE Crash(r)
        BY <4>8 DEF Crash
      <4> QED
        BY <1>1, <4>1, <4>2, <4>3, <4>4, <4>5, <4>6, <4>7, <4>8 DEF Handle
    <3> QED
      BY <2>2, <3>1, <3>3, AnswerRefines
  <2>3. UNCHANGED db \/ (Committed(r) /\ pc[r] = "commit" /\ (Commit(r) \/ Crash(r)))
    BY <1>1 DEF Receive, Handle, GetIdempotencyKey, GetActiveDeployment, BeginTx,
         CreateJobTx, CreateIdempotencyKeyTx, RecoverKey, Commit,
         EnqueueDeployJob, Crash
  <2> QED
    BY <2>1, <2>2, <2>3
<1>2. ASSUME NEW j \in Requests, WorkerStart(j)
      PROVE  A!AdmissionNext \/ UNCHANGED A!avars
  BY <1>0, <1>2, StatusUpdateRefines DEF WorkerStart, JobStatuses
<1>3. ASSUME NEW j \in Requests, NEW s \in {"COMPLETED", "FAILED"}, WorkerFinish(j, s)
      PROVE  A!AdmissionNext \/ UNCHANGED A!avars
  BY <1>0, <1>3, StatusUpdateRefines DEF WorkerFinish, JobStatuses
<1>4. ASSUME NEW j \in Requests, Cancel(j)
      PROVE  A!AdmissionNext \/ UNCHANGED A!avars
  BY <1>0, <1>4, StatusUpdateRefines DEF Cancel, JobStatuses, IsActive
<1>5. ASSUME NEW j \in Requests, KeyAges(j) PROVE A!Expire(j)
  BY <1>5, HoldersKept DEF KeyAges, A!Expire, AcceptedJob
<1>6. ASSUME DeleteExpiredIdempotencyKeys PROVE A!Forget
  BY <1>6, HoldersKept DEF DeleteExpiredIdempotencyKeys, A!Forget, AcceptedJob
<1> QED
  BY <1>1, <1>2, <1>3, <1>4, <1>5, <1>6 DEF Next, A!AdmissionNext

\* The API promises atomic admission, with every fault and every interleaving.
THEOREM Refinement == Spec => ImplementsAdmission
<1>1. Init => A!AdmissionInit
  BY IntakeAssumption, MemberOfSingleton
     DEF Init, A!AdmissionInit, HolderOf, ActiveOn, AcceptedJob, Jobs, NoResponse
<1>2. IInv /\ IInv' /\ [Next]_vars => [A!AdmissionNext]_(A!avars)
  <2> SUFFICES ASSUME IInv, IInv', [Next]_vars
               PROVE  A!AdmissionNext \/ UNCHANGED A!avars
    OBVIOUS
  <2>1. CASE UNCHANGED vars
    BY <2>1, HoldersKept DEF vars, A!avars, AcceptedJob
  <2> QED
    BY <2>1, NextRefines
<1> QED
  BY <1>1, <1>2, Invariance, PTL DEF Spec, ImplementsAdmission, A!AdmissionSpec
=============================================================================
