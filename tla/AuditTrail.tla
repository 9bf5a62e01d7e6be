----------------------------- MODULE AuditTrail -----------------------------
(***************************************************************************)
(* What one job's row and its job_events say while attempts come and go.    *)
(* Repository.UpdateJobStatus (internal/models/db.go) is two autocommitted  *)
(* statements: an UPDATE of the row whose error ends Execute, then an       *)
(* INSERT of the event whose error is dropped.  The callers are the status  *)
(* updates of Execute, in the order of the stages, repeated by retries.     *)
(* The operator's UPDATE of the README writes the status alone and leaves   *)
(* no event.                                                                *)
(***************************************************************************)
EXTENDS JobModel, Integers, Sequences

CONSTANTS
    MaxRuns,        \* bound: attempts of the job's task
    TrailFaults     \* "stage", "crash", "insert", "update", "operator"

ASSUME TrailAssumption ==
    /\ MaxRuns \in Nat \ {0}
    /\ TrailFaults \subseteq {"stage", "crash", "insert", "update", "operator"}

VARIABLES
    row,        \* status, current_stage and error_message of the job
    events,     \* job_events of the job, by created_at
    writes,     \* history: every value UpdateJobStatus gave the row
    origins,    \* history: for each event, the number of updates before it
    step,       \* the running attempt's next statement
    call,       \* arguments of its next or current UpdateJobStatus
    runs

avars == <<row, events, writes, origins, step, call, runs>>

StageList == <<"CLONING", "BUILDING", "PUSHING", "MANIFEST_GENERATING",
               "VERIFYING", "APPLYING", "HEALTH_CHECKING">>

\* error_message is reduced to whether there is one.
Messages == {"", "error"}

\* Variant: two arguments are swapped.
UpdateSwapped(status, stage, msg) == [status |-> stage, stage |-> status, msg |-> msg]

Update(status, stage, msg) == [status |-> status, stage |-> stage, msg |-> msg]

AInit ==
    /\ row = Update("QUEUED", "", "")
    /\ events = <<>>
    /\ writes = <<>>
    /\ origins = <<>>
    /\ step = "idle"
    /\ call = Update("RUNNING", "CLONING", "")
    /\ runs = 0

StartRun ==
    /\ step = "idle"
    /\ runs < MaxRuns
    /\ runs' = runs + 1
    /\ step' = "update"
    /\ call' = Update("RUNNING", "CLONING", "")
    /\ UNCHANGED <<row, events, writes, origins>>

\* Variant: an empty message is taken for NULL and the old one kept.
CoalesceEmpty(new, old) == IF new = "" THEN old ELSE new

\* COALESCE($3, error_message): the argument is a string and never NULL.
Coalesce(new, old) == new

WriteRow ==
    /\ row' = [call EXCEPT !.msg = Coalesce(@, row.msg)]
    /\ writes' = Append(writes, row')

\* Where Execute is after UpdateJobStatus has returned nil.
AfterUpdate ==
    CASE call.status = "RUNNING" -> "stage"
      [] call.status = "COMPLETED" -> "done"
      [] OTHER -> "idle"

\* An error, with or without effect, ends the attempt without an event.
UpdateRow ==
    /\ step = "update"
    /\ \/ WriteRow /\ step' = "insert"
       \/ /\ "update" \in TrailFaults
          /\ WriteRow \/ (UNCHANGED <<row, writes>>)
          /\ step' = "idle"
    /\ UNCHANGED <<events, origins, call, runs>>

\* Variant: an insert that reports an error is tried again.
InsertRepeated ==
    /\ step = "insert"
    /\ \/ /\ events' = Append(events, call)
          /\ origins' = Append(origins, Len(writes))
       \/ /\ "insert" \in TrailFaults
          /\ events' = events \o <<call, call>>
          /\ origins' = origins \o <<Len(writes), Len(writes)>>
    /\ step' = AfterUpdate
    /\ UNCHANGED <<row, writes, call, runs>>

InsertEvent ==
    /\ step = "insert"
    /\ \/ /\ events' = Append(events, call)
          /\ origins' = Append(origins, Len(writes))
       \/ "insert" \in TrailFaults /\ UNCHANGED <<events, origins>>
    /\ step' = AfterUpdate
    /\ UNCHANGED <<row, writes, call, runs>>

NextCall(stage) ==
    IF stage = "HEALTH_CHECKING"
    THEN Update("COMPLETED", stage, "")
    ELSE Update("RUNNING", CHOOSE next \in PipelineStages : ValidTransition(stage, next), "")

\* The stage function succeeds, or fails and its error text is recorded.
EndStage ==
    /\ step = "stage"
    /\ \/ call' = NextCall(call.stage)
       \/ "stage" \in TrailFaults /\ call' = Update("FAILED", call.stage, "error")
    /\ step' = "update"
    /\ UNCHANGED <<row, events, writes, origins, runs>>

\* The attempt dies, its context ends, or its success is not acknowledged.
EndRun ==
    /\ "crash" \in TrailFaults
    /\ step # "idle"
    /\ step' = "idle"
    /\ UNCHANGED <<row, events, writes, origins, call, runs>>

\* UPDATE jobs SET status='FAILED', by hand, at any time and whatever the
\* status: error_message stays as it is.
Cancel ==
    /\ "operator" \in TrailFaults
    /\ row' = [row EXCEPT !.status = "FAILED"]
    /\ UNCHANGED <<events, writes, origins, step, call, runs>>

ANext == StartRun \/ UpdateRow \/ InsertEvent \/ EndStage \/ EndRun \/ Cancel

ASpec == AInit /\ [][ANext]_avars

-----------------------------------------------------------------------------
(* Properties *)

Rows == [status : JobStatuses, stage : PipelineStages \cup {""}, msg : Messages]

ATypeOK ==
    /\ row \in Rows
    /\ events \in Seq(Rows)
    /\ writes \in Seq(Rows)
    /\ origins \in Seq(Nat)
    /\ step \in {"idle", "update", "insert", "stage", "done"}
    /\ call \in Rows
    /\ runs \in 0..MaxRuns

\* The latest UpdateJobStatus that took effect, or else the row as created.
LastUpdate == IF writes = <<>> THEN Update("QUEUED", "", "") ELSE writes[Len(writes)]

\* error_message belongs to the present status: a job that is not FAILED shows
\* no error, so a retry or a later success leaves no stale text behind; and a
\* job that is FAILED without one was not failed by Execute: only an operator's
\* UPDATE, which writes no message, leaves a failure unexplained.
MessageMatchesStatus ==
    /\ row.msg # "" => row.status = "FAILED"
    /\ row.status = "FAILED" /\ row.msg = "" => LastUpdate.status # "FAILED"

\* No event is recorded of an update that did not happen, none is recorded twice
\* and none out of order: each event is the update it was made for, and origins,
\* the place of that update, increases.  So events is a subsequence of writes.
EventsAreWrites ==
    /\ Len(origins) = Len(events)
    /\ \A n \in 1..Len(events) :
          /\ origins[n] \in 1..Len(writes) /\ events[n] = writes[origins[n]]
          /\ \A k \in 1..(n - 1) : origins[k] < origins[n]
=============================================================================
