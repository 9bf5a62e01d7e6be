------------------------------ MODULE JobModel ------------------------------
(***************************************************************************)
(* The job record's vocabulary (internal/models/job.go): the statuses a    *)
(* job row can have, the seven pipeline stages, the table of allowed stage *)
(* transitions and the notion of a terminal status.                        *)
(***************************************************************************)

JobStatuses == {"QUEUED", "RUNNING", "COMPLETED", "FAILED"}

PipelineStages ==
    {"CLONING", "BUILDING", "PUSHING", "MANIFEST_GENERATING",
     "VERIFYING", "APPLYING", "HEALTH_CHECKING"}

\* The graph of the map validTransitions: the last stage has no successor.
validTransitions ==
    {<<"CLONING", "BUILDING">>,
     <<"BUILDING", "PUSHING">>,
     <<"PUSHING", "MANIFEST_GENERATING">>,
     <<"MANIFEST_GENERATING", "VERIFYING">>,
     <<"VERIFYING", "APPLYING">>,
     <<"APPLYING", "HEALTH_CHECKING">>}

ValidTransition(current, next) == <<current, next>> \in validTransitions

IsTerminal(status) == status \in {"COMPLETED", "FAILED"}

\* What the writers of a job's row turn its status into: UpdateJobStatus as
\* Execute calls it, on first and repeated attempts, also of a job that an
\* operator has ended meanwhile, and the operator's UPDATE.
StatusMoves ==
    {<<"QUEUED", "RUNNING">>, <<"COMPLETED", "RUNNING">>, <<"FAILED", "RUNNING">>,
     <<"RUNNING", "COMPLETED">>, <<"FAILED", "COMPLETED">>,
     <<"QUEUED", "FAILED">>, <<"RUNNING", "FAILED">>, <<"COMPLETED", "FAILED">>}

\* The predicate of the partial unique index idx_jobs_one_active_deploy and of
\* the query of GetActiveDeployment.
IsActive(status) == status \in {"QUEUED", "RUNNING"}
=============================================================================
