------------------------------- MODULE MCReads -------------------------------
(***************************************************************************)
(* Overrides for TLC, and the two readers of the jobs table side by side:   *)
(* neither writes anything, so a behaviour is a client's or the analyzer's, *)
(* the other one having nothing to do.                                      *)
(***************************************************************************)
EXTENDS Listing, Learning, TLC

CONSTANTS j1, j2, j3

MCCreatedAt == (j1 :> 1) @@ (j2 :> 2) @@ (j3 :> 3)
MCTargetNamespace == (j1 :> "sandbox") @@ (j2 :> "sandbox") @@ (j3 :> "production")

\* Completed, failed in two stages with different errors, cancelled while running
\* or while queued, and running again after a failure.
MCRows ==
    LET Row(s, stg, msg) == [status |-> s, stage |-> stg, message |-> msg]
        Outcomes == {Row("COMPLETED", "HEALTH_CHECKING", ""),
                     Row("RUNNING", "BUILDING", ""),
                     Row("FAILED", "BUILDING", "e1"), Row("FAILED", "BUILDING", "e2"),
                     Row("FAILED", "BUILDING", ""), Row("FAILED", "PUSHING", "e1"),
                     Row("FAILED", "", "")}
        Overrides == {<<{}, {}>>, <<{4}, {512}>>, <<{10}, {-64}>>, <<{}, {64}>>}
    IN  {[status |-> o.status, stage |-> o.stage, message |-> o.message,
          cpu |-> v[1], memory |-> v[2]] : o \in Outcomes, v \in Overrides}

NoTable == table = <<>>
NoQuery == query = [status |-> {}, limit |-> 1]

ListRequest(token, namespace) ==
    [method |-> "GET", path |-> "/api/v1/jobs", token |-> token,
     namespace |-> namespace, target |-> {}]

\* Every scan of every table; every request on one table; every analysis.
ReadsInit ==
    \/ NoTable /\ request \in {ListRequest("view-token", {}), ListRequest("dev-token", {"sandbox"})}
       /\ LInit /\ AnInit
    \/ NoTable /\ NoQuery /\ committed = {j1} /\ LInit /\ AnInit
    \/ /\ request = ListRequest("none", {})
       /\ NoQuery /\ committed = {} /\ LInit /\ AnInit /\ ~NoTable

ReadsNext ==
    \/ NoTable /\ LNext /\ UNCHANGED anvars
    \/ ~NoTable /\ AnNext /\ UNCHANGED lvars

ReadsSpec == ReadsInit /\ [][ReadsNext]_<<lvars, anvars>>
=============================================================================
