------------------------------- MODULE Listing -------------------------------
(***************************************************************************)
(* Reading the jobs table over the API while jobs are created and run:      *)
(* GET /api/v1/jobs (ListJobs counts with one statement and fetches a page  *)
(* with another) and GET /api/v1/jobs/{id}.                                 *)
(*                                                                         *)
(* A client scans the list: it asks for a page, moves its offset by the     *)
(* rows it got, and stops at an empty page.  An answer of 500 it asks for   *)
(* again.  Rows are ordered by created_at, which the API sets before the    *)
(* insert that may wait for another transaction: rows become visible in any *)
(* order.  created_at has microseconds; two rows with the same one are left *)
(* out.                                                                     *)
(***************************************************************************)
EXTENDS Authorization, JobModel, FiniteSets

CONSTANTS
    Jobs,
    CreatedAt,          \* created_at of each job
    TargetNamespace,    \* target_namespace of each job
    StatusFilters,      \* values of ?status=
    Limits,             \* values of ?limit=, DefaultLimit standing for an absent one
    MaxWrites           \* bound: writes to the table while the client reads

ASSUME ListingAssumption ==
    /\ IsFiniteSet(Jobs)
    /\ CreatedAt \in [Jobs -> Nat]
    /\ \A j, k \in Jobs : CreatedAt[j] = CreatedAt[k] => j = k
    /\ TargetNamespace \in [Jobs -> Namespaces]
    /\ StatusFilters \subseteq JobStatuses
    /\ Limits \subseteq Nat \ {0}
    /\ MaxWrites \in Nat

VARIABLES
    committed,  \* the jobs whose rows are committed
    status,     \* the status column
    query,      \* the client's [status, limit]; status is empty when absent
    step,       \* where ListJobs is, or "done" when the client has finished
    offset,     \* the client's offset: the number of rows it has received
    received,   \* the jobs among those rows
    answer,     \* the last page: its total, and its number of rows
    writes,     \* writes to the table since the scan began
    steady,     \* jobs that match the query since the scan began
    departures, \* matching rows that ceased to match, since the scan began
    arrivals,   \* rows that began to match, since the scan began
    counted     \* departures and arrivals when the count was taken

listVars == <<query, step, offset, received, answer>>
tableVars == <<committed, status, writes>>
scanVars == <<steady, departures, arrivals, counted>>
lvars == <<authVars, listVars, tableVars, scanVars>>

-----------------------------------------------------------------------------
(* The two statements of ListJobs *)

\* Variant: rows of open transactions are read too.
MatchingUncommitted ==
    {j \in Jobs : /\ query.status = {} \/ status[j] \in query.status
                  /\ request.namespace = {} \/ TargetNamespace[j] \in request.namespace}

\* The WHERE clause, as the table stands.
Matching ==
    {j \in committed : /\ query.status = {} \/ status[j] \in query.status
                       /\ request.namespace = {} \/ TargetNamespace[j] \in request.namespace}

\* ORDER BY created_at DESC: the place of a row among the matching ones.
Rank(j) == Cardinality({k \in Matching : CreatedAt[k] >= CreatedAt[j]})

\* Variant: rows are counted from zero.
PageFromZero == {j \in Matching : Rank(j) \in offset..(offset + query.limit - 1)}

\* LIMIT and OFFSET.
Page == {j \in Matching : Rank(j) \in (offset + 1)..(offset + query.limit)}

\* Variant: the count forgets the WHERE clause.
CountAll ==
    /\ step = "count"
    /\ answer' = [total |-> Cardinality(committed), rows |-> 0]
    /\ counted' = [departures |-> departures, arrivals |-> arrivals]
    /\ step' = "fetch"
    /\ UNCHANGED <<authVars, tableVars, query, offset, received, steady, departures, arrivals>>

CountJobs ==
    /\ step = "count"
    /\ answer' = [total |-> Cardinality(Matching), rows |-> 0]
    /\ counted' = [departures |-> departures, arrivals |-> arrivals]
    /\ step' = "fetch"
    /\ UNCHANGED <<authVars, tableVars, query, offset, received, steady, departures, arrivals>>

\* The client's next request follows the answer; an empty page is its last.
FetchPage ==
    /\ step = "fetch"
    /\ answer' = [answer EXCEPT !.rows = Cardinality(Page)]
    /\ received' = received \cup Page
    /\ offset' = offset + Cardinality(Page)
    /\ step' = IF Page = {} THEN "done" ELSE "answered"
    /\ Reply(200)
    /\ UNCHANGED <<tableVars, scanVars, query>>

\* Either statement fails.
ListFails ==
    /\ step \in {"count", "fetch"}
    /\ step' = "answered"
    /\ Reply(500)
    /\ UNCHANGED <<tableVars, scanVars, query, offset, received, answer>>

-----------------------------------------------------------------------------
(* Handlers and client *)

handleListJobs ==
    /\ stage = "handler" /\ resolveAction(request) = "list_jobs" /\ step = "idle"
    /\ step' = "count"
    /\ UNCHANGED <<authVars, tableVars, scanVars, query, offset, received, answer>>

\* GetJob answers pgx.ErrNoRows for an id without a row; the query also fails
\* when the id is not a UUID.  Neither looks at the namespace of the row.
handleGetJob ==
    /\ stage = "handler" /\ resolveAction(request) = "view_job"
    /\ \/ \E id \in Jobs : /\ TargetNamespace[id] \in request.target
                           /\ Reply(IF id \in committed THEN 200 ELSE 404)
       \/ request.target = {} /\ Reply(404)
       \/ Reply(500)
    /\ UNCHANGED <<listVars, tableVars, scanVars>>

\* The next page, or the same one again after an error.
AskAgain ==
    /\ stage = "answered" /\ step = "answered"
    /\ stage' = "router" /\ code' = 0 /\ step' = "idle"
    /\ UNCHANGED <<request, tableVars, scanVars, query, offset, received, answer>>

-----------------------------------------------------------------------------
(* The rest of the system *)

\* What a write does to the rows that match.
Track ==
    /\ steady' = steady \cap Matching'
    /\ departures' = departures + Cardinality(Matching \ Matching')
    /\ arrivals' = arrivals + Cardinality(Matching' \ Matching)

\* A write of another request or of the worker, during the scan.
Write ==
    /\ step # "done" /\ writes < MaxWrites
    /\ writes' = writes + 1
    /\ UNCHANGED <<authVars, listVars, counted>>
    /\ Track

CommitJob(j) ==
    /\ j \notin committed
    /\ committed' = committed \cup {j}
    /\ status' = [status EXCEPT ![j] = "QUEUED"]
    /\ Write

UpdateJobStatus(j) ==
    /\ j \in committed
    /\ \E s \in JobStatuses :
          /\ <<status[j], s>> \in StatusMoves
          /\ status' = [status EXCEPT ![j] = s]
    /\ UNCHANGED committed
    /\ Write

-----------------------------------------------------------------------------

LInit ==
    /\ AuthInit(Requests)
    /\ committed \in SUBSET Jobs
    /\ status \in [Jobs -> JobStatuses]
    /\ \A j \in Jobs \ committed : status[j] = "QUEUED"
    /\ query \in [status : {{}} \cup {{s} : s \in StatusFilters}, limit : Limits]
    /\ step = "idle" /\ offset = 0 /\ received = {}
    /\ answer = [total |-> 0, rows |-> 0]
    /\ writes = 0 /\ departures = 0 /\ arrivals = 0
    /\ counted = [departures |-> 0, arrivals |-> 0]
    /\ steady = Matching

LNext ==
    \/ (Route \/ authMiddleware) /\ UNCHANGED <<listVars, tableVars, scanVars>>
    \/ handleListJobs \/ CountJobs \/ FetchPage \/ ListFails
    \/ handleGetJob
    \/ AskAgain
    \/ \E j \in Jobs : CommitJob(j) \/ UpdateJobStatus(j)

LSpec == LInit /\ [][LNext]_lvars

-----------------------------------------------------------------------------
(* Properties *)

LTypeOK ==
    /\ request \in Requests /\ stage \in RequestStages
    /\ code \in {0, 200, 401, 403, 404, 405, 500}
    /\ committed \in SUBSET Jobs
    /\ status \in [Jobs -> JobStatuses]
    /\ query \in [status : {{}} \cup {{s} : s \in StatusFilters}, limit : Limits]
    /\ step \in {"idle", "count", "fetch", "answered", "done"}
    /\ offset \in Nat /\ received \subseteq committed
    /\ answer \in [total : Nat, rows : Nat]
    /\ writes \in 0..MaxWrites
    /\ steady \subseteq Matching
    /\ departures \in Nat /\ arrivals \in Nat
    /\ counted \in [departures : 0..departures, arrivals : 0..arrivals]

\* What a client gets of the list, over all pages, is what README.md's table lets
\* its token see: the parameter the middleware judges is the one both statements
\* filter by.  The exception is again a dev-token that leaves it out.
AnsweredAsDocumented ==
    /\ DecidedAsDocumented
    /\ \A j \in received :
          \/ TargetNamespace[j] \in DocumentedNamespaces(request.token)
          \/ JudgedElsewhere(request)

\* Paging by OFFSET over a table that is being written: a finished scan has
\* missed no more of the rows that matched throughout than rows ceased to match
\* meanwhile.  In particular it has missed none when nothing ceased to match, as
\* in a scan without a status filter, however many jobs were created ahead of it.
ScanMissesOnlyDepartures ==
    step = "done" => Cardinality(steady \ received) <= departures

\* The same scan repeats no more rows than began to match meanwhile.
RepeatsOnlyArrivals == offset - Cardinality(received) <= arrivals

\* total and rows come from two statements: a page can be shorter than total
\* promises only by what ceased to match between them, and longer only by what
\* began to match.
TotalAgreesWithRows ==
    code = 200 /\ step \in {"answered", "done"} =>
        LET before == offset - answer.rows  \* the offset of the page
            gone == departures - counted.departures
            come == arrivals - counted.arrivals
        IN  /\ answer.rows = query.limit \/ before + answer.rows + gone >= answer.total
            /\ answer.rows = 0 \/ before + answer.rows <= answer.total + come
=============================================================================
