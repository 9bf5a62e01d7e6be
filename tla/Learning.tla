------------------------------ MODULE Learning ------------------------------
(***************************************************************************)
(* The learning analyzer, run by the worker at its start and every 24       *)
(* hours: internal/learning/analyzer.go over the rows ListCompletedJobs     *)
(* returns.  The rows are read by one statement and nothing is written, so  *)
(* the rest is a computation over a snapshot.                               *)
(***************************************************************************)
EXTENDS JobModel, Integers, FiniteSets

CONSTANTS
    Rows,       \* rows the table may hold
    MaxRows     \* bound: rows in the table

\* A row: its status, its stage ("" before the first attempt), its error message
\* ("" for none) and its overrides, sets of at most one number.  A failed row
\* without a message was cancelled by an operator.
ASSUME LearningAssumption ==
    /\ MaxRows \in Nat
    /\ Rows \subseteq [status : JobStatuses, stage : PipelineStages \cup {""},
                       message : STRING, cpu : SUBSET Int, memory : SUBSET Int]

VARIABLES
    table,          \* the jobs table, most recently updated first
    recent,         \* how many of its rows were updated in the last 7 days
    jobs,           \* what ListCompletedJobs returned: the places of its rows in table
    todo,           \* those the loop has not come to yet
    cpu,            \* [total, count] of the cpu_cores overrides, in tenths of a core
    memory,         \* [total, count] of the memory_mb overrides
    stageFailures,  \* map[string]int
    stageErrors,    \* map[string]string
    rec,            \* the recommendation
    phase

anvars == <<table, recent, jobs, todo, cpu, memory, stageFailures, stageErrors, rec, phase>>

None == [total |-> 0, count |-> 0]

Default == [cpu |-> [total |-> 5, count |-> 1], memory |-> 256, analyzed |-> 0, patterns |-> {}]

AnInit ==
    /\ table \in UNION {[1..n -> Rows] : n \in 0..MaxRows}
    /\ recent \in {0} \cup DOMAIN table
    /\ jobs = {} /\ todo = {}
    /\ cpu = None /\ memory = None
    /\ stageFailures = [s \in {} |-> 0] /\ stageErrors = [s \in {} |-> ""]
    /\ rec = Default
    /\ phase = "query"

-----------------------------------------------------------------------------

\* WHERE status IN ('COMPLETED', 'FAILED') AND updated_at >= $1.
ListCompletedJobs ==
    /\ phase = "query"
    /\ jobs' = {i \in 1..recent : IsTerminal(table[i].status)}
    /\ todo' = jobs'
    /\ phase' = IF jobs' = {} THEN "done" ELSE "loop"
    /\ UNCHANGED <<table, recent, cpu, memory, stageFailures, stageErrors, rec>>

QueryFails ==
    /\ phase = "query"
    /\ phase' = "failed"
    /\ UNCHANGED <<table, recent, jobs, todo, cpu, memory, stageFailures, stageErrors, rec>>

Set(map, key, value) == [k \in DOMAIN map \cup {key} |-> IF k = key THEN value ELSE map[k]]

Failures(stage) == IF stage \in DOMAIN stageFailures THEN stageFailures[stage] ELSE 0

IsStageFailure(row) == row.status = "FAILED" /\ row.stage # ""

\* Variant: the message is stored as it is.
HasStage(row) == IsStageFailure(row)

HasExample(row) == IsStageFailure(row) /\ row.message # ""

\* An absent override adds nothing and is not counted.
Add(sum, values) ==
    IF values = {} THEN sum
    ELSE [total |-> sum.total + CHOOSE v \in values : TRUE, count |-> sum.count + 1]

\* ORDER BY updated_at DESC: the loop takes the rows in the order of their places.
AnalyzeRow ==
    /\ phase = "loop"
    /\ \E i \in todo :
         /\ \A k \in todo : i <= k
         /\ todo' = todo \ {i}
         /\ stageFailures' = IF IsStageFailure(table[i])
                             THEN Set(stageFailures, table[i].stage, Failures(table[i].stage) + 1)
                             ELSE stageFailures
         /\ stageErrors' = IF HasExample(table[i])
                           THEN Set(stageErrors, table[i].stage, table[i].message)
                           ELSE stageErrors
         /\ cpu' = Add(cpu, table[i].cpu)
         /\ memory' = Add(memory, table[i].memory)
    /\ UNCHANGED <<table, recent, jobs, rec, phase>>

\* int() truncates towards zero.
Quotient(sum) == IF sum.total >= 0 THEN sum.total \div sum.count
                 ELSE -((-sum.total) \div sum.count)

\* Variant: the average is taken over all the jobs.
AverageOverJobs(sum) == [total |-> sum.total, count |-> Cardinality(jobs)]

\* The average is kept as a fraction.
Average(sum) == sum

\* A memory average that is not positive is dropped; a cpu average is not.
BuildRecommendation ==
    /\ phase = "loop" /\ todo = {}
    /\ rec' = [cpu      |-> IF cpu.count > 0 THEN Average(cpu) ELSE Default.cpu,
               memory   |-> IF memory.count > 0 /\ Quotient(Average(memory)) > 0
                            THEN Quotient(Average(memory)) ELSE Default.memory,
               analyzed |-> Cardinality(jobs),
               patterns |-> {[stage   |-> s, count |-> stageFailures[s],
                              example |-> IF s \in DOMAIN stageErrors THEN stageErrors[s] ELSE ""] :
                             s \in DOMAIN stageFailures}]
    /\ phase' = "done"
    /\ UNCHANGED <<table, recent, jobs, todo, cpu, memory, stageFailures, stageErrors>>

AnNext == ListCompletedJobs \/ QueryFails \/ AnalyzeRow \/ BuildRecommendation

AnSpec == AnInit /\ [][AnNext]_anvars

-----------------------------------------------------------------------------
(* Properties *)

\* The rows an analysis is about: ended, and updated within the window.
Analyzed == {i \in 1..recent : table[i].status \in {"COMPLETED", "FAILED"}}

FailedAt(s) == {i \in Analyzed : table[i].status = "FAILED" /\ table[i].stage = s}
ErrorsAt(s) == {table[i].message : i \in FailedAt(s)} \ {""}

\* The reported patterns are exact: one for every stage some analysed job failed
\* in, with the number of those jobs and an error one of them failed with in that
\* very stage; although jobs re-run in the meantime, cancelled before their first
\* stage or cancelled without a message stand in the table between them.
PatternsAreExact ==
    phase = "done" =>
        /\ rec.analyzed = Cardinality(Analyzed)
        /\ {p.stage : p \in rec.patterns} = {s \in PipelineStages : FailedAt(s) # {}}
        /\ \A p \in rec.patterns :
              /\ p.count = Cardinality(FailedAt(p.stage))
              /\ IF ErrorsAt(p.stage) = {} THEN p.example = ""
                 ELSE p.example \in ErrorsAt(p.stage)

\* A suggestion lies between the smallest and the largest override in use, jobs
\* without overrides notwithstanding; without any, or for memory that would come
\* out at zero or less, it is the default.
SuggestionsWithinUse ==
    phase = "done" =>
        LET used(values) == UNION {values[i] : i \in Analyzed}
            cpus == used([i \in Analyzed |-> table[i].cpu])
            memories == used([i \in Analyzed |-> table[i].memory])
        IN  /\ \/ cpus = {} /\ rec.cpu = Default.cpu
               \/ /\ \E low \in cpus : low * rec.cpu.count <= rec.cpu.total
                  /\ \E high \in cpus : rec.cpu.total <= high * rec.cpu.count
            /\ \/ /\ rec.memory = Default.memory
                  /\ memories = {} \/ \E m \in memories : m <= 0
               \/ /\ rec.memory > 0
                  /\ \E low \in memories : low <= rec.memory
                  /\ \E high \in memories : rec.memory <= high
=============================================================================
