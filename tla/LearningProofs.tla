--------------------------- MODULE LearningProofs ---------------------------
(***************************************************************************)
(* What an analysis of finished jobs reports, for any table.  The invariant *)
(* says of the rows the loop has been through what the properties say of    *)
(* the result: exact counts and a genuine example for every stage, and      *)
(* sums that lie between the least and the greatest override times count.   *)
(***************************************************************************)
EXTENDS Learning, FiniteSetTheorems, TLAPS

\* The rows the loop has been through.
Done == jobs \ todo

\* The failures and the overrides among them.
DoneAt(s) == {i \in Done : IsStageFailure(table[i]) /\ table[i].stage = s}
MessagesAt(s) == {table[i].message : i \in DoneAt(s)} \ {""}
DoneCpus == UNION {table[i].cpu : i \in Done}
DoneMemories == UNION {table[i].memory : i \in Done}

AnTypeOK ==
    /\ recent \in Nat
    /\ \A i \in 1..recent : table[i] \in Rows
    /\ jobs \subseteq 1..recent /\ todo \subseteq jobs
    /\ phase \in {"query", "loop", "done", "failed"}

\* A map holds exactly the stages with a failure, or with an example.
FailuresInv ==
    /\ stageFailures = [s \in DOMAIN stageFailures |-> stageFailures[s]]
    /\ stageErrors = [s \in DOMAIN stageErrors |-> stageErrors[s]]
    /\ \A s : s \in DOMAIN stageFailures <=> DoneAt(s) # {}
    /\ \A s \in DOMAIN stageFailures : stageFailures[s] = Cardinality(DoneAt(s))
    /\ \A s : s \in DOMAIN stageErrors <=> MessagesAt(s) # {}
    /\ \A s \in DOMAIN stageErrors : stageErrors[s] \in MessagesAt(s)

\* A sum of some of the numbers in used, and of every override at least one.
SumOf(sum, used) ==
    /\ sum \in [total : Int, count : Nat]
    /\ used = {} => sum = None
    /\ used # {} => /\ sum.count > 0
                    /\ \E low \in used : low * sum.count <= sum.total
                    /\ \E high \in used : sum.total <= high * sum.count

AnInv ==
    /\ AnTypeOK
    /\ phase # "query" /\ phase # "failed" => jobs = Analyzed
    /\ phase = "query" => jobs = {}
    /\ FailuresInv
    /\ SumOf(cpu, DoneCpus) /\ SumOf(memory, DoneMemories)
    /\ phase # "done" => rec = Default
    /\ PatternsAreExact
    /\ SuggestionsWithinUse

-----------------------------------------------------------------------------
(* Arithmetic *)

\* A common summand or a larger factor keeps the order.
LEMMA TimesGrows ==
    ASSUME NEW a \in Int, NEW b \in Int, a <= b, NEW n \in Nat
    PROVE  a * n <= b * n
  OBVIOUS

LEMMA OneMore ==
    ASSUME NEW a \in Int, NEW n \in Nat
    PROVE  a * n \in Int /\ a * (n + 1) = a * n + a
  OBVIOUS

\* An average cut off at the point stays between integers it lay between, unless
\* it is cut from below zero to zero.
LEMMA QuotientBetween ==
    ASSUME NEW sum \in [total : Int, count : Nat], sum.count > 0,
           NEW low \in Int, NEW high \in Int,
           low * sum.count <= sum.total, sum.total <= high * sum.count
    PROVE  /\ Quotient(sum) \in Int
           /\ Quotient(sum) > 0 => low <= Quotient(sum) /\ Quotient(sum) <= high
           /\ Quotient(sum) <= 0 => low <= 0
<1> DEFINE t == sum.total  n == sum.count
<1>1. t \in Int /\ n \in Nat /\ n > 0
  OBVIOUS
<1>2. CASE t >= 0
  <2> DEFINE q == t \div n
  <2>1. Quotient(sum) = q
    BY <1>2 DEF Quotient
  <2>2. q \in Int /\ q * n <= t /\ t < (q + 1) * n /\ q >= 0
    BY <1>1, <1>2
  <2>3. low <= q
    <3>1. SUFFICES ASSUME low >= q + 1 PROVE FALSE
      BY <2>2
    <3>2. (q + 1) * n <= low * n
      BY <1>1, <2>2, <3>1, TimesGrows
    <3> QED  BY <1>1, <2>2, <3>2
  <2>4. q <= high
    <3>1. SUFFICES ASSUME q >= high + 1 PROVE FALSE
      BY <2>2
    <3>2. (high + 1) * n <= q * n
      BY <1>1, <2>2, <3>1, TimesGrows
    <3>3. (high + 1) * n = high * n + n
      BY <1>1
    <3> QED  BY <1>1, <2>2, <3>2, <3>3
  <2> QED  BY <2>1, <2>2, <2>3, <2>4
<1>3. CASE t < 0
  <2> DEFINE q == (-t) \div n
  <2>1. Quotient(sum) = -q
    BY <1>1, <1>3 DEF Quotient
  <2>2. q \in Int /\ q >= 0
    BY <1>1, <1>3
  <2>3. low <= 0
    <3>1. SUFFICES ASSUME low >= 1 PROVE FALSE
      OBVIOUS
    <3>2. 1 * n <= low * n
      BY <1>1, <3>1, TimesGrows
    <3> QED  BY <1>1, <1>3, <3>2
  <2> QED  BY <2>1, <2>2, <2>3
<1> QED  BY <1>1, <1>2, <1>3

\* An override joins the sum, and its number the numbers in use.
LEMMA AddKeepsSum ==
    ASSUME NEW sum, NEW used \in SUBSET Int, NEW values \in SUBSET Int, SumOf(sum, used)
    PROVE  SumOf(Add(sum, values), used \cup values)
<1>1. CASE values = {}
  BY <1>1 DEF Add
<1>2. CASE values # {}
  <2> DEFINE v == CHOOSE v \in values : TRUE
             t == sum.total  n == sum.count
             new == Add(sum, values)
  <2>1. v \in values /\ v \in Int
    BY <1>2
  <2>2. t \in Int /\ n \in Nat
    BY DEF SumOf
  <2>3. new = [total |-> t + v, count |-> n + 1]
    BY <1>2 DEF Add
  <2>4. new \in [total : Int, count : Nat] /\ new.count > 0
        /\ new.total = t + v /\ new.count = n + 1
    <3> HIDE DEF v
    <3> QED  BY <2>1, <2>2, <2>3
  <2>5. CASE used = {}
    <3>1. t = 0 /\ n = 0
      BY <2>5 DEF SumOf, None
    <3>2. v * new.count <= new.total /\ new.total <= v * new.count
      <4> HIDE DEF v, new, t, n
      <4> QED  BY <2>1, <2>4, <3>1
    <3> HIDE DEF v, new
    <3> QED  BY <2>1, <2>4, <3>2 DEF SumOf, new
  <2>6. CASE used # {}
    <3>1. PICK low \in used : low * n <= t
      BY <2>6 DEF SumOf
    <3>2. PICK high \in used : t <= high * n
      BY <2>6 DEF SumOf
    <3>3. low \in Int /\ high \in Int
      OBVIOUS
    <3>4. \E l \in used \cup values : l * (n + 1) <= t + v
      <4>1. CASE low <= v
        <5>1. low * (n + 1) <= t + v
          <6> HIDE DEF v, t, n
          <6> QED  BY <2>1, <2>2, <3>1, <3>3, <4>1, OneMore
        <5> QED  BY <5>1
      <4>2. CASE v <= low
        <5>1. v * (n + 1) <= t + v
          <6> HIDE DEF v, t, n
          <6>1. v * n <= low * n
            BY <2>1, <2>2, <3>3, <4>2, TimesGrows
          <6> QED  BY <2>1, <2>2, <3>1, <3>3, <6>1, OneMore
        <5> QED  BY <2>1, <5>1
      <4> QED  BY <2>1, <3>3, <4>1, <4>2
    <3>5. \E h \in used \cup values : t + v <= h * (n + 1)
      <4>1. CASE v <= high
        <5>1. t + v <= high * (n + 1)
          <6> HIDE DEF v, t, n
          <6> QED  BY <2>1, <2>2, <3>2, <3>3, <4>1, OneMore
        <5> QED  BY <5>1
      <4>2. CASE high <= v
        <5>1. t + v <= v * (n + 1)
          <6> HIDE DEF v, t, n
          <6>1. high * n <= v * n
            BY <2>1, <2>2, <3>3, <4>2, TimesGrows
          <6> QED  BY <2>1, <2>2, <3>2, <3>3, <6>1, OneMore
        <5> QED  BY <2>1, <5>1
      <4> QED  BY <2>1, <3>3, <4>1, <4>2
    <3> HIDE DEF v
    <3> QED  BY <2>1, <2>4, <3>4, <3>5 DEF SumOf
  <2> QED  BY <2>5, <2>6
<1> QED  BY <1>1, <1>2

-----------------------------------------------------------------------------
(* The loop *)

\* What a row is, and that sets of rows are finite.
LEMMA RowsInRange ==
    ASSUME AnTypeOK
    PROVE  /\ \A i \in jobs : /\ table[i].stage \in PipelineStages \cup {""}
                              /\ table[i].cpu \in SUBSET Int /\ table[i].memory \in SUBSET Int
           /\ \A s : IsFiniteSet(DoneAt(s)) /\ Cardinality(DoneAt(s)) \in Nat
           /\ DoneCpus \in SUBSET Int /\ DoneMemories \in SUBSET Int
<1>1. \A i \in jobs : /\ table[i].stage \in PipelineStages \cup {""}
                      /\ table[i].cpu \in SUBSET Int /\ table[i].memory \in SUBSET Int
  BY LearningAssumption DEF AnTypeOK
<1>2. ASSUME NEW s PROVE IsFiniteSet(DoneAt(s)) /\ Cardinality(DoneAt(s)) \in Nat
  <2>1. DoneAt(s) \in SUBSET (1..recent)
    <3>1. DoneAt(s) \subseteq jobs
      BY DEF DoneAt, Done
    <3> QED  BY <3>1 DEF AnTypeOK
  <2>2. IsFiniteSet(1..recent)
    BY FS_Interval DEF AnTypeOK
  <2> QED  BY <2>1, <2>2, FS_Subset, FS_CardinalityType
<1>3. DoneCpus \in SUBSET Int /\ DoneMemories \in SUBSET Int
  BY <1>1 DEF DoneCpus, DoneMemories, Done
<1> QED  BY <1>1, <1>2, <1>3

\* A row's failure is counted under its stage, and its error kept there.
LEMMA RowKeepsFailures ==
    ASSUME AnTypeOK, FailuresInv, NEW i \in todo, table' = table, jobs' = jobs,
           todo' = todo \ {i},
           stageFailures' = IF IsStageFailure(table[i])
                            THEN Set(stageFailures, table[i].stage, Failures(table[i].stage) + 1)
                            ELSE stageFailures,
           stageErrors' = IF HasExample(table[i])
                          THEN Set(stageErrors, table[i].stage, table[i].message)
                          ELSE stageErrors
    PROVE  FailuresInv'
<1> DEFINE row == table[i]
<1>0. PICK stage, message : stage = row.stage /\ message = row.message
  OBVIOUS
<1>1. i \in jobs /\ i \notin Done /\ Done' = Done \cup {i}
  BY DEF Done, AnTypeOK
<1>2. \A s : DoneAt(s)' = IF IsStageFailure(row) /\ stage = s THEN DoneAt(s) \cup {i}
                          ELSE DoneAt(s)
  BY <1>0, <1>1 DEF DoneAt
<1>3. \A s : i \notin DoneAt(s) /\ IsFiniteSet(DoneAt(s)) /\ Cardinality(DoneAt(s)) \in Nat
  BY <1>1, RowsInRange DEF DoneAt
<1>4. \A s : MessagesAt(s)' = IF HasExample(row) /\ stage = s
                              THEN MessagesAt(s) \cup {message} ELSE MessagesAt(s)
  BY <1>0, <1>2 DEF MessagesAt, HasExample
<1>5. /\ stageFailures' = [s \in DOMAIN stageFailures' |-> stageFailures'[s]]
      /\ \A s : s \in DOMAIN stageFailures' <=> DoneAt(s)' # {}
      /\ \A s \in DOMAIN stageFailures' : stageFailures'[s] = Cardinality(DoneAt(s)')
  <2>1. CASE IsStageFailure(row)
    <3> DEFINE f == Failures(stage)
    <3>1. /\ stageFailures' = Set(stageFailures, stage, f + 1)
          /\ DOMAIN stageFailures' = DOMAIN stageFailures \cup {stage}
          /\ stageFailures'[stage] = f + 1
          /\ \A s \in DOMAIN stageFailures : s # stage => stageFailures'[s] = stageFailures[s]
      BY <1>0, <2>1 DEF Set
    <3>2. f = Cardinality(DoneAt(stage))
      <4>1. CASE stage \in DOMAIN stageFailures
        BY <4>1 DEF FailuresInv, Failures
      <4>2. CASE stage \notin DOMAIN stageFailures
        <5>1. DoneAt(stage) = {}
          BY <4>2 DEF FailuresInv
        <5> QED  BY <4>2, <5>1, FS_EmptySet DEF Failures
      <4> QED  BY <4>1, <4>2
    <3>3. Cardinality(DoneAt(stage) \cup {i}) = f + 1
      BY <1>3, <3>2, FS_AddElement
    <3>4. stageFailures' = [s \in DOMAIN stageFailures' |-> stageFailures'[s]]
      BY <3>1 DEF Set
    <3> HIDE DEF f, row
    <3>5. DoneAt(stage)' = DoneAt(stage) \cup {i}
          /\ \A s : s # stage => DoneAt(s)' = DoneAt(s)
      BY <1>2, <2>1
    <3>6. \A s : s \in DOMAIN stageFailures' <=> DoneAt(s)' # {}
      BY <3>1, <3>5 DEF FailuresInv
    <3>7. \A s \in DOMAIN stageFailures' : stageFailures'[s] = Cardinality(DoneAt(s)')
      BY <3>1, <3>3, <3>5 DEF FailuresInv
    <3> QED  BY <3>4, <3>6, <3>7
  <2>2. CASE ~IsStageFailure(row)
    BY <1>2, <2>2 DEF FailuresInv
  <2> QED  BY <2>1, <2>2
<1>6. /\ stageErrors' = [s \in DOMAIN stageErrors' |-> stageErrors'[s]]
      /\ \A s : s \in DOMAIN stageErrors' <=> MessagesAt(s)' # {}
      /\ \A s \in DOMAIN stageErrors' : stageErrors'[s] \in MessagesAt(s)'
  <2>1. CASE HasExample(row)
    <3>1. /\ stageErrors' = Set(stageErrors, stage, message)
          /\ DOMAIN stageErrors' = DOMAIN stageErrors \cup {stage}
          /\ stageErrors'[stage] = message
          /\ \A s \in DOMAIN stageErrors : s # stage => stageErrors'[s] = stageErrors[s]
      BY <1>0, <2>1 DEF Set
    <3>2. stageErrors' = [s \in DOMAIN stageErrors' |-> stageErrors'[s]]
      BY <3>1 DEF Set
    <3> HIDE DEF row
    <3>3. MessagesAt(stage)' = MessagesAt(stage) \cup {message}
          /\ \A s : s # stage => MessagesAt(s)' = MessagesAt(s)
      BY <1>4, <2>1
    <3> QED  BY <3>1, <3>2, <3>3 DEF FailuresInv
  <2>2. CASE ~HasExample(row)
    BY <1>4, <2>2 DEF FailuresInv
  <2> QED  BY <2>1, <2>2
<1> QED  BY <1>5, <1>6 DEF FailuresInv

\* Both sums take over the row's overrides.
LEMMA RowKeepsSums ==
    ASSUME AnTypeOK, SumOf(cpu, DoneCpus), SumOf(memory, DoneMemories),
           NEW i \in todo, table' = table, jobs' = jobs, todo' = todo \ {i},
           cpu' = Add(cpu, table[i].cpu), memory' = Add(memory, table[i].memory)
    PROVE  SumOf(cpu, DoneCpus)' /\ SumOf(memory, DoneMemories)'
<1>1. i \in jobs /\ Done' = Done \cup {i}
  BY DEF Done, AnTypeOK
<1>2. DoneCpus' = DoneCpus \cup table[i].cpu /\ DoneMemories' = DoneMemories \cup table[i].memory
  BY <1>1 DEF DoneCpus, DoneMemories
<1>3. /\ DoneCpus \in SUBSET Int /\ DoneMemories \in SUBSET Int
      /\ table[i].cpu \in SUBSET Int /\ table[i].memory \in SUBSET Int
  BY <1>1, RowsInRange
<1>4. SumOf(cpu', DoneCpus') /\ SumOf(memory', DoneMemories')
  BY <1>2, <1>3, AddKeepsSum
<1> QED  BY <1>4 DEF SumOf

-----------------------------------------------------------------------------
(* The recommendation *)

\* After the loop the rows it has been through are the analysed ones.
LEMMA AllDone ==
    ASSUME AnInv, phase = "loop", todo = {}
    PROVE  /\ Done = Analyzed /\ jobs = Analyzed
           /\ \A s \in PipelineStages : DoneAt(s) = FailedAt(s)
           /\ \A s : DoneAt(s) # {} => s \in PipelineStages
<1>1. Done = Analyzed /\ jobs = Analyzed
  BY DEF AnInv, Done
<1>2. "" \notin PipelineStages
  BY DEF PipelineStages
<1>3. \A s \in PipelineStages : DoneAt(s) = FailedAt(s)
  BY <1>1, <1>2 DEF DoneAt, FailedAt, IsStageFailure
<1>4. \A s : DoneAt(s) # {} => s \in PipelineStages
  BY RowsInRange DEF AnInv, DoneAt, Done, IsStageFailure
<1> QED  BY <1>1, <1>3, <1>4

LEMMA PatternsBuilt ==
    ASSUME AnInv, BuildRecommendation PROVE PatternsAreExact'
<1> DEFINE Pattern(s) ==
              [stage |-> s, count |-> stageFailures[s],
               example |-> IF s \in DOMAIN stageErrors THEN stageErrors[s] ELSE ""]
<1>1. /\ phase = "loop" /\ todo = {} /\ FailuresInv /\ UNCHANGED <<table, recent>>
      /\ rec'.analyzed = Cardinality(jobs)
      /\ rec'.patterns = {Pattern(s) : s \in DOMAIN stageFailures}
  BY DEF AnInv, BuildRecommendation
<1>2. /\ jobs = Analyzed
      /\ \A s \in PipelineStages : DoneAt(s) = FailedAt(s)
      /\ \A s : DoneAt(s) # {} => s \in PipelineStages
  BY <1>1, AllDone
<1>3. Analyzed' = Analyzed /\ \A s : FailedAt(s)' = FailedAt(s) /\ ErrorsAt(s)' = ErrorsAt(s)
  BY <1>1 DEF Analyzed, FailedAt, ErrorsAt
<1>4. DOMAIN stageFailures = {s \in PipelineStages : FailedAt(s) # {}}
  BY <1>1, <1>2 DEF FailuresInv
<1>5. {p.stage : p \in rec'.patterns} = DOMAIN stageFailures
  <2>1. \A s : Pattern(s).stage = s
    OBVIOUS
  <2> HIDE DEF Pattern
  <2>2. \A p \in rec'.patterns : p.stage \in DOMAIN stageFailures
    BY <1>1, <2>1
  <2>3. \A s \in DOMAIN stageFailures : Pattern(s) \in rec'.patterns
    BY <1>1
  <2> QED  BY <2>1, <2>2, <2>3
<1>6. ASSUME NEW p \in rec'.patterns
      PROVE  /\ p.count = Cardinality(FailedAt(p.stage))
             /\ IF ErrorsAt(p.stage) = {} THEN p.example = ""
                ELSE p.example \in ErrorsAt(p.stage)
  <2>1. PICK s \in DOMAIN stageFailures : p = Pattern(s)
    BY <1>1
  <2>2. p.stage = s /\ p.count = stageFailures[s]
        /\ p.example = IF s \in DOMAIN stageErrors THEN stageErrors[s] ELSE ""
    BY <2>1
  <2>3. DoneAt(s) = FailedAt(s)
    BY <1>2, <1>4
  <2>4. p.count = Cardinality(FailedAt(s))
    BY <1>1, <2>2, <2>3 DEF FailuresInv
  <2>5. MessagesAt(s) = ErrorsAt(s)
    BY <2>3 DEF MessagesAt, ErrorsAt
  <2>6. IF MessagesAt(s) = {} THEN p.example = "" ELSE p.example \in MessagesAt(s)
    BY <1>1, <2>2 DEF FailuresInv
  <2> QED  BY <2>2, <2>4, <2>5, <2>6
<1>7. {p.stage : p \in rec'.patterns} = {s \in PipelineStages : FailedAt(s) # {}}
  BY <1>4, <1>5
<1> HIDE DEF Pattern
<1> QED  BY <1>1, <1>2, <1>3, <1>6, <1>7 DEF PatternsAreExact

LEMMA SuggestionsBuilt ==
    ASSUME AnInv, BuildRecommendation PROVE SuggestionsWithinUse'
<1> DEFINE cpus == UNION {table[i].cpu : i \in Analyzed}
           memories == UNION {table[i].memory : i \in Analyzed}
<1>1. /\ AnTypeOK /\ phase = "loop" /\ todo = {} /\ UNCHANGED <<table, recent>>
      /\ rec'.cpu = IF cpu.count > 0 THEN cpu ELSE Default.cpu
      /\ rec'.memory = IF memory.count > 0 /\ Quotient(memory) > 0
                       THEN Quotient(memory) ELSE Default.memory
  BY DEF AnInv, BuildRecommendation, Average
<1>2. DoneCpus = cpus /\ DoneMemories = memories
  BY <1>1, AllDone DEF DoneCpus, DoneMemories
<1>3. SumOf(cpu, cpus) /\ SumOf(memory, memories)
      /\ cpus \in SUBSET Int /\ memories \in SUBSET Int
  BY <1>1, <1>2, RowsInRange DEF AnInv
<1> HIDE DEF cpus, memories
<1>4. \/ cpus = {} /\ rec'.cpu = Default.cpu
      \/ /\ \E low \in cpus : low * rec'.cpu.count <= rec'.cpu.total
         /\ \E high \in cpus : rec'.cpu.total <= high * rec'.cpu.count
  BY <1>1, <1>3 DEF SumOf, None
<1>5. \/ /\ rec'.memory = Default.memory
         /\ memories = {} \/ \E m \in memories : m <= 0
      \/ /\ rec'.memory > 0
         /\ \E low \in memories : low <= rec'.memory
         /\ \E high \in memories : rec'.memory <= high
  <2>1. CASE memories = {}
    BY <1>1, <1>3, <2>1 DEF SumOf, None
  <2>2. CASE memories # {}
    <3>1. memory \in [total : Int, count : Nat] /\ memory.count > 0
      BY <1>3, <2>2 DEF SumOf
    <3>2. PICK low \in memories : low * memory.count <= memory.total
      BY <1>3, <2>2 DEF SumOf
    <3>3. PICK high \in memories : memory.total <= high * memory.count
      BY <1>3, <2>2 DEF SumOf
    <3>4. low \in Int /\ high \in Int
      BY <1>3
    <3>5. /\ Quotient(memory) \in Int
          /\ Quotient(memory) > 0 => low <= Quotient(memory) /\ Quotient(memory) <= high
          /\ Quotient(memory) <= 0 => low <= 0
      BY <3>1, <3>2, <3>3, <3>4, QuotientBetween
    <3> QED  BY <1>1, <3>1, <3>5
  <2> QED  BY <2>1, <2>2
<1>6. Analyzed' = Analyzed
  BY <1>1 DEF Analyzed
<1>7. /\ UNION {[i \in Analyzed |-> table[i].cpu][k] : k \in Analyzed} = cpus
      /\ UNION {[i \in Analyzed |-> table[i].memory][k] : k \in Analyzed} = memories
  BY DEF cpus, memories
<1> QED  BY <1>1, <1>4, <1>5, <1>6, <1>7 DEF SuggestionsWithinUse, Default

-----------------------------------------------------------------------------
(* The specification *)

LEMMA AnInitInv == AnInit => AnInv
<1> SUFFICES ASSUME AnInit PROVE AnInv
  OBVIOUS
<1>1. /\ jobs = {} /\ todo = {} /\ phase = "query" /\ cpu = None /\ memory = None
      /\ rec = Default /\ stageFailures = [s \in {} |-> 0] /\ stageErrors = [s \in {} |-> ""]
  BY DEF AnInit
<1>2. AnTypeOK
  <2>1. PICK n \in 0..MaxRows : table \in [1..n -> Rows]
    BY DEF AnInit
  <2>2. recent \in 0..n
    BY <2>1 DEF AnInit
  <2> QED  BY <1>1, <2>1, <2>2 DEF AnTypeOK
<1>3. Done = {} /\ (\A s : DoneAt(s) = {} /\ MessagesAt(s) = {})
      /\ DoneCpus = {} /\ DoneMemories = {}
  BY <1>1 DEF Done, DoneAt, MessagesAt, DoneCpus, DoneMemories
<1>4. FailuresInv
  BY <1>1, <1>3 DEF FailuresInv
<1>5. SumOf(cpu, DoneCpus) /\ SumOf(memory, DoneMemories)
  BY <1>1, <1>3 DEF SumOf, None
<1> QED  BY <1>1, <1>2, <1>4, <1>5 DEF AnInv, PatternsAreExact, SuggestionsWithinUse

\* The query finds the analysed rows; without any, the recommendation stands.
LEMMA QueryKeepsInv ==
    ASSUME AnInv, ListCompletedJobs PROVE AnInv'
<1>1. /\ phase = "query" /\ jobs = {} /\ rec = Default /\ AnTypeOK
      /\ jobs' = {i \in 1..recent : IsTerminal(table[i].status)} /\ todo' = jobs'
      /\ phase' = IF jobs' = {} THEN "done" ELSE "loop"
      /\ UNCHANGED <<table, recent, cpu, memory, stageFailures, stageErrors, rec>>
  BY DEF AnInv, ListCompletedJobs
<1>2. jobs' = Analyzed' /\ Analyzed' = Analyzed
  BY <1>1 DEF Analyzed, IsTerminal
<1>3. Done = {} /\ Done' = {}
  BY <1>1 DEF Done
<1>4. (\A s : DoneAt(s)' = DoneAt(s) /\ MessagesAt(s)' = MessagesAt(s))
      /\ DoneCpus' = DoneCpus /\ DoneMemories' = DoneMemories
  BY <1>3 DEF DoneAt, MessagesAt, DoneCpus, DoneMemories
<1>5. FailuresInv' /\ SumOf(cpu, DoneCpus)' /\ SumOf(memory, DoneMemories)'
  <2>1. FailuresInv'
    BY <1>1, <1>4 DEF AnInv, FailuresInv
  <2> QED  BY <1>1, <1>4, <2>1 DEF AnInv, SumOf
<1>6. AnTypeOK'
  BY <1>1 DEF AnTypeOK
<1>7. phase' = "done" => PatternsAreExact' /\ SuggestionsWithinUse'
  <2> SUFFICES ASSUME phase' = "done" PROVE PatternsAreExact' /\ SuggestionsWithinUse'
    OBVIOUS
  <2>1. Analyzed' = {} /\ rec' = Default
    BY <1>1, <1>2
  <2>2. \A s : FailedAt(s)' = {}
    BY <2>1 DEF FailedAt
  <2>3. PatternsAreExact'
    BY <2>1, <2>2, FS_EmptySet DEF PatternsAreExact, Default
  <2>4. SuggestionsWithinUse'
    BY <2>1 DEF SuggestionsWithinUse, Default
  <2> QED  BY <2>3, <2>4
<1>8. phase' # "done" => PatternsAreExact' /\ SuggestionsWithinUse'
  BY DEF PatternsAreExact, SuggestionsWithinUse
<1> QED  BY <1>1, <1>2, <1>5, <1>6, <1>7, <1>8 DEF AnInv

LEMMA AnNextInv == AnInv /\ [AnNext]_anvars => AnInv'
<1> SUFFICES ASSUME AnInv, [AnNext]_anvars PROVE AnInv'
  OBVIOUS
<1>1. CASE ListCompletedJobs
  BY <1>1, QueryKeepsInv
<1>2. CASE QueryFails \/ UNCHANGED anvars
  <2>1. /\ UNCHANGED <<table, recent, jobs, todo, cpu, memory, stageFailures, stageErrors, rec>>
        /\ phase' = phase \/ (phase = "query" /\ phase' = "failed")
    BY <1>2 DEF QueryFails, anvars
  <2>2. Analyzed' = Analyzed /\ Done' = Done
    BY <2>1 DEF Analyzed, Done
  <2>3. (\A s : DoneAt(s)' = DoneAt(s) /\ MessagesAt(s)' = MessagesAt(s))
        /\ DoneCpus' = DoneCpus /\ DoneMemories' = DoneMemories
    BY <2>1, <2>2 DEF DoneAt, MessagesAt, DoneCpus, DoneMemories
  <2>4. FailuresInv'
    BY <2>1, <2>3 DEF AnInv, FailuresInv
  <2>5. SumOf(cpu, DoneCpus)' /\ SumOf(memory, DoneMemories)'
    BY <2>1, <2>3 DEF AnInv, SumOf
  <2>6. AnTypeOK'
    BY <2>1 DEF AnInv, AnTypeOK
  <2>7. PatternsAreExact' /\ SuggestionsWithinUse'
    <3>1. phase' = "done" => phase = "done"
      BY <2>1
    <3>2. \A s : FailedAt(s)' = FailedAt(s) /\ ErrorsAt(s)' = ErrorsAt(s)
      BY <2>1 DEF FailedAt, ErrorsAt, Analyzed
    <3>3. PatternsAreExact'
      BY <2>1, <2>2, <3>1, <3>2 DEF AnInv, PatternsAreExact
    <3> QED  BY <2>1, <2>2, <3>1, <3>3 DEF AnInv, SuggestionsWithinUse
  <2> QED  BY <2>1, <2>2, <2>4, <2>5, <2>6, <2>7 DEF AnInv
<1>3. CASE AnalyzeRow
  <2>1. /\ phase = "loop" /\ UNCHANGED <<table, recent, jobs, rec, phase>>
        /\ AnTypeOK /\ FailuresInv /\ SumOf(cpu, DoneCpus) /\ SumOf(memory, DoneMemories)
    BY <1>3 DEF AnalyzeRow, AnInv
  <2>2. PICK i \in todo :
          /\ todo' = todo \ {i}
          /\ stageFailures' = IF IsStageFailure(table[i])
                              THEN Set(stageFailures, table[i].stage, Failures(table[i].stage) + 1)
                              ELSE stageFailures
          /\ stageErrors' = IF HasExample(table[i])
                            THEN Set(stageErrors, table[i].stage, table[i].message)
                            ELSE stageErrors
          /\ cpu' = Add(cpu, table[i].cpu) /\ memory' = Add(memory, table[i].memory)
    BY <1>3 DEF AnalyzeRow
  <2>3. FailuresInv'
    BY <2>1, <2>2, RowKeepsFailures
  <2>4. SumOf(cpu, DoneCpus)' /\ SumOf(memory, DoneMemories)'
    BY <2>1, <2>2, RowKeepsSums
  <2>5. AnTypeOK'
    BY <2>1, <2>2 DEF AnTypeOK
  <2>6. Analyzed' = Analyzed
    BY <2>1 DEF Analyzed
  <2>7. PatternsAreExact' /\ SuggestionsWithinUse'
    BY <2>1 DEF PatternsAreExact, SuggestionsWithinUse
  <2> QED  BY <2>1, <2>3, <2>4, <2>5, <2>6, <2>7 DEF AnInv
<1>4. CASE BuildRecommendation
  <2>1. /\ phase = "loop" /\ phase' = "done"
        /\ UNCHANGED <<table, recent, jobs, todo, cpu, memory, stageFailures, stageErrors>>
    BY <1>4 DEF BuildRecommendation
  <2>2. Analyzed' = Analyzed /\ Done' = Done
    BY <2>1 DEF Analyzed, Done
  <2>3. (\A s : DoneAt(s)' = DoneAt(s) /\ MessagesAt(s)' = MessagesAt(s))
        /\ DoneCpus' = DoneCpus /\ DoneMemories' = DoneMemories
    BY <2>1, <2>2 DEF DoneAt, MessagesAt, DoneCpus, DoneMemories
  <2>4. FailuresInv'
    BY <2>1, <2>3 DEF AnInv, FailuresInv
  <2>5. SumOf(cpu, DoneCpus)' /\ SumOf(memory, DoneMemories)'
    BY <2>1, <2>3 DEF AnInv, SumOf
  <2>6. AnTypeOK'
    BY <2>1 DEF AnInv, AnTypeOK
  <2>7. PatternsAreExact' /\ SuggestionsWithinUse'
    BY <1>4, PatternsBuilt, SuggestionsBuilt
  <2> QED  BY <2>1, <2>2, <2>4, <2>5, <2>6, <2>7 DEF AnInv
<1> QED  BY <1>1, <1>2, <1>3, <1>4 DEF AnNext

\* Every reachable state satisfies the inductive invariant of the analysis.
THEOREM AnalysisInvariant == AnSpec => []AnInv
BY AnInitInv, AnNextInv, PTL DEF AnSpec

\* The failure patterns are those of the analysed jobs, for any table.
THEOREM PatternsExact == AnSpec => []PatternsAreExact
<1>1. AnInv => PatternsAreExact
  BY DEF AnInv
<1> QED  BY <1>1, AnalysisInvariant, PTL

\* The suggested defaults lie among the overrides in use, for any table.
THEOREM SuggestionsReasonable == AnSpec => []SuggestionsWithinUse
<1>1. AnInv => SuggestionsWithinUse
  BY DEF AnInv
<1> QED  BY <1>1, AnalysisInvariant, PTL
=============================================================================
