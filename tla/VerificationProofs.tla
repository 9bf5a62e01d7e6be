------------------------- MODULE VerificationProofs -------------------------
(***************************************************************************)
(* Verification never blocks a deployment, for every set of overrides.  The *)
(* invariant says that the rendered documents pass the two built-in checks  *)
(* and that these have been recorded; the rest is counting.                 *)
(***************************************************************************)
EXTENDS Verification, FiniteSetTheorems, TLAPS

Rendered == {Document(kind) : kind \in Kinds}

AfterKubeconform ==
    {"opa_pipeline", "trivy_scan", "resource_bounds", "score", "applying", "failed"}
AfterTrivy == {"resource_bounds", "score", "applying", "failed"}
AfterOPA == {"trivy_scan", "resource_bounds", "score", "applying", "failed"}
AfterAll == {"score", "applying", "failed"}

\* What is known at each place of the stage.
VInv ==
    /\ VTypeOK
    /\ overrides.cpu = {} \/ \E c \in CpuCores : overrides.cpu = {c}
    /\ overrides.memory = {} \/ \E m \in MemoryMB : overrides.memory = {m}
    /\ pc # "manifest" => manifests = Rendered
    /\ pc \in AfterOPA => checks["opa_pipeline"] = "passed"
    /\ pc \in AfterAll => checks["resource_bounds"] = "passed"
    /\ pc \in AfterKubeconform /\ "kubeconform" \notin tools => checks["kubeconform"] = "skipped"
    /\ pc \in AfterTrivy /\ "trivy" \notin tools => checks["trivy_scan"] = "skipped"
    /\ checks["trivy_scan"] = "passed" => image = "clean"
    /\ pc \in {"applying", "failed"} => score = Score
    /\ VerificationNeverBlocks

\* Defaults and overrides both give a request within its limit.
LEMMA OverrideIsBounded ==
    ASSUME NEW cpus, cpus = {} \/ \E v \in Int : cpus = {v},
           NEW memories, memories = {} \/ \E v \in Int : memories = {v}
    PROVE  Bounded([cpu    |-> Override(cpus, "m", Quantity(100, "m"), Quantity(500, "m")),
                    memory |-> Override(memories, "Mi", Quantity(128, "Mi"), Quantity(256, "Mi"))])
<1> DEFINE cpu == Override(cpus, "m", Quantity(100, "m"), Quantity(500, "m"))
           memory == Override(memories, "Mi", Quantity(128, "Mi"), Quantity(256, "Mi"))
<1>1. parseCPU(cpu.request) <= parseCPU(cpu.limit)
  <2>1. CASE cpus = {}
    BY <2>1 DEF Override, Quantity, parseCPU
  <2>2. CASE \E v \in Int : cpus = {v}
    <3>1. PICK v \in Int : cpus = {v}
      BY <2>2
    <3>2. (CHOOSE u \in cpus : TRUE) = v /\ cpus # {}
      BY <3>1
    <3>3. cpu.request = Quantity(v, "m") /\ cpu.limit = Quantity(v, "m")
      BY <3>2 DEF Override
    <3>4. parseCPU(Quantity(v, "m")) = v
      BY DEF Quantity, parseCPU
    <3> QED  BY <3>3, <3>4
  <2> QED  BY <2>1, <2>2
<1>2. parseMemory(memory.request) <= parseMemory(memory.limit)
  <2>1. \A n \in Int : parseMemory(Quantity(n, "Mi")) = n * 1048576
    BY DEF Quantity, parseMemory
  <2>2. CASE memories = {}
    <3>1. memory.request = Quantity(128, "Mi") /\ memory.limit = Quantity(256, "Mi")
      BY <2>2 DEF Override
    <3> QED  BY <2>1, <3>1
  <2>3. CASE \E v \in Int : memories = {v}
    <3>1. PICK v \in Int : memories = {v}
      BY <2>3
    <3>2. (CHOOSE u \in memories : TRUE) = v /\ memories # {}
      BY <3>1
    <3>3. memory.request = Quantity(v, "Mi") /\ memory.limit = Quantity(v, "Mi")
      BY <3>2 DEF Override
    <3>4. v * 1048576 <= v * 1048576
      OBVIOUS
    <3> QED  BY <2>1, <3>3, <3>4
  <2> QED  BY <2>2, <2>3
<1> QED  BY <1>1, <1>2 DEF Bounded

LEMMA PairSize ==
    ASSUME NEW a, NEW b, a # b
    PROVE  IsFiniteSet({a, b}) /\ Cardinality({a, b}) = 2
<1>1. IsFiniteSet({a}) /\ Cardinality({a}) = 1
  BY FS_Singleton
<1>2. b \notin {a} /\ {a, b} = {a} \cup {b}
  OBVIOUS
<1> QED  BY <1>1, <1>2, FS_AddElement

\* Half of the checks that count have passed, so the score reaches the threshold.
LEMMA TwoPassedSuffice ==
    ASSUME checks \in [CheckNames -> Results],
           checks["opa_pipeline"] = "passed",
           checks["resource_bounds"] = "passed"
    PROVE  Score \in 50..100
<1> DEFINE Builtin == {"opa_pipeline", "resource_bounds"}
<1> DEFINE Tools == {"kubeconform", "trivy_scan"}
<1>1. CheckNames = Builtin \cup Tools /\ Builtin \cap Tools = {}
  BY DEF CheckNames
<1>2. IsFiniteSet(Builtin) /\ Cardinality(Builtin) = 2
  BY PairSize
<1>3. IsFiniteSet(Tools) /\ Cardinality(Tools) = 2
  BY PairSize
<1>4. IsFiniteSet(CheckNames) /\ Cardinality(CheckNames) = 4
  <2>1. Cardinality(Builtin \cap Tools) = 0
    BY <1>1, FS_EmptySet
  <2> QED  BY <1>1, <1>2, <1>3, <2>1, FS_Union
<1>5. Builtin \subseteq PassedChecks /\ PassedChecks \subseteq Counted /\ Counted \subseteq CheckNames
  BY DEF PassedChecks, Counted, CheckNames
<1>6. IsFiniteSet(Counted) /\ Cardinality(Counted) \in 0..4
  BY <1>4, <1>5, FS_Subset, FS_CardinalityType
<1>7. IsFiniteSet(PassedChecks) /\ Cardinality(PassedChecks) \in 2..Cardinality(Counted)
  <2>1. IsFiniteSet(PassedChecks) /\ Cardinality(PassedChecks) <= Cardinality(Counted)
    BY <1>5, <1>6, FS_Subset
  <2>2. Cardinality(Builtin) <= Cardinality(PassedChecks)
    BY <1>5, <2>1, FS_Subset
  <2> QED  BY <1>2, <1>6, <2>1, <2>2, FS_CardinalityType
<1>8. Counted # {}
  BY <1>5
<1> HIDE DEF Builtin, Tools
<1>9. Cardinality(Counted) \in {2, 3, 4}
  BY <1>6, <1>7
<1>10. \A p \in Nat : \A t \in {2, 3, 4} : p >= 2 /\ p <= t => (p * 100) \div t \in 50..100
  OBVIOUS
<1> QED  BY <1>7, <1>8, <1>9, <1>10 DEF Score

\* Everything the templates produce is within bounds.
LEMMA RenderedIsBounded ==
    ASSUME VInv, NEW c \in Containers
    PROVE  Bounded(c)
<1> DEFINE cpus == {Millicores(x) : x \in overrides.cpu}
<1>1. c = [cpu    |-> Override(cpus, "m", Quantity(100, "m"), Quantity(500, "m")),
           memory |-> Override(overrides.memory, "Mi", Quantity(128, "Mi"), Quantity(256, "Mi"))]
  BY DEF Containers
<1>2. cpus = {} \/ \E v \in Int : cpus = {v}
  <2>1. CASE overrides.cpu = {}
    BY <2>1
  <2>2. CASE \E x \in CpuCores : overrides.cpu = {x}
    <3>1. PICK x \in CpuCores : overrides.cpu = {x}
      BY <2>2
    <3>2. cpus = {Millicores(x)}
      BY <3>1
    <3>3. Millicores(x) \in Int
      BY VerificationAssumption DEF Millicores
    <3> QED  BY <3>2, <3>3
  <2> QED  BY <2>1, <2>2 DEF VInv
<1>3. overrides.memory = {} \/ \E v \in Int : overrides.memory = {v}
  BY VerificationAssumption DEF VInv
<1> HIDE DEF cpus
<1> QED  BY <1>1, <1>2, <1>3, OverrideIsBounded

LEMMA RenderedNotEmpty == Rendered # {}
BY DEF Rendered, Kinds

LEMMA VInitInv == VInit => VInv
<1> SUFFICES ASSUME VInit PROVE VInv
  OBVIOUS
<1>1. PICK o \in [cpu : {{}} \cup {{c} : c \in CpuCores},
                  memory : {{}} \cup {{m} : m \in MemoryMB}] : overrides = o
  BY DEF VInit
<1>2. overrides.cpu = {} \/ \E c \in CpuCores : overrides.cpu = {c}
  BY <1>1
<1>3. overrides.memory = {} \/ \E m \in MemoryMB : overrides.memory = {m}
  BY <1>1
<1>4. checks \in [CheckNames -> Results]
  BY DEF VInit, Results
<1> QED  BY <1>2, <1>3, <1>4
         DEF VInit, VInv, VTypeOK, VerificationNeverBlocks, CheckNames, AfterKubeconform, AfterOPA,
             AfterTrivy, AfterAll

LEMMA VNextInv == VInv /\ [VNext]_vvars => VInv'
<1> SUFFICES ASSUME VInv, [VNext]_vvars PROVE VInv'
  OBVIOUS
<1> USE DEF CheckNames, AfterKubeconform, AfterOPA, AfterTrivy, AfterAll
<1>1. CASE RenderTemplates
  <2>1. UNCHANGED <<overrides, tools, image, checks, score>> /\ pc = "manifest"
        /\ pc' = "kubeconform" /\ manifests' = Rendered
    BY <1>1 DEF RenderTemplates, Rendered
  <2>2. Rendered' = Rendered
    BY <2>1 DEF Rendered, Document, Containers
  <2> QED  BY <2>1, <2>2 DEF VInv, VTypeOK, VerificationNeverBlocks
<1>2. ASSUME NEW name \in CheckNames, NEW result \in Results \ {"none"}, NEW next,
             Record(name, result, next), pc # "manifest",
             <<pc, name, next>> \in
                 {<<"kubeconform", "kubeconform", "opa_pipeline">>,
                  <<"opa_pipeline", "opa_pipeline", "trivy_scan">>,
                  <<"trivy_scan", "trivy_scan", "resource_bounds">>,
                  <<"resource_bounds", "resource_bounds", "score">>},
             name \in {"opa_pipeline", "resource_bounds"} => result = "passed",
             name = "kubeconform" /\ "kubeconform" \notin tools => result = "skipped",
             name = "trivy_scan" /\ "trivy" \notin tools => result = "skipped",
             name = "trivy_scan" /\ result = "passed" => image = "clean"
      PROVE  VInv'
  <2>1. UNCHANGED <<overrides, tools, image, manifests, score>>
        /\ pc' = next /\ checks' = [checks EXCEPT ![name] = result]
    BY <1>2 DEF Record
  <2>2. Rendered' = Rendered
    BY <2>1 DEF Rendered, Document, Containers
  <2>3. checks' \in [CheckNames -> Results]
    BY <1>2, <2>1 DEF VInv, VTypeOK
  <2>4. checks'[name] = result
        /\ \A c \in CheckNames : c # name => checks'[c] = checks[c]
    BY <1>2, <2>1 DEF VInv, VTypeOK
  <2> QED  BY <1>2, <2>1, <2>2, <2>3, <2>4 DEF VInv, VTypeOK, VerificationNeverBlocks
<1>3. CASE checkKubeconform
  <2>1. PICK result \in Results \ {"none"} :
          /\ Record("kubeconform", result, "opa_pipeline")
          /\ "kubeconform" \notin tools => result = "skipped"
    BY <1>3 DEF checkKubeconform, ToolFailure, Results
  <2> QED  BY <1>2, <1>3, <2>1 DEF checkKubeconform
<1>4. CASE checkOPAPipeline
  <2>1. manifests = Rendered
    BY <1>4 DEF checkOPAPipeline, VInv
  <2>2. \A doc \in Rendered : LabelsOK(doc)
    <3>1. \A doc \in Rendered : doc.labels = Labels
      BY DEF Rendered, Document
    <3>2. Labels.app = "app-job" /\ Labels.managedBy = "deploy-api"
      BY DEF Labels
    <3>3. "app-job" # ""
      OBVIOUS
    <3> QED  BY <3>1, <3>2, <3>3 DEF LabelsOK
  <2>3. Record("opa_pipeline", "passed", "trivy_scan") /\ pc = "opa_pipeline"
    BY <1>4, <2>1, <2>2, RenderedNotEmpty DEF checkOPAPipeline, Documents
  <2> QED  BY <1>2, <2>3 DEF Results
<1>5. CASE checkTrivyScan
  <2>1. image \in Images
    BY DEF VInv, VTypeOK
  <2>2. PICK result \in Results \ {"none"} :
          /\ Record("trivy_scan", result, "resource_bounds")
          /\ "trivy" \notin tools => result = "skipped"
          /\ result = "passed" => image = "clean"
    BY <1>5, <2>1 DEF checkTrivyScan, ToolFailure, Results, Images
  <2> QED  BY <1>2, <1>5, <2>2 DEF checkTrivyScan
<1>6. CASE checkResourceBounds
  <2>1. manifests = Rendered
    BY <1>6 DEF checkResourceBounds, VInv
  <2>2. \A doc \in Rendered : \A c \in doc.containers : c \in Containers
    BY DEF Rendered, Document
  <2>3. \A doc \in Rendered : \A c \in doc.containers : Bounded(c)
    BY <2>2, RenderedIsBounded
  <2>4. Record("resource_bounds", "passed", "score") /\ pc = "resource_bounds"
    BY <1>6, <2>1, <2>3, RenderedNotEmpty DEF checkResourceBounds, Documents
  <2> QED  BY <1>2, <2>4 DEF Results
<1>7. CASE Decide
  <2>1. Score \in 50..100
    BY <1>7, TwoPassedSuffice DEF Decide, VInv, VTypeOK
  <2>2. score' = Score /\ pc' = "applying" /\ pc = "score"
        /\ UNCHANGED <<overrides, tools, image, manifests, checks>>
    BY <1>7, <2>1 DEF Decide, Passes
  <2>3. Rendered' = Rendered
    BY <2>2 DEF Rendered, Document, Containers
  <2>4. score' \in 0..100
    BY <2>1, <2>2
  <2>5. Score' = Score
    BY <2>2 DEF Score, Counted, PassedChecks
  <2> QED  BY <2>2, <2>3, <2>4, <2>5 DEF VInv, VTypeOK, VerificationNeverBlocks
<1>8. CASE UNCHANGED vvars
  <2>1. Rendered' = Rendered
    BY <1>8 DEF vvars, Rendered, Document, Containers
  <2>2. Score' = Score
    BY <1>8 DEF vvars, Score, Counted, PassedChecks
  <2> QED  BY <1>8, <2>1, <2>2 DEF vvars, VInv, VTypeOK, VerificationNeverBlocks
<1> QED  BY <1>1, <1>3, <1>4, <1>5, <1>6, <1>7, <1>8 DEF VNext

\* Whatever the overrides, the tools and their answers, Execute is let through
\* to APPLYING.
THEOREM NeverBlocks == VSpec => []VerificationNeverBlocks
<1>1. VInv => VerificationNeverBlocks
  BY DEF VInv
<1> QED  BY <1>1, VInitInv, VNextInv, PTL DEF VSpec

\* The score stays within 0..100 without being cut off.
THEOREM VTypeCorrect == VSpec => []VTypeOK
<1>1. VInv => VTypeOK
  BY DEF VInv
<1> QED  BY <1>1, VInitInv, VNextInv, PTL DEF VSpec

\* When every check that could run has passed, those are the checks that count.
LEMMA AllPassedIsFullScore == VInv => NoPenaltyForMissingTools
<1> SUFFICES ASSUME VInv, pc \in {"applying", "failed"},
                    \A c \in CheckNames :
                       checks[c] = "passed" \/ (c = "kubeconform" /\ "kubeconform" \notin tools)
                                            \/ (c = "trivy_scan" /\ "trivy" \notin tools)
             PROVE  score = 100
  BY DEF NoPenaltyForMissingTools
<1>1. checks \in [CheckNames -> Results]
      /\ checks["opa_pipeline"] = "passed" /\ checks["resource_bounds"] = "passed"
  BY DEF VInv, VTypeOK, AfterOPA, AfterAll
<1>2. \A c \in CheckNames : checks[c] \in {"passed", "skipped"}
  BY DEF VInv, AfterKubeconform, AfterTrivy
<1>3. Counted = PassedChecks
  BY <1>2 DEF Counted, PassedChecks
<1>4. Counted # {}
  BY <1>1, <1>3 DEF PassedChecks, CheckNames
<1>5. Cardinality(Counted) \in Nat \ {0}
  <2>1. IsFiniteSet(CheckNames)
    <3>1. CheckNames = {"kubeconform", "opa_pipeline"} \cup {"trivy_scan", "resource_bounds"}
      BY DEF CheckNames
    <3>2. IsFiniteSet({"kubeconform", "opa_pipeline"}) /\ IsFiniteSet({"trivy_scan", "resource_bounds"})
      BY PairSize
    <3> QED  BY <3>1, <3>2, FS_Union
  <2>2. Counted \in SUBSET CheckNames
    BY DEF Counted
  <2> QED  BY <1>4, <2>1, <2>2, FS_Subset, FS_CardinalityType, FS_EmptySet
<1>6. \A n \in Nat \ {0} : (n * 100) \div n = 100
  OBVIOUS
<1>7. Score = 100
  BY <1>3, <1>4, <1>5, <1>6 DEF Score
<1> QED  BY <1>7 DEF VInv

\* A tool that is not installed costs no points, whichever it is.
THEOREM MissingToolsAreFree == VSpec => []NoPenaltyForMissingTools
BY AllPassedIsFullScore, VInitInv, VNextInv, PTL DEF VSpec
=============================================================================
