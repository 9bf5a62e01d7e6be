---------------------------- MODULE Verification ----------------------------
(***************************************************************************)
(* The MANIFEST_GENERATING and VERIFYING stages of one attempt: the twelve  *)
(* templates rendered by internal/worker/manifest.go, the four checks of    *)
(* internal/verification/heuristic.go on the result, and the score that     *)
(* decides whether Execute goes on to APPLYING.                             *)
(*                                                                         *)
(* kubeconform and trivy are external programs: they may be missing, and    *)
(* what they answer is chosen freely.  The texts of the checks matter in    *)
(* one respect only: a check whose text contains "not installed" or         *)
(* "skipping" is left out of the score.                                     *)
(***************************************************************************)
EXTENDS Integers, FiniteSets

CONSTANTS
    CpuCores,   \* values of overrides.cpu_cores, in ten-thousandths of a core
    MemoryMB    \* values of overrides.memory_mb

ASSUME VerificationAssumption == CpuCores \subseteq Int /\ MemoryMB \subseteq Int

VARIABLES
    overrides,  \* the job's resource_overrides; an empty set is an absent field
    tools,      \* the optional programs found on the PATH
    image,      \* whether trivy gets at the image, and what is in it
    manifests,  \* the rendered documents, by kind
    checks,     \* the check results so far, by name
    pc,
    score

vvars == <<overrides, tools, image, manifests, checks, pc, score>>

Kinds ==
    {"ConfigMap", "Deployment", "HorizontalPodAutoscaler", "Ingress", "Namespace",
     "NetworkPolicy", "PodDisruptionBudget", "Role", "RoleBinding", "Secret",
     "Service", "ServiceAccount"}

Workloads == {"Deployment", "StatefulSet", "DaemonSet"}

CheckNames == {"kubeconform", "opa_pipeline", "trivy_scan", "resource_bounds"}

\* skipped: failed, with a text that keeps it out of the score.
Results == {"none", "passed", "failed", "skipped"}

Images == {"clean", "vulnerable", "inaccessible"}

VInit ==
    /\ overrides \in [cpu : {{}} \cup {{c} : c \in CpuCores},
                      memory : {{}} \cup {{m} : m \in MemoryMB}]
    /\ tools \in SUBSET {"kubeconform", "trivy"}
    /\ image \in Images
    /\ manifests = {}
    /\ checks = [c \in CheckNames |-> "none"]
    /\ pc = "manifest"
    /\ score = 0

-----------------------------------------------------------------------------
(* manifest.go *)

Quantity(number, unit) == [number |-> number, unit |-> unit]

\* Variant: an override raises the request and leaves the limit alone.
OverrideRequestOnly(values, unit, request, limit) ==
    [request |-> IF values = {} THEN request ELSE Quantity(CHOOSE v \in values : TRUE, unit),
     limit   |-> limit]

\* An override sets request and limit together.
Override(values, unit, request, limit) ==
    IF values = {} THEN [request |-> request, limit |-> limit]
    ELSE LET quantity == Quantity(CHOOSE v \in values : TRUE, unit)
         IN  [request |-> quantity, limit |-> quantity]

\* int(cores * 1000), which truncates towards zero; the API checks no sign.
Millicores(cores) == IF cores >= 0 THEN cores \div 10 ELSE -((-cores) \div 10)

Containers ==
    {[cpu    |-> Override({Millicores(c) : c \in overrides.cpu}, "m",
                          Quantity(100, "m"), Quantity(500, "m")),
      memory |-> Override(overrides.memory, "Mi", Quantity(128, "Mi"), Quantity(256, "Mi"))]}

Labels == [app |-> "app-job", managedBy |-> "deploy-api"]

Document(kind) ==
    [kind |-> kind, labels |-> Labels,
     containers |-> IF kind = "Deployment" THEN Containers ELSE {}]

RenderTemplates ==
    /\ pc = "manifest"
    /\ manifests' = {Document(kind) : kind \in Kinds}
    /\ pc' = "kubeconform"
    /\ UNCHANGED <<overrides, tools, image, checks, score>>

-----------------------------------------------------------------------------
(* heuristic.go *)

\* collectYAMLFiles and splitYAMLDocuments: each template makes a file with one
\* document.
Documents == manifests

Record(name, result, next) ==
    /\ checks' = [checks EXCEPT ![name] = result]
    /\ pc' = next
    /\ UNCHANGED <<overrides, tools, image, manifests, score>>

\* A program that rejects its input, or fails, writes what it likes.
ToolFailure == {"failed", "skipped"}

checkKubeconform ==
    /\ pc = "kubeconform"
    /\ \E result \in IF "kubeconform" \notin tools THEN {"skipped"}
                     ELSE IF Documents = {} THEN {"failed"}
                     ELSE {"passed"} \cup ToolFailure :
          Record("kubeconform", result, "opa_pipeline")

LabelsOK(doc) == doc.labels.app # "" /\ doc.labels.managedBy = "deploy-api"

checkOPAPipeline ==
    /\ pc = "opa_pipeline"
    /\ Record("opa_pipeline",
              IF Documents # {} /\ \A doc \in Documents : LabelsOK(doc)
              THEN "passed" ELSE "failed",
              "trivy_scan")

\* The image tag is never empty: Execute builds it from the job.  A scan that
\* cannot read the image is a failed program; one that ran reports findings.
checkTrivyScan ==
    /\ pc = "trivy_scan"
    /\ \E result \in IF "trivy" \notin tools THEN {"skipped"}
                     ELSE CASE image = "clean" -> {"passed"} \cup ToolFailure
                            [] image = "vulnerable" -> {"failed"} \cup ToolFailure
                            [] image = "inaccessible" -> ToolFailure :
          Record("trivy_scan", result, "resource_bounds")

\* In millicores.
parseCPU(quantity) ==
    IF quantity.unit = "m" THEN quantity.number ELSE quantity.number * 1000

\* In bytes; the suffixes a 32-bit number can hold.
parseMemory(quantity) ==
    CASE quantity.unit = "Gi"       -> quantity.number * 1073741824
      [] quantity.unit = "Mi"       -> quantity.number * 1048576
      [] quantity.unit = "Ki"       -> quantity.number * 1024
      [] quantity.unit = "G"        -> quantity.number * 1000000000
      [] quantity.unit = "M"        -> quantity.number * 1000000
      [] quantity.unit \in {"K", "k"} -> quantity.number * 1000
      [] OTHER                      -> quantity.number

Bounded(container) ==
    /\ parseCPU(container.cpu.request) <= parseCPU(container.cpu.limit)
    /\ parseMemory(container.memory.request) <= parseMemory(container.memory.limit)

checkResourceBounds ==
    /\ pc = "resource_bounds"
    /\ Record("resource_bounds",
              IF Documents # {} /\ \A doc \in Documents : doc.kind \in Workloads =>
                    \A c \in doc.containers : Bounded(c)
              THEN "passed" ELSE "failed",
              "score")

\* Variant: every check counts.
CountEveryCheck == CheckNames

\* "tool not available: don't penalize", recognised by the check's text.
Counted == {c \in CheckNames : checks[c] # "skipped"}

PassedChecks == {c \in CheckNames : checks[c] = "passed"}

\* Variant: the fraction is turned upside down.
ScoreInverted ==
    IF PassedChecks = {} THEN 0
    ELSE (Cardinality(Counted) * 100) \div Cardinality(PassedChecks)

\* Integer division; with nothing counted the total is set to 1.  The code also
\* cuts the score off at 100, which VTypeOK shows to be unnecessary.
Score ==
    IF Counted = {} THEN 0
    ELSE (Cardinality(PassedChecks) * 100) \div Cardinality(Counted)

Passes(s) == s >= 50

Decide ==
    /\ pc = "score"
    /\ score' = Score
    /\ pc' = IF Passes(Score) THEN "applying" ELSE "failed"
    /\ UNCHANGED <<overrides, tools, image, manifests, checks>>

VNext ==
    \/ RenderTemplates
    \/ checkKubeconform
    \/ checkOPAPipeline
    \/ checkTrivyScan
    \/ checkResourceBounds
    \/ Decide

VSpec == VInit /\ [][VNext]_vvars

-----------------------------------------------------------------------------
(* Properties *)

VTypeOK ==
    /\ overrides.cpu \subseteq CpuCores /\ overrides.memory \subseteq MemoryMB
    /\ tools \subseteq {"kubeconform", "trivy"}
    /\ image \in Images
    /\ checks \in [CheckNames -> Results]
    /\ pc \in CheckNames \cup {"manifest", "score", "applying", "failed"}
    /\ score \in 0..100

\* The verdict is never negative: the two built-in checks accept whatever the
\* templates produce, with any overrides, and two of at most four checks are
\* enough.  Whatever kubeconform and trivy report, Execute goes on to APPLYING;
\* and no choice of overrides or missing tools can block a deployment.
VerificationNeverBlocks == pc # "failed"

\* A missing tool costs nothing: if every check that a program could run has
\* passed, the score is 100, whichever tools are installed.
NoPenaltyForMissingTools ==
    /\ pc \in {"applying", "failed"}
    /\ \A c \in CheckNames :
          checks[c] = "passed" \/ (c = "kubeconform" /\ "kubeconform" \notin tools)
                               \/ (c = "trivy_scan" /\ "trivy" \notin tools)
    => score = 100
=============================================================================
