--------------------------- MODULE PipelineProofs ---------------------------
(***************************************************************************)
(* What an attempt verifies and applies is what it cloned, for any number   *)
(* of attempts and commits.  The invariant follows the commit through the   *)
(* workspace, the daemon and the registry, stage by stage; what is known of *)
(* the verification stage (VInv) is kept by the other stages because the    *)
(* checks are an attempt's own.                                             *)
(***************************************************************************)
EXTENDS Pipeline, VerificationProofs

NoChecks == [c \in CheckNames |-> "none"]

PInv ==
    /\ PTypeOK
    /\ VInv
    /\ head # 0
    /\ at \in {"waiting", "clone", "build", "push"} => pc = "manifest" /\ checks = NoChecks
    /\ at \in {"build", "push", "verify"} =>
          cloned # 0 /\ workspace = cloned /\ startHead <= cloned
    /\ startHead <= head
    /\ at \in {"push", "verify"} => local = cloned /\ image \in {Contents(cloned), "inaccessible"}
    /\ at = "verify" => registry = cloned

\* Outside the verification stage VInv says little.
LEMMA VInvAtRest ==
    ASSUME VInv, UNCHANGED <<overrides, tools>>, image' \in Images,
           checks' = NoChecks, pc' = "manifest", score' = 0
    PROVE  VInv'
<1>1. checks' \in [CheckNames -> Results]
      /\ checks'["trivy_scan"] # "passed"
  BY DEF NoChecks, CheckNames, Results
<1>2. pc' \notin AfterKubeconform /\ pc' \notin AfterTrivy /\ pc' \notin AfterOPA
      /\ pc' \notin AfterAll /\ pc' \notin {"applying", "failed"}
  BY DEF AfterKubeconform, AfterTrivy, AfterOPA, AfterAll
<1> QED  BY <1>1, <1>2 DEF VInv, VTypeOK, VerificationNeverBlocks

\* A change of the documents does not matter before they are rendered.
LEMMA VInvBeforeRendering ==
    ASSUME VInv, pc = "manifest", UNCHANGED <<overrides, tools, image, checks, pc, score>>
    PROVE  VInv'
<1>1. pc \notin AfterKubeconform /\ pc \notin AfterTrivy /\ pc \notin AfterOPA
      /\ pc \notin AfterAll /\ pc \notin {"applying", "failed"}
  BY DEF AfterKubeconform, AfterTrivy, AfterOPA, AfterAll
<1> QED  BY <1>1 DEF VInv, VTypeOK, VerificationNeverBlocks

LEMMA VInvKept == VInv /\ UNCHANGED vvars => VInv'
BY VNextInv

LEMMA ContentsAreImages == \A c : Contents(c) \in Images
BY DEF Contents, Images

LEMMA PInitInv == PInit => PInv
<1> SUFFICES ASSUME PInit PROVE PInv
  OBVIOUS
<1>1. VInv
  BY VInitInv DEF PInit
<1>2. pc = "manifest" /\ checks = NoChecks
  BY DEF PInit, VInit, NoChecks
<1>3. MaxAttempts \in Nat /\ MaxCommits \in Nat \ {0}
  BY PipelineAssumption
<1>4. PTypeOK
  <2>1. VTypeOK
    BY <1>1 DEF VInv
  <2>2. 0 \in Commits /\ 1 \in Commits /\ 0 \in 0..MaxAttempts
    BY <1>3 DEF Commits
  <2>3. /\ head = 1 /\ startHead = 1 /\ attempt = 0 /\ at = "waiting"
        /\ workspace = 0 /\ cloned = 0 /\ local = 0 /\ registry = 0 /\ node = 0
        /\ deployed = FALSE /\ verified = {}
    BY DEF PInit
  <2>4. deployed \in BOOLEAN /\ verified \subseteq Commits
    BY <2>3
  <2> QED  BY <2>1, <2>2, <2>3, <2>4 DEF PTypeOK
<1>5. /\ head = 1 /\ startHead = 1 /\ at = "waiting" /\ node = 0
  BY DEF PInit
<1>7. startHead <= head /\ head # 0
  BY <1>5
<1>8. at \notin {"build", "push", "verify"}
  BY <1>5
<1>9. at \in {"build", "push", "verify"} =>
          cloned # 0 /\ workspace = cloned /\ startHead <= cloned
  BY <1>8
<1>10. /\ at \in {"push", "verify"} =>
             local = cloned /\ image \in {Contents(cloned), "inaccessible"}
       /\ at = "verify" => registry = cloned
  BY <1>5
<1>12. at \in {"waiting", "clone", "build", "push"} => pc = "manifest" /\ checks = NoChecks
  BY <1>2
<1> QED  BY <1>1, <1>4, <1>7, <1>9, <1>10, <1>12, Zenon DEF PInv

LEMMA PStepInv == PInv /\ [PNext]_pvars => PInv'
<1> SUFFICES ASSUME PInv, [PNext]_pvars PROVE PInv'
  OBVIOUS
<1> USE DEF PInv
<1>a. MaxAttempts \in Nat /\ MaxCommits \in Nat \ {0}
  BY PipelineAssumption
<1>b. VInv' => VTypeOK'
  BY DEF VInv
<1>c. head \in Nat /\ startHead \in Nat /\ attempt \in Nat
  BY <1>a DEF PTypeOK, Commits
<1> USE DEF imageVars, attemptVars
<1>1. CASE StartAttempt
  <2>1. VInv'
    BY <1>1, VInvKept DEF StartAttempt
  <2> QED  BY <1>1, <1>a, <1>b, <1>c, <2>1 DEF StartAttempt, vvars, PTypeOK
<1>2. CASE EndAttempt
  <2>1. checks' = NoChecks /\ pc' = "manifest" /\ score' = 0
        /\ UNCHANGED <<overrides, tools, image, imageVars, startHead, attempt, cloned, head>>
        /\ at' = "waiting" /\ workspace' \in {workspace, 0}
    BY <1>2 DEF EndAttempt, FreshChecks, NoChecks
  <2>2. VInv'
    BY <2>1, VInvAtRest DEF PTypeOK, VTypeOK
  <2> QED  BY <1>a, <1>b, <2>1, <2>2 DEF PTypeOK, Commits
<1>3. CASE Clone
  <2>1. UNCHANGED <<overrides, tools, image, checks, pc, score, imageVars, startHead, attempt, head>>
        /\ workspace' = head /\ cloned' = head /\ at' = "build" /\ at = "clone"
    BY <1>3 DEF Clone
  <2>2. VInv'
    BY <2>1, VInvBeforeRendering
  <2> QED  BY <1>a, <1>b, <2>1, <2>2 DEF PTypeOK, Commits
<1>4. CASE CloneFails
  <2>1. UNCHANGED <<overrides, tools, image, checks, pc, score, imageVars, startHead, attempt,
                    cloned, head>>
        /\ workspace' = 0 /\ at' = "waiting" /\ at = "clone"
    BY <1>4 DEF CloneFails
  <2>2. VInv'
    BY <2>1, VInvBeforeRendering
  <2> QED  BY <1>a, <1>b, <2>1, <2>2 DEF PTypeOK, Commits
<1>5. CASE Build
  <2>1. UNCHANGED <<overrides, tools, manifests, registry, deployed, node, verified, startHead,
                    attempt, workspace, cloned, head>>
        /\ local' = workspace /\ image' \in {Contents(workspace), "inaccessible"}
        /\ at = "build" /\ at' \in {"push", "waiting"}
    BY <1>5 DEF Build
  <2>2. checks' = NoChecks /\ pc' = "manifest"
    BY <1>5 DEF Build, FreshChecks, NoChecks
  <2>3. VInv'
    <3>1. image' \in Images
      BY <2>1, ContentsAreImages DEF Images
    <3>2. CASE at' = "waiting"
      <4>1. score' = 0
        BY <1>5, <3>2 DEF Build, FreshChecks
      <4> QED  BY <2>1, <2>2, <3>1, <4>1, VInvAtRest
    <3>3. CASE at' = "push"
      <4>1. score' = score
        BY <1>5, <3>3 DEF Build
      <4>2. checks' \in [CheckNames -> Results] /\ checks'["trivy_scan"] # "passed"
        BY <2>2 DEF NoChecks, CheckNames, Results
      <4>3. pc' \notin AfterKubeconform /\ pc' \notin AfterTrivy /\ pc' \notin AfterOPA
            /\ pc' \notin AfterAll /\ pc' \notin {"applying", "failed"}
        BY <2>2 DEF AfterKubeconform, AfterTrivy, AfterOPA, AfterAll
      <4> QED  BY <2>1, <2>2, <3>1, <4>1, <4>2, <4>3 DEF VInv, VTypeOK, VerificationNeverBlocks
    <3> QED  BY <2>1, <3>2, <3>3
  <2>4. local' \in Commits
    BY <2>1 DEF PTypeOK
  <2> QED  BY <1>a, <1>b, <2>1, <2>2, <2>3, <2>4 DEF PTypeOK
<1>6. CASE Push
  <2>1. VInv'
    BY <1>6, VInvKept DEF Push
  <2> QED  BY <1>6, <1>b, <2>1 DEF Push, vvars, PTypeOK
<1>7. CASE Verify
  <2>1. VNext /\ UNCHANGED <<imageVars, attemptVars, head>> /\ at = "verify"
    BY <1>7 DEF Verify
  <2>2. VInv'
    BY <2>1, VNextInv
  <2>3. image' = image
    BY <2>1 DEF VNext, RenderTemplates, checkKubeconform, checkOPAPipeline, checkTrivyScan,
                checkResourceBounds, Record, Decide
  <2> QED  BY <1>b, <2>1, <2>2, <2>3 DEF PTypeOK
<1>8. CASE Apply
  <2>1. VInv'
    BY <1>8, VInvKept DEF Apply
  <2> QED  BY <1>8, <1>b, <2>1 DEF Apply, vvars, PTypeOK
<1>9. CASE Pull
  <2>1. VInv'
    BY <1>9, VInvKept DEF Pull
  <2> QED  BY <1>9, <1>b, <2>1 DEF Pull, vvars, PTypeOK
<1>10. CASE CommitToBranch
  <2>1. VInv'
    BY <1>10, VInvKept DEF CommitToBranch
  <2>2. head' \in Commits /\ head' # 0 /\ head <= head'
    BY <1>10, <1>a DEF CommitToBranch, PTypeOK, Commits
  <2> QED  BY <1>10, <1>b, <1>c, <2>1, <2>2 DEF CommitToBranch, vvars, PTypeOK, Commits
<1>11. CASE UNCHANGED pvars
  <2>1. VInv'
    BY <1>11, VInvKept DEF pvars
  <2> QED  BY <1>11, <1>b, <2>1 DEF pvars, vvars, PTypeOK
<1> QED  BY <1>1, <1>2, <1>3, <1>4, <1>5, <1>6, <1>7, <1>8, <1>9, <1>10, <1>11 DEF PNext

\* Every reachable state satisfies the inductive invariant of the pipeline.
THEOREM PipelineInvariant == PSpec => []PInv
BY PInitInv, PStepInv, PTL DEF PSpec

\* The job's things stay in their ranges, whatever attempts leave behind.
THEOREM PipelineTypeCorrect == PSpec => []PTypeOK
BY PipelineInvariant, PTL DEF PInv

\* An attempt applies the commit it cloned, built, pushed and described, and
\* trivy's pass is about that commit's image.
THEOREM Provenance == PSpec => []AppliesWhatItCloned
<1>1. PInv => AppliesWhatItCloned
  <2> SUFFICES ASSUME PInv, at = "verify", pc = "applying"
               PROVE  /\ cloned # 0 /\ workspace = cloned /\ local = cloned /\ registry = cloned
                      /\ {doc.kind : doc \in manifests} = Kinds
                      /\ checks["trivy_scan"] = "passed" => registry \notin Vulnerable
    BY DEF AppliesWhatItCloned
  <2>1. cloned # 0 /\ workspace = cloned /\ local = cloned /\ registry = cloned
    BY DEF PInv
  <2>2. {doc.kind : doc \in manifests} = Kinds
    <3>1. manifests = Rendered
      BY DEF PInv, VInv
    <3>2. \A kind : Document(kind).kind = kind
      BY DEF Document
    <3> QED  BY <3>1, <3>2 DEF Rendered
  <2>3. ASSUME checks["trivy_scan"] = "passed" PROVE registry \notin Vulnerable
    <3>1. image = "clean" /\ image \in {Contents(cloned), "inaccessible"}
      BY <2>3 DEF PInv, VInv
    <3> QED  BY <2>1, <3>1 DEF Contents
  <2> QED  BY <2>1, <2>2, <2>3
<1> QED  BY <1>1, PipelineInvariant, PTL

\* A retry deploys the branch as it is when the retry clones it.
THEOREM FreshRetries == PSpec => []RetriesAreFresh
<1>1. PInv => RetriesAreFresh
  BY DEF PInv, RetriesAreFresh
<1> QED  BY <1>1, PipelineInvariant, PTL

\* An attempt of this commit or an older one got past verification.
VerifiedUpTo(commit) == \E older \in verified : older <= commit

\* The images under the job's tag only get younger: an attempt pushes a commit
\* from the branch, which was not behind what earlier attempts had built.
Ages ==
    /\ cloned <= head /\ local <= head /\ registry <= local
    /\ at \in {"clone", "build"} => local <= startHead
    /\ deployed => VerifiedUpTo(registry)
    /\ node # 0 => VerifiedUpTo(node)

LEMMA AgesStep == PInv /\ Ages /\ [PNext]_pvars => Ages'
<1> SUFFICES ASSUME PInv, Ages, [PNext]_pvars PROVE Ages'
  OBVIOUS
<1> USE DEF Ages, VerifiedUpTo, imageVars, attemptVars
<1>a. /\ head \in Nat /\ startHead \in Nat /\ cloned \in Nat
      /\ local \in Nat /\ registry \in Nat /\ node \in Nat /\ verified \subseteq Nat
  BY PipelineAssumption DEF PInv, PTypeOK, Commits
<1>1. CASE StartAttempt
  BY <1>1, <1>a DEF StartAttempt
<1>2. CASE EndAttempt
  BY <1>2, <1>a DEF EndAttempt
<1>3. CASE Clone
  BY <1>3, <1>a DEF Clone
<1>4. CASE CloneFails
  BY <1>4, <1>a DEF CloneFails
<1>5. CASE Build
  <2>1. /\ local' = cloned /\ local <= cloned /\ at' \in {"push", "waiting"}
        /\ UNCHANGED <<registry, deployed, node, verified, cloned, head>>
    BY <1>5, <1>a DEF Build, PInv
  <2> QED  BY <2>1, <1>a
<1>6. CASE Push
  <2>1. /\ registry' = local /\ registry <= local /\ at' \in {"verify", "waiting"}
        /\ UNCHANGED <<local, deployed, node, verified, cloned, head>>
    BY <1>6 DEF Push
  <2>2. VerifiedUpTo(registry) => VerifiedUpTo(registry')
    BY <2>1, <1>a
  <2> QED  BY <2>1, <2>2, <1>a
<1>7. CASE Verify
  BY <1>7, <1>a DEF Verify
<1>8. CASE Apply
  <2>1. /\ registry = cloned /\ cloned \in verified' /\ verified \subseteq verified'
        /\ at' = "applied"
        /\ UNCHANGED <<local, registry, node, cloned, head>>
    BY <1>8 DEF Apply, PInv
  <2>2. VerifiedUpTo(registry)' /\ (VerifiedUpTo(node) => VerifiedUpTo(node)')
    BY <2>1, <1>a
  <2> QED  BY <2>1, <2>2, <1>a
<1>9. CASE Pull
  BY <1>9, <1>a DEF Pull
<1>10. CASE CommitToBranch
  BY <1>10, <1>a DEF CommitToBranch
<1>11. CASE UNCHANGED pvars
  BY <1>11, <1>a DEF pvars
<1> QED  BY <1>1, <1>2, <1>3, <1>4, <1>5, <1>6, <1>7, <1>8, <1>9, <1>10, <1>11 DEF PNext

\* A node runs nothing before an attempt got past verification, and nothing
\* older than every commit that did.
THEOREM VerifiedFirst == PSpec => []NothingOlderRuns
<1>1. PInit => Ages
  BY DEF PInit, Ages, VerifiedUpTo
<1>2. Ages => NothingOlderRuns
  BY DEF Ages, NothingOlderRuns, VerifiedUpTo
<1> QED  BY <1>1, <1>2, AgesStep, PipelineInvariant, PTL DEF PSpec
=============================================================================
