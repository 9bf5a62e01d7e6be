------------------------------ MODULE Pipeline ------------------------------
(***************************************************************************)
(* What the attempts of one job build, verify and hand to the cluster.      *)
(* The stages work on things that outlive an attempt: the workspace         *)
(* directory, the image in the Docker daemon and the one in the registry,   *)
(* both under the tag made of the job's id, and the image a node has pulled *)
(* under that tag.  An attempt may fail or crash anywhere, a retry finds    *)
(* what is left, and the branch moves meanwhile.                            *)
(*                                                                         *)
(* The manifest and verification stages are those of Verification; commits  *)
(* are numbered in the order in which they became the branch's latest, 0     *)
(* being none.                                                              *)
(***************************************************************************)
EXTENDS Verification

CONSTANTS
    MaxAttempts,    \* bound: attempts at the job
    MaxCommits,     \* bound: commits on the branch
    Vulnerable      \* commits whose image trivy complains about

ASSUME PipelineAssumption ==
    MaxAttempts \in Nat /\ MaxCommits \in Nat \ {0} /\ Vulnerable \subseteq Nat

VARIABLES
    head,       \* the branch's latest commit
    startHead,  \* the same when the current attempt began
    attempt,    \* attempts begun
    at,         \* the stage of the current attempt, "waiting" between two
    workspace,  \* the commit checked out in /tmp/workspaces/<id>
    cloned,     \* the commit the current attempt cloned
    local,      \* the image the Docker daemon has under the job's tag
    registry,   \* the image the registry has under it
    deployed,   \* the Deployment naming the tag is in the cluster
    node,       \* the image the node runs
    verified    \* the commits of the attempts that got past verification

imageVars == <<local, registry, deployed, node, verified>>
attemptVars == <<startHead, attempt, at, workspace, cloned>>
pvars == <<vvars, imageVars, attemptVars, head>>

Commits == 0..MaxCommits

Contents(commit) == IF commit \in Vulnerable THEN "vulnerable" ELSE "clean"

\* The checks live in the memory of an attempt.
FreshChecks ==
    /\ checks' = [c \in CheckNames |-> "none"]
    /\ pc' = "manifest"
    /\ score' = 0

PInit ==
    /\ VInit /\ image = "inaccessible"
    /\ head = 1 /\ startHead = 1 /\ attempt = 0 /\ at = "waiting"
    /\ workspace = 0 /\ cloned = 0 /\ local = 0 /\ registry = 0
    /\ deployed = FALSE /\ node = 0 /\ verified = {}

-----------------------------------------------------------------------------
(* An attempt *)

StartAttempt ==
    /\ at = "waiting" /\ attempt < MaxAttempts
    /\ attempt' = attempt + 1
    /\ startHead' = head
    /\ at' = "clone"
    /\ UNCHANGED <<vvars, imageVars, workspace, cloned, head>>

\* The attempt ends with a failed stage, a negative verdict or the process.  If
\* the container goes with it, so does the workspace.
EndAttempt ==
    /\ at # "waiting"
    /\ at' = "waiting"
    /\ FreshChecks
    /\ \/ UNCHANGED <<workspace, manifests>>
       \/ workspace' = 0 /\ manifests' = {}
    /\ UNCHANGED <<overrides, tools, image, imageVars, startHead, attempt, cloned, head>>

\* Variant: a workspace left by an earlier attempt is used again.
CloneUnlessThere ==
    /\ at = "clone"
    /\ workspace' = IF workspace = 0 THEN head ELSE workspace
    /\ cloned' = workspace'
    /\ manifests' = {}
    /\ at' = "build"
    /\ UNCHANGED <<overrides, tools, image, checks, pc, score, imageVars, startHead, attempt, head>>

\* RemoveAll, MkdirAll and a shallow clone of the branch.
Clone ==
    /\ at = "clone"
    /\ workspace' = head
    /\ cloned' = head
    /\ manifests' = {}
    /\ at' = "build"
    /\ UNCHANGED <<overrides, tools, image, checks, pc, score, imageVars, startHead, attempt, head>>

\* The workspace was emptied, but not filled again.
CloneFails ==
    /\ at = "clone"
    /\ workspace' = 0 /\ manifests' = {}
    /\ at' = "waiting"
    /\ UNCHANGED <<overrides, tools, image, checks, pc, score, imageVars, startHead, attempt,
                   cloned, head>>

\* docker build may be cut off after the daemon has set the tag.  trivy may be
\* unable to get at the image.
Build ==
    /\ at = "build"
    /\ local' = workspace
    /\ image' \in {Contents(workspace), "inaccessible"}
    /\ \/ at' = "push" /\ UNCHANGED <<checks, pc, score>>
       \/ at' = "waiting" /\ FreshChecks
    /\ UNCHANGED <<overrides, tools, manifests, registry, deployed, node, verified, startHead,
                   attempt, workspace, cloned, head>>

\* Variant: a failing push is not noticed.
PushErrorIgnored ==
    /\ at = "push"
    /\ registry' \in {registry, local}
    /\ at' = "verify"
    /\ UNCHANGED <<vvars, local, deployed, node, verified, startHead, attempt, workspace, cloned,
                   head>>

\* docker push may likewise be cut off after the registry has the image.
Push ==
    /\ at = "push"
    /\ registry' = local
    /\ at' \in {"verify", "waiting"}
    /\ UNCHANGED <<vvars, local, deployed, node, verified, startHead, attempt, workspace, cloned,
                   head>>

\* The stages of Verification, after which Execute applies the documents.
Verify ==
    /\ at = "verify"
    /\ VNext
    /\ UNCHANGED <<imageVars, attemptVars, head>>

\* Variant: the documents are applied without waiting for the verdict.
ApplyUnverified ==
    /\ at = "verify"
    /\ deployed' = TRUE
    /\ verified' = IF pc = "applying" THEN verified \cup {cloned} ELSE verified
    /\ at' = "applied"
    /\ UNCHANGED <<vvars, local, registry, node, startHead, attempt, workspace, cloned, head>>

Apply ==
    /\ at = "verify" /\ pc = "applying"
    /\ deployed' = TRUE
    /\ verified' = verified \cup {cloned}
    /\ at' = "applied"
    /\ UNCHANGED <<vvars, local, registry, node, startHead, attempt, workspace, cloned, head>>

-----------------------------------------------------------------------------
(* The rest of the world *)

\* The tag is not "latest", so a node pulls it once and keeps it.
Pull ==
    /\ deployed /\ node = 0
    /\ node' = registry
    /\ UNCHANGED <<vvars, local, registry, deployed, verified, attemptVars, head>>

CommitToBranch ==
    /\ head < MaxCommits
    /\ head' = head + 1
    /\ UNCHANGED <<vvars, imageVars, attemptVars>>

PNext ==
    \/ StartAttempt \/ EndAttempt
    \/ Clone \/ CloneFails \/ Build \/ Push \/ Verify \/ Apply
    \/ Pull
    \/ CommitToBranch

PSpec == PInit /\ [][PNext]_pvars

-----------------------------------------------------------------------------
(* Properties *)

PTypeOK ==
    /\ VTypeOK
    /\ head \in Commits /\ startHead \in Commits /\ attempt \in 0..MaxAttempts
    /\ at \in {"waiting", "clone", "build", "push", "verify", "applied"}
    /\ workspace \in Commits /\ cloned \in Commits
    /\ local \in Commits /\ registry \in Commits /\ node \in Commits
    /\ deployed \in BOOLEAN /\ verified \subseteq Commits

\* Whatever earlier attempts left behind, an attempt that goes on to APPLYING
\* has one commit throughout: cloned, built, pushed and described by a complete
\* set of documents; and if trivy passed, it is that commit's image that is clean.
AppliesWhatItCloned ==
    at = "verify" /\ pc = "applying" =>
        /\ cloned # 0 /\ workspace = cloned /\ local = cloned /\ registry = cloned
        /\ {doc.kind : doc \in manifests} = Kinds
        /\ checks["trivy_scan"] = "passed" => registry \notin Vulnerable

\* A retry deploys the branch as it is, never the commit an earlier attempt had.
RetriesAreFresh == at = "verify" => startHead <= cloned

\* The image is pushed before it is verified, a retry pushes over the tag that the
\* cluster already names, and a node pulls at any time: what it then runs need not
\* have been verified itself, but it is never older than every commit that was,
\* and nothing runs before an attempt of the job got past verification.
NothingOlderRuns == node # 0 => \E commit \in verified : commit <= node
=============================================================================
