------------------------------ MODULE Rollout -------------------------------
(***************************************************************************)
(* The APPLYING and HEALTH_CHECKING stages of jobs that deploy to one       *)
(* cluster at the same time: internal/worker/apply.go and health.go, one    *)
(* action per call to the Kubernetes API, next to the controllers that      *)
(* start pods and fill endpoints (external).                                *)
(*                                                                         *)
(* Objects are named after their job, so jobs share nothing but their       *)
(* namespace; nothing is ever deleted.  Of the twelve documents the model   *)
(* keeps the three that decide whether there are pods and a service.        *)
(***************************************************************************)
EXTENDS Integers, Sequences, FiniteSets

CONSTANTS
    Jobs,           \* jobs that reach APPLYING
    Namespaces,
    NamespaceOf,    \* job -> target_namespace
    FirstService,   \* set of jobs -> the one whose service a list with Limit 1 returns
    Sound,          \* jobs whose image runs and becomes ready
    MaxAttempts,    \* bound: attempts of a job that reach APPLYING
    RolloutFaults   \* "api", "discovery", "pods", "crash"

ASSUME RolloutAssumption ==
    /\ NamespaceOf \in [Jobs -> Namespaces]
    /\ \A S \in SUBSET Jobs : S # {} => FirstService[S] \in S
    /\ Sound \subseteq Jobs
    /\ MaxAttempts \in Nat \ {0}
    /\ RolloutFaults \subseteq {"api", "discovery", "pods", "crash"}

VARIABLES
    namespaces, \* namespaces that exist
    objects,    \* job -> kinds of its objects in the cluster
    pods,       \* job -> "none", "starting" or "ready"
    endpoints,  \* jobs whose service has a ready address
    rpc,        \* job -> next call of the two stages
    doc,        \* job -> index of the next document
    skipped,    \* job -> kinds of the documents this attempt passed over
    service,    \* job -> the job whose service the health check looks at
    attempts

cluster == <<namespaces, objects, pods, endpoints>>
rvars == <<cluster, rpc, doc, skipped, service, attempts>>

\* ReadDir sorts by file name: deployment.yaml, namespace.yaml, service.yaml.
Manifests == <<"Deployment", "Namespace", "Service">>
ManifestKinds == {"Deployment", "Namespace", "Service"}

Neighbours(j) == {i \in Jobs : NamespaceOf[i] = NamespaceOf[j]}

RInit ==
    /\ namespaces \in SUBSET Namespaces
    /\ objects = [j \in Jobs |-> {}]
    /\ pods = [j \in Jobs |-> "none"]
    /\ endpoints = {}
    /\ rpc = [j \in Jobs |-> "idle"]
    /\ doc = [j \in Jobs |-> 1]
    /\ skipped = [j \in Jobs |-> {}]
    /\ service = [j \in Jobs |-> j]
    /\ attempts = [j \in Jobs |-> 0]

-----------------------------------------------------------------------------
(* apply.go *)

Call(j, label) ==
    /\ rpc' = [rpc EXCEPT ![j] = label]
    /\ UNCHANGED attempts

\* The stage returns an error; what it kept in its variables is gone.
Fail(j) ==
    /\ Call(j, "failed")
    /\ doc' = [doc EXCEPT ![j] = 1]
    /\ skipped' = [skipped EXCEPT ![j] = {}]
    /\ service' = [service EXCEPT ![j] = j]

ApiFails == "api" \in RolloutFaults

\* Variant: a failed attempt is repeated without end.
StartWithoutLimit(j) ==
    /\ rpc[j] \in {"idle", "failed"}
    /\ attempts' = [attempts EXCEPT ![j] = @ + 1]
    /\ rpc' = [rpc EXCEPT ![j] = "get"]
    /\ UNCHANGED <<cluster, doc, skipped, service>>

\* An attempt reaches APPLYING: the first, or a retry of a failed one.
StartApply(j) ==
    /\ rpc[j] \in {"idle", "failed"}
    /\ attempts[j] < MaxAttempts
    /\ attempts' = [attempts EXCEPT ![j] = @ + 1]
    /\ rpc' = [rpc EXCEPT ![j] = "get"]
    /\ UNCHANGED <<cluster, doc, skipped, service>>

\* Any error of the lookup leads to an attempt to create the namespace; only a
\* client that cannot be set up ends the stage here.
GetNamespace(j) ==
    /\ rpc[j] = "get"
    /\ \/ /\ NamespaceOf[j] \in namespaces
          /\ Call(j, "apply")
          /\ UNCHANGED <<doc, skipped, service>>
       \/ /\ NamespaceOf[j] \notin namespaces \/ ApiFails
          /\ Call(j, "create")
          /\ UNCHANGED <<doc, skipped, service>>
       \/ ApiFails /\ Fail(j)
    /\ UNCHANGED cluster

\* A failure, also "already exists", is only logged.
CreateNamespace(j) ==
    /\ rpc[j] = "create"
    /\ \/ namespaces' = namespaces \cup {NamespaceOf[j]}
       \/ ApiFails /\ UNCHANGED namespaces
    /\ Call(j, "apply")
    /\ UNCHANGED <<objects, pods, endpoints, doc, skipped, service>>

NextDocument(j) ==
    /\ doc' = [doc EXCEPT ![j] = @ + 1]
    /\ UNCHANGED <<rpc, service, attempts>>

\* The patch is applied; the Namespace document is not namespaced.
Patch(j, kind) ==
    /\ kind = "Namespace" \/ NamespaceOf[j] \in namespaces
    /\ objects' = [objects EXCEPT ![j] = @ \cup {kind}]
    /\ namespaces' = IF kind = "Namespace" THEN namespaces \cup {NamespaceOf[j]}
                     ELSE namespaces
    /\ UNCHANGED <<pods, endpoints>>

\* Variant: a patch that fails is only logged.
PatchErrorIgnored(j) ==
    /\ rpc[j] = "apply" /\ doc[j] <= Len(Manifests)
    /\ Patch(j, Manifests[doc[j]]) \/ (ApiFails /\ UNCHANGED cluster)
    /\ NextDocument(j)
    /\ UNCHANGED skipped

\* One document.  A file that cannot be read, a document that does not parse or
\* has no name, and a kind the REST mapper does not know are passed over with at
\* most a warning ("discovery"); the first failed patch, confirmed or not, ends
\* the stage and leaves the earlier documents in the cluster.
ApplyDocument(j) ==
    /\ rpc[j] = "apply" /\ doc[j] <= Len(Manifests)
    /\ LET kind == Manifests[doc[j]]
       IN \/ /\ Patch(j, kind)
             /\ NextDocument(j)
             /\ UNCHANGED skipped
          \/ /\ "discovery" \in RolloutFaults
             /\ skipped' = [skipped EXCEPT ![j] = @ \cup {kind}]
             /\ NextDocument(j)
             /\ UNCHANGED cluster
          \/ /\ kind # "Namespace" /\ NamespaceOf[j] \notin namespaces
             /\ Fail(j)
             /\ UNCHANGED cluster
          \/ /\ ApiFails
             /\ Patch(j, kind) \/ UNCHANGED cluster
             /\ Fail(j)

EndApply(j) ==
    /\ rpc[j] = "apply" /\ doc[j] > Len(Manifests)
    /\ Call(j, "pods")
    /\ UNCHANGED <<cluster, doc, skipped, service>>

-----------------------------------------------------------------------------
(* health.go *)

ListPods(j) == {i \in Neighbours(j) : pods[i] # "none"}

\* Variant: an empty list counts as ready.
AllReady(j) == \A i \in ListPods(j) : pods[i] = "ready"

PodsReady(j) ==
    /\ ListPods(j) # {}
    /\ \A i \in ListPods(j) : pods[i] = "ready"

\* Failed lists, and lists that are not all ready, are polled again.
PollPods(j) ==
    /\ rpc[j] = "pods"
    /\ PodsReady(j)
    /\ Call(j, "services")
    /\ UNCHANGED <<cluster, doc, skipped, service>>

\* Variant: the deadline is looked at only once there are pods.
DeadlineOnceListed(j) ==
    /\ rpc[j] = "pods"
    /\ ListPods(j) # {}
    /\ Fail(j)
    /\ UNCHANGED cluster

\* The two minutes, or the task's own time, are over.
PodsTimeout(j) ==
    /\ rpc[j] = "pods"
    /\ Fail(j)
    /\ UNCHANGED cluster

Services(j) == {i \in Neighbours(j) : "Service" \in objects[i]}

\* Limit 1: the health check goes on with the first service of the namespace.
ListServices(j) ==
    /\ rpc[j] = "services"
    /\ \/ /\ Services(j) # {}
          /\ service' = [service EXCEPT ![j] = FirstService[Services(j)]]
          /\ Call(j, "endpoints")
          /\ UNCHANGED <<doc, skipped>>
       \/ /\ Services(j) = {} \/ ApiFails
          /\ Fail(j)
    /\ UNCHANGED cluster

GetEndpoints(j) ==
    /\ rpc[j] = "endpoints"
    /\ \/ /\ service[j] \in endpoints
          /\ Call(j, "completed")
          /\ UNCHANGED <<doc, skipped, service>>
       \/ /\ service[j] \notin endpoints \/ ApiFails
          /\ Fail(j)
    /\ UNCHANGED cluster

\* The attempt is ended from outside between two calls: its worker dies, its
\* time is over, or its result is not recorded.
Abandon(j) ==
    /\ "crash" \in RolloutFaults
    /\ rpc[j] \notin {"idle", "failed"}
    /\ Fail(j)
    /\ UNCHANGED cluster

-----------------------------------------------------------------------------
(* The cluster's controllers *)

worker == <<rpc, doc, skipped, service, attempts>>

\* A Deployment's pod appears some time after it (in the cluster also not before
\* its service account, one of the documents left out).
CreatePod(j) ==
    /\ "Deployment" \in objects[j]
    /\ pods[j] = "none"
    /\ pods' = [pods EXCEPT ![j] = "starting"]
    /\ UNCHANGED <<namespaces, objects, endpoints, worker>>

PodBecomesReady(j) ==
    /\ j \in Sound
    /\ pods[j] = "starting"
    /\ pods' = [pods EXCEPT ![j] = "ready"]
    /\ UNCHANGED <<namespaces, objects, endpoints, worker>>

PodRestarts(j) ==
    /\ "pods" \in RolloutFaults
    /\ pods[j] = "ready"
    /\ pods' = [pods EXCEPT ![j] = "starting"]
    /\ UNCHANGED <<namespaces, objects, endpoints, worker>>

\* The endpoints controller follows pods and services with a delay.
SyncEndpoints(j) ==
    /\ endpoints' = IF "Service" \in objects[j] /\ pods[j] = "ready"
                    THEN endpoints \cup {j} ELSE endpoints \ {j}
    /\ endpoints' # endpoints
    /\ UNCHANGED <<namespaces, objects, pods, worker>>

Controllers(j) ==
    CreatePod(j) \/ PodBecomesReady(j) \/ PodRestarts(j) \/ SyncEndpoints(j)

Stage(j) ==
    \/ GetNamespace(j)
    \/ CreateNamespace(j)
    \/ ApplyDocument(j)
    \/ EndApply(j)
    \/ PollPods(j)
    \/ PodsTimeout(j)
    \/ ListServices(j)
    \/ GetEndpoints(j)

RNext == \E j \in Jobs : StartApply(j) \/ Stage(j) \/ Abandon(j) \/ Controllers(j)

RSpec == RInit /\ [][RNext]_rvars

\* An attempt runs on until it returns; the poll loop has a deadline.
RFairSpec == RSpec /\ \A j \in Jobs : WF_rvars(Stage(j))

-----------------------------------------------------------------------------
(* Properties *)

RTypeOK ==
    /\ namespaces \subseteq Namespaces
    /\ objects \in [Jobs -> SUBSET ManifestKinds]
    /\ pods \in [Jobs -> {"none", "starting", "ready"}]
    /\ endpoints \subseteq Jobs
    /\ rpc \in [Jobs -> {"idle", "get", "create", "apply", "pods", "services",
                         "endpoints", "completed", "failed"}]
    /\ doc \in [Jobs -> 1..(Len(Manifests) + 1)]
    /\ skipped \in [Jobs -> SUBSET ManifestKinds]
    /\ service \in [Jobs -> Jobs]
    /\ attempts \in [Jobs -> 0..MaxAttempts]

Checking == {"pods", "services", "endpoints", "completed"}

\* Once the health check runs, every document of the job is in the cluster
\* except those this attempt passed over without trying to patch them: a patch
\* that failed, or a namespace that could not be created, never goes unnoticed,
\* also over retries.
AppliedInFull ==
    \A j \in Jobs : rpc[j] \in Checking =>
        ManifestKinds \subseteq objects[j] \cup skipped[j]

\* The health check passes only on ready pods: the job's own or, as long as that
\* one does not exist, another job's of the namespace; and it succeeds only on a
\* service of the namespace that has an endpoint.  For a job alone in its
\* namespace this is what readiness means.
VerdictStep(j) ==
    /\ rpc[j] = "pods" /\ rpc'[j] = "services" =>
          \/ pods[j] = "ready"
          \/ pods[j] = "none" /\ \E i \in Neighbours(j) \ {j} : pods[i] = "ready"
    /\ rpc[j] # "completed" /\ rpc'[j] = "completed" =>
          endpoints \cap Neighbours(j) # {}

SoundVerdict == [][\A j \in Jobs : VerdictStep(j)]_rvars

\* Every attempt at rolling out ends, whatever the cluster does.
EveryRolloutEnds ==
    \A j \in Jobs :
        rpc[j] \notin {"idle", "failed"} ~> rpc[j] \in {"completed", "failed"}

\* "verifies deployment readiness" (NewHealthCheckStage): a job that completes
\* has had a pod created.
CompletedHasPods == \A j \in Jobs : rpc[j] = "completed" => pods[j] # "none"
=============================================================================
