---------------------------- MODULE RolloutProofs ---------------------------
(***************************************************************************)
(* Types, complete application and what the verdict of the health check      *)
(* rests on, for every set of jobs and namespaces.                          *)
(***************************************************************************)
EXTENDS Rollout, TLAPS

Applying == {"idle", "failed", "get", "create", "apply"}

\* The documents before doc have been applied or skipped.
Progress ==
    \A j \in Jobs : rpc[j] \in Applying =>
        \A n \in 1..(doc[j] - 1) : Manifests[n] \in objects[j] \cup skipped[j]

LocalService ==
    \A j \in Jobs : rpc[j] = "endpoints" => service[j] \in Neighbours(j)

RInv == RTypeOK /\ Progress /\ AppliedInFull /\ LocalService

LEMMA ManifestFacts ==
    /\ Len(Manifests) = 3
    /\ \A n \in 1..3 : Manifests[n] \in ManifestKinds
    /\ ManifestKinds = {Manifests[1], Manifests[2], Manifests[3]}
BY DEF Manifests, ManifestKinds

\* FirstService picks one of the services listed.
LEMMA ListedService ==
    ASSUME NEW j \in Jobs, Services(j) # {}
    PROVE  FirstService[Services(j)] \in Jobs /\ FirstService[Services(j)] \in Neighbours(j)
<1>1. Services(j) \subseteq Jobs /\ Services(j) \subseteq Neighbours(j)
  BY DEF Services, Neighbours
<1>2. FirstService[Services(j)] \in Services(j)
  BY <1>1, RolloutAssumption
<1> QED  BY <1>1, <1>2

LEMMA RInitInv == RInit => RInv
<1> SUFFICES ASSUME RInit PROVE RInv
  OBVIOUS
<1>1. RTypeOK
  BY ManifestFacts, RolloutAssumption DEF RInit, RTypeOK
<1>2. Progress /\ AppliedInFull /\ LocalService
  BY DEF RInit, Progress, AppliedInFull, LocalService, Checking
<1> QED  BY <1>1, <1>2 DEF RInv

\* A step of one job that leaves the others alone: what has to be shown of it.
LEMMA OneJob ==
    ASSUME RInv, RTypeOK', NEW j \in Jobs,
           \A i \in Jobs \ {j} : /\ rpc'[i] = rpc[i] /\ doc'[i] = doc[i]
                                 /\ skipped'[i] = skipped[i] /\ service'[i] = service[i],
           \A i \in Jobs : objects[i] \subseteq objects'[i],
           rpc'[j] \in Applying =>
               \A n \in 1..(doc'[j] - 1) : Manifests[n] \in objects'[j] \cup skipped'[j],
           rpc'[j] \in Checking => ManifestKinds \subseteq objects'[j] \cup skipped'[j],
           rpc'[j] = "endpoints" => service'[j] \in Neighbours(j)
    PROVE  RInv'
<1>1. Progress'
  BY DEF RInv, Progress
<1>2. AppliedInFull'
  BY DEF RInv, AppliedInFull
<1>3. LocalService'
  BY DEF RInv, LocalService, Neighbours
<1> QED  BY <1>1, <1>2, <1>3 DEF RInv

\* A stage that returns an error starts from its first document when repeated.
LEMMA FailKeepsRInv ==
    ASSUME RInv, NEW j \in Jobs, Fail(j),
           namespaces' \subseteq Namespaces,
           objects' \in [Jobs -> SUBSET ManifestKinds],
           \A i \in Jobs : objects[i] \subseteq objects'[i],
           UNCHANGED <<pods, endpoints>>
    PROVE  RInv'
<1>1. RTypeOK
  BY DEF RInv
<1>2. /\ rpc' = [rpc EXCEPT ![j] = "failed"] /\ doc' = [doc EXCEPT ![j] = 1]
      /\ skipped' = [skipped EXCEPT ![j] = {}] /\ service' = [service EXCEPT ![j] = j]
      /\ attempts' = attempts
  BY DEF Fail, Call
<1>3. RTypeOK'
  BY <1>1, <1>2, ManifestFacts DEF RTypeOK
<1>4. rpc'[j] = "failed" /\ doc'[j] = 1
  BY <1>1, <1>2 DEF RTypeOK
<1>5. \A i \in Jobs \ {j} : /\ rpc'[i] = rpc[i] /\ doc'[i] = doc[i]
                             /\ skipped'[i] = skipped[i] /\ service'[i] = service[i]
  BY <1>1, <1>2 DEF RTypeOK
<1> QED  BY <1>3, <1>4, <1>5, OneJob DEF Checking

LEMMA RNextInv == RInv /\ [RNext]_rvars => RInv'
<1> SUFFICES ASSUME RInv, [RNext]_rvars PROVE RInv'
  OBVIOUS
<1> USE DEF Call, cluster, Applying
<1>0. RTypeOK
  BY DEF RInv
<1>1. ASSUME NEW j \in Jobs, StartApply(j) PROVE RInv'
  <2>1. RTypeOK'
    BY <1>0, <1>1, RolloutAssumption DEF StartApply, RTypeOK
  <2>2. rpc[j] \in Applying /\ rpc'[j] = "get"
        /\ UNCHANGED <<objects, doc, skipped, service>>
        /\ \A i \in Jobs \ {j} : rpc'[i] = rpc[i]
    BY <1>0, <1>1 DEF StartApply, RTypeOK
  <2> QED  BY <2>1, <2>2, OneJob DEF Checking, RInv, Progress
<1>2. ASSUME NEW j \in Jobs, Stage(j) PROVE RInv'
  <2>1. CASE GetNamespace(j) \/ CreateNamespace(j)
    <3>1. CASE /\ UNCHANGED <<doc, skipped, service, objects, pods, endpoints, attempts>>
               /\ rpc[j] \in Applying
               /\ \E label \in {"create", "apply"} : rpc' = [rpc EXCEPT ![j] = label]
      <4>1. namespaces' \subseteq Namespaces
        BY <1>0, <2>1, RolloutAssumption DEF GetNamespace, CreateNamespace, RTypeOK
      <4>2. RTypeOK'
        BY <1>0, <3>1, <4>1 DEF RTypeOK
      <4> QED  BY <1>0, <3>1, <4>2, OneJob DEF RTypeOK, Checking, RInv, Progress
    <3>2. CASE Fail(j) /\ UNCHANGED cluster
      BY <1>0, <3>2, FailKeepsRInv DEF RTypeOK
    <3> QED  BY <2>1, <3>1, <3>2 DEF GetNamespace, CreateNamespace
  <2>2. CASE ApplyDocument(j)
    <3> DEFINE kind == Manifests[doc[j]]
    <3>1. doc[j] \in 1..3 /\ kind \in ManifestKinds /\ rpc[j] = "apply"
      BY <1>0, <2>2, ManifestFacts DEF ApplyDocument, RTypeOK
    <3>3. (cluster' = cluster) \/ Patch(j, kind)
      BY <2>2 DEF ApplyDocument
    <3>4. /\ namespaces' \subseteq Namespaces
          /\ objects' \in [Jobs -> SUBSET ManifestKinds]
          /\ \A i \in Jobs : objects[i] \subseteq objects'[i]
          /\ UNCHANGED <<pods, endpoints>>
      <4>1. CASE cluster' = cluster
        BY <1>0, <4>1 DEF RTypeOK
      <4>2. CASE Patch(j, kind)
        <5>1. namespaces' \subseteq Namespaces /\ UNCHANGED <<pods, endpoints>>
          <6>1. NamespaceOf[j] \in Namespaces
            BY RolloutAssumption
          <6>2. namespaces' = namespaces \/ namespaces' = namespaces \cup {NamespaceOf[j]}
            BY <4>2 DEF Patch
          <6>3. UNCHANGED <<pods, endpoints>>
            BY <4>2 DEF Patch
          <6> QED  BY <1>0, <6>1, <6>2, <6>3 DEF RTypeOK
        <5>2. objects' = [objects EXCEPT ![j] = @ \cup {kind}]
              /\ objects \in [Jobs -> SUBSET ManifestKinds]
          BY <1>0, <4>2 DEF Patch, RTypeOK
        <5> HIDE DEF kind
        <5>3. objects[j] \cup {kind} \in SUBSET ManifestKinds
          BY <3>1, <5>2
        <5>4. objects' \in [Jobs -> SUBSET ManifestKinds]
          BY <5>2, <5>3
        <5>5. \A i \in Jobs : objects[i] \subseteq objects'[i]
          BY <5>2
        <5> QED  BY <5>1, <5>4, <5>5
      <4> QED  BY <3>3, <4>1, <4>2
    <3>5. CASE NextDocument(j)
      <4>1. UNCHANGED <<rpc, service, attempts>> /\ doc' = [doc EXCEPT ![j] = @ + 1]
        BY <3>5 DEF NextDocument
      <4>2. \/ skipped' = skipped /\ kind \in objects'[j]
            \/ skipped' = [skipped EXCEPT ![j] = @ \cup {kind}]
        <5>1. ~Fail(j)
          BY <1>0, <3>1, <4>1 DEF RTypeOK, Fail
        <5>2. (Patch(j, kind) /\ UNCHANGED skipped) \/ skipped' = [skipped EXCEPT ![j] = @ \cup {kind}]
          BY <2>2, <5>1 DEF ApplyDocument
        <5> QED  BY <1>0, <5>2 DEF Patch, RTypeOK
      <4>3. skipped' \in [Jobs -> SUBSET ManifestKinds]
            /\ skipped[j] \subseteq skipped'[j] /\ kind \in objects'[j] \cup skipped'[j]
            /\ \A i \in Jobs \ {j} : skipped'[i] = skipped[i]
        <5>1. skipped \in [Jobs -> SUBSET ManifestKinds]
          BY <1>0 DEF RTypeOK
        <5> HIDE DEF kind
        <5>2. CASE skipped' = skipped /\ kind \in objects'[j]
          BY <5>1, <5>2
        <5>3. CASE skipped' = [skipped EXCEPT ![j] = @ \cup {kind}]
          <6>1. skipped[j] \cup {kind} \in SUBSET ManifestKinds
            BY <3>1, <5>1
          <6> QED  BY <5>1, <5>3, <6>1
        <5> QED  BY <4>2, <5>2, <5>3
      <4>4. doc' \in [Jobs -> 1..4] /\ doc'[j] = doc[j] + 1
            /\ \A i \in Jobs \ {j} : doc'[i] = doc[i]
        BY <1>0, <3>1, <4>1, ManifestFacts DEF RTypeOK
      <4>5. RTypeOK'
        BY <1>0, <3>4, <4>1, <4>3, <4>4, ManifestFacts DEF RTypeOK
      <4>6. \A n \in 1..(doc'[j] - 1) : n = doc[j] \/ n \in 1..(doc[j] - 1)
        BY <3>1, <4>4
      <4>7. \A n \in 1..(doc'[j] - 1) : Manifests[n] \in objects'[j] \cup skipped'[j]
        BY <3>1, <3>4, <4>3, <4>6 DEF RInv, Progress
      <4>8. rpc'[j] \notin Checking /\ rpc'[j] # "endpoints"
        BY <3>1, <4>1 DEF Checking
      <4> QED  BY <3>4, <4>1, <4>3, <4>4, <4>5, <4>7, <4>8, OneJob
    <3>6. CASE Fail(j)
      BY <3>4, <3>6, FailKeepsRInv
    <3> QED  BY <2>2, <3>5, <3>6 DEF ApplyDocument
  <2>3. CASE EndApply(j)
    <3>1. rpc[j] = "apply" /\ doc[j] = 4 /\ rpc' = [rpc EXCEPT ![j] = "pods"]
          /\ UNCHANGED <<cluster, doc, skipped, service, attempts>>
      BY <1>0, <2>3, ManifestFacts DEF EndApply, RTypeOK
    <3>2. RTypeOK'
      BY <1>0, <3>1 DEF RTypeOK
    <3>3. \A n \in 1..3 : Manifests[n] \in objects[j] \cup skipped[j]
      BY <3>1 DEF RInv, Progress
    <3>4. ManifestKinds \subseteq objects[j] \cup skipped[j]
      BY <3>3, ManifestFacts
    <3> QED  BY <1>0, <3>1, <3>2, <3>4, OneJob DEF RTypeOK
  <2>4. CASE PollPods(j) \/ PodsTimeout(j) \/ GetEndpoints(j)
    <3>1. CASE Fail(j) /\ UNCHANGED cluster
      BY <1>0, <3>1, FailKeepsRInv DEF RTypeOK
    <3>2. CASE /\ UNCHANGED <<cluster, doc, skipped, service, attempts>>
               /\ rpc[j] \in Checking
               /\ \E label \in {"services", "completed"} : rpc' = [rpc EXCEPT ![j] = label]
      <4>1. RTypeOK'
        BY <1>0, <3>2 DEF RTypeOK
      <4> QED  BY <1>0, <3>2, <4>1, OneJob DEF RTypeOK, Checking, RInv, AppliedInFull
    <3> QED  BY <2>4, <3>1, <3>2 DEF PollPods, PodsTimeout, GetEndpoints, Checking
  <2>5. CASE ListServices(j)
    <3>1. rpc[j] = "services" /\ UNCHANGED cluster
      BY <2>5 DEF ListServices
    <3>2. CASE Fail(j)
      BY <1>0, <3>1, <3>2, FailKeepsRInv DEF RTypeOK
    <3>3. CASE /\ Services(j) # {} /\ rpc' = [rpc EXCEPT ![j] = "endpoints"]
               /\ service' = [service EXCEPT ![j] = FirstService[Services(j)]]
               /\ UNCHANGED <<doc, skipped, attempts>>
      <4>1. FirstService[Services(j)] \in Jobs /\ FirstService[Services(j)] \in Neighbours(j)
        BY <3>3, ListedService
      <4>2. RTypeOK'
        BY <1>0, <3>1, <3>3, <4>1 DEF RTypeOK
      <4>3. ManifestKinds \subseteq objects[j] \cup skipped[j]
        BY <3>1 DEF RInv, AppliedInFull, Checking
      <4> QED  BY <1>0, <3>1, <3>3, <4>1, <4>2, <4>3, OneJob DEF RTypeOK
    <3> QED  BY <2>5, <3>2, <3>3 DEF ListServices
  <2> QED  BY <1>2, <2>1, <2>2, <2>3, <2>4, <2>5 DEF Stage
<1>3. ASSUME NEW j \in Jobs, Abandon(j) PROVE RInv'
  BY <1>0, <1>3, FailKeepsRInv DEF Abandon, RTypeOK
<1>4. ASSUME NEW j \in Jobs, Controllers(j) PROVE RInv'
  <2>1. UNCHANGED <<namespaces, objects, rpc, doc, skipped, service, attempts>>
    BY <1>4 DEF Controllers, CreatePod, PodBecomesReady, PodRestarts, SyncEndpoints, worker
  <2>2. pods' \in [Jobs -> {"none", "starting", "ready"}] /\ endpoints' \subseteq Jobs
    BY <1>0, <1>4 DEF Controllers, CreatePod, PodBecomesReady, PodRestarts, SyncEndpoints, RTypeOK
  <2> QED  BY <2>1, <2>2
           DEF RInv, RTypeOK, Progress, AppliedInFull, LocalService, Neighbours
<1>5. CASE UNCHANGED rvars
  BY <1>5 DEF rvars, RInv, RTypeOK, Progress, AppliedInFull, LocalService, Neighbours
<1> QED  BY <1>1, <1>2, <1>3, <1>4, <1>5 DEF RNext

\* The variables stay in their ranges.
THEOREM RTypeCorrect == RSpec => []RTypeOK
<1>1. RInv => RTypeOK
  BY DEF RInv
<1> QED  BY <1>1, RInitInv, RNextInv, PTL DEF RSpec

\* The health check starts only when every document was applied or skipped,
\* whatever failed before and however often the stage was repeated.
THEOREM CompleteApplication == RSpec => []AppliedInFull
<1>1. RInv => AppliedInFull
  BY DEF RInv
<1> QED  BY <1>1, RInitInv, RNextInv, PTL DEF RSpec

\* The verdict of the health check rests on ready pods and on an endpoint of the
\* job's namespace.
THEOREM VerdictIsLocal == RSpec => SoundVerdict
<1>1. ASSUME RInv, [RNext]_rvars, NEW j \in Jobs
      PROVE  VerdictStep(j)
  <2> USE DEF Call, VerdictStep
  <2>1. rpc \in [Jobs -> {"idle", "get", "create", "apply", "pods", "services",
                          "endpoints", "completed", "failed"}]
        /\ pods \in [Jobs -> {"none", "starting", "ready"}]
    BY <1>1 DEF RInv, RTypeOK
  <2>2. CASE rpc'[j] \notin {"services", "completed"}
    BY <2>2
  <2>3. CASE rpc'[j] = rpc[j]
    BY <2>3
  <2>4. CASE PollPods(j)
    <3>1. rpc'[j] = "services"
      BY <2>1, <2>4 DEF PollPods
    <3>2. ListPods(j) # {} /\ \A i \in ListPods(j) : pods[i] = "ready"
      BY <2>4 DEF PollPods, PodsReady
    <3>3. CASE pods[j] # "none"
      <4>1. j \in ListPods(j)
        BY <3>3 DEF ListPods, Neighbours
      <4> QED  BY <3>1, <3>2, <4>1
    <3>4. CASE pods[j] = "none"
      <4>1. PICK i \in ListPods(j) : pods[i] = "ready"
        BY <3>2
      <4>2. i \in Neighbours(j) \ {j}
        BY <3>4, <4>1 DEF ListPods
      <4> QED  BY <3>1, <3>4, <4>1, <4>2
    <3> QED  BY <3>3, <3>4
  <2>5. CASE GetEndpoints(j)
    <3>1. service[j] \in Neighbours(j)
      BY <1>1, <2>5 DEF GetEndpoints, RInv, LocalService
    <3>2. service[j] \in endpoints \/ rpc'[j] = "failed"
      BY <2>1, <2>5 DEF GetEndpoints, Fail
    <3>3. rpc'[j] # "services"
      BY <2>1, <2>5 DEF GetEndpoints, Fail
    <3> QED  BY <3>1, <3>2, <3>3
  <2>6. ASSUME NEW i \in Jobs, StartApply(i) \/ Stage(i) \/ Abandon(i) \/ Controllers(i)
        PROVE  \/ rpc'[j] \notin {"services", "completed"} \/ rpc'[j] = rpc[j]
               \/ PollPods(j) \/ GetEndpoints(j)
    <3>1. CASE Controllers(i)
      BY <3>1 DEF Controllers, CreatePod, PodBecomesReady, PodRestarts, SyncEndpoints, worker
    <3>2. CASE Fail(i)
      BY <2>1, <3>2 DEF Fail
    <3>3. CASE StartApply(i) \/ Abandon(i)
      BY <2>1, <3>3 DEF StartApply, Abandon, Fail
    <3>4. CASE GetNamespace(i) \/ CreateNamespace(i) \/ ApplyDocument(i) \/ EndApply(i)
      BY <2>1, <3>2, <3>4 DEF GetNamespace, CreateNamespace, ApplyDocument, NextDocument, EndApply
    <3>5. CASE PodsTimeout(i) \/ ListServices(i)
      BY <2>1, <3>2, <3>5 DEF PodsTimeout, ListServices
    <3>6. CASE PollPods(i) \/ GetEndpoints(i)
      <4>1. CASE i = j
        BY <3>6, <4>1
      <4>2. CASE i # j
        BY <2>1, <3>6, <4>2 DEF PollPods, GetEndpoints, Fail
      <4> QED  BY <4>1, <4>2
    <3> QED  BY <2>6, <3>1, <3>3, <3>4, <3>5, <3>6 DEF Stage
  <2>7. CASE UNCHANGED rvars
    BY <2>7 DEF rvars
  <2> QED  BY <1>1, <2>2, <2>3, <2>4, <2>5, <2>6, <2>7 DEF RNext
<1>2. RInv /\ [RNext]_rvars => [\A j \in Jobs : VerdictStep(j)]_rvars
  BY <1>1
<1> QED  BY <1>2, RInitInv, RNextInv, PTL DEF RSpec, SoundVerdict
=============================================================================
