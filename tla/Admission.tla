------------------------------ MODULE Admission ------------------------------
(***************************************************************************)
(* What the deployment API promises its clients, with none of the          *)
(* machinery: a request is admitted in one atomic step, only while its      *)
(* target is free and no live job answers for the same request contents,   *)
(* and a client that is told 201 is told the name of a job that was        *)
(* admitted for exactly what it asked.  Intake implements this with two    *)
(* reads, a transaction over two tables and a push to a second store.      *)
(***************************************************************************)

CONSTANTS
    Requests,   \* each request is also the name of the job it may create
    Hashes,     \* digests of the deployment identity fields
    Targets,    \* (repository, branch, namespace) triples
    HashOf,     \* the digest of each request
    TargetOf,   \* the target of each digest
    NoJob

VARIABLES
    holder,     \* the job a target is being deployed by
    current,    \* the job that answers for a digest
    admitted,   \* jobs created so far
    expired,    \* jobs whose 24 hours of deduplication are over
    answer      \* the job named by the 201 a request received

avars == <<holder, current, admitted, expired, answer>>

ATarget(r) == TargetOf[HashOf[r]]

AdmissionInit ==
    /\ holder = [t \in Targets |-> NoJob]
    /\ current = [h \in Hashes |-> NoJob]
    /\ admitted = {}
    /\ expired = {}
    /\ answer = [r \in Requests |-> NoJob]

\* Job and deduplication key come into being together.
Admit(r) ==
    /\ r \notin admitted
    /\ holder[ATarget(r)] = NoJob
    /\ current[HashOf[r]] = NoJob
    /\ admitted' = admitted \cup {r}
    /\ holder' = [holder EXCEPT ![ATarget(r)] = r]
    /\ current' = [current EXCEPT ![HashOf[r]] = r]
    /\ UNCHANGED <<expired, answer>>

\* A 201 names the job the request created, or the one that answers for it.
Accept(r) ==
    /\ answer[r] = NoJob
    /\ \E j \in admitted :
          /\ j = r \/ j = current[HashOf[r]]
          /\ answer' = [answer EXCEPT ![r] = j]
    /\ UNCHANGED <<holder, current, admitted, expired>>

\* The worker finishes the deployment, or a retry takes the target again.
Release(t) ==
    /\ holder[t] # NoJob
    /\ holder' = [holder EXCEPT ![t] = NoJob]
    /\ UNCHANGED <<current, admitted, expired, answer>>

Reopen(j) ==
    /\ j \in admitted
    /\ holder[ATarget(j)] = NoJob
    /\ holder' = [holder EXCEPT ![ATarget(j)] = j]
    /\ UNCHANGED <<current, admitted, expired, answer>>

Expire(j) ==
    /\ j \in admitted \ expired
    /\ expired' = expired \cup {j}
    /\ UNCHANGED <<holder, current, admitted, answer>>

Forget ==
    /\ \E h \in Hashes : current[h] \in expired
    /\ current' = [h \in Hashes |->
                      IF current[h] \in expired THEN NoJob ELSE current[h]]
    /\ UNCHANGED <<holder, admitted, expired, answer>>

AdmissionNext ==
    \/ \E r \in Requests : Admit(r) \/ Accept(r) \/ Reopen(r) \/ Expire(r)
    \/ \E t \in Targets : Release(t)
    \/ Forget

AdmissionSpec == AdmissionInit /\ [][AdmissionNext]_avars
=============================================================================
