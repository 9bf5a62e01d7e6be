----------------------------- MODULE MCRollout ------------------------------
(***************************************************************************)
(* Instances of Rollout for TLC: jobs are numbers, and the service of the   *)
(* smallest one comes first in a list.                                      *)
(***************************************************************************)
EXTENDS Rollout

MCShared == [j \in Jobs |-> 1]
MCFirst ==
    [S \in SUBSET Jobs \ {{}} |-> CHOOSE j \in S : \A i \in S : j <= i]
=============================================================================
