---------------------------- MODULE MCDeployment ----------------------------
(***************************************************************************)
(* Instances of Deployment for TLC.  r1 and r2 are two versions of one      *)
(* target, r3 deploys to another one.                                      *)
(***************************************************************************)
EXTENDS Deployment, TLC

CONSTANTS r1, r2, r3, h1, h2, h3, t1, t2

MCHashOf == [r \in Requests |-> CASE r = r1 -> h1 [] r = r2 -> h2 [] r = r3 -> h3]
MCTargetOf == [h \in Hashes |-> IF h = h3 THEN t2 ELSE t1]
=============================================================================
