------------------------------ MODULE MCIntake ------------------------------
(***************************************************************************)
(* Instances of Intake for TLC.  r1 and r2 carry identical contents, r3    *)
(* asks for another version of the same target, r4 for another target; bad *)
(* fails validation.                                                       *)
(***************************************************************************)
EXTENDS Intake, TLC

CONSTANTS r1, r2, r3, r4, bad, h1, h2, h3, t1, t2

MCHashOf ==
    [r \in Requests |->
        CASE r \in {r1, r2, bad} -> h1 [] r = r3 -> h2 [] r = r4 -> h3]

MCTargetOf == [h \in Hashes |-> IF h = h3 THEN t2 ELSE t1]

Sym == Permutations({r1, r2})
=============================================================================
