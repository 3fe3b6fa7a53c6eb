----------------------- MODULE MCQuarantineLifecycle ------------------------
(***************************************************************************)
(* A small instance of QuarantineLifecycle: two files with the same digest *)
(* that were quarantined from the same path, one of them protected.        *)
(***************************************************************************)
EXTENDS QuarantineLifecycle, TLC

CONSTANTS i1, i2, w1, w2, s, q1, q2, z

MCSrc == [i \in Item |-> s]
MCQar == [i \in Item |-> IF i = i1 THEN q1 ELSE q2]
MCSha == [i \in Item |-> 1] @@ (z :> 2)

Symmetry == Permutations(Worker)
=============================================================================
