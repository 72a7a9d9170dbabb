---------------------------- MODULE MCUserCache ----------------------------
(* Instances of UserCache for TLC: reader slots are interchangeable.       *)
EXTENDS UserCache, TLC

Symmetry == Permutations(Readers)

=============================================================================
