--------------------------- MODULE MCSecondFactor ---------------------------
(* Instances of SecondFactor for TLC.                                      *)
EXTENDS SecondFactor, TLC

Symmetry == Permutations(Threads) \cup Permutations(Secrets)
              \cup Permutations(Codes)

=============================================================================
