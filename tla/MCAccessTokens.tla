--------------------------- MODULE MCAccessTokens ---------------------------
(* Instances of AccessTokens for TLC.  Symmetry is for the safety runs.    *)
EXTENDS AccessTokens, TLC

Symmetry == Permutations(Requests) \cup Permutations(Jtis)

=============================================================================
