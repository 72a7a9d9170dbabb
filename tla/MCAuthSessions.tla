--------------------------- MODULE MCAuthSessions ---------------------------
(* Instances of AuthSessions for TLC: ids of one kind are interchangeable. *)
EXTENDS AuthSessionsRefinement, TLC

Symmetry == Permutations(Threads) \cup Permutations(Users)
              \cup Permutations(Sessions) \cup Permutations(Tokens)
              \cup Permutations(Resets)

=============================================================================
