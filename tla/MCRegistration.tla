--------------------------- MODULE MCRegistration ---------------------------
(* Instances of Registration for TLC: ids of one kind are interchangeable. *)
EXTENDS Registration, TLC

Symmetry == Permutations(Threads) \cup Permutations(Emails)
              \cup Permutations(Users) \cup Permutations(Codes)

=============================================================================
