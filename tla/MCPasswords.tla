---------------------------- MODULE MCPasswords ----------------------------
(* Instances of Passwords for TLC: ids of one kind are interchangeable. *)
EXTENDS Passwords, TLC

Symmetry == Permutations(Threads) \cup Permutations(Passwords)
              \cup Permutations(Tokens) \cup Permutations(Resets)

=============================================================================
