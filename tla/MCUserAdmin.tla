----------------------------- MODULE MCUserAdmin -----------------------------
(***************************************************************************)
(* UserAdmin for TLC: no action tells the threads apart, or the users.     *)
(***************************************************************************)
EXTENDS UserAdmin, TLC

Symmetry == Permutations(Users) \cup Permutations(Threads)

=============================================================================
