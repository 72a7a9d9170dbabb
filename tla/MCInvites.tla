------------------------------ MODULE MCInvites ------------------------------
(***************************************************************************)
(* Invites for TLC: tokens and addresses are random or any, and threads    *)
(* are all alike.                                                          *)
(***************************************************************************)
EXTENDS Invites

Symmetry == Permutations(Threads) \cup Permutations(Emails) \cup Permutations(Tokens)

=============================================================================
