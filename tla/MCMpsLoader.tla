---------------------------- MODULE MCMpsLoader ----------------------------
(* Workpieces are alike, and so are caps: the names do not matter. *)
EXTENDS MpsLoader, TLC

Symmetry == Permutations(Wp) \cup Permutations(Caps)

=============================================================================
