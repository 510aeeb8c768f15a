----------------------------- MODULE MCModelPool -----------------------------
(***************************************************************************)
(* An instance of ModelPool for TLC: hotkeys and images are alike, so both *)
(* may be permuted.                                                        *)
(***************************************************************************)
EXTENDS ModelPool, TLC

Symmetry == Permutations(Hotkeys) \cup Permutations(Digests)
=============================================================================
