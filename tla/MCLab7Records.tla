---------------------------- MODULE MCLab7Records ----------------------------
(* Two editors, or one, on a file of two records. *)
EXTENDS Lab7Records, TLC

Symmetry == Permutations(Editor) \cup Permutations(Value)
==============================================================================
