---------------------------- MODULE MCLab7Threads ----------------------------
(* The menu thread of lab7/part1 with up to two threads of each kind. *)
EXTENDS Lab7Threads, TLC

Symmetry == Permutations(Producers) \cup Permutations(Consumers)
==============================================================================
