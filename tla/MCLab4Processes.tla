--------------------------- MODULE MCLab4Processes ---------------------------
(* Producers and consumers over a ring of two places. *)
EXTENDS Lab4Processes, TLC

\* Children of a kind are interchangeable (safety runs only).
Symmetry == Permutations(Producers) \cup Permutations(Consumers)
==============================================================================
