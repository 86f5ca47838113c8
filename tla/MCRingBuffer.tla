---------------------------- MODULE MCRingBuffer -----------------------------
(* Ring of up to four places with two different messages. *)
EXTENDS RingBuffer, TLC

Symmetry == Permutations(Node)

MCGarbage == {0, 2}
==============================================================================
