--------------------------- MODULE MCLab6IndexSort ---------------------------
(* Main and two threads; two pieces of eight blocks with two records each. *)
EXTENDS Lab6IndexSort

\* Time marks in halves.  The two records of block 0 share their whole part,
\* so qsort may leave them in either order; in the wrong exact order they are
\* merged with block 1, where a third record has that whole part, and the
\* half of each later merge they are in is not ordered as merge compares it.
Marks == <<7, 6, 9, 6, 8, 3, 5, 2, 12, 1, 0, 13, 7, 2, 5, 10>>
MCTimeMarks == {[k \in Records |-> Marks[k + 1]]}
==============================================================================
