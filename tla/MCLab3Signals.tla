--------------------------- MODULE MCLab3Signals ---------------------------
(***************************************************************************)
(* Two children, so that a walk can be interrupted half-way and pop_list   *)
(* leaves somebody listed; two ticks to a show; one entry of statistics.   *)
(***************************************************************************)
EXTENDS Lab3Signals

MCRepeats == 2
============================================================================
