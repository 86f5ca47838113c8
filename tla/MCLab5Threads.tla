---------------------------- MODULE MCLab5Threads ----------------------------
(* The menu thread of lab5, a producer and a consumer, with up to three      *)
(* places: both workers can hold tokens at once, and '-' can leave passes    *)
(* beside places and messages.                                               *)
EXTENDS Lab5Threads
==============================================================================
