----------------------------- MODULE BoundedFifo -----------------------------
(***************************************************************************)
(* The promise of ring.c (lab5, lab7/part1): a bounded first-in first-out  *)
(* queue of messages whose number of places an operator changes while it   *)
(* is in use.  The pointer structure is gone: `places' is the number of    *)
(* nodes of the ring (0: there is no queue object at all) and `msgs' the   *)
(* stored messages, oldest first.  RingBuffer is shown to implement this   *)
(* module; Lab5Threads and Lab7Threads use its operators as their queue.   *)
(***************************************************************************)
EXTENDS Naturals, Sequences

CONSTANTS
    Message,    \* the messages a producer may generate
    MaxPlaces,  \* bound on the number of places (the program has none)
    NULL        \* what an operation without a result returns

VARIABLES
    places,     \* number of places, free and busy
    msgs,       \* the stored messages, oldest first
    ret         \* what the last operation returned

fifoVars == <<places, msgs, ret>>

(***************************************************************************)
(* The queue operations as functions of the queue [places, msgs], for the  *)
(* modules that hold such a queue.                                         *)
(***************************************************************************)
Full(n, s) == Len(s) = n

\* Mutant: a full queue gives up a place and keeps every message.
ErasedMsgsKept(n, s) == s

\* The messages left when one place is erased: a full queue has only busy
\* places to give up and loses its oldest message.
ErasedMsgs(n, s) == IF Full(n, s) THEN Tail(s) ELSE s

\* add_message: a full (or absent) queue refuses the message.
AddedMsgs(n, s, m) == IF Full(n, s) THEN s ELSE Append(s, m)

\* extract_message: an empty (or absent) queue has nothing to give.
ExtractedMsgs(s) == IF s = <<>> THEN s ELSE Tail(s)
ExtractedRet(s)  == IF s = <<>> THEN NULL ELSE Head(s)

------------------------------------------------------------------------------

Init ==
    /\ places = 0
    /\ msgs = <<>>
    /\ ret = NULL

AppendPlace ==
    /\ places < MaxPlaces
    /\ places' = places + 1
    /\ ret' = NULL
    /\ UNCHANGED msgs

ErasePlace ==
    /\ places > 0
    /\ places' = places - 1
    /\ msgs' = ErasedMsgs(places, msgs)
    /\ ret' = Full(places, msgs)

AddMessage(m) ==
    /\ msgs' = AddedMsgs(places, msgs, m)
    /\ ret' = NULL
    /\ UNCHANGED places

ExtractMessage ==
    /\ msgs' = ExtractedMsgs(msgs)
    /\ ret' = ExtractedRet(msgs)
    /\ UNCHANGED places

Next ==
    \/ AppendPlace
    \/ ErasePlace
    \/ \E m \in Message : AddMessage(m)
    \/ ExtractMessage

Spec == Init /\ [][Next]_fifoVars

==============================================================================
