----------------------------- MODULE RingBuffer ------------------------------
(***************************************************************************)
(* lab5/ring.c (lab7/part1/ring.c is the same code plus is_empty): a       *)
(* circular doubly-linked list of places in the heap.  `begin' is the      *)
(* place the next consumer reads, `tail' the one the next producer writes. *)
(* A node is an address; the live nodes are DOMAIN next, free() takes a    *)
(* node out of it, and a pointer outside it dangles.  The queue object     *)
(* itself is NULL exactly when begin is: append creates both together.     *)
(*                                                                         *)
(* Callers hold the mutex around every call, so each call is one step.     *)
(* Statements of a call that write the same field one after the other      *)
(* become EXCEPT updates in the order of the code, which is what makes     *)
(* rings of one and two nodes, where the pointers alias, come out right.   *)
(***************************************************************************)
EXTENDS Integers, FiniteSets, Sequences

CONSTANTS
    Node,          \* addresses calloc can return
    Message,       \* message contents
    Zeroed,        \* content of a place calloc has just cleared
    NULL,
    BUFFER_SIZE,   \* places main appends before the first command
    MaxPlaces,     \* bound on the places '+' can reach
    CounterMod,    \* size_t wraps here (2^64 in the program)
    Garbage        \* what malloc may leave in produced and consumed

ASSUME RingAssumption ==
    /\ MaxPlaces \in Nat /\ CounterMod \in Nat \ {0}
    /\ IsFiniteSet(Node) /\ Cardinality(Node) >= MaxPlaces
    /\ NULL \notin Node \cup Message
    /\ Zeroed \notin Message
    /\ BUFFER_SIZE \in 1..MaxPlaces
    /\ Garbage # {} /\ Garbage \subseteq 0..(CounterMod - 1)

VARIABLES
    begin, tail,          \* ring_buffer: pointers into the ring, NULL if none
    size_queue, produced, consumed,
    next, prev,           \* ring_node links; DOMAIN next: the live nodes
    message, flag_is_busy,
    boot,                 \* append calls main still makes at start-up
    ret                   \* result of the last call

links   == <<next, prev>>
content == <<message, flag_is_busy>>
vars    == <<begin, tail, size_queue, produced, consumed, links, content,
             boot, ret>>

Live == DOMAIN next

\* f with the value e at x, in its domain or not; f without x.
With(f, x, e)  == [y \in DOMAIN f \cup {x} |-> IF y = x THEN e ELSE f[y]]
Without(f, x)  == [y \in DOMAIN f \ {x} |-> f[y]]

Init ==
    /\ begin = NULL /\ tail = NULL
    /\ size_queue = 0 /\ produced = 0 /\ consumed = 0
    /\ next = <<>> /\ prev = <<>> /\ message = <<>> /\ flag_is_busy = <<>>
    /\ boot = BUFFER_SIZE
    /\ ret = NULL

------------------------------------------------------------------------------
(***************************************************************************)
(* append                                                                  *)
(***************************************************************************)

\* constructor_node: a cleared, free place at an address nobody uses.
ConstructorNode(n) ==
    /\ n \in Node \ Live
    /\ message' = With(message, n, Zeroed)
    /\ flag_is_busy' = With(flag_is_busy, n, FALSE)

\* append on a NULL queue: constructor_buffer leaves produced and consumed
\* uninitialised, and the first node is linked to itself.
AppendFirst(n) ==
    /\ begin = NULL
    /\ ConstructorNode(n)
    /\ produced' \in Garbage /\ consumed' \in Garbage
    /\ begin' = n /\ tail' = n
    /\ next' = With(next, n, n)
    /\ prev' = With(prev, n, n)
    /\ size_queue' = 1

\* Mutant: begin->prev is not turned to the new node.
LinkWithoutPrev(n) ==
    IF next[begin] = begin
    THEN /\ next' = With([next EXCEPT ![begin] = n], n, begin)
         /\ prev' = With([prev EXCEPT ![begin] = n], n, begin)
    ELSE /\ next' = With([next EXCEPT ![prev[begin]] = n], n, begin)
         /\ prev' = With(prev, n, prev[begin])

\* The new node goes between begin->prev and begin.
LinkBeforeBegin(n) ==
    IF next[begin] = begin
    THEN /\ next' = With([next EXCEPT ![begin] = n], n, begin)
         /\ prev' = With([prev EXCEPT ![begin] = n], n, begin)
    ELSE /\ next' = With([next EXCEPT ![prev[begin]] = n], n, begin)
         /\ prev' = With([prev EXCEPT ![begin] = n], n, prev[begin])

\* With flag_after, a node that landed just before tail becomes the tail,
\* and the begin as well if the queue is empty.
MoveCursors(n, flag_after) ==
    IF flag_after /\ next'[n] = tail
    THEN /\ tail' = n
         /\ begin' = IF tail = begin /\ ~flag_is_busy[begin] THEN n ELSE begin
    ELSE UNCHANGED <<begin, tail>>

AppendNode(n, flag_after) ==
    /\ begin # NULL
    /\ size_queue < MaxPlaces
    /\ size_queue' = size_queue + 1
    /\ ConstructorNode(n)
    /\ LinkBeforeBegin(n)
    /\ MoveCursors(n, flag_after)
    /\ UNCHANGED <<produced, consumed>>

AppendPlace(flag_after) ==
    /\ \E n \in Node : AppendFirst(n) \/ AppendNode(n, flag_after)
    /\ ret' = NULL

\* The loop of main before the first command.
BootAppend ==
    /\ boot > 0
    /\ boot' = boot - 1
    /\ AppendPlace(FALSE)

Append_ ==
    /\ boot = 0
    /\ AppendPlace(TRUE)
    /\ UNCHANGED boot

------------------------------------------------------------------------------
(***************************************************************************)
(* erase.  On a NULL queue it ends the process: its callers model that.    *)
(***************************************************************************)

Free(n) ==
    /\ message' = Without(message, n)
    /\ flag_is_busy' = Without(flag_is_busy, n)
    /\ ret' = flag_is_busy[n]

\* Take n out of the ring: n->next->prev = n->prev; n->prev->next = n->next.
Unlink(n) ==
    /\ prev' = Without([prev EXCEPT ![next[n]] = prev[n]], n)
    /\ next' = Without([next EXCEPT ![prev[n]] = next[n]], n)

\* The only place goes, and the queue object with it.
EraseLast ==
    /\ tail = begin /\ next[begin] = begin
    /\ Free(begin)
    /\ next' = <<>> /\ prev' = <<>>
    /\ begin' = NULL /\ tail' = NULL

\* Mutant: tail is left at the freed place.
EraseBeginKeepsTail ==
    /\ tail = begin /\ next[begin] # begin
    /\ Free(begin)
    /\ Unlink(begin)
    /\ begin' = next[begin] /\ UNCHANGED tail

\* Empty or full ring: the place at begin goes.
EraseBegin ==
    /\ tail = begin /\ next[begin] # begin
    /\ Free(begin)
    /\ Unlink(begin)
    /\ begin' = next[begin] /\ tail' = next[begin]

\* Two nodes, one of them busy: what is left is linked to itself.
EraseOfTwo ==
    /\ tail # begin /\ next[begin] = prev[begin]
    /\ LET left == prev[tail]
           gone == next[left]
       IN  /\ Free(gone)
           /\ next' = Without([next EXCEPT ![left] = left], gone)
           /\ prev' = Without([prev EXCEPT ![left] = left], gone)
           /\ tail' = left
    /\ UNCHANGED begin

EraseTail ==
    /\ tail # begin /\ next[begin] # prev[begin]
    /\ Free(tail)
    /\ Unlink(tail)
    /\ tail' = next[tail]
    /\ UNCHANGED begin

Erase ==
    /\ boot = 0 /\ begin # NULL
    /\ size_queue' = size_queue - 1
    /\ EraseLast \/ EraseBegin \/ EraseOfTwo \/ EraseTail
    /\ UNCHANGED <<produced, consumed, boot>>

------------------------------------------------------------------------------
(***************************************************************************)
(* add_message, extract_message                                            *)
(***************************************************************************)

AddMessage(m) ==
    /\ boot = 0 /\ begin # NULL
    /\ ~flag_is_busy[tail]
    /\ message' = [message EXCEPT ![tail] = m]
    /\ flag_is_busy' = [flag_is_busy EXCEPT ![tail] = TRUE]
    /\ tail' = next[tail]
    /\ produced' = (produced + 1) % CounterMod
    /\ ret' = NULL
    /\ UNCHANGED <<begin, size_queue, consumed, links, boot>>

\* Early returns: no queue, or "No free places."
AddMessageRefused ==
    /\ boot = 0
    /\ begin # NULL => flag_is_busy[tail]
    /\ ret' = NULL
    /\ UNCHANGED <<begin, tail, size_queue, produced, consumed, links,
                   content, boot>>

\* Mutant: begin is not moved on.
ExtractWithoutAdvance ==
    /\ boot = 0 /\ begin # NULL
    /\ flag_is_busy[begin]
    /\ ret' = message[begin]
    /\ flag_is_busy' = [flag_is_busy EXCEPT ![begin] = FALSE]
    /\ consumed' = (consumed + 1) % CounterMod
    /\ UNCHANGED <<begin, tail, size_queue, produced, links, message, boot>>

ExtractMessage ==
    /\ boot = 0 /\ begin # NULL
    /\ flag_is_busy[begin]
    /\ ret' = message[begin]
    /\ flag_is_busy' = [flag_is_busy EXCEPT ![begin] = FALSE]
    /\ begin' = next[begin]
    /\ consumed' = (consumed + 1) % CounterMod
    /\ UNCHANGED <<tail, size_queue, produced, links, message, boot>>

\* Mutant: a refused call is counted.
ExtractRefusedCounts ==
    /\ boot = 0
    /\ begin # NULL => ~flag_is_busy[begin]
    /\ ret' = NULL
    /\ consumed' = (consumed + 1) % CounterMod
    /\ UNCHANGED <<begin, tail, size_queue, produced, links, content, boot>>

\* Early returns of NULL: no queue, or the place at begin holds no message.
ExtractMessageRefused ==
    /\ boot = 0
    /\ begin # NULL => ~flag_is_busy[begin]
    /\ ret' = NULL
    /\ UNCHANGED <<begin, tail, size_queue, produced, consumed, links,
                   content, boot>>

Next ==
    \/ BootAppend
    \/ Append_
    \/ Erase
    \/ \E m \in Message : AddMessage(m)
    \/ AddMessageRefused
    \/ ExtractMessage
    \/ ExtractMessageRefused

Spec == Init /\ [][Next]_vars

------------------------------------------------------------------------------
(***************************************************************************)
(* Correctness                                                             *)
(***************************************************************************)

\* The type invariant: the fields ring.h declares.
TypeOK ==
    /\ Live \subseteq Node
    /\ next \in [Live -> Node] /\ prev \in [Live -> Node]
    /\ message \in [Live -> Message \cup {Zeroed}]
    /\ flag_is_busy \in [Live -> BOOLEAN]
    /\ begin \in Live \cup {NULL} /\ tail \in Live \cup {NULL}
    /\ size_queue \in 0..MaxPlaces /\ boot \in 0..BUFFER_SIZE
    /\ produced \in 0..(CounterMod - 1) /\ consumed \in 0..(CounterMod - 1)
    /\ ret \in Message \cup BOOLEAN \cup {NULL}

\* The i-th place from begin, following next.
Nth[i \in 0..MaxPlaces] == IF i = 0 THEN begin ELSE next[Nth[i - 1]]

Busy == {n \in Live : flag_is_busy[n]}

\* The stored messages in the order consumers will read them.
Contents ==
    [i \in 1..Cardinality(Busy) |-> message[Nth[i - 1]]]

\* ring.c keeps one closed ring: every live place is reached from begin, the
\* two directions agree, no link dangles, and size_queue counts the places,
\* through every splice of append and erase, rings of one and two included.
ClosedRing ==
    /\ begin = NULL <=> Live = {}
    /\ tail = NULL <=> begin = NULL
    /\ size_queue = Cardinality(Live)
    /\ \A n \in Live : prev[next[n]] = n /\ next[prev[n]] = n
    /\ Live = {Nth[i] : i \in 0..(size_queue - 1)}

\* The busy places are a run that starts at begin and ends just before tail,
\* so that "is tail busy" means full and "is begin free" means empty.  This
\* is what the tail correction of append and the two cases of erase are for.
BusyRun ==
    begin # NULL =>
        /\ Busy = {Nth[i] : i \in 0..(Cardinality(Busy) - 1)}
        /\ tail = Nth[Cardinality(Busy)]

\* Both, without which begin and tail say nothing about the messages.
RingShape == ClosedRing /\ BusyRun

\* The pointer structure behaves as a bounded first-in first-out queue:
\* messages come out of extract_message in the order add_message put them
\* in, append adds a free place, and erase takes a free place or, when there
\* is none, the place of the oldest message.
Fifo == INSTANCE BoundedFifo WITH places <- size_queue, msgs <- Contents
ImplementsFifo == Fifo!Spec

\* The totals the workers print: as long as the queue object lives, produced
\* minus consumed moves with the number of stored messages, except that a
\* message erase destroys (it returns TRUE) is never counted as consumed.
TotalsTrackContents ==
    [][begin # NULL /\ begin' # NULL =>
         LET erased == IF size_queue' < size_queue /\ ret' = TRUE THEN 1 ELSE 0
         IN  (produced' - produced - (consumed' - consumed)) % CounterMod
             = (Len(Contents') + erased - Len(Contents)) % CounterMod]_vars

==============================================================================
