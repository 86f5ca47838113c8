---------------------------- MODULE Lab6IndexSort ----------------------------
(***************************************************************************)
(* lab6/index_sort.c: main and `threads' more threads sort a file of index *)
(* records, one mapped piece after the other.  A piece is cut into blocks. *)
(* First every thread sorts the block of its own index and then blocks it  *)
(* claims in state_map; then, between barriers, main halves the number of  *)
(* blocks and doubles their size, and the threads claim and merge, until   *)
(* one block is left, whose halves main merges.                            *)
(*                                                                         *)
(* A record is its recno, its place in the file at the start; time_mark    *)
(* gives the key, counted in fractions of UNIT, since qsort's compare sees *)
(* the whole part only and merge sees all of it.  Sorting or merging a     *)
(* block is one step at its end.  Two threads in one block at a time are a *)
(* data race: the piece is `spoilt', and `part' no longer says what it     *)
(* holds.                                                                  *)
(***************************************************************************)
EXTENDS Integers, Sequences

CONSTANTS
    threads,       \* threads besides main
    BLOCKS,        \* save_block: blocks of a piece at its start
    CNT,           \* save_cnt: records of such a block
    repeats,       \* pieces of the file
    UNIT,          \* fractions in a whole time mark
    TimeMarks,     \* the keys a piece may have: functions on the records
    NULL

\* Worker 0 is main.  A worker's number is its initial_index.
Workers == 0..threads
Records == 0..(BLOCKS * CNT - 1)

\* What the program needs of its arguments and does not check.
ASSUME IndexSortAssumption ==
    /\ threads \in Nat /\ repeats \in Nat
    /\ BLOCKS \in Nat \ {0, 1}
    \* A power of two: only 1 divides it and is odd.
    /\ \A b, c \in 1..BLOCKS : b * c = BLOCKS => b = 1 \/ b % 2 = 0
    /\ threads + 1 <= BLOCKS
    /\ CNT \in Nat \ {0} /\ UNIT \in Nat \ {0}
    /\ TimeMarks \subseteq [Records -> Nat]
    /\ NULL \notin Workers

VARIABLES
    part, time_mark,      \* current_memsize_block: records by place; their keys
    blocks, cnt_records, state_map,
    mutex,                \* its owner or NULL
    arrived,              \* workers waiting at the barrier
    pc, stage,            \* where each worker is; "sort" or "merge"
    i, current_index,     \* loop variable; block being worked on
    round,                \* pieces each worker has done
    spoilt                \* two threads have shared a block of the piece

shared == <<part, time_mark, blocks, cnt_records, state_map>>
vars   == <<shared, mutex, arrived, pc, stage, i, current_index, round,
            spoilt>>

Init ==
    /\ part = [k \in Records |-> k] /\ time_mark \in TimeMarks
    /\ blocks = BLOCKS /\ cnt_records = CNT /\ state_map = <<>>
    /\ mutex = NULL /\ arrived = {}
    /\ pc = [w \in Workers |-> "next"] /\ stage = [w \in Workers |-> "sort"]
    /\ i = [w \in Workers |-> 0] /\ current_index = [w \in Workers |-> w]
    /\ round = [w \in Workers |-> 0]
    /\ spoilt = FALSE

Goto(w, from, to) == pc[w] = from /\ pc' = [pc EXCEPT ![w] = to]

------------------------------------------------------------------------------
(***************************************************************************)
(* The barrier: whoever comes last lets all go on from where they wait.    *)
(***************************************************************************)

\* The four calls of pthread_barrier_wait.
Waits == {"wait_start", "wait_phase", "wait_halved", "wait_done"}

After(w) ==
    CASE pc[w] = "wait_start"  -> "work"
      [] pc[w] = "wait_phase"  -> IF w = 0 THEN "halve" ELSE "wait_halved"
      [] pc[w] = "wait_halved" -> "test"
      [] pc[w] = "wait_done"   -> IF w = 0 THEN "finish" ELSE "next"

Arrive(w) ==
    /\ pc[w] \in Waits /\ w \notin arrived
    /\ arrived \cup {w} # Workers
    /\ arrived' = arrived \cup {w}
    /\ UNCHANGED <<shared, mutex, pc, stage, i, current_index, round, spoilt>>

\* Behind the start comes the worker's own block, and i is in front of the
\* blocks to be claimed; behind the phase, current_index is set back.
ArriveLast(w) ==
    /\ pc[w] \in Waits /\ w \notin arrived
    /\ arrived \cup {w} = Workers
    /\ arrived' = {}
    /\ pc' = [v \in Workers |-> After(v)]
    /\ stage' = [v \in Workers |->
                   IF pc[v] = "wait_start" THEN "sort" ELSE stage[v]]
    /\ i' = [v \in Workers |-> IF pc[v] = "wait_start" THEN threads ELSE i[v]]
    /\ current_index' = [v \in Workers |->
                   IF pc[v] = "wait_phase" THEN v ELSE current_index[v]]
    /\ round' = [v \in Workers |->
                   IF pc[v] = "wait_done" /\ v # 0 THEN round[v] + 1
                                                   ELSE round[v]]
    /\ UNCHANGED <<shared, mutex, spoilt>>

------------------------------------------------------------------------------
(***************************************************************************)
(* Pieces                                                                  *)
(***************************************************************************)

\* initial_map, mmap_file.
StartPiece ==
    /\ Goto(0, "next", "wait_start")
    /\ round[0] < repeats
    /\ state_map' = [b \in 0..(BLOCKS - 1) |-> FALSE]
    /\ part' = [k \in Records |-> k] /\ time_mark' \in TimeMarks
    /\ current_index' = [current_index EXCEPT ![0] = 0]
    /\ spoilt' = FALSE
    /\ UNCHANGED <<blocks, cnt_records, mutex, arrived, stage, i, round>>

\* The loop of pthread_func.
StartRound(w) ==
    /\ w # 0 /\ round[w] < repeats
    /\ Goto(w, "next", "wait_start")
    /\ UNCHANGED <<shared, mutex, arrived, stage, i, current_index, round,
                   spoilt>>

End(w) ==
    /\ round[w] = repeats
    /\ Goto(w, "next", "end")
    /\ UNCHANGED <<shared, mutex, arrived, stage, i, current_index, round,
                   spoilt>>

------------------------------------------------------------------------------
(***************************************************************************)
(* qsort and merge                                                         *)
(***************************************************************************)

Segment(b) == (cnt_records * b)..(cnt_records * (b + 1) - 1)

\* compare: the time mark converted to int.  Marks are not negative and their
\* whole parts fit into an int, where the conversion is defined, rounds down
\* and leaves differences that fit as well.
Whole(r) == time_mark[r] \div UNIT

\* qsort leaves the records compare cannot tell apart in any order.
Qsort(S) ==
    {f \in [S -> {part[k] : k \in S}] :
        /\ \A k, l \in S : k # l => f[k] # f[l]
        /\ \A k \in S : k + 1 \in S => Whole(f[k]) <= Whole(f[k + 1])}

\* merge(buffer + first, n): rest[<<a, b>>] is what comes out when a records
\* of the left half and b of the right half are gone.
Merge(first, n) ==
    LET left(a)  == part[first + a]
        right(b) == part[first + n + b]
        rest[p \in (0..n) \X (0..n)] ==
            LET a == p[1]
                b == p[2]
            IN  IF a = n /\ b = n THEN <<>>
                ELSE IF \/ b = n
                        \/ a < n /\ time_mark[left(a)] <= time_mark[right(b)]
                     THEN <<left(a)>> \o rest[<<a + 1, b>>]
                     ELSE <<right(b)>> \o rest[<<a, b + 1>>]
        merged == rest[<<0, 0>>]
    IN  [k \in first..(first + 2 * n - 1) |-> merged[k - first + 1]]

\* Other workers in the block of w.
Company(w) ==
    {v \in Workers \ {w} :
        pc[v] = "work" /\ current_index[v] = current_index[w]}

\* The end of the work on a block, and the ++i before the mutex is locked.
Work(w) ==
    LET S       == Segment(current_index[w])
        results == IF stage[w] = "sort" THEN Qsort(S)
                   ELSE {Merge(cnt_records * current_index[w],
                               cnt_records \div 2)}
    IN  /\ Goto(w, "work", "lock")
        /\ spoilt' = (spoilt \/ Company(w) # {})
        /\ IF spoilt' THEN UNCHANGED part
           ELSE \E f \in results :
                  part' = [k \in Records |-> IF k \in S THEN f[k] ELSE part[k]]
        /\ i' = [i EXCEPT ![w] = @ + 1]
        /\ UNCHANGED <<time_mark, blocks, cnt_records, state_map, mutex,
                       arrived, stage, current_index, round>>

------------------------------------------------------------------------------
(***************************************************************************)
(* Claiming blocks, under the mutex                                        *)
(***************************************************************************)

Lock(w) ==
    /\ Goto(w, "lock", "scan")
    /\ mutex = NULL /\ mutex' = w
    /\ UNCHANGED <<shared, arrived, stage, i, current_index, round, spoilt>>

Skip(w) ==
    /\ pc[w] = "scan" /\ i[w] < blocks
    /\ state_map[i[w]]
    /\ i' = [i EXCEPT ![w] = @ + 1]
    /\ UNCHANGED <<shared, mutex, arrived, pc, stage, current_index, round,
                   spoilt>>

\* Mutant: the block is not marked.
ClaimUnmarked(w) ==
    /\ Goto(w, "scan", "work") /\ i[w] < blocks
    /\ ~state_map[i[w]]
    /\ current_index' = [current_index EXCEPT ![w] = i[w]]
    /\ mutex' = NULL
    /\ UNCHANGED <<shared, arrived, stage, i, round, spoilt>>

Claim(w) ==
    /\ Goto(w, "scan", "work") /\ i[w] < blocks
    /\ ~state_map[i[w]]
    /\ state_map' = [state_map EXCEPT ![i[w]] = TRUE]
    /\ current_index' = [current_index EXCEPT ![w] = i[w]]
    /\ mutex' = NULL
    /\ UNCHANGED <<part, time_mark, blocks, cnt_records, arrived, stage, i,
                   round, spoilt>>

\* The loop is over; main goes on to set the map back.
ScanEnd(w) ==
    /\ Goto(w, "scan", IF w = 0 /\ stage[w] = "sort" THEN "reset"
                                                     ELSE "wait_phase")
    /\ i[w] >= blocks
    /\ i' = [i EXCEPT ![w] = 0]
    /\ mutex' = NULL
    /\ UNCHANGED <<shared, arrived, stage, current_index, round, spoilt>>

\* Mutant: main does not wait for the others before it halves.
ResetThenHalve ==
    /\ pc[0] = "reset"
    /\ state_map' = [state_map EXCEPT ![i[0]] = FALSE]
    /\ IF i[0] + 1 < blocks
       THEN i' = [i EXCEPT ![0] = @ + 1] /\ UNCHANGED pc
       ELSE i' = [i EXCEPT ![0] = 0] /\ pc' = [pc EXCEPT ![0] = "halve"]
    /\ UNCHANGED <<part, time_mark, blocks, cnt_records, mutex, arrived, stage,
                   current_index, round, spoilt>>

\* main's loop at the end of memsize_sort, without mutex or barrier.
Reset ==
    /\ pc[0] = "reset"
    /\ state_map' = [state_map EXCEPT ![i[0]] = FALSE]
    /\ IF i[0] + 1 < blocks
       THEN i' = [i EXCEPT ![0] = @ + 1] /\ UNCHANGED pc
       ELSE i' = [i EXCEPT ![0] = 0] /\ pc' = [pc EXCEPT ![0] = "wait_phase"]
    /\ UNCHANGED <<part, time_mark, blocks, cnt_records, mutex, arrived, stage,
                   current_index, round, spoilt>>

------------------------------------------------------------------------------
(***************************************************************************)
(* memsize_merge                                                           *)
(***************************************************************************)

\* Mutant: state_map is made smaller and not cleared.
HalveKeepsClaims ==
    /\ Goto(0, "halve", "wait_halved")
    /\ blocks' = blocks \div 2
    /\ cnt_records' = cnt_records * 2
    /\ state_map' = [b \in 0..(blocks' - 1) |-> state_map[b]]
    /\ UNCHANGED <<part, time_mark, mutex, arrived, stage, i, current_index,
                   round, spoilt>>

\* Mutant: fewer blocks of the same size.
HalveKeepsSize ==
    /\ Goto(0, "halve", "wait_halved")
    /\ blocks' = blocks \div 2
    /\ state_map' = [b \in 0..(blocks' - 1) |-> FALSE]
    /\ UNCHANGED <<part, time_mark, cnt_records, mutex, arrived, stage, i,
                   current_index, round, spoilt>>

\* Mutant: the blocks are not halved.
HalveNothing ==
    /\ Goto(0, "halve", "wait_halved")
    /\ state_map' = [b \in 0..(blocks - 1) |-> FALSE]
    /\ UNCHANGED <<part, time_mark, blocks, cnt_records, mutex, arrived,
                   stage, i, current_index, round, spoilt>>

\* blocks /= 2, cnt_records *= 2, and a cleared map of the new size.
Halve ==
    /\ Goto(0, "halve", "wait_halved")
    /\ blocks' = blocks \div 2
    /\ cnt_records' = cnt_records * 2
    /\ state_map' = [b \in 0..(blocks' - 1) |-> FALSE]
    /\ UNCHANGED <<part, time_mark, mutex, arrived, stage, i, current_index,
                   round, spoilt>>

Test(w) ==
    /\ Goto(w, "test", IF blocks = 1 THEN "wait_done" ELSE "lock")
    /\ stage' = [stage EXCEPT ![w] = "merge"]
    /\ UNCHANGED <<shared, mutex, arrived, i, current_index, round, spoilt>>

\* Back in main: the last merge, munmap, and the saved sizes.
Finish ==
    /\ Goto(0, "finish", "next")
    /\ part' = Merge(0, cnt_records \div 2)
    /\ blocks' = BLOCKS /\ cnt_records' = CNT
    /\ round' = [round EXCEPT ![0] = @ + 1]
    /\ UNCHANGED <<time_mark, state_map, mutex, arrived, stage, i,
                   current_index, spoilt>>

Worker(w) ==
    \/ Arrive(w) \/ ArriveLast(w) \/ StartRound(w) \/ End(w)
    \/ Work(w) \/ Lock(w) \/ Skip(w) \/ Claim(w) \/ ScanEnd(w) \/ Test(w)

Main == StartPiece \/ Reset \/ Halve \/ Finish

\* main has joined the threads.
Ended == (\A w \in Workers : pc[w] = "end") /\ UNCHANGED vars

Next ==
    \/ Main
    \/ \E w \in Workers : Worker(w)
    \/ Ended

Spec == Init /\ [][Next]_vars

\* Every thread runs.
FairSpec == Spec /\ WF_vars(Main) /\ \A w \in Workers : WF_vars(Worker(w))

------------------------------------------------------------------------------
(***************************************************************************)
(* Correctness                                                             *)
(***************************************************************************)

TypeOK ==
    /\ part \in [Records -> Records] /\ time_mark \in TimeMarks
    /\ blocks \in 1..BLOCKS /\ blocks * cnt_records = BLOCKS * CNT
    /\ state_map \in [DOMAIN state_map -> BOOLEAN]
    /\ pc[0] \notin {"next", "end"} => DOMAIN state_map = 0..(blocks - 1)
    /\ mutex \in Workers \cup {NULL}
    /\ arrived \subseteq Workers /\ \A w \in arrived : pc[w] \in Waits
    /\ pc \in [Workers -> Waits \cup {"next", "work", "lock", "scan", "reset",
                                      "halve", "test", "finish", "end"}]
    /\ stage \in [Workers -> {"sort", "merge"}]
    /\ i \in [Workers -> 0..BLOCKS]
    /\ current_index \in [Workers -> 0..(BLOCKS - 1)]
    /\ round \in [Workers -> 0..repeats]
    /\ spoilt \in BOOLEAN

\* When main unmaps a piece, it holds the records it held before, each once,
\* in the order of their whole time marks: every block was sorted, every pair
\* merged once and only when both halves were ready, and mixing a comparison
\* of whole parts in qsort with an exact one in merge does not undo what the
\* first has ordered.  (The exact order is not reached, and two threads may
\* have spoilt the piece: see RaceOnlyThroughReset.)
ResultOrdered ==
    pc[0] = "next" /\ ~spoilt =>
        /\ \A k, l \in Records : k # l => part[k] # part[l]
        /\ round[0] > 0 =>
             \A k \in Records : k + 1 \in Records =>
                 Whole(part[k]) <= Whole(part[k + 1])

\* Two threads are in one block only when main, done with its own sorting,
\* has set state_map back while others were still looking for blocks.  No
\* interleaving of claims does it, and no merge is ever disturbed.
RaceOnlyThroughReset ==
    \A v, w \in Workers :
        pc[w] = "work" /\ v \in Company(w) =>
            /\ stage[v] = "sort" /\ stage[w] = "sort"
            /\ pc[0] \in {"reset", "wait_phase"}

\* The sizes change, and state_map is reallocated, only while every other
\* thread waits at the barrier or has left: nobody works in a block, holds
\* the mutex, or is between a test and a use of them.
ResizedAlone ==
    [][<<blocks, cnt_records, DOMAIN state_map>>'
         # <<blocks, cnt_records, DOMAIN state_map>> =>
         \A w \in Workers \ {0} :
             pc[w] \in {"wait_start", "wait_halved", "next", "end"}]_vars

\* The barrier calls of main and of the threads pair up over all phases and
\* pieces, so the program ends.
Terminates == <>(\A w \in Workers : pc[w] = "end")

==============================================================================
