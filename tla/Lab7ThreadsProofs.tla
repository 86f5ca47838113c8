-------------------------- MODULE Lab7ThreadsProofs --------------------------
(***************************************************************************)
(* What the runs of Lab7Threads check for four threads and two places,     *)
(* proved for any finite number of producers and consumers and any number  *)
(* of places.                                                              *)
(*                                                                         *)
(* The argument: the places of a thread decide who has the mutex           *)
(* (MutexHeld), so the counters are changed by one thread at a time and    *)
(* always with the queue (CountersMatchQueue).  A consumer that gets past  *)
(* its wait on the counter therefore finds a message; the other way past   *)
(* the wait is flag_break_process (TakeAfterQuit).  A thread dies with the *)
(* mutex only after the menu, and main keeps it only when '-' found no     *)
(* queue (OwnersGiveBack).                                                 *)
(***************************************************************************)
EXTENDS Lab7Threads, FiniteSetTheorems, SequenceTheorems, TLAPS

\* The mutex is held exactly at the places between its lock and its unlock,
\* and by a thread that was cancelled there.
MutexHeld ==
    \A t \in Workers :
        mutex = t <=> pc[t] \in {"locked", "take", "print", "dead_locked"}

\* A wait is left without a message only on flag_break_process.
TakeAfterQuit ==
    \A t \in Workers : pc[t] = "take" => flag_break_process

\* Nobody dies before the menu is left, and main keeps the mutex only when
\* no place is left.
OwnersGiveBack ==
    /\ \A t \in Workers : pc[t] \in {"dead", "dead_locked"} => t \in cancelled
    /\ cancelled # {} => main \in {"cancel", "destroy", "exit"}
    /\ mutex = Main => places = 0

\* The inductive invariant.
IInv ==
    TypeOK /\ NullOnlyAfterQuit /\ MutexHeld /\ TakeAfterQuit /\ OwnersGiveBack

\* The places a worker goes to, so that the proofs need not expand the set.
LEMMA Names ==
    /\ {"start", "lock", "locked", "waiting", "relock", "take"} \subseteq Places
    /\ {"print", "test", "absent", "done", "dead", "dead_locked"}
         \subseteq Places
BY DEF Places, Gone

\* A broadcast moves waiters only, and to a place of theirs.
LEMMA WokenTypes ==
    ASSUME NEW f \in [Workers -> Places]
    PROVE  Woken(f) \in [Workers -> Places]
BY Names DEF Woken

\* What the calls of the queue leave in it, and how many messages that is.
LEMMA QueueCalls ==
    ASSUME TypeOK, CountersMatchQueue
    PROVE  /\ \A m \in Message :
                /\ Queue!AddedMsgs(places, msgs, m) \in Seq(Message)
                /\ CNT_FREE_PLACES # 0 =>
                     Len(Queue!AddedMsgs(places, msgs, m)) = Len(msgs) + 1
           /\ msgs # <<>> =>
                /\ Len(msgs) \in Nat \ {0}
                /\ Queue!ExtractedMsgs(msgs) \in Seq(Message)
                /\ Len(Queue!ExtractedMsgs(msgs)) = Len(msgs) - 1
           /\ places > 0 =>
                /\ Queue!ErasedMsgs(places, msgs) \in Seq(Message)
                /\ Len(Queue!ErasedMsgs(places, msgs))
                     = IF Queue!Full(places, msgs) THEN places - 1
                                                   ELSE Len(msgs)
<1> USE DEF TypeOK, CountersMatchQueue, Queue!Full
<1>1. Len(msgs) \in Nat /\ (msgs = <<>> <=> Len(msgs) = 0)
  BY LenProperties, EmptySeq
<1>2. msgs # <<>> =>
        Tail(msgs) \in Seq(Message) /\ Len(Tail(msgs)) = Len(msgs) - 1
  BY HeadTailProperties
<1>3. \A m \in Message :
        Append(msgs, m) \in Seq(Message) /\ Len(Append(msgs, m)) = Len(msgs) + 1
  BY AppendProperties
<1>4. QED
  BY <1>1, <1>2, <1>3
     DEF Queue!AddedMsgs, Queue!ExtractedMsgs, Queue!ErasedMsgs

\* What main takes from list_of_ptreads is a thread, and leaves threads.
LEMMA ListCalls ==
    ASSUME TypeOK
    PROVE  /\ list # <<>> =>
                Head(list) \in Workers /\ Tail(list) \in Seq(Workers)
           /\ \A num \in Nat : num < Len(list) =>
                /\ list[num + 1] \in Workers
                /\ SubSeq(list, 1, num) \o SubSeq(list, num + 2, Len(list))
                     \in Seq(Workers)
<1> USE DEF TypeOK
<1>1. list # <<>> => Head(list) \in Workers /\ Tail(list) \in Seq(Workers)
  BY HeadTailProperties
<1>2. ASSUME NEW num \in Nat, num < Len(list)
      PROVE  /\ list[num + 1] \in Workers
             /\ SubSeq(list, 1, num) \o SubSeq(list, num + 2, Len(list))
                  \in Seq(Workers)
  <2>1. Len(list) \in Nat /\ num + 1 \in 1..Len(list)
    BY <1>2, LenProperties
  <2>2. list[num + 1] \in Workers
    BY <2>1, ElementOfSeq
  <2>3. SubSeq(list, 1, num) \in Seq(Workers)
    <3>1. \A i \in 1..num : list[i] \in Workers
      BY <1>2, <2>1, ElementOfSeq
    <3>2. QED
      BY <1>2, <2>1, <3>1, SubSeqProperties
  <2>4. SubSeq(list, num + 2, Len(list)) \in Seq(Workers)
    <3>1. \A i \in num + 2 .. Len(list) : list[i] \in Workers
      BY <1>2, <2>1, ElementOfSeq
    <3>2. QED
      BY <1>2, <2>1, <3>1, SubSeqProperties
  <2>5. QED
    BY <2>2, <2>3, <2>4, ConcatProperties
<1>3. QED
  BY <1>1, <1>2

------------------------------------------------------------------------------
(***************************************************************************)
(* The invariant is inductive                                              *)
(***************************************************************************)

\* At the start nobody runs and every place is free.
LEMMA InitIInv == Init => IInv
<1> SUFFICES ASSUME Init PROVE IInv
  OBVIOUS
<1>1. TypeOK
  BY Lab7Assumption, Names, EmptySeq DEF Init, TypeOK
<1>2. NullOnlyAfterQuit
  BY Lab7Assumption, EmptySeq DEF Init, NullOnlyAfterQuit,
     CountersMatchQueue
<1>3. MutexHeld /\ TakeAfterQuit /\ OwnersGiveBack
  BY Lab7Assumption DEF Init, MutexHeld, TakeAfterQuit, OwnersGiveBack
<1>4. QED
  BY <1>1, <1>2, <1>3 DEF IInv

\* Type correctness is kept by every step, given the invariant: the counters
\* are decremented only when they are not 0.
LEMMA TypeStep ==
    ASSUME IInv, [Next]_vars
    PROVE  TypeOK'
<1> USE Names, Lab7Assumption
        DEF IInv, Goto, queueVars, cntVars, stopVars, mainVars, TypeOK,
            Workers
<1>1. ASSUME NEW t \in Workers, Start(t)
      PROVE  TypeOK'
  BY <1>1 DEF Start
<1>2. ASSUME NEW t \in Workers, Lock(t)
      PROVE  TypeOK'
  BY <1>2 DEF Lock
<1>3. ASSUME NEW t \in Workers, Unlock(t)
      PROVE  TypeOK'
  BY <1>3 DEF Unlock, TouchQueue
<1>4. ASSUME NEW t \in Workers, LoopTest(t)
      PROVE  TypeOK'
  BY <1>4 DEF LoopTest
<1>5. ASSUME NEW t \in Workers, Deliver(t)
      PROVE  TypeOK'
  BY <1>5 DEF Deliver
<1>6. ASSUME NEW t \in Workers, Cancel(t)
      PROVE  TypeOK'
  BY <1>6 DEF Cancel
<1>7. ASSUME NEW t \in Producers, ProducerPoll(t)
      PROVE  TypeOK'
  BY <1>7 DEF ProducerPoll
<1>8. ASSUME NEW t \in Producers, ProducerAdd(t)
      PROVE  TypeOK'
  <2>1. msgs' \in Seq(Message)
    BY <1>8, QueueCalls DEF ProducerAdd, NullOnlyAfterQuit
  <2>2. [pc EXCEPT ![t] = "print"] \in [Workers -> Places]
    OBVIOUS
  <2>3. pc' \in [Workers -> Places]
    BY <1>8, <2>2, WokenTypes DEF ProducerAdd
  <2>4. CNT_FREE_PLACES' \in Nat /\ CNT_FILL_PLACES' \in Nat
    BY <1>8 DEF ProducerAdd
  <2>5. /\ process' \in {process, "use_after_free"}
        /\ UNCHANGED <<places, mutex, stopVars, mainVars>>
    BY <1>8 DEF ProducerAdd, TouchQueue
  <2>6. QED
    BY <2>1, <2>3, <2>4, <2>5
<1>9. ASSUME NEW t \in Consumers, ConsumerWait(t)
      PROVE  TypeOK'
  BY <1>9 DEF ConsumerWait
<1>10. ASSUME NEW t \in Consumers, ConsumerRelock(t)
       PROVE  TypeOK'
  BY <1>10 DEF ConsumerRelock
<1>11. ASSUME NEW t \in Consumers, ConsumerTake(t)
       PROVE  TypeOK'
  BY <1>11, QueueCalls
    DEF ConsumerTake, TouchQueue, NullOnlyAfterQuit, CountersMatchQueue
<1>12. ASSUME NEW t \in Consumers, ConsumerTakeNull(t)
       PROVE  TypeOK'
  BY <1>12 DEF ConsumerTakeNull
<1>13. ASSUME NEW t \in Consumers, SpuriousWakeup(t)
       PROVE  TypeOK'
  BY <1>13 DEF SpuriousWakeup
<1>14. ASSUME NEW t \in Workers, Create(t)
       PROVE  TypeOK'
  BY <1>14 DEF Create
<1>15. ASSUME NEW num \in 0..Cardinality(Workers), Kill(num)
       PROVE  TypeOK'
  BY <1>15, ListCalls, FS_CardinalityType DEF Kill
<1>16. CASE ChooseResize
  BY <1>16 DEF ChooseResize
<1>17. CASE Insert
  BY <1>17 DEF Insert
<1>18. CASE Delete
  BY <1>18, QueueCalls
    DEF Delete, NullOnlyAfterQuit, CountersMatchQueue, Queue!Full
<1>19. CASE DeleteNothing
  BY <1>19 DEF DeleteNothing
<1>20. CASE Quit
  BY <1>20 DEF Quit
<1>21. CASE Broadcast
  BY <1>21, WokenTypes DEF Broadcast
<1>22. CASE CancelNext
  BY <1>22, ListCalls DEF CancelNext
<1>23. CASE FreeQueue
  BY <1>23 DEF FreeQueue
<1>24. CASE Destroy
  BY <1>24 DEF Destroy
<1>25. CASE Exit
  BY <1>25 DEF Exit
<1>26. CASE UNCHANGED vars
  BY <1>26 DEF vars
<1>27. QED
  BY <1>1, <1>2, <1>3, <1>4, <1>5, <1>6, <1>7, <1>8, <1>9, <1>10, <1>11,
     <1>12, <1>13, <1>14, <1>15, <1>16, <1>17, <1>18, <1>19, <1>20, <1>21,
     <1>22, <1>23, <1>24, <1>25, <1>26
    DEF Next, Menu, MainRuns, Worker, Producer, Consumer, Ended

\* A step that changes the queue changes the counters with it.
LEMMA CountersStep ==
    ASSUME IInv, [Next]_vars
    PROVE  CountersMatchQueue'
<1> USE DEF IInv, Goto, queueVars, cntVars, stopVars, mainVars, TypeOK,
            NullOnlyAfterQuit, CountersMatchQueue
<1>1. ASSUME NEW t \in Workers, Start(t)
      PROVE  CountersMatchQueue'
  BY <1>1 DEF Start
<1>2. ASSUME NEW t \in Workers, Lock(t)
      PROVE  CountersMatchQueue'
  BY <1>2 DEF Lock
<1>3. ASSUME NEW t \in Workers, Unlock(t)
      PROVE  CountersMatchQueue'
  BY <1>3 DEF Unlock
<1>4. ASSUME NEW t \in Workers, LoopTest(t)
      PROVE  CountersMatchQueue'
  BY <1>4 DEF LoopTest
<1>5. ASSUME NEW t \in Workers, Deliver(t)
      PROVE  CountersMatchQueue'
  BY <1>5 DEF Deliver
<1>6. ASSUME NEW t \in Workers, Cancel(t)
      PROVE  CountersMatchQueue'
  BY <1>6 DEF Cancel
<1>7. ASSUME NEW t \in Producers, ProducerPoll(t)
      PROVE  CountersMatchQueue'
  BY <1>7 DEF ProducerPoll
<1>8. ASSUME NEW t \in Producers, ProducerAdd(t)
      PROVE  CountersMatchQueue'
  <2>1. Len(msgs') = Len(msgs) + 1 /\ Len(msgs) \in Nat
    BY <1>8, QueueCalls DEF ProducerAdd
  <2>2. /\ CNT_FILL_PLACES' = CNT_FILL_PLACES + 1 /\ places' = places
        /\ CNT_FREE_PLACES' = CNT_FREE_PLACES - 1
    BY <1>8 DEF ProducerAdd
  <2>3. QED
    BY <2>1, <2>2
<1>9. ASSUME NEW t \in Consumers, ConsumerWait(t)
      PROVE  CountersMatchQueue'
  BY <1>9 DEF ConsumerWait
<1>10. ASSUME NEW t \in Consumers, ConsumerRelock(t)
       PROVE  CountersMatchQueue'
  BY <1>10 DEF ConsumerRelock
<1>11. ASSUME NEW t \in Consumers, ConsumerTake(t)
       PROVE  CountersMatchQueue'
  <2>1. Len(msgs') = Len(msgs) - 1 /\ Len(msgs) \in Nat
    BY <1>11, QueueCalls DEF ConsumerTake
  <2>2. /\ CNT_FILL_PLACES' = CNT_FILL_PLACES - 1 /\ places' = places
        /\ CNT_FREE_PLACES' = CNT_FREE_PLACES + 1
    BY <1>11 DEF ConsumerTake
  <2>3. QED
    BY <2>1, <2>2
<1>12. ASSUME NEW t \in Consumers, ConsumerTakeNull(t)
       PROVE  CountersMatchQueue'
  BY <1>12 DEF ConsumerTakeNull
<1>13. ASSUME NEW t \in Consumers, SpuriousWakeup(t)
       PROVE  CountersMatchQueue'
  BY <1>13 DEF SpuriousWakeup
<1>14. ASSUME NEW t \in Workers, Create(t)
       PROVE  CountersMatchQueue'
  BY <1>14 DEF Create
<1>15. ASSUME NEW num \in 0..Cardinality(Workers), Kill(num)
       PROVE  CountersMatchQueue'
  BY <1>15 DEF Kill
<1>16. CASE ChooseResize
  BY <1>16 DEF ChooseResize
<1>17. CASE Insert
  BY <1>17 DEF Insert
<1>18. CASE Delete
  <2>1. Len(msgs') = IF Queue!Full(places, msgs) THEN places - 1
                                                ELSE Len(msgs)
    BY <1>18, QueueCalls DEF Delete
  <2>2. /\ places' = places - 1
        /\ IF Queue!Full(places, msgs)
           THEN /\ CNT_FILL_PLACES' = CNT_FILL_PLACES - 1
                /\ CNT_FREE_PLACES' = CNT_FREE_PLACES
           ELSE /\ CNT_FREE_PLACES' = CNT_FREE_PLACES - 1
                /\ CNT_FILL_PLACES' = CNT_FILL_PLACES
    BY <1>18 DEF Delete
  <2>3. CASE Queue!Full(places, msgs)
    BY <2>1, <2>2, <2>3 DEF Queue!Full
  <2>4. CASE ~Queue!Full(places, msgs)
    BY <2>1, <2>2, <2>4
  <2>5. QED
    BY <2>3, <2>4
<1>19. CASE DeleteNothing
  BY <1>19 DEF DeleteNothing
<1>20. CASE Quit
  BY <1>20 DEF Quit
<1>21. CASE Broadcast
  BY <1>21 DEF Broadcast
<1>22. CASE CancelNext
  BY <1>22 DEF CancelNext
<1>23. CASE FreeQueue
  BY <1>23 DEF FreeQueue
<1>24. CASE Destroy
  BY <1>24 DEF Destroy
<1>25. CASE Exit
  BY <1>25 DEF Exit
<1>26. CASE UNCHANGED vars
  BY <1>26 DEF vars
<1>27. QED
  BY <1>1, <1>2, <1>3, <1>4, <1>5, <1>6, <1>7, <1>8, <1>9, <1>10, <1>11,
     <1>12, <1>13, <1>14, <1>15, <1>16, <1>17, <1>18, <1>19, <1>20, <1>21,
     <1>22, <1>23, <1>24, <1>25, <1>26
    DEF Next, Menu, MainRuns, Worker, Producer, Consumer, Ended

\* The mutex changes hands only with the place of its owner.
LEMMA MutexStep ==
    ASSUME IInv, [Next]_vars
    PROVE  MutexHeld'
<1> USE Lab7Assumption
        DEF IInv, Goto, queueVars, cntVars, stopVars, mainVars, MutexHeld,
            TypeOK, Workers
<1>1. ASSUME NEW t \in Workers, Start(t)
      PROVE  MutexHeld'
  BY <1>1 DEF Start
<1>2. ASSUME NEW t \in Workers, Lock(t)
      PROVE  MutexHeld'
  BY <1>2 DEF Lock
<1>3. ASSUME NEW t \in Workers, Unlock(t)
      PROVE  MutexHeld'
  BY <1>3 DEF Unlock
<1>4. ASSUME NEW t \in Workers, LoopTest(t)
      PROVE  MutexHeld'
  BY <1>4 DEF LoopTest
<1>5. ASSUME NEW t \in Workers, Deliver(t)
      PROVE  MutexHeld'
  BY <1>5 DEF Deliver
<1>6. ASSUME NEW t \in Workers, Cancel(t)
      PROVE  MutexHeld'
  BY <1>6 DEF Cancel, PastWait
<1>7. ASSUME NEW t \in Producers, ProducerPoll(t)
      PROVE  MutexHeld'
  BY <1>7 DEF ProducerPoll
<1>8. ASSUME NEW t \in Producers, ProducerAdd(t)
      PROVE  MutexHeld'
  BY <1>8 DEF ProducerAdd, Woken
<1>9. ASSUME NEW t \in Consumers, ConsumerWait(t)
      PROVE  MutexHeld'
  BY <1>9 DEF ConsumerWait
<1>10. ASSUME NEW t \in Consumers, ConsumerRelock(t)
       PROVE  MutexHeld'
  BY <1>10 DEF ConsumerRelock
<1>11. ASSUME NEW t \in Consumers, ConsumerTake(t)
       PROVE  MutexHeld'
  BY <1>11 DEF ConsumerTake, PastWait
<1>12. ASSUME NEW t \in Consumers, ConsumerTakeNull(t)
       PROVE  MutexHeld'
  BY <1>12 DEF ConsumerTakeNull
<1>13. ASSUME NEW t \in Consumers, SpuriousWakeup(t)
       PROVE  MutexHeld'
  BY <1>13 DEF SpuriousWakeup
<1>14. ASSUME NEW t \in Workers, Create(t)
       PROVE  MutexHeld'
  BY <1>14 DEF Create
<1>15. ASSUME NEW num \in 0..Cardinality(Workers), Kill(num)
       PROVE  MutexHeld'
  BY <1>15 DEF Kill
<1>16. CASE ChooseResize
  BY <1>16 DEF ChooseResize
<1>17. CASE Insert
  BY <1>17 DEF Insert
<1>18. CASE Delete
  BY <1>18 DEF Delete
<1>19. CASE DeleteNothing
  BY <1>19 DEF DeleteNothing
<1>20. CASE Quit
  BY <1>20 DEF Quit
<1>21. CASE Broadcast
  BY <1>21 DEF Broadcast, Woken
<1>22. CASE CancelNext
  BY <1>22 DEF CancelNext
<1>23. CASE FreeQueue
  BY <1>23 DEF FreeQueue
<1>24. CASE Destroy
  BY <1>24 DEF Destroy
<1>25. CASE Exit
  BY <1>25 DEF Exit
<1>26. CASE UNCHANGED vars
  BY <1>26 DEF vars
<1>27. QED
  BY <1>1, <1>2, <1>3, <1>4, <1>5, <1>6, <1>7, <1>8, <1>9, <1>10, <1>11,
     <1>12, <1>13, <1>14, <1>15, <1>16, <1>17, <1>18, <1>19, <1>20, <1>21,
     <1>22, <1>23, <1>24, <1>25, <1>26
    DEF Next, Menu, MainRuns, Worker, Producer, Consumer, Ended

\* A consumer comes to `take' only when it has seen the flag, which is never
\* cleared.
LEMMA TakeStep ==
    ASSUME IInv, [Next]_vars
    PROVE  TakeAfterQuit'
<1> USE DEF IInv, Goto, queueVars, cntVars, stopVars, mainVars,
            TakeAfterQuit, TypeOK, Workers
<1>1. ASSUME NEW t \in Workers, Start(t)
      PROVE  TakeAfterQuit'
  BY <1>1 DEF Start
<1>2. ASSUME NEW t \in Workers, Lock(t)
      PROVE  TakeAfterQuit'
  BY <1>2 DEF Lock
<1>3. ASSUME NEW t \in Workers, Unlock(t)
      PROVE  TakeAfterQuit'
  BY <1>3 DEF Unlock
<1>4. ASSUME NEW t \in Workers, LoopTest(t)
      PROVE  TakeAfterQuit'
  BY <1>4 DEF LoopTest
<1>5. ASSUME NEW t \in Workers, Deliver(t)
      PROVE  TakeAfterQuit'
  BY <1>5 DEF Deliver
<1>6. ASSUME NEW t \in Workers, Cancel(t)
      PROVE  TakeAfterQuit'
  BY <1>6 DEF Cancel
<1>7. ASSUME NEW t \in Producers, ProducerPoll(t)
      PROVE  TakeAfterQuit'
  BY <1>7 DEF ProducerPoll
<1>8. ASSUME NEW t \in Producers, ProducerAdd(t)
      PROVE  TakeAfterQuit'
  BY <1>8 DEF ProducerAdd, Woken
<1>9. ASSUME NEW t \in Consumers, ConsumerWait(t)
      PROVE  TakeAfterQuit'
  BY <1>9 DEF ConsumerWait
<1>10. ASSUME NEW t \in Consumers, ConsumerRelock(t)
       PROVE  TakeAfterQuit'
  BY <1>10 DEF ConsumerRelock
<1>11. ASSUME NEW t \in Consumers, ConsumerTake(t)
       PROVE  TakeAfterQuit'
  BY <1>11 DEF ConsumerTake
<1>12. ASSUME NEW t \in Consumers, ConsumerTakeNull(t)
       PROVE  TakeAfterQuit'
  BY <1>12 DEF ConsumerTakeNull
<1>13. ASSUME NEW t \in Consumers, SpuriousWakeup(t)
       PROVE  TakeAfterQuit'
  BY <1>13 DEF SpuriousWakeup
<1>14. ASSUME NEW t \in Workers, Create(t)
       PROVE  TakeAfterQuit'
  BY <1>14 DEF Create
<1>15. ASSUME NEW num \in 0..Cardinality(Workers), Kill(num)
       PROVE  TakeAfterQuit'
  BY <1>15 DEF Kill
<1>16. CASE ChooseResize
  BY <1>16 DEF ChooseResize
<1>17. CASE Insert
  BY <1>17 DEF Insert
<1>18. CASE Delete
  BY <1>18 DEF Delete
<1>19. CASE DeleteNothing
  BY <1>19 DEF DeleteNothing
<1>20. CASE Quit
  BY <1>20 DEF Quit
<1>21. CASE Broadcast
  BY <1>21 DEF Broadcast, Woken
<1>22. CASE CancelNext
  BY <1>22 DEF CancelNext
<1>23. CASE FreeQueue
  BY <1>23 DEF FreeQueue
<1>24. CASE Destroy
  BY <1>24 DEF Destroy
<1>25. CASE Exit
  BY <1>25 DEF Exit
<1>26. CASE UNCHANGED vars
  BY <1>26 DEF vars
<1>27. QED
  BY <1>1, <1>2, <1>3, <1>4, <1>5, <1>6, <1>7, <1>8, <1>9, <1>10, <1>11,
     <1>12, <1>13, <1>14, <1>15, <1>16, <1>17, <1>18, <1>19, <1>20, <1>21,
     <1>22, <1>23, <1>24, <1>25, <1>26
    DEF Next, Menu, MainRuns, Worker, Producer, Consumer, Ended

\* Threads are cancelled only outside the menu, and what main keeps after
\* DeleteNothing stops everybody who could make a place.
LEMMA DeathStep ==
    ASSUME IInv, [Next]_vars
    PROVE  OwnersGiveBack'
<1> USE Lab7Assumption
        DEF IInv, Goto, queueVars, cntVars, stopVars, mainVars,
            OwnersGiveBack, TypeOK, Workers
<1>1. ASSUME NEW t \in Workers, Start(t)
      PROVE  OwnersGiveBack'
  BY <1>1 DEF Start
<1>2. ASSUME NEW t \in Workers, Lock(t)
      PROVE  OwnersGiveBack'
  BY <1>2 DEF Lock
<1>3. ASSUME NEW t \in Workers, Unlock(t)
      PROVE  OwnersGiveBack'
  BY <1>3 DEF Unlock
<1>4. ASSUME NEW t \in Workers, LoopTest(t)
      PROVE  OwnersGiveBack'
  BY <1>4 DEF LoopTest
<1>5. ASSUME NEW t \in Workers, Deliver(t)
      PROVE  OwnersGiveBack'
  BY <1>5 DEF Deliver
<1>6. ASSUME NEW t \in Workers, Cancel(t)
      PROVE  OwnersGiveBack'
  BY <1>6 DEF Cancel
<1>7. ASSUME NEW t \in Producers, ProducerPoll(t)
      PROVE  OwnersGiveBack'
  BY <1>7 DEF ProducerPoll
<1>8. ASSUME NEW t \in Producers, ProducerAdd(t)
      PROVE  OwnersGiveBack'
  BY <1>8 DEF ProducerAdd, Woken
<1>9. ASSUME NEW t \in Consumers, ConsumerWait(t)
      PROVE  OwnersGiveBack'
  BY <1>9 DEF ConsumerWait
<1>10. ASSUME NEW t \in Consumers, ConsumerRelock(t)
       PROVE  OwnersGiveBack'
  BY <1>10 DEF ConsumerRelock
<1>11. ASSUME NEW t \in Consumers, ConsumerTake(t)
       PROVE  OwnersGiveBack'
  BY <1>11 DEF ConsumerTake
<1>12. ASSUME NEW t \in Consumers, ConsumerTakeNull(t)
       PROVE  OwnersGiveBack'
  BY <1>12 DEF ConsumerTakeNull
<1>13. ASSUME NEW t \in Consumers, SpuriousWakeup(t)
       PROVE  OwnersGiveBack'
  BY <1>13 DEF SpuriousWakeup
<1>14. ASSUME NEW t \in Workers, Create(t)
       PROVE  OwnersGiveBack'
  BY <1>14 DEF Create
<1>15. ASSUME NEW num \in 0..Cardinality(Workers), Kill(num)
       PROVE  OwnersGiveBack'
  BY <1>15 DEF Kill
<1>16. CASE ChooseResize
  BY <1>16 DEF ChooseResize
<1>17. CASE Insert
  BY <1>17 DEF Insert
<1>18. CASE Delete
  BY <1>18 DEF Delete
<1>19. CASE DeleteNothing
  BY <1>19 DEF DeleteNothing
<1>20. CASE Quit
  BY <1>20 DEF Quit
<1>21. CASE Broadcast
  BY <1>21 DEF Broadcast, Woken
<1>22. CASE CancelNext
  BY <1>22 DEF CancelNext
<1>23. CASE FreeQueue
  BY <1>23 DEF FreeQueue
<1>24. CASE Destroy
  BY <1>24 DEF Destroy
<1>25. CASE Exit
  BY <1>25 DEF Exit
<1>26. CASE UNCHANGED vars
  BY <1>26 DEF vars
<1>27. QED
  BY <1>1, <1>2, <1>3, <1>4, <1>5, <1>6, <1>7, <1>8, <1>9, <1>10, <1>11,
     <1>12, <1>13, <1>14, <1>15, <1>16, <1>17, <1>18, <1>19, <1>20, <1>21,
     <1>22, <1>23, <1>24, <1>25, <1>26
    DEF Next, Menu, MainRuns, Worker, Producer, Consumer, Ended

\* With as many messages as the counter says, NULL is extracted only at
\* `take'.
LEMMA NullStep ==
    ASSUME IInv, [Next]_vars
    PROVE  (process = "fault_in_display" => flag_break_process)'
<1> USE DEF IInv, Goto, queueVars, cntVars, stopVars, mainVars,
            TakeAfterQuit, NullOnlyAfterQuit, CountersMatchQueue, Workers,
            TypeOK
<1>1. ASSUME NEW t \in Workers, Start(t)
      PROVE  (process = "fault_in_display" => flag_break_process)'
  BY <1>1 DEF Start
<1>2. ASSUME NEW t \in Workers, Lock(t)
      PROVE  (process = "fault_in_display" => flag_break_process)'
  BY <1>2 DEF Lock
<1>3. ASSUME NEW t \in Workers, Unlock(t)
      PROVE  (process = "fault_in_display" => flag_break_process)'
  BY <1>3 DEF Unlock, TouchQueue
<1>4. ASSUME NEW t \in Workers, LoopTest(t)
      PROVE  (process = "fault_in_display" => flag_break_process)'
  BY <1>4 DEF LoopTest
<1>5. ASSUME NEW t \in Workers, Deliver(t)
      PROVE  (process = "fault_in_display" => flag_break_process)'
  BY <1>5 DEF Deliver
<1>6. ASSUME NEW t \in Workers, Cancel(t)
      PROVE  (process = "fault_in_display" => flag_break_process)'
  BY <1>6 DEF Cancel
<1>7. ASSUME NEW t \in Producers, ProducerPoll(t)
      PROVE  (process = "fault_in_display" => flag_break_process)'
  BY <1>7 DEF ProducerPoll
<1>8. ASSUME NEW t \in Producers, ProducerAdd(t)
      PROVE  (process = "fault_in_display" => flag_break_process)'
  BY <1>8 DEF ProducerAdd, TouchQueue
<1>9. ASSUME NEW t \in Consumers, ConsumerWait(t)
      PROVE  (process = "fault_in_display" => flag_break_process)'
  BY <1>9 DEF ConsumerWait
<1>10. ASSUME NEW t \in Consumers, ConsumerRelock(t)
       PROVE  (process = "fault_in_display" => flag_break_process)'
  BY <1>10 DEF ConsumerRelock
<1>11. ASSUME NEW t \in Consumers, ConsumerTake(t)
       PROVE  (process = "fault_in_display" => flag_break_process)'
  BY <1>11 DEF ConsumerTake, TouchQueue
<1>12. ASSUME NEW t \in Consumers, ConsumerTakeNull(t)
       PROVE  (process = "fault_in_display" => flag_break_process)'
  BY <1>12 DEF ConsumerTakeNull, PastWait
<1>13. ASSUME NEW t \in Consumers, SpuriousWakeup(t)
       PROVE  (process = "fault_in_display" => flag_break_process)'
  BY <1>13 DEF SpuriousWakeup
<1>14. ASSUME NEW t \in Workers, Create(t)
       PROVE  (process = "fault_in_display" => flag_break_process)'
  BY <1>14 DEF Create
<1>15. ASSUME NEW num \in 0..Cardinality(Workers), Kill(num)
       PROVE  (process = "fault_in_display" => flag_break_process)'
  BY <1>15 DEF Kill
<1>16. CASE ChooseResize
  BY <1>16 DEF ChooseResize
<1>17. CASE Insert
  BY <1>17 DEF Insert
<1>18. CASE Delete
  BY <1>18 DEF Delete
<1>19. CASE DeleteNothing
  BY <1>19 DEF DeleteNothing
<1>20. CASE Quit
  BY <1>20 DEF Quit
<1>21. CASE Broadcast
  BY <1>21 DEF Broadcast
<1>22. CASE CancelNext
  BY <1>22 DEF CancelNext
<1>23. CASE FreeQueue
  BY <1>23 DEF FreeQueue
<1>24. CASE Destroy
  BY <1>24 DEF Destroy
<1>25. CASE Exit
  BY <1>25 DEF Exit
<1>26. CASE UNCHANGED vars
  BY <1>26 DEF vars
<1>27. QED
  BY <1>1, <1>2, <1>3, <1>4, <1>5, <1>6, <1>7, <1>8, <1>9, <1>10, <1>11,
     <1>12, <1>13, <1>14, <1>15, <1>16, <1>17, <1>18, <1>19, <1>20, <1>21,
     <1>22, <1>23, <1>24, <1>25, <1>26
    DEF Next, Menu, MainRuns, Worker, Producer, Consumer, Ended

\* The invariant is kept by every step.
LEMMA InvariantStep == IInv /\ [Next]_vars => IInv'
BY TypeStep, CountersStep, MutexStep, TakeStep, DeathStep, NullStep
   DEF IInv, NullOnlyAfterQuit

------------------------------------------------------------------------------
(***************************************************************************)
(* The theorems                                                            *)
(***************************************************************************)

\* The inductive invariant holds in every reachable state.
THEOREM Invariance == Spec => []IInv
BY InitIInv, InvariantStep, PTL DEF Spec

\* Every variable stays in its type; for the two counters of main.c, which
\* are decremented without a test of their own, that is part of what matters:
\* neither goes below 0.
THEOREM TypeCorrect == Spec => []TypeOK
<1>1. IInv => TypeOK
  BY DEF IInv
<1>2. QED
  BY <1>1, Invariance, PTL

\* The counters are the queue seen from outside, and consumer passes a NULL
\* to display_message only after main has set flag_break_process.
THEOREM CountersRightAndNullOnlyAfterQuit == Spec => []NullOnlyAfterQuit
<1>1. IInv => NullOnlyAfterQuit
  BY DEF IInv
<1>2. QED
  BY <1>1, Invariance, PTL

\* While the user works at the menu the mutex is free, or held by a thread
\* that is on its way to unlock it, or by main itself: and that only after a
\* '-' with no queue left.
THEOREM MenuWaitsForTheLiving == Spec => []MenuBlocksOnlyOnItself
<1>1. ASSUME IInv, main \in {"menu", "insert", "delete"}, mutex \in Workers
      PROVE  pc[mutex] \notin Gone
  <2>1. pc[mutex] \in {"locked", "take", "print", "dead_locked"}
    BY <1>1 DEF IInv, MutexHeld
  <2>2. pc[mutex] # "dead_locked"
    BY <1>1 DEF IInv, OwnersGiveBack
  <2>3. QED
    BY <2>1, <2>2 DEF Gone
<1>2. IInv => (mutex = NULL \/ mutex \in Workers \/ mutex = Main)
  BY DEF IInv, TypeOK
<1>3. IInv => (mutex = Main => places = 0)
  BY DEF IInv, OwnersGiveBack
<1>4. IInv => MenuBlocksOnlyOnItself
  BY <1>1, <1>2, <1>3 DEF MenuBlocksOnlyOnItself
<1>5. QED
  BY <1>4, Invariance, PTL

\* No step but Delete makes Asleep true: who goes to wait finds no message,
\* the producer that fills the last place wakes everybody, and nothing else
\* takes a free place away.
LEMMA SleepStep ==
    ASSUME IInv, [Next]_vars, ~Delete
    PROVE  Asleep' => Asleep
<1> USE DEF IInv, Goto, TypeOK, Asleep, Waiters, queueVars, cntVars,
            stopVars, mainVars, Workers
<1>1. ASSUME NEW t \in Workers, Start(t)
      PROVE  Asleep' => Asleep
  BY <1>1 DEF Start
<1>2. ASSUME NEW t \in Workers, Lock(t)
      PROVE  Asleep' => Asleep
  BY <1>2 DEF Lock
<1>3. ASSUME NEW t \in Workers, Unlock(t)
      PROVE  Asleep' => Asleep
  BY <1>3 DEF Unlock
<1>4. ASSUME NEW t \in Workers, LoopTest(t)
      PROVE  Asleep' => Asleep
  BY <1>4 DEF LoopTest
<1>5. ASSUME NEW t \in Workers, Deliver(t)
      PROVE  Asleep' => Asleep
  BY <1>5 DEF Deliver
<1>6. ASSUME NEW t \in Workers, Cancel(t)
      PROVE  Asleep' => Asleep
  BY <1>6 DEF Cancel
<1>7. ASSUME NEW t \in Producers, ProducerPoll(t)
      PROVE  Asleep' => Asleep
  BY <1>7 DEF ProducerPoll
<1>8. ASSUME NEW t \in Producers, ProducerAdd(t)
      PROVE  Asleep' => Asleep
  BY <1>8 DEF ProducerAdd, Woken
<1>9. ASSUME NEW t \in Consumers, ConsumerWait(t)
      PROVE  Asleep' => Asleep
  BY <1>9 DEF ConsumerWait
<1>10. ASSUME NEW t \in Consumers, ConsumerRelock(t)
       PROVE  Asleep' => Asleep
  BY <1>10 DEF ConsumerRelock
<1>11. ASSUME NEW t \in Consumers, ConsumerTake(t)
       PROVE  Asleep' => Asleep
  BY <1>11 DEF ConsumerTake
<1>12. ASSUME NEW t \in Consumers, ConsumerTakeNull(t)
       PROVE  Asleep' => Asleep
  BY <1>12 DEF ConsumerTakeNull
<1>13. ASSUME NEW t \in Consumers, SpuriousWakeup(t)
       PROVE  Asleep' => Asleep
  BY <1>13 DEF SpuriousWakeup
<1>14. ASSUME NEW t \in Workers, Create(t)
       PROVE  Asleep' => Asleep
  BY <1>14 DEF Create
<1>15. ASSUME NEW num \in 0..Cardinality(Workers), Kill(num)
       PROVE  Asleep' => Asleep
  BY <1>15 DEF Kill
<1>16. CASE ChooseResize
  BY <1>16 DEF ChooseResize
<1>17. CASE Insert
  BY <1>17 DEF Insert
<1>18. CASE Delete
  BY <1>18
<1>19. CASE DeleteNothing
  BY <1>19 DEF DeleteNothing
<1>20. CASE Quit
  BY <1>20 DEF Quit
<1>21. CASE Broadcast
  BY <1>21 DEF Broadcast, Woken
<1>22. CASE CancelNext
  BY <1>22 DEF CancelNext
<1>23. CASE FreeQueue
  BY <1>23 DEF FreeQueue
<1>24. CASE Destroy
  BY <1>24 DEF Destroy
<1>25. CASE Exit
  BY <1>25 DEF Exit
<1>26. CASE UNCHANGED vars
  BY <1>26 DEF vars
<1>27. QED
  BY <1>1, <1>2, <1>3, <1>4, <1>5, <1>6, <1>7, <1>8, <1>9, <1>10, <1>11,
     <1>12, <1>13, <1>14, <1>15, <1>16, <1>17, <1>18, <1>19, <1>20, <1>21,
     <1>22, <1>23, <1>24, <1>25, <1>26
    DEF Next, Menu, MainRuns, Worker, Producer, Consumer, Ended

\* The one place that loses the wakeup of the consumers is '-': producer's
\* broadcast on the last free place, together with the loop around the wait,
\* covers every other way to a full queue.
THEOREM OnlyDeleteLosesTheWakeup == Spec => WakeupLostOnlyByDelete
<1>1. IInv /\ [Next]_vars => [Asleep' /\ ~Asleep => Delete]_vars
  BY SleepStep
<1>2. QED
  BY <1>1, Invariance, PTL DEF Spec, WakeupLostOnlyByDelete

==============================================================================
