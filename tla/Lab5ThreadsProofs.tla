-------------------------- MODULE Lab5ThreadsProofs --------------------------
(***************************************************************************)
(* What the runs of Lab5Threads check for three threads and three places,  *)
(* proved for any finite number of producers and consumers and any number  *)
(* of places.                                                              *)
(*                                                                         *)
(* The argument: a step moves one worker between places of its program, so *)
(* it moves one worker into or out of Holding and Owing (CountsStep).  The *)
(* two equations of TokenAccounting are kept by adding up those moves with *)
(* what the same step does to the semaphores, the passes and the queue.    *)
(* That needs TypeOK, because the equations are about natural numbers and  *)
(* Len(msgs) <= places.  SafeAccess, NoStandstill and the absence of a     *)
(* NULL message follow: they are arithmetic on the two equations.          *)
(***************************************************************************)
EXTENDS Lab5Threads, FiniteSetTheorems, SequenceTheorems, TLAPS

\* The inductive invariant.  MutexOwned and NothingDisplaysNull are carried
\* along: NothingDisplaysNull needs SafeAccess one step earlier.
IInv == TypeOK /\ TokenAccounting /\ MutexOwned /\ NothingDisplaysNull

\* The elements of the three sets of names, so that the proofs need not
\* expand the sets.
LEMMA Names ==
    /\ {"start", "wait", "lock", "locked"} \subseteq Places
    /\ {"post", "display", "report", "test"} \subseteq Places
    /\ {"absent", "done", "dead", "dead_locked"} \subseteq Places
    /\ {"menu", "insert", "delete", "cancel", "exit"} \subseteq MenuPlaces
    /\ {"running", "exited", "exit_in_erase"} \subseteq Outcomes
    /\ {"killed_by_SIGUSR1", "fault_in_report"} \subseteq Outcomes
    /\ {"fault_in_display", "use_after_free"} \subseteq Outcomes
BY DEF Places, Gone, MenuPlaces, Outcomes

------------------------------------------------------------------------------
(***************************************************************************)
(* Counting threads                                                        *)
(***************************************************************************)

\* Two finite sets that differ at most in t differ in size by what t
\* contributes to each.
LEMMA CountMove ==
    ASSUME NEW A, NEW B, IsFiniteSet(A), NEW t, A \ {t} = B \ {t}
    PROVE  /\ IsFiniteSet(B)
           /\ Cardinality(A) \in Nat /\ Cardinality(B) \in Nat
           /\ Cardinality(B) + (IF t \in A THEN 1 ELSE 0)
                = Cardinality(A) + (IF t \in B THEN 1 ELSE 0)
<1>1. CASE t \in B
  <2>1. B = A \cup {t}
    BY <1>1
  <2>2. IsFiniteSet(B) /\ Cardinality(A) \in Nat /\ Cardinality(B) \in Nat
    BY <2>1, FS_AddElement, FS_CardinalityType
  <2>3. Cardinality(B) = IF t \in A THEN Cardinality(A) ELSE Cardinality(A) + 1
    BY <2>1, FS_AddElement
  <2>4. QED
    BY <1>1, <2>2, <2>3
<1>2. CASE t \notin B
  <2>1. B = A \ {t}
    BY <1>2
  <2>2. IsFiniteSet(B) /\ Cardinality(A) \in Nat /\ Cardinality(B) \in Nat
    BY <2>1, FS_RemoveElement, FS_CardinalityType
  <2>3. Cardinality(B) = IF t \in A THEN Cardinality(A) - 1 ELSE Cardinality(A)
    BY <2>1, FS_RemoveElement
  <2>4. QED
    BY <1>2, <2>2, <2>3
<1>3. QED
  BY <1>1, <1>2

\* What a worker's step contributes to the four counts of TokenAccounting.
Holds(p) == IF p \in HoldingPlaces THEN 1 ELSE 0
Owes(p)  == IF p \in OwingPlaces THEN 1 ELSE 0

\* What a worker holds and owes at each of its places.
LEMMA PlaceValues ==
    /\ Holds("lock") = 1 /\ Holds("locked") = 1 /\ Holds("dead_locked") = 1
    /\ Holds("wait") = 0 /\ Holds("post") = 0 /\ Holds("test") = 0
    /\ Holds("start") = 0 /\ Holds("absent") = 0 /\ Holds("display") = 0
    /\ Holds("report") = 0 /\ Holds("done") = 0 /\ Holds("dead") = 0
    /\ Owes("post") = 1
    /\ Owes("lock") = 0 /\ Owes("locked") = 0 /\ Owes("dead_locked") = 0
    /\ Owes("wait") = 0 /\ Owes("test") = 0
    /\ Owes("start") = 0 /\ Owes("absent") = 0 /\ Owes("display") = 0
    /\ Owes("report") = 0 /\ Owes("done") = 0 /\ Owes("dead") = 0
BY DEF Holds, Owes, HoldingPlaces, OwingPlaces

\* The sizes of the sets the two equations of TokenAccounting count.
LEMMA CountTypes ==
    ASSUME TypeOK
    PROVE  \A W \in {Producers, Consumers} :
             /\ IsFiniteSet(Holding(W)) /\ Cardinality(Holding(W)) \in Nat
             /\ IsFiniteSet(Owing(W)) /\ Cardinality(Owing(W)) \in Nat
BY Lab5Assumption, FS_Subset, FS_CardinalityType DEF Holding, Owing

\* How these sizes change when one worker moves from one place to another.
LEMMA CountsStep ==
    ASSUME TypeOK, NEW W \in {Producers, Consumers},
           NEW t \in Workers, NEW to, pc' = [pc EXCEPT ![t] = to]
    PROVE  /\ Cardinality(Holding(W)') \in Nat /\ Cardinality(Owing(W)') \in Nat
           /\ t \in W =>
                /\ Cardinality(Holding(W)') + Holds(pc[t])
                     = Cardinality(Holding(W)) + Holds(to)
                /\ Cardinality(Owing(W)') + Owes(pc[t])
                     = Cardinality(Owing(W)) + Owes(to)
           /\ t \notin W =>
                /\ Cardinality(Holding(W)') = Cardinality(Holding(W))
                /\ Cardinality(Owing(W)') = Cardinality(Owing(W))
<1>1. t \in DOMAIN pc /\ W \subseteq DOMAIN pc
  BY DEF Workers, TypeOK
<1>2. IsFiniteSet(Holding(W)) /\ IsFiniteSet(Owing(W))
  BY CountTypes
<1>3. /\ Holding(W) \ {t} = Holding(W)' \ {t}
      /\ Owing(W) \ {t} = Owing(W)' \ {t}
  BY <1>1 DEF Holding, Owing
<1>4. /\ t \in Holding(W) <=> t \in W /\ pc[t] \in HoldingPlaces
      /\ t \in Holding(W)' <=> t \in W /\ to \in HoldingPlaces
      /\ t \in Owing(W) <=> t \in W /\ pc[t] \in OwingPlaces
      /\ t \in Owing(W)' <=> t \in W /\ to \in OwingPlaces
  BY <1>1 DEF Holding, Owing, HoldingPlaces, OwingPlaces
<1>5. /\ Cardinality(Holding(W)) \in Nat
      /\ Cardinality(Holding(W)') \in Nat
      /\ Cardinality(Holding(W)') + (IF t \in Holding(W) THEN 1 ELSE 0)
           = Cardinality(Holding(W)) + (IF t \in Holding(W)' THEN 1 ELSE 0)
  BY <1>2, <1>3, CountMove
<1>6. /\ Cardinality(Owing(W)) \in Nat
      /\ Cardinality(Owing(W)') \in Nat
      /\ Cardinality(Owing(W)') + (IF t \in Owing(W) THEN 1 ELSE 0)
           = Cardinality(Owing(W)) + (IF t \in Owing(W)' THEN 1 ELSE 0)
  BY <1>2, <1>3, CountMove
<1>7. QED
  BY <1>4, <1>5, <1>6 DEF Holds, Owes

------------------------------------------------------------------------------
(***************************************************************************)
(* What the equations say                                                  *)
(***************************************************************************)

\* A worker in the critical section holds a token of its side, so the side's
\* equation puts a free place, a message or a pass behind it.
LEMMA AccountingGivesSafeAccess ==
    ASSUME TypeOK, TokenAccounting
    PROVE  SafeAccess
<1>1. ASSUME NEW p \in Producers, pc[p] = "locked", producer_passes = 0
      PROVE  Len(msgs) < places
  <2>1. Holding(Producers) # {}
    BY <1>1 DEF Holding, HoldingPlaces
  <2>2. Cardinality(Holding(Producers)) # 0
    BY <2>1, CountTypes, FS_EmptySet
  <2>3. QED
    BY <1>1, <2>2, CountTypes DEF TokenAccounting, TypeOK
<1>2. ASSUME NEW c \in Consumers, pc[c] = "locked", consumer_passes = 0
      PROVE  msgs # <<>>
  <2>1. Holding(Consumers) # {}
    BY <1>2 DEF Holding, HoldingPlaces
  <2>2. Cardinality(Holding(Consumers)) # 0
    BY <2>1, CountTypes, FS_EmptySet
  <2>3. Len(msgs) # 0
    BY <1>2, <2>2, CountTypes DEF TokenAccounting, TypeOK
  <2>4. QED
    BY <2>3, EmptySeq
<1>3. QED
  BY <1>1, <1>2 DEF SafeAccess

\* With nothing in the semaphores or in anyone's hands the equations leave
\* no free place and no message.
LEMMA AccountingGivesNoStandstill ==
    ASSUME TypeOK, TokenAccounting
    PROVE  NoStandstill
<1>1. ASSUME EMPTY = 0, FILLED = 0, Holding(Workers) = {}, Owing(Workers) = {}
      PROVE  places = 0
  <2>1. /\ Holding(Producers) = {} /\ Holding(Consumers) = {}
        /\ Owing(Producers) = {} /\ Owing(Consumers) = {}
    BY <1>1 DEF Holding, Owing, Workers
  <2>2. QED
    BY <1>1, <2>1, FS_EmptySet DEF TokenAccounting, TypeOK
<1>2. QED
  BY <1>1 DEF NoStandstill

------------------------------------------------------------------------------
(***************************************************************************)
(* The invariant is inductive                                              *)
(***************************************************************************)

\* The initial state has BUFFER_SIZE tokens for BUFFER_SIZE free places.
LEMMA InitIInv == Init => IInv
<1> SUFFICES ASSUME Init PROVE IInv
  OBVIOUS
<1>1. TypeOK
  <2>1. msgs \in Seq(Message) /\ Len(msgs) = 0 /\ list \in Seq(Workers)
    BY EmptySeq DEF Init
  <2>2. BUFFER_SIZE \in Nat
    BY Lab5Assumption
  <2>3. /\ pc \in [Workers -> Places]
        /\ taken \in [Consumers -> Message \cup {NULL}]
        /\ FLAG_CONTINUE \in [Workers -> BOOLEAN]
    BY Names DEF Init
  <2>4. /\ freed \in BOOLEAN /\ handler \in BOOLEAN
        /\ signalled \subseteq Workers /\ cancelled \subseteq Workers
        /\ mutex \in Workers \cup {NULL}
        /\ main \in MenuPlaces /\ process \in Outcomes
    BY Names DEF Init
  <2>5. /\ places \in Nat /\ EMPTY \in Nat /\ FILLED \in Nat
        /\ producer_passes \in Nat /\ consumer_passes \in Nat
        /\ Len(msgs) <= places
    BY <2>1, <2>2 DEF Init
  <2>6. QED
    BY <2>1, <2>3, <2>4, <2>5 DEF TypeOK
<1>2. /\ Holding(Producers) = {} /\ Holding(Consumers) = {}
      /\ Owing(Producers) = {} /\ Owing(Consumers) = {}
  BY DEF Init, Holding, Owing, HoldingPlaces, OwingPlaces, Workers
<1>3. TokenAccounting
  BY <1>2, FS_EmptySet, Lab5Assumption DEF Init, TokenAccounting
<1>4. MutexOwned /\ NothingDisplaysNull
  BY Lab5Assumption DEF Init, MutexOwned, NothingDisplaysNull, Workers
<1>5. QED
  BY <1>1, <1>3, <1>4 DEF IInv

\* Type correctness is kept by every step, given the invariant.
LEMMA TypeStep ==
    ASSUME IInv, [Next]_vars
    PROVE  TypeOK'
<1> USE DEF IInv, Goto
<1>1. CASE UNCHANGED vars
  BY <1>1 DEF TypeOK, vars, queueVars, semVars, passVars, stopVars, mainVars
<1>2. ASSUME NEW t \in Workers, Worker(t) \/ Deliver(t)
      PROVE  TypeOK'
  <2> USE DEF queueVars, semVars, passVars, stopVars, mainVars, TypeOK
  <2>1. CASE Start(t)
    BY <2>1, Names DEF Start
  <2>2. CASE Lock(t)
    BY <2>2, Names DEF Lock
  <2>3. CASE LoopTest(t)
    BY <2>3, Names DEF LoopTest
  <2>4. CASE Report(t)
    BY <2>4, Names DEF Report
  <2>5. CASE Cancel(t)
    BY <2>5, Names DEF Cancel
  <2>6. CASE Deliver(t)
    BY <2>6, Names DEF Deliver
  <2>7. CASE t \in Producers /\ ProducerWait(t)
    BY <2>7, Names DEF ProducerWait
  <2>8. CASE t \in Producers /\ ProducerPass(t)
    BY <2>8, Names DEF ProducerPass
  <2>9. CASE t \in Producers /\ ProducerAdd(t)
    BY <2>9, Names DEF ProducerAdd, Queue!AddedMsgs, Queue!Full
  <2>10. CASE t \in Producers /\ ProducerPost(t)
    BY <2>10, Names DEF ProducerPost
  <2>11. CASE t \in Consumers /\ ConsumerWait(t)
    BY <2>11, Names DEF ConsumerWait
  <2>12. CASE t \in Consumers /\ ConsumerPass(t)
    BY <2>12, Names DEF ConsumerPass
  <2>13. CASE t \in Consumers /\ ConsumerExtract(t)
    BY <2>13, Names DEF ConsumerExtract, Queue!ExtractedMsgs, Queue!ExtractedRet
  <2>14. CASE t \in Consumers /\ ConsumerPost(t)
    BY <2>14, Names DEF ConsumerPost
  <2>15. CASE t \in Consumers /\ ConsumerDisplay(t)
    BY <2>15, Names DEF ConsumerDisplay
  <2>16. QED
    BY <1>2, <2>1, <2>2, <2>3, <2>4, <2>5, <2>6, <2>7, <2>8, <2>9, <2>10,
       <2>11, <2>12, <2>13, <2>14, <2>15 DEF Worker, Producer, Consumer
<1>3. ASSUME Main
      PROVE  TypeOK'
  <2> USE DEF queueVars, semVars, passVars, stopVars, mainVars, TypeOK
  <2>1. ASSUME NEW t \in Workers, Create(t) PROVE TypeOK'
    BY <2>1, Names DEF Create
  <2>2. ASSUME NEW num \in 0..Cardinality(Workers), Kill(num) PROVE TypeOK'
    <3>1. num \in Nat /\ num + 1 \in 1..Len(list) /\ list[num + 1] \in Workers
      BY <2>2, FS_CardinalityType, ElementOfSeq DEF Kill
    <3>2. /\ \A i \in 1..num : list[i] \in Workers
          /\ \A i \in (num + 2)..Len(list) : list[i] \in Workers
      BY <3>1, ElementOfSeq
    <3>3. /\ SubSeq(list, 1, num) \in Seq(Workers)
          /\ SubSeq(list, num + 2, Len(list)) \in Seq(Workers)
      BY <3>1, <3>2, SubSeqProperties
    <3>4. list' \in Seq(Workers)
      BY <2>2, <3>3, ConcatProperties DEF Kill
    <3>5. QED
      BY <2>2, <3>1, <3>4, Names DEF Kill
  <2>3. CASE ChooseResize
    BY <2>3, Names DEF ChooseResize
  <2>4. CASE Insert
    BY <2>4, Names DEF Insert
  <2>5. CASE Delete
    <3>1. CASE places = 0
      BY <2>5, <3>1, Names DEF Delete
    <3>2. CASE places # 0
      <4>1. places' \in Nat
        BY <2>5, <3>2 DEF Delete
      <4>2. msgs' \in Seq(Message) /\ Len(msgs') <= places'
        <5>1. CASE Len(msgs) = places
          <6>1. msgs # <<>>
            BY <5>1, <3>2, EmptySeq
          <6>2. msgs' = Tail(msgs) /\ places' = places - 1
            BY <2>5, <5>1, <3>2 DEF Delete, Queue!ErasedMsgs, Queue!Full
          <6>3. QED
            BY <6>1, <6>2, <5>1, HeadTailProperties
        <5>2. CASE Len(msgs) # places
          <6>1. msgs' = msgs /\ places' = places - 1
            BY <2>5, <5>2, <3>2 DEF Delete, Queue!ErasedMsgs, Queue!Full
          <6>2. QED
            BY <6>1, <5>2, <3>2, LenProperties
        <5>3. QED
          BY <5>1, <5>2
      <4>3. QED
        BY <2>5, <3>2, <4>1, <4>2, Names DEF Delete
    <3>3. QED
      BY <3>1, <3>2
  <2>6. CASE Quit
    BY <2>6, Names DEF Quit
  <2>7. CASE CancelNext
    BY <2>7, Names DEF CancelNext
  <2>8. CASE FreeQueue
    BY <2>8, Names DEF FreeQueue
  <2>9. CASE Exit
    BY <2>9, Names DEF Exit
  <2>10. QED
    BY <1>3, <2>1, <2>2, <2>3, <2>4, <2>5, <2>6, <2>7, <2>8, <2>9 DEF Main
<1>4. QED
  BY <1>1, <1>2, <1>3 DEF Next, Ended

------------------------------------------------------------------------------

\* The counts as names of their own, which the arithmetic need not look into.
hp == Cardinality(Holding(Producers))
hc == Cardinality(Holding(Consumers))
op == Cardinality(Owing(Producers))
oc == Cardinality(Owing(Consumers))

Balanced ==
    /\ EMPTY + hp + oc = (places - Len(msgs)) + producer_passes
    /\ FILLED + hc + op = Len(msgs) + consumer_passes

\* The two equations survive a step: what the step moves into or out of a
\* worker's hands it takes from, or puts behind, a token.
LEMMA AccountingStep ==
    ASSUME IInv, [Next]_vars
    PROVE  TokenAccounting'
<1>0. TypeOK /\ TokenAccounting /\ TypeOK'
  BY TypeStep DEF IInv
<1> USE <1>0
<1>1. hp \in Nat /\ hc \in Nat /\ op \in Nat /\ oc \in Nat
  BY CountTypes DEF hp, hc, op, oc
<1>2. ASSUME pc' = pc
      PROVE  hp' = hp /\ hc' = hc /\ op' = op /\ oc' = oc
  BY <1>2 DEF Holding, Owing, hp, hc, op, oc
<1>3. ASSUME NEW t \in Producers, NEW from, NEW to, Goto(t, from, to)
      PROVE  /\ hp' + Holds(from) = hp + Holds(to)
             /\ op' + Owes(from) = op + Owes(to)
             /\ hc' = hc /\ oc' = oc /\ hp' \in Nat /\ op' \in Nat
  BY <1>3, CountsStep, Lab5Assumption DEF Goto, Workers, hp, hc, op, oc
<1>4. ASSUME NEW t \in Consumers, NEW from, NEW to, Goto(t, from, to)
      PROVE  /\ hc' + Holds(from) = hc + Holds(to)
             /\ oc' + Owes(from) = oc + Owes(to)
             /\ hp' = hp /\ op' = op /\ hc' \in Nat /\ oc' \in Nat
  BY <1>4, CountsStep, Lab5Assumption DEF Goto, Workers, hp, hc, op, oc
\* A move within Holding, or far from Holding and Owing, changes no count.
<1>5. ASSUME NEW t \in Workers, NEW from, NEW to, Goto(t, from, to),
             Holds(from) = Holds(to), Owes(from) = Owes(to)
      PROVE  hp' = hp /\ hc' = hc /\ op' = op /\ oc' = oc
  <2>1. /\ Holds(from) \in {0, 1} /\ Owes(from) \in {0, 1}
    BY DEF Holds, Owes
  <2>2. QED
    BY <1>1, <1>3, <1>4, <1>5, <2>1 DEF Workers
<1>a. /\ Len(msgs) \in Nat /\ places \in Nat /\ EMPTY \in Nat /\ FILLED \in Nat
      /\ producer_passes \in Nat /\ consumer_passes \in Nat
      /\ msgs \in Seq(Message) /\ Len(msgs) <= places
  BY LenProperties DEF TypeOK
<1>b. Balanced
  BY DEF TokenAccounting, Balanced, hp, hc, op, oc
<1>s. SafeAccess
  BY AccountingGivesSafeAccess
<1> USE DEF Balanced
<1>6. ASSUME UNCHANGED vars
      PROVE  Balanced'
  <2>1. /\ pc' = pc /\ places' = places /\ msgs' = msgs
        /\ EMPTY' = EMPTY /\ FILLED' = FILLED
        /\ producer_passes' = producer_passes
        /\ consumer_passes' = consumer_passes
    BY <1>6 DEF vars, queueVars, semVars, passVars
  <2>2. hp' = hp /\ hc' = hc /\ op' = op /\ oc' = oc
    BY <2>1, <1>2
  <2>3. QED
    BY <2>1, <2>2, <1>b
<1>7. ASSUME NEW t \in Workers, Worker(t) \/ Deliver(t)
      PROVE  Balanced'
  <2> USE <1>1 DEF queueVars, semVars, passVars
  <2>1. CASE Start(t)
    BY <2>1, <1>b, <1>5, PlaceValues DEF Start
  <2>2. CASE Lock(t)
    BY <2>2, <1>b, <1>5, PlaceValues DEF Lock
  <2>3. CASE LoopTest(t)
    BY <2>3, <1>b, <1>5, PlaceValues DEF LoopTest
  <2>4. CASE Report(t)
    BY <2>4, <1>2, <1>b, <1>5, PlaceValues DEF Report
  <2>5. CASE Cancel(t)
    BY <2>5, <1>b, <1>5, PlaceValues DEF Cancel, Goto
  <2>6. CASE Deliver(t)
    BY <2>6, <1>b, <1>2 DEF Deliver
  <2>7. CASE t \in Producers /\ ProducerWait(t)
    <3>1. /\ hp' = hp + 1 /\ op' = op
          /\ hc' = hc /\ oc' = oc
      <4>1. Goto(t, "wait", "lock")
        BY <2>7 DEF ProducerWait
      <4>2. QED
        BY <2>7, <4>1, <1>3, PlaceValues
    <3>2. QED
      BY <2>7, <3>1, <1>a, <1>b DEF ProducerWait
  <2>8. CASE t \in Producers /\ ProducerPass(t)
    <3>1. /\ hp' = hp - 1 /\ op' = op
          /\ hc' = hc /\ oc' = oc
      <4>1. Goto(t, "locked", "test")
        BY <2>8 DEF ProducerPass
      <4>2. QED
        BY <2>8, <4>1, <1>3, PlaceValues
    <3>2. /\ EMPTY' = EMPTY /\ FILLED' = FILLED /\ places' = places
          /\ Len(msgs') = Len(msgs)
          /\ producer_passes' = producer_passes - 1
          /\ consumer_passes' = consumer_passes
      BY <2>8, <1>a DEF ProducerPass
    <3>3. QED
      BY <3>1, <3>2, <1>a, <1>b
  <2>9. CASE t \in Producers /\ ProducerAdd(t)
    <3>1. Len(msgs) < places
      BY <2>9, <1>s DEF ProducerAdd, SafeAccess, Goto
    <3>2. Len(msgs') = Len(msgs) + 1
      BY <2>9, <3>1 DEF ProducerAdd, Queue!AddedMsgs, Queue!Full
    <3>3. /\ hp' = hp - 1 /\ op' = op + 1
          /\ hc' = hc /\ oc' = oc
      <4>1. Goto(t, "locked", "post")
        BY <2>9 DEF ProducerAdd
      <4>2. QED
        BY <2>9, <4>1, <1>3, PlaceValues
    <3>4. /\ EMPTY' = EMPTY /\ FILLED' = FILLED /\ places' = places
          /\ Len(msgs') = Len(msgs) + 1
          /\ producer_passes' = producer_passes
          /\ consumer_passes' = consumer_passes
      BY <2>9, <3>2, <1>a DEF ProducerAdd
    <3>5. QED
      BY <3>3, <3>4, <1>a, <1>b
  <2>10. CASE t \in Producers /\ ProducerPost(t)
    <3>1. /\ hp' = hp /\ op' = op - 1
          /\ hc' = hc /\ oc' = oc
      <4>1. Goto(t, "post", "report")
        BY <2>10 DEF ProducerPost
      <4>2. QED
        BY <2>10, <4>1, <1>3, PlaceValues
    <3>2. QED
      BY <2>10, <3>1, <1>a, <1>b DEF ProducerPost
  <2>11. CASE t \in Consumers /\ ConsumerWait(t)
    <3>1. /\ hp' = hp /\ op' = op
          /\ hc' = hc + 1 /\ oc' = oc
      <4>1. Goto(t, "wait", "lock")
        BY <2>11 DEF ConsumerWait
      <4>2. QED
        BY <2>11, <4>1, <1>4, PlaceValues
    <3>2. QED
      BY <2>11, <3>1, <1>a, <1>b DEF ConsumerWait
  <2>12. CASE t \in Consumers /\ ConsumerPass(t)
    <3>1. /\ hp' = hp /\ op' = op
          /\ hc' = hc - 1 /\ oc' = oc
      <4>1. Goto(t, "locked", "test")
        BY <2>12 DEF ConsumerPass
      <4>2. QED
        BY <2>12, <4>1, <1>4, PlaceValues
    <3>2. /\ EMPTY' = EMPTY /\ FILLED' = FILLED /\ places' = places
          /\ Len(msgs') = Len(msgs)
          /\ producer_passes' = producer_passes
          /\ consumer_passes' = consumer_passes - 1
      BY <2>12, <1>a DEF ConsumerPass
    <3>3. QED
      BY <3>1, <3>2, <1>a, <1>b
  <2>13. CASE t \in Consumers /\ ConsumerExtract(t)
    <3>1. msgs # <<>>
      BY <2>13, <1>s DEF ConsumerExtract, SafeAccess, Goto
    <3>2. Len(msgs) \in Nat /\ Len(msgs') = Len(msgs) - 1
      BY <2>13, <3>1, HeadTailProperties, LenProperties
         DEF ConsumerExtract, Queue!ExtractedMsgs
    <3>3. /\ hp' = hp /\ op' = op
          /\ hc' = hc - 1 /\ oc' = oc + 1
      <4>1. Goto(t, "locked", "post")
        BY <2>13 DEF ConsumerExtract
      <4>2. QED
        BY <2>13, <4>1, <1>4, PlaceValues
    <3>4. /\ EMPTY' = EMPTY /\ FILLED' = FILLED /\ places' = places
          /\ Len(msgs') = Len(msgs) - 1
          /\ producer_passes' = producer_passes
          /\ consumer_passes' = consumer_passes
      BY <2>13, <3>2, <1>a DEF ConsumerExtract
    <3>5. QED
      BY <3>3, <3>4, <1>a, <1>b
  <2>14. CASE t \in Consumers /\ ConsumerPost(t)
    <3>1. /\ hp' = hp /\ op' = op
          /\ hc' = hc /\ oc' = oc - 1
      <4>1. Goto(t, "post", "display")
        BY <2>14 DEF ConsumerPost
      <4>2. QED
        BY <2>14, <4>1, <1>4, PlaceValues
    <3>2. QED
      BY <2>14, <3>1, <1>a, <1>b DEF ConsumerPost
  <2>15. CASE t \in Consumers /\ ConsumerDisplay(t)
    BY <2>15, <1>b, <1>5, PlaceValues, Lab5Assumption
       DEF ConsumerDisplay, Workers
  <2>16. QED
    BY <1>7, <2>1, <2>2, <2>3, <2>4, <2>5, <2>6, <2>7, <2>8, <2>9, <2>10,
       <2>11, <2>12, <2>13, <2>14, <2>15 DEF Worker, Producer, Consumer
<1>8. ASSUME Main
      PROVE  Balanced'
  <2> USE <1>1 DEF queueVars, semVars, passVars
  <2>1. ASSUME NEW t \in Workers, Create(t) PROVE Balanced'
    BY <2>1, <1>b, <1>5, PlaceValues DEF Create
  <2>2. ASSUME NEW num \in 0..Cardinality(Workers), Kill(num)
        PROVE  Balanced'
    BY <2>2, <1>b, <1>2 DEF Kill
  <2>3. CASE ChooseResize
    BY <2>3, <1>b, <1>2 DEF ChooseResize
  <2>4. CASE Insert
    <3>1. hp' = hp /\ hc' = hc /\ op' = op /\ oc' = oc
      BY <2>4, <1>2 DEF Insert
    <3>2. /\ EMPTY' = EMPTY + 1 /\ FILLED' = FILLED /\ places' = places + 1
          /\ Len(msgs') = Len(msgs)
          /\ producer_passes' = producer_passes
          /\ consumer_passes' = consumer_passes
      BY <2>4 DEF Insert
    <3>3. QED
      BY <3>1, <3>2, <1>a, <1>b
  <2>5. CASE Delete
    <3>1. CASE places = 0
      BY <2>5, <1>b, <1>2, <3>1 DEF Delete
    <3>2. CASE places # 0 /\ Len(msgs) = places
      <4>1. msgs # <<>>
        BY <3>2, EmptySeq
      <4>2. Len(msgs) \in Nat /\ Len(msgs') = Len(msgs) - 1
        BY <2>5, <3>2, <4>1, HeadTailProperties, LenProperties
           DEF Delete, Queue!ErasedMsgs, Queue!Full
      <4>3. hp' = hp /\ hc' = hc /\ op' = op /\ oc' = oc
        BY <2>5, <1>2 DEF Delete
      <4>4. /\ EMPTY' = EMPTY /\ FILLED' = FILLED /\ places' = places - 1
            /\ producer_passes' = producer_passes
            /\ consumer_passes' = consumer_passes + 1
        BY <2>5, <3>2 DEF Delete, Queue!Full
      <4>5. QED
        BY <4>2, <4>3, <4>4, <1>a, <1>b
    <3>3. CASE places # 0 /\ Len(msgs) # places
      <4>1. hp' = hp /\ hc' = hc /\ op' = op /\ oc' = oc
        BY <2>5, <1>2 DEF Delete
      <4>2. /\ msgs' = msgs /\ places' = places - 1
            /\ producer_passes' = producer_passes + 1
            /\ consumer_passes' = consumer_passes
        BY <2>5, <3>3 DEF Delete, Queue!ErasedMsgs, Queue!Full
      <4>3. QED
        BY <2>5, <4>1, <4>2, <1>a, <1>b DEF Delete
    <3>4. QED
      BY <3>1, <3>2, <3>3
  <2>6. CASE Quit
    BY <2>6, <1>b, <1>2 DEF Quit
  <2>7. CASE CancelNext
    BY <2>7, <1>b, <1>2 DEF CancelNext
  <2>8. CASE FreeQueue
    BY <2>8, <1>b, <1>2 DEF FreeQueue
  <2>9. CASE Exit
    BY <2>9, <1>b, <1>2 DEF Exit
  <2>10. QED
    BY <1>8, <2>1, <2>2, <2>3, <2>4, <2>5, <2>6, <2>7, <2>8, <2>9 DEF Main
<1>9. QED
  BY <1>6, <1>7, <1>8 DEF Next, Ended, Balanced, TokenAccounting, hp, hc, op, oc

\* Only Lock, the three unlocking steps and the cancellation of the owner
\* touch the mutex or a worker in the critical section.
LEMMA MutexStep ==
    ASSUME IInv, [Next]_vars
    PROVE  MutexOwned'
<1> USE Lab5Assumption DEF IInv, MutexOwned, TypeOK, Goto
<1>1. CASE UNCHANGED vars
  BY <1>1 DEF vars
<1>2. ASSUME NEW t \in Workers, Worker(t) \/ Deliver(t)
      PROVE  MutexOwned'
  BY <1>2 DEF Worker, Producer, Consumer, Start, Lock, LoopTest, Report,
       Cancel, Deliver, ProducerWait, ProducerPass, ProducerAdd, ProducerPost,
       ConsumerWait, ConsumerPass, ConsumerExtract, ConsumerPost,
       ConsumerDisplay
<1>3. ASSUME Main
      PROVE  MutexOwned'
  <2>1. ASSUME NEW t \in Workers, Create(t) PROVE MutexOwned'
    BY <2>1 DEF Create
  <2>2. ASSUME NEW num, Kill(num) PROVE UNCHANGED <<mutex, pc>>
    BY <2>2 DEF Kill
  <2>3. ASSUME ChooseResize \/ Insert \/ Delete \/ Quit \/ CancelNext
               \/ FreeQueue \/ Exit
        PROVE  UNCHANGED <<mutex, pc>>
    BY <2>3 DEF ChooseResize, Insert, Delete, Quit, CancelNext, FreeQueue, Exit
  <2>4. UNCHANGED <<mutex, pc>> => MutexOwned'
    OBVIOUS
  <2>5. QED
    BY <1>3, <2>1, <2>2, <2>3, <2>4 DEF Main
<1>4. QED
  BY <1>1, <1>2, <1>3 DEF Next, Ended

\* A consumer leaves the critical section with a message, keeps it until it
\* has shown it, and nobody else writes its `taken'.
LEMMA DisplayStep ==
    ASSUME IInv, [Next]_vars
    PROVE  NothingDisplaysNull'
<1>0. /\ NothingDisplaysNull /\ SafeAccess /\ msgs \in Seq(Message)
      /\ pc \in [Workers -> Places]
      /\ taken \in [Consumers -> Message \cup {NULL}]
      /\ Consumers \subseteq Workers /\ NULL \notin Message
  BY AccountingGivesSafeAccess, Lab5Assumption DEF IInv, TypeOK, Workers
<1> USE <1>0 DEF NothingDisplaysNull, Goto
<1>1. CASE UNCHANGED vars
  BY <1>1 DEF vars
<1>2. ASSUME NEW t \in Workers, Worker(t) \/ Deliver(t)
      PROVE  NothingDisplaysNull'
  <2>1. CASE t \in Consumers /\ ConsumerExtract(t)
    <3>1. msgs # <<>>
      BY <2>1 DEF ConsumerExtract, SafeAccess
    <3>2. taken' = [taken EXCEPT ![t] = Head(msgs)] /\ Head(msgs) \in Message
      BY <2>1, <3>1, HeadTailProperties DEF ConsumerExtract, Queue!ExtractedRet
    <3>3. Head(msgs) # NULL
      BY <3>2
    <3>4. process' # "fault_in_display"
      BY <2>1 DEF ConsumerExtract
    <3>5. QED
      BY <2>1, <3>2, <3>3, <3>4 DEF ConsumerExtract
  <2>2. CASE t \in Consumers /\ ConsumerDisplay(t)
    BY <2>2 DEF ConsumerDisplay
  <2>3. CASE t \in Consumers
             /\ (ConsumerWait(t) \/ ConsumerPass(t) \/ ConsumerPost(t))
    BY <2>3 DEF ConsumerWait, ConsumerPass, ConsumerPost
  <2>4. CASE t \in Producers /\ Producer(t)
    <3>1. t \notin Consumers
      BY <2>4, Lab5Assumption
    <3>2. QED
      BY <2>4, <3>1 DEF Producer, ProducerWait, ProducerPass, ProducerAdd,
           ProducerPost
  <2>5. CASE \/ Start(t) \/ Lock(t) \/ LoopTest(t) \/ Report(t)
             \/ Cancel(t) \/ Deliver(t)
    BY <2>5 DEF Start, Lock, LoopTest, Report, Cancel, Deliver
  <2>6. QED
    BY <1>2, <2>1, <2>2, <2>3, <2>4, <2>5 DEF Worker, Consumer
<1>3. ASSUME Main
      PROVE  NothingDisplaysNull'
  BY <1>3 DEF Main, Create, Kill, ChooseResize, Insert, Delete, Quit,
       CancelNext, FreeQueue, Exit
<1>4. QED
  BY <1>1, <1>2, <1>3 DEF Next, Ended

------------------------------------------------------------------------------
(***************************************************************************)
(* The theorems                                                            *)
(***************************************************************************)

\* The invariant holds in every reachable state, whatever the number of
\* threads and places.
THEOREM Invariance == Spec => []IInv
<1>1. Init => IInv
  BY InitIInv
<1>2. IInv /\ [Next]_vars => IInv'
  BY TypeStep, AccountingStep, MutexStep, DisplayStep DEF IInv
<1>3. QED
  BY <1>1, <1>2, PTL DEF Spec

\* The variables keep the types main.c declares, and the queue never holds
\* more messages than places.
THEOREM TypeCorrectness == Spec => []TypeOK
<1>1. IInv => TypeOK
  BY DEF IInv
<1>2. QED
  BY <1>1, Invariance, PTL

\* Semaphores, passes and queue never drift apart under '+' and '-'.
THEOREM TokensAccounted == Spec => []TokenAccounting
<1>1. IInv => TokenAccounting
  BY DEF IInv
<1>2. QED
  BY <1>1, Invariance, PTL

\* A worker past the pass check finds its free place or its message.
THEOREM AccessIsSafe == Spec => []SafeAccess
<1>1. IInv => SafeAccess
  BY AccountingGivesSafeAccess DEF IInv
<1>2. QED
  BY <1>1, Invariance, PTL

\* display_message is never given NULL.
THEOREM NoNullDisplayed == Spec => []NothingDisplaysNull
<1>1. IInv => NothingDisplaysNull
  BY DEF IInv
<1>2. QED
  BY <1>1, Invariance, PTL

\* Producers and consumers never stand still while there is a place.
THEOREM NeverStandstill == Spec => []NoStandstill
<1>1. IInv => NoStandstill
  BY AccountingGivesNoStandstill DEF IInv
<1>2. QED
  BY <1>1, Invariance, PTL

==============================================================================
