-------------------------- MODULE Lab3SignalsProofs --------------------------
(***************************************************************************)
(* What the run of Lab3Signals checks for two children, proved for any     *)
(* number of forks, ticks and entries of statistics.                       *)
(*                                                                         *)
(* The argument: the list never holds a child twice (ListedOnce), and      *)
(* between the steps of a removal the pid pop_list has read is first the   *)
(* last of the list and then no longer on it (VictimPlaced).  So a fork    *)
(* adds one child that runs and one node, a removal takes one of each, and *)
(* nothing else changes either.  Signals go to children of the list,       *)
(* because the numbers and cursors the commands keep stay inside it        *)
(* (CursorPlaced): nobody who is dead is sent one, but by the SIGALRM that *)
(* meets a freed node.                                                     *)
(***************************************************************************)
EXTENDS Lab3Signals, FiniteSetTheorems, FunctionTheorems, SequenceTheorems,
        TLAPS

ListedOnce == \A j, k \in 1..Len(list) : list[j] = list[k] => j = k

\* Alive = Listed, but for the pid that is between free and kill.
VictimPlaced ==
    /\ parent \in {"freed", "faulted"} =>
         list # <<>> /\ victim = list[Len(list)]
    /\ parent = "kill" => victim \in Children \ Listed
    /\ parent \notin {"freed", "faulted", "kill"} => victim = NOPID

CursorPlaced == parent \in {"walk", "second"} => cursor \in 1..Len(list)

AliveListed == Alive = Listed \cup ({victim} \ {NOPID})

CntRight == cnt = Len(list) + (IF parent = "kill" THEN 1 ELSE 0)

\* The inductive invariant.
IInv ==
    /\ TypeOK /\ ListedOnce /\ VictimPlaced /\ CursorPlaced
    /\ AliveListed /\ CntRight

\* TypeOK but for the bound of cnt, which the other parts of IInv give.
BaseTypes ==
    /\ parent \in {"menu", "walk", "ask", "second", "k", "q", "freed", "kill"}
                  \cup ParentGone
    /\ task \in {"menu", "ask", "k", "q"} /\ cursor \in Nat
    /\ signal \in {"USR1", "USR2"} /\ victim \in Children \cup {NOPID}
    /\ list \in Seq(Children)
    /\ flag_p \in BOOLEAN /\ alarm \in BOOLEAN
    /\ child \in [Children -> {"absent", "turn", "loop", "dead"}]
    /\ i \in [Children -> 0..(COUNT_OF_REPEATS - 1)]
    /\ size \in [Children -> 0..ARR_SIZE]
    /\ \A c \in Children : ticking[c] => size[c] < ARR_SIZE
    /\ ticking \in [Children -> BOOLEAN]
    /\ continue_collect \in [Children -> BOOLEAN]
    /\ collect \in [Children -> BOOLEAN]
    /\ pending \in [Children -> SUBSET {"USR1", "USR2"}]

------------------------------------------------------------------------------
(***************************************************************************)
(* The list                                                                *)
(***************************************************************************)

\* No pid is NOPID, and there are finitely many.
LEMMA Pids ==
    /\ NOPID \notin Children
    /\ IsFiniteSet(Children) /\ Cardinality(Children) = MaxChildren
BY SignalsAssumption, FS_Interval DEF NOPID, Children

\* What a fork appends to the list.
LEMMA ListAppend ==
    ASSUME NEW l \in Seq(Children), NEW c \in Children
    PROVE  /\ Len(l) \in Nat
           /\ Append(l, c) \in Seq(Children) /\ Len(Append(l, c)) = Len(l) + 1
           /\ Append(l, c)[Len(l) + 1] = c
           /\ \A k \in 1..Len(l) : Append(l, c)[k] = l[k]
BY AppendProperties, LenProperties

\* What pop_list reads and what it leaves.
LEMMA ListFront ==
    ASSUME NEW l \in Seq(Children), l # <<>>
    PROVE  /\ Len(l) \in Nat \ {0} /\ l[Len(l)] \in Children
           /\ SubSeq(l, 1, Len(l) - 1) \in Seq(Children)
           /\ Len(SubSeq(l, 1, Len(l) - 1)) = Len(l) - 1
           /\ \A k \in 1..(Len(l) - 1) : SubSeq(l, 1, Len(l) - 1)[k] = l[k]
<1>1. Len(l) \in Nat \ {0}
  BY EmptySeq
<1>2. \A k \in 1..Len(l) : l[k] \in Children
  BY ElementOfSeq
<1>3. Len(l) - 1 \in Nat /\ \A k \in 1..(Len(l) - 1) : l[k] \in Children
  BY <1>1, <1>2
<1>4. Len(SubSeq(l, 1, Len(l) - 1)) = Len(l) - 1
  <2>1. Len(SubSeq(l, 1, Len(l) - 1))
          = IF 1 <= Len(l) - 1 THEN Len(l) - 1 - 1 + 1 ELSE 0
    BY <1>3, SubSeqProperties
  <2>2. \A n \in Nat \ {0} :
          (IF 1 <= n - 1 THEN n - 1 - 1 + 1 ELSE 0) = n - 1
    OBVIOUS
  <2>3. QED
    BY <1>1, <2>1, <2>2
<1>5. /\ SubSeq(l, 1, Len(l) - 1) \in Seq(Children)
      /\ \A k \in 1..(Len(l) - 1 - 1 + 1) :
           SubSeq(l, 1, Len(l) - 1)[k] = l[1 + k - 1]
  BY <1>3, SubSeqProperties
<1>6. \A k \in 1..(Len(l) - 1) : k \in 1..(Len(l) - 1 - 1 + 1) /\ 1 + k - 1 = k
  BY <1>1
<1>7. \A k \in 1..(Len(l) - 1) : SubSeq(l, 1, Len(l) - 1)[k] = l[k]
  BY <1>5, <1>6
<1>8. QED
  BY <1>1, <1>2, <1>4, <1>5, <1>7

\* The pids of the list are children.
LEMMA ListedPids ==
    ASSUME list \in Seq(Children)
    PROVE  /\ Listed \subseteq Children /\ Len(list) \in Nat
           /\ \A k \in 1..Len(list) : list[k] \in Listed
BY ElementOfSeq, LenProperties DEF Listed

\* A step that leaves the list alone leaves the same pids in it.
LEMMA SameList == list' = list => Listed' = Listed
BY DEF Listed

\* kill() leaves sets of signals.
LEMMA SentTypes ==
    ASSUME TypeOK, NEW sig \in {"USR1", "USR2"}, NEW S, Sent(sig, S)
    PROVE  pending' \in [Children -> SUBSET {"USR1", "USR2"}]
BY DEF TypeOK, Sent

\* What the unlinking of the last node does to a list without repetition.
LEMMA Unlinked ==
    ASSUME list \in Seq(Children), list # <<>>, ListedOnce,
           list' = SubSeq(list, 1, Len(list) - 1)
    PROVE  /\ Len(list) \in Nat \ {0} /\ Len(list') = Len(list) - 1
           /\ list' \in Seq(Children) /\ ListedOnce'
           /\ list[Len(list)] \in Children
           /\ Listed' = Listed \ {list[Len(list)]}
<1>1. /\ Len(list) \in Nat \ {0} /\ Len(list') = Len(list) - 1
      /\ list' \in Seq(Children) /\ list[Len(list)] \in Children
      /\ \A k \in 1..(Len(list) - 1) : list'[k] = list[k]
  BY ListFront
<1>2. /\ 1..Len(list') = 1..(Len(list) - 1)
      /\ 1..Len(list) = (1..(Len(list) - 1)) \cup {Len(list)}
      /\ Len(list) \notin 1..(Len(list) - 1)
  BY <1>1
<1>3. \A j, k \in 1..Len(list') : list'[j] = list'[k] => j = k
  BY <1>1, <1>2 DEF ListedOnce
<1>4. \A k \in 1..(Len(list) - 1) : list[k] # list[Len(list)]
  BY <1>1, <1>2 DEF ListedOnce
<1>5. Listed' = Listed \ {list[Len(list)]}
  <2>1. Listed' = {list[k] : k \in 1..(Len(list) - 1)}
    BY <1>1, <1>2 DEF Listed
  <2>2. Listed = {list[k] : k \in 1..(Len(list) - 1)} \cup {list[Len(list)]}
    BY <1>2 DEF Listed
  <2>3. list[Len(list)] \notin {list[k] : k \in 1..(Len(list) - 1)}
    BY <1>4
  <2>4. QED
    BY <2>1, <2>2, <2>3
<1>6. QED
  BY <1>1, <1>3, <1>5 DEF ListedOnce

\* A list without repetition has as many pids as nodes.
LEMMA ListedCount ==
    ASSUME list \in Seq(Children), ListedOnce
    PROVE  IsFiniteSet(Listed) /\ Cardinality(Listed) = Len(list)
<1>1. Len(list) \in Nat /\ list \in [1..Len(list) -> Listed]
  BY LenProperties DEF Listed
<1>2. list \in Bijection(1..Len(list), Listed)
  BY <1>1 DEF ListedOnce, Listed, Bijection, Injection, Surjection, IsInjective
<1>3. ExistsBijection(1..Len(list), Listed)
  BY <1>2 DEF ExistsBijection
<1>4. QED
  BY <1>1, <1>3, FS_CountingElements, FS_NatBijection

\* Together with the pid about to be killed they are no more than the forks.
LEMMA CntBound ==
    ASSUME list \in Seq(Children), ListedOnce, CntRight, VictimPlaced
    PROVE  cnt \in 0..Cardinality(Children)
<1>1. /\ IsFiniteSet(Listed) /\ Cardinality(Listed) = Len(list)
      /\ Listed \subseteq Children /\ Len(list) \in Nat
  BY ListedCount, ListedPids
<1>2. CASE parent = "kill"
  <2>1. /\ Cardinality(Listed \cup {victim}) = Len(list) + 1
        /\ Listed \cup {victim} \subseteq Children
    BY <1>1, <1>2, FS_AddElement DEF VictimPlaced
  <2>2. Cardinality(Listed \cup {victim}) <= Cardinality(Children)
    BY <2>1, Pids, FS_Subset
  <2>3. QED
    BY <1>1, <1>2, <2>1, <2>2, Pids, SignalsAssumption DEF CntRight
<1>3. CASE parent # "kill"
  <2>1. Cardinality(Listed) <= Cardinality(Children)
    BY <1>1, Pids, FS_Subset
  <2>2. QED
    BY <1>1, <1>3, <2>1, Pids, SignalsAssumption DEF CntRight
<1>4. QED
  BY <1>2, <1>3

------------------------------------------------------------------------------
(***************************************************************************)
(* The invariant is inductive                                              *)
(***************************************************************************)

\* At the start there is no child and no command.
LEMMA InitIInv == Init => IInv
<1> SUFFICES ASSUME Init PROVE IInv
  OBVIOUS
<1>1. list = <<>> /\ list \in Seq(Children) /\ Len(list) = 0
  BY EmptySeq DEF Init
<1>2. TypeOK
  <2>1. cnt \in 0..Cardinality(Children) /\ victim \in Children \cup {NOPID}
    BY SignalsAssumption, Pids DEF Init
  <2>2. /\ i \in [Children -> 0..(COUNT_OF_REPEATS - 1)]
        /\ size \in [Children -> 0..ARR_SIZE]
        /\ \A c \in Children : ticking[c] => size[c] < ARR_SIZE
    BY SignalsAssumption DEF Init
  <2>3. QED
    BY <1>1, <2>1, <2>2 DEF Init, TypeOK
<1>3. ListedOnce /\ VictimPlaced /\ CursorPlaced /\ CntRight
  BY <1>1 DEF Init, ListedOnce, VictimPlaced, CursorPlaced, CntRight
<1>4. AliveListed
  BY <1>1 DEF Init, AliveListed, Alive, Listed
<1>5. QED
  BY <1>2, <1>3, <1>4 DEF IInv

\* Type correctness is kept by every step, given the invariant: a tick is on
\* its way only while the statistics have an entry left.
LEMMA TypeStep ==
    ASSUME IInv, [Next]_vars
    PROVE  BaseTypes'
<1> USE SignalsAssumption
        DEF IInv, Goto, walkVars, listVars, flagVars, parentVars, loopVars,
            childVars, TypeOK, BaseTypes, ParentGone
<1>1. ASSUME NEW c \in Children, Turn(c)
      PROVE  BaseTypes'
  BY <1>1 DEF Turn
<1>2. ASSUME NEW c \in Children, TakeStatistic(c)
      PROVE  BaseTypes'
  BY <1>2 DEF TakeStatistic
<1>3. ASSUME NEW c \in Children, LoopEnd(c)
      PROVE  BaseTypes'
  <2>1. child' \in [Children -> {"absent", "turn", "loop", "dead"}]
    BY <1>3 DEF LoopEnd
  <2>2. /\ i' \in [Children -> 0..(COUNT_OF_REPEATS - 1)]
        /\ size' \in [Children -> 0..ARR_SIZE]
    BY <1>3 DEF LoopEnd
  <2>3. /\ ticking' \in [Children -> BOOLEAN]
        /\ continue_collect' \in [Children -> BOOLEAN]
    BY <1>3 DEF LoopEnd
  <2>4. \A k \in Children : ticking'[k] => size'[k] < ARR_SIZE
    BY <1>3 DEF LoopEnd
  <2>5. UNCHANGED <<parentVars, collect, pending>>
    BY <1>3 DEF LoopEnd
  <2>6. QED
    BY <2>1, <2>2, <2>3, <2>4, <2>5
<1>4. ASSUME NEW c \in Children, Deliver(c)
      PROVE  BaseTypes'
  BY <1>4 DEF Deliver
<1>5. ASSUME NEW c \in Children, Create(c)
      PROVE  BaseTypes'
  BY <1>5, ListAppend, CntBound DEF Create
<1>6. CASE DisableAll
  BY <1>6 DEF DisableAll, Walk
<1>7. CASE AllowAll
  BY <1>7 DEF AllowAll, Walk
<1>8. CASE Prefer
  BY <1>8 DEF Prefer, Walk
<1>9. CASE AllowNobody
  BY <1>9 DEF AllowNobody
<1>10. ASSUME NEW n \in 1..Cardinality(Children), Disable(n)
       PROVE  BaseTypes'
  <2>1. n \in Nat
    BY Pids
  <2>2. QED
    BY <1>10, <2>1 DEF Disable, Second
<1>11. ASSUME NEW n \in 1..Cardinality(Children), Allow(n)
       PROVE  BaseTypes'
  <2>1. n \in Nat
    BY Pids
  <2>2. QED
    BY <1>11, <2>1, SentTypes DEF Allow, Second
<1>12. ASSUME NEW n \in 0..Cardinality(Children), Number(n)
       PROVE  BaseTypes'
  BY <1>12 DEF Number
<1>13. CASE WalkNext
  <2>1. pending' \in [Children -> SUBSET {"USR1", "USR2"}]
    BY <1>13, SentTypes DEF WalkNext
  <2>2. CASE cursor' = cursor + 1 /\ UNCHANGED <<parent, task, signal>>
    BY <1>13, <2>1, <2>2 DEF WalkNext
  <2>3. CASE parent' = task /\ Idle
    BY <1>13, <2>1, <2>3 DEF WalkNext, Idle
  <2>4. QED
    BY <1>13, <2>2, <2>3 DEF WalkNext
<1>14. CASE PreferNobody
  BY <1>14 DEF PreferNobody
<1>15. CASE SendSecond
  BY <1>15, SentTypes DEF SendSecond, Idle
<1>16. CASE DeleteAll
  BY <1>16 DEF DeleteAll
<1>17. CASE PopFree
  BY <1>17, ListFront DEF PopFree
<1>18. CASE PopUnlink
  BY <1>18, ListFront DEF PopUnlink
<1>19. CASE KillVictim
  BY <1>19 DEF KillVictim, Dies, Idle, VictimPlaced, CntRight
<1>20. CASE Deleted
  BY <1>20 DEF Deleted
<1>21. CASE Leave
  BY <1>21 DEF Leave
<1>22. CASE Alarm
  BY <1>22, SentTypes DEF Alarm, MeetsFreed
<1>23. CASE AlarmOverFreed
  <2>1. pending' \in [Children -> SUBSET {"USR1", "USR2"}]
    BY <1>23, SentTypes DEF AlarmOverFreed
  <2>2. QED
    BY <1>23, <2>1 DEF AlarmOverFreed, MeetsFreed
<1>24. CASE UNCHANGED vars
  BY <1>24 DEF vars
<1>25. QED
  BY <1>1, <1>2, <1>3, <1>4, <1>5, <1>6, <1>7, <1>8, <1>9, <1>10, <1>11,
     <1>12, <1>13, <1>14, <1>15, <1>16, <1>17, <1>18, <1>19, <1>20, <1>21,
     <1>22, <1>23, <1>24
    DEF Next, Parent, Child, Runs, NextTurn, Show, Silent, Busy, Ended

\* Only a child that was never listed is appended.
LEMMA OnceStep ==
    ASSUME IInv, [Next]_vars
    PROVE  ListedOnce'
<1> USE DEF IInv, Goto, walkVars, listVars, flagVars, parentVars, loopVars,
            childVars, ListedOnce, TypeOK
<1>1. ASSUME NEW c \in Children, Turn(c)
      PROVE  ListedOnce'
  BY <1>1 DEF Turn
<1>2. ASSUME NEW c \in Children, TakeStatistic(c)
      PROVE  ListedOnce'
  BY <1>2 DEF TakeStatistic
<1>3. ASSUME NEW c \in Children, LoopEnd(c)
      PROVE  ListedOnce'
  BY <1>3 DEF LoopEnd
<1>4. ASSUME NEW c \in Children, Deliver(c)
      PROVE  ListedOnce'
  BY <1>4 DEF Deliver
<1>5. ASSUME NEW c \in Children, Create(c)
      PROVE  ListedOnce'
  <2>1. /\ list \in Seq(Children) /\ list' = Append(list, c)
        /\ c \notin Alive
    BY <1>5 DEF Create, Alive
  <2>2. \A k \in 1..Len(list) : list[k] # c
    BY <2>1 DEF AliveListed, Listed
  <2>3. /\ Len(list) \in Nat /\ Len(list') = Len(list) + 1
        /\ list'[Len(list) + 1] = c
        /\ \A k \in 1..Len(list) : list'[k] = list[k]
    BY <2>1, ListAppend
  <2>4. \A k \in 1..Len(list') : k \in 1..Len(list) \/ k = Len(list) + 1
    BY <2>3
  <2>5. QED
    BY <2>2, <2>3, <2>4
<1>6. CASE DisableAll
  BY <1>6 DEF DisableAll, Walk
<1>7. CASE AllowAll
  BY <1>7 DEF AllowAll, Walk
<1>8. CASE Prefer
  BY <1>8 DEF Prefer, Walk
<1>9. CASE AllowNobody
  BY <1>9 DEF AllowNobody
<1>10. ASSUME NEW n \in 1..Cardinality(Children), Disable(n)
       PROVE  ListedOnce'
  BY <1>10 DEF Disable, Second
<1>11. ASSUME NEW n \in 1..Cardinality(Children), Allow(n)
       PROVE  ListedOnce'
  BY <1>11 DEF Allow, Second
<1>12. ASSUME NEW n \in 0..Cardinality(Children), Number(n)
       PROVE  ListedOnce'
  BY <1>12 DEF Number
<1>13. CASE WalkNext
  BY <1>13 DEF WalkNext, Idle
<1>14. CASE PreferNobody
  BY <1>14 DEF PreferNobody
<1>15. CASE SendSecond
  BY <1>15 DEF SendSecond, Idle
<1>16. CASE DeleteAll
  BY <1>16 DEF DeleteAll
<1>17. CASE PopFree
  BY <1>17 DEF PopFree
<1>18. CASE PopUnlink
  BY <1>18, Unlinked DEF PopUnlink, VictimPlaced
<1>19. CASE KillVictim
  BY <1>19 DEF KillVictim, Dies, Idle
<1>20. CASE Deleted
  BY <1>20 DEF Deleted
<1>21. CASE Leave
  BY <1>21 DEF Leave
<1>22. CASE Alarm
  BY <1>22 DEF Alarm, MeetsFreed
<1>23. CASE AlarmOverFreed
  BY <1>23 DEF AlarmOverFreed, MeetsFreed
<1>24. CASE UNCHANGED vars
  BY <1>24 DEF vars
<1>25. QED
  BY <1>1, <1>2, <1>3, <1>4, <1>5, <1>6, <1>7, <1>8, <1>9, <1>10, <1>11,
     <1>12, <1>13, <1>14, <1>15, <1>16, <1>17, <1>18, <1>19, <1>20, <1>21,
     <1>22, <1>23, <1>24
    DEF Next, Parent, Child, Runs, NextTurn, Show, Silent, Busy, Ended

\* The pid that is killed is the one that has just left the list.
LEMMA VictimStep ==
    ASSUME IInv, [Next]_vars
    PROVE  VictimPlaced'
<1> USE SameList
        DEF IInv, Goto, walkVars, listVars, flagVars, parentVars, loopVars,
            childVars, VictimPlaced, TypeOK, ParentGone
<1>1. ASSUME NEW c \in Children, Turn(c)
      PROVE  VictimPlaced'
  BY <1>1 DEF Turn
<1>2. ASSUME NEW c \in Children, TakeStatistic(c)
      PROVE  VictimPlaced'
  BY <1>2 DEF TakeStatistic
<1>3. ASSUME NEW c \in Children, LoopEnd(c)
      PROVE  VictimPlaced'
  BY <1>3 DEF LoopEnd
<1>4. ASSUME NEW c \in Children, Deliver(c)
      PROVE  VictimPlaced'
  BY <1>4 DEF Deliver
<1>5. ASSUME NEW c \in Children, Create(c)
      PROVE  VictimPlaced'
  BY <1>5 DEF Create
<1>6. CASE DisableAll
  BY <1>6 DEF DisableAll, Walk
<1>7. CASE AllowAll
  BY <1>7 DEF AllowAll, Walk
<1>8. CASE Prefer
  BY <1>8 DEF Prefer, Walk
<1>9. CASE AllowNobody
  BY <1>9 DEF AllowNobody
<1>10. ASSUME NEW n \in 1..Cardinality(Children), Disable(n)
       PROVE  VictimPlaced'
  BY <1>10 DEF Disable, Second
<1>11. ASSUME NEW n \in 1..Cardinality(Children), Allow(n)
       PROVE  VictimPlaced'
  BY <1>11 DEF Allow, Second
<1>12. ASSUME NEW n \in 0..Cardinality(Children), Number(n)
       PROVE  VictimPlaced'
  BY <1>12 DEF Number
<1>13. CASE WalkNext
  BY <1>13 DEF WalkNext, Idle
<1>14. CASE PreferNobody
  BY <1>14 DEF PreferNobody
<1>15. CASE SendSecond
  BY <1>15 DEF SendSecond, Idle
<1>16. CASE DeleteAll
  BY <1>16 DEF DeleteAll
<1>17. CASE PopFree
  BY <1>17, ListFront DEF PopFree
<1>18. CASE PopUnlink
  BY <1>18, Unlinked DEF PopUnlink
<1>19. CASE KillVictim
  BY <1>19 DEF KillVictim, Dies, Idle
<1>20. CASE Deleted
  BY <1>20 DEF Deleted
<1>21. CASE Leave
  BY <1>21 DEF Leave
<1>22. CASE Alarm
  BY <1>22 DEF Alarm, MeetsFreed
<1>23. CASE AlarmOverFreed
  BY <1>23 DEF AlarmOverFreed, MeetsFreed
<1>24. CASE UNCHANGED vars
  BY <1>24 DEF vars
<1>25. QED
  BY <1>1, <1>2, <1>3, <1>4, <1>5, <1>6, <1>7, <1>8, <1>9, <1>10, <1>11,
     <1>12, <1>13, <1>14, <1>15, <1>16, <1>17, <1>18, <1>19, <1>20, <1>21,
     <1>22, <1>23, <1>24
    DEF Next, Parent, Child, Runs, NextTurn, Show, Silent, Busy, Ended

\* Nobody changes the list while a number or a cursor points into it.
LEMMA CursorStep ==
    ASSUME IInv, [Next]_vars
    PROVE  CursorPlaced'
<1> USE DEF IInv, Goto, walkVars, listVars, flagVars, parentVars, loopVars,
            childVars, CursorPlaced, TypeOK, ParentGone, CntRight
<1>1. ASSUME NEW c \in Children, Turn(c)
      PROVE  CursorPlaced'
  BY <1>1 DEF Turn
<1>2. ASSUME NEW c \in Children, TakeStatistic(c)
      PROVE  CursorPlaced'
  BY <1>2 DEF TakeStatistic
<1>3. ASSUME NEW c \in Children, LoopEnd(c)
      PROVE  CursorPlaced'
  BY <1>3 DEF LoopEnd
<1>4. ASSUME NEW c \in Children, Deliver(c)
      PROVE  CursorPlaced'
  BY <1>4 DEF Deliver
<1>5. ASSUME NEW c \in Children, Create(c)
      PROVE  CursorPlaced'
  BY <1>5 DEF Create
<1>6. CASE DisableAll
  BY <1>6 DEF DisableAll, Walk
<1>7. CASE AllowAll
  BY <1>7 DEF AllowAll, Walk
<1>8. CASE Prefer
  BY <1>8 DEF Prefer, Walk
<1>9. CASE AllowNobody
  BY <1>9 DEF AllowNobody
<1>10. ASSUME NEW n \in 1..Cardinality(Children), Disable(n)
       PROVE  CursorPlaced'
  BY <1>10 DEF Disable, Second
<1>11. ASSUME NEW n \in 1..Cardinality(Children), Allow(n)
       PROVE  CursorPlaced'
  BY <1>11 DEF Allow, Second
<1>12. ASSUME NEW n \in 0..Cardinality(Children), Number(n)
       PROVE  CursorPlaced'
  BY <1>12 DEF Number
<1>13. CASE WalkNext
  BY <1>13 DEF WalkNext, Idle
<1>14. CASE PreferNobody
  BY <1>14 DEF PreferNobody
<1>15. CASE SendSecond
  BY <1>15 DEF SendSecond, Idle
<1>16. CASE DeleteAll
  BY <1>16 DEF DeleteAll
<1>17. CASE PopFree
  BY <1>17 DEF PopFree
<1>18. CASE PopUnlink
  BY <1>18 DEF PopUnlink
<1>19. CASE KillVictim
  BY <1>19 DEF KillVictim, Dies, Idle
<1>20. CASE Deleted
  BY <1>20 DEF Deleted
<1>21. CASE Leave
  BY <1>21 DEF Leave
<1>22. CASE Alarm
  BY <1>22 DEF Alarm, MeetsFreed
<1>23. CASE AlarmOverFreed
  BY <1>23 DEF AlarmOverFreed, MeetsFreed
<1>24. CASE UNCHANGED vars
  BY <1>24 DEF vars
<1>25. QED
  BY <1>1, <1>2, <1>3, <1>4, <1>5, <1>6, <1>7, <1>8, <1>9, <1>10, <1>11,
     <1>12, <1>13, <1>14, <1>15, <1>16, <1>17, <1>18, <1>19, <1>20, <1>21,
     <1>22, <1>23, <1>24
    DEF Next, Parent, Child, Runs, NextTurn, Show, Silent, Busy, Ended

\* A fork lists what it starts, and KillVictim kills what PopUnlink has taken
\* off the list.
LEMMA AliveStep ==
    ASSUME IInv, [Next]_vars
    PROVE  AliveListed'
<1> USE SameList
        DEF IInv, Goto, walkVars, listVars, flagVars, parentVars, loopVars,
            childVars, AliveListed, TypeOK, Alive
<1>1. ASSUME NEW c \in Children, Turn(c)
      PROVE  AliveListed'
  BY <1>1 DEF Turn
<1>2. ASSUME NEW c \in Children, TakeStatistic(c)
      PROVE  AliveListed'
  BY <1>2 DEF TakeStatistic
<1>3. ASSUME NEW c \in Children, LoopEnd(c)
      PROVE  AliveListed'
  BY <1>3 DEF LoopEnd
<1>4. ASSUME NEW c \in Children, Deliver(c)
      PROVE  AliveListed'
  BY <1>4 DEF Deliver
<1>5. ASSUME NEW c \in Children, Create(c)
      PROVE  AliveListed'
  BY <1>5, ListAppend DEF Create, VictimPlaced, Listed
<1>6. CASE DisableAll
  BY <1>6 DEF DisableAll, Walk
<1>7. CASE AllowAll
  BY <1>7 DEF AllowAll, Walk
<1>8. CASE Prefer
  BY <1>8 DEF Prefer, Walk
<1>9. CASE AllowNobody
  BY <1>9 DEF AllowNobody
<1>10. ASSUME NEW n \in 1..Cardinality(Children), Disable(n)
       PROVE  AliveListed'
  BY <1>10 DEF Disable, Second
<1>11. ASSUME NEW n \in 1..Cardinality(Children), Allow(n)
       PROVE  AliveListed'
  BY <1>11 DEF Allow, Second
<1>12. ASSUME NEW n \in 0..Cardinality(Children), Number(n)
       PROVE  AliveListed'
  BY <1>12 DEF Number
<1>13. CASE WalkNext
  BY <1>13 DEF WalkNext, Idle
<1>14. CASE PreferNobody
  BY <1>14 DEF PreferNobody
<1>15. CASE SendSecond
  BY <1>15 DEF SendSecond, Idle
<1>16. CASE DeleteAll
  BY <1>16 DEF DeleteAll
<1>17. CASE PopFree
  BY <1>17, ListFront, ListedPids DEF PopFree, VictimPlaced, Listed
<1>18. CASE PopUnlink
  BY <1>18, Unlinked, Pids DEF PopUnlink, VictimPlaced
<1>19. CASE KillVictim
  BY <1>19 DEF KillVictim, Dies, Idle, VictimPlaced, Listed
<1>20. CASE Deleted
  BY <1>20 DEF Deleted
<1>21. CASE Leave
  BY <1>21 DEF Leave
<1>22. CASE Alarm
  BY <1>22 DEF Alarm, MeetsFreed
<1>23. CASE AlarmOverFreed
  BY <1>23 DEF AlarmOverFreed, MeetsFreed
<1>24. CASE UNCHANGED vars
  BY <1>24 DEF vars
<1>25. QED
  BY <1>1, <1>2, <1>3, <1>4, <1>5, <1>6, <1>7, <1>8, <1>9, <1>10, <1>11,
     <1>12, <1>13, <1>14, <1>15, <1>16, <1>17, <1>18, <1>19, <1>20, <1>21,
     <1>22, <1>23, <1>24
    DEF Next, Parent, Child, Runs, NextTurn, Show, Silent, Busy, Ended

\* cnt follows the list, one removal late.
LEMMA CntStep ==
    ASSUME IInv, [Next]_vars
    PROVE  CntRight'
<1> USE DEF IInv, Goto, walkVars, listVars, flagVars, parentVars, loopVars,
            childVars, CntRight, TypeOK, VictimPlaced, ParentGone
<1>1. ASSUME NEW c \in Children, Turn(c)
      PROVE  CntRight'
  BY <1>1 DEF Turn
<1>2. ASSUME NEW c \in Children, TakeStatistic(c)
      PROVE  CntRight'
  BY <1>2 DEF TakeStatistic
<1>3. ASSUME NEW c \in Children, LoopEnd(c)
      PROVE  CntRight'
  BY <1>3 DEF LoopEnd
<1>4. ASSUME NEW c \in Children, Deliver(c)
      PROVE  CntRight'
  BY <1>4 DEF Deliver
<1>5. ASSUME NEW c \in Children, Create(c)
      PROVE  CntRight'
  BY <1>5, ListAppend DEF Create
<1>6. CASE DisableAll
  BY <1>6 DEF DisableAll, Walk
<1>7. CASE AllowAll
  BY <1>7 DEF AllowAll, Walk
<1>8. CASE Prefer
  BY <1>8 DEF Prefer, Walk
<1>9. CASE AllowNobody
  BY <1>9 DEF AllowNobody
<1>10. ASSUME NEW n \in 1..Cardinality(Children), Disable(n)
       PROVE  CntRight'
  BY <1>10 DEF Disable, Second
<1>11. ASSUME NEW n \in 1..Cardinality(Children), Allow(n)
       PROVE  CntRight'
  BY <1>11 DEF Allow, Second
<1>12. ASSUME NEW n \in 0..Cardinality(Children), Number(n)
       PROVE  CntRight'
  BY <1>12 DEF Number
<1>13. CASE WalkNext
  BY <1>13 DEF WalkNext, Idle
<1>14. CASE PreferNobody
  BY <1>14 DEF PreferNobody
<1>15. CASE SendSecond
  BY <1>15 DEF SendSecond, Idle
<1>16. CASE DeleteAll
  BY <1>16 DEF DeleteAll
<1>17. CASE PopFree
  BY <1>17, ListFront DEF PopFree
<1>18. CASE PopUnlink
  BY <1>18, ListFront DEF PopUnlink
<1>19. CASE KillVictim
  BY <1>19 DEF KillVictim, Dies, Idle
<1>20. CASE Deleted
  BY <1>20 DEF Deleted
<1>21. CASE Leave
  BY <1>21 DEF Leave
<1>22. CASE Alarm
  BY <1>22 DEF Alarm, MeetsFreed
<1>23. CASE AlarmOverFreed
  BY <1>23 DEF AlarmOverFreed, MeetsFreed
<1>24. CASE UNCHANGED vars
  BY <1>24 DEF vars
<1>25. QED
  BY <1>1, <1>2, <1>3, <1>4, <1>5, <1>6, <1>7, <1>8, <1>9, <1>10, <1>11,
     <1>12, <1>13, <1>14, <1>15, <1>16, <1>17, <1>18, <1>19, <1>20, <1>21,
     <1>22, <1>23, <1>24
    DEF Next, Parent, Child, Runs, NextTurn, Show, Silent, Busy, Ended

\* The invariant is kept by every step.
LEMMA InvariantStep == IInv /\ [Next]_vars => IInv'
<1> SUFFICES ASSUME IInv, [Next]_vars PROVE IInv'
  OBVIOUS
<1>1. /\ BaseTypes' /\ ListedOnce' /\ VictimPlaced' /\ CursorPlaced'
      /\ AliveListed' /\ CntRight'
  BY TypeStep, OnceStep, VictimStep, CursorStep, AliveStep, CntStep
<1>2. (cnt \in 0..Cardinality(Children))'
  <2>1. (list \in Seq(Children))'
    BY <1>1 DEF BaseTypes
  <2>2. QED
    BY <1>1, <2>1, CntBound, PTL
<1>3. TypeOK'
  BY <1>1, <1>2 DEF TypeOK, BaseTypes
<1>4. QED
  BY <1>1, <1>3 DEF IInv

------------------------------------------------------------------------------
(***************************************************************************)
(* The theorems                                                            *)
(***************************************************************************)

\* The inductive invariant holds in every reachable state.
THEOREM Invariance == Spec => []IInv
BY InitIInv, InvariantStep, PTL DEF Spec

\* Every variable stays in its type; in particular the entry take_statistic
\* fills is always one of the ARR_SIZE there are.
THEOREM TypeCorrect == Spec => []TypeOK
<1>1. IInv => TypeOK
  BY DEF IInv
<1>2. QED
  BY <1>1, Invariance, PTL

\* The list, cnt and the children that run agree through '+', '-', 'k' and
\* 'q', so that every number up to cnt leads to a child that runs.
THEOREM ListKept == Spec => []EveryChildListed
<1>1. ASSUME IInv
      PROVE  EveryChildListed
  <2>1. Cardinality(Listed) = Len(list)
    BY <1>1, ListedCount DEF IInv, TypeOK
  <2>2. QED
    BY <1>1, <2>1 DEF IInv, AliveListed, CntRight, EveryChildListed
<1>2. QED
  BY <1>1, Invariance, PTL

------------------------------------------------------------------------------
(***************************************************************************)
(* Whom SIGUSR1 and SIGUSR2 are sent to                                    *)
(***************************************************************************)

\* The step sends nothing to a child that does not run.
SentToTheLiving ==
    \A c \in Children : pending'[c] \subseteq pending[c] \/ c \in Alive

\* main.c:104-106 and 180-182: no command, and no SIGALRM between the steps of
\* one, sends to a pid that has been killed, unless the SIGALRM finds the list
\* with a node that pop_list has freed and not yet unlinked.
SignalsReachTheLiving == [][SentToTheLiving \/ AlarmOverFreed]_vars

\* Signals go to children of the list, who run.  Only a walk over a freed node
\* may send elsewhere.
LEMMA SignalStep ==
    ASSUME IInv, [Next]_vars
    PROVE  SentToTheLiving \/ AlarmOverFreed
<1> USE DEF IInv, Goto, walkVars, listVars, flagVars, parentVars, loopVars,
            childVars, SentToTheLiving, TypeOK, AliveListed, Alive
<1>1. ASSUME NEW c \in Children, Turn(c)
      PROVE  SentToTheLiving
  BY <1>1 DEF Turn
<1>2. ASSUME NEW c \in Children, TakeStatistic(c)
      PROVE  SentToTheLiving
  BY <1>2 DEF TakeStatistic
<1>3. ASSUME NEW c \in Children, LoopEnd(c)
      PROVE  SentToTheLiving
  BY <1>3 DEF LoopEnd
<1>4. ASSUME NEW c \in Children, Deliver(c)
      PROVE  SentToTheLiving
  BY <1>4 DEF Deliver
<1>5. ASSUME NEW c \in Children, Create(c)
      PROVE  SentToTheLiving
  BY <1>5 DEF Create
<1>6. CASE DisableAll
  BY <1>6 DEF DisableAll, Walk
<1>7. CASE AllowAll
  BY <1>7 DEF AllowAll, Walk
<1>8. CASE Prefer
  BY <1>8 DEF Prefer, Walk
<1>9. CASE AllowNobody
  BY <1>9 DEF AllowNobody
<1>10. ASSUME NEW n \in 1..Cardinality(Children), Disable(n)
       PROVE  SentToTheLiving
  BY <1>10, ListedPids DEF Disable, Second, Sent, CursorPlaced, CntRight
<1>11. ASSUME NEW n \in 1..Cardinality(Children), Allow(n)
       PROVE  SentToTheLiving
  BY <1>11, ListedPids DEF Allow, Second, Sent, CursorPlaced, CntRight
<1>12. ASSUME NEW n \in 0..Cardinality(Children), Number(n)
       PROVE  SentToTheLiving
  BY <1>12 DEF Number
<1>13. CASE WalkNext
  BY <1>13, ListedPids DEF WalkNext, Idle, Sent, CursorPlaced, CntRight
<1>14. CASE PreferNobody
  BY <1>14 DEF PreferNobody
<1>15. CASE SendSecond
  BY <1>15, ListedPids DEF SendSecond, Idle, Sent, CursorPlaced, CntRight
<1>16. CASE DeleteAll
  BY <1>16 DEF DeleteAll
<1>17. CASE PopFree
  BY <1>17 DEF PopFree
<1>18. CASE PopUnlink
  BY <1>18 DEF PopUnlink
<1>19. CASE KillVictim
  BY <1>19 DEF KillVictim, Dies, Idle
<1>20. CASE Deleted
  BY <1>20 DEF Deleted
<1>21. CASE Leave
  BY <1>21 DEF Leave
<1>22. CASE Alarm
  BY <1>22, ListedPids DEF Alarm, MeetsFreed, Sent, CursorPlaced, CntRight
<1>23. CASE UNCHANGED vars
  BY <1>23 DEF vars
<1>24. QED
  BY <1>1, <1>2, <1>3, <1>4, <1>5, <1>6, <1>7, <1>8, <1>9, <1>10, <1>11,
     <1>12, <1>13, <1>14, <1>15, <1>16, <1>17, <1>18, <1>19, <1>20, <1>21,
     <1>22, <1>23
    DEF Next, Parent, Child, Runs, NextTurn, Show, Silent, Busy, Ended

\* kill() with SIGUSR1 or SIGUSR2 is called for a pid that is dead by nobody
\* but the walk that meets a freed node.
THEOREM NoSignalToTheDead == Spec => SignalsReachTheLiving
<1>1. IInv /\ [Next]_vars => [SentToTheLiving \/ AlarmOverFreed]_vars
  BY SignalStep
<1>2. QED
  BY <1>1, Invariance, PTL DEF Spec, SignalsReachTheLiving

==============================================================================
