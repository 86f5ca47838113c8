------------------------- MODULE Lab4ProcessesProofs -------------------------
(***************************************************************************)
(* What the runs of Lab4Processes check for three children and two places, *)
(* proved for any finite number of children and any number of places.      *)
(*                                                                         *)
(* The argument: a step moves one child between places of its program, so  *)
(* it moves one child into or out of the sets TokenAccounting counts, as   *)
(* it changes a semaphore or the ring.  The busy nodes run from begin to   *)
(* tail (BusyRun); so a child with a token and the mutex, for which the    *)
(* accounting leaves a free place or a message, finds it at tail or at     *)
(* begin.  Nobody is listed twice or after 'k' (ListFresh), and only who   *)
(* was told to stop leaves the loop.                                       *)
(***************************************************************************)
EXTENDS Lab4Processes, FiniteSetTheorems, SequenceTheorems, TLAPS

\* The busy nodes are those from begin up to tail, around the end of the
\* array of nodes where begin is the greater; and none or all if they meet.
BusyRun ==
    /\ begin < tail => Busy = begin..(tail - 1)
    /\ tail < begin => Busy = Nodes \ (tail..(begin - 1))
    /\ begin = tail => Busy = {} \/ Busy = Nodes

\* What a consumer has extracted it still has when it looks at it.
GotMessage ==
    \A c \in Consumers : /\ pc[c] \in {"unlock", "post"} => got[c] = TRUE
                         /\ pc[c] # "faulted"

\* One child, alive or killed there, is between sem_wait and sem_post.
MutexHeld ==
    /\ MUTEX = 1 => At(Children, {"locked", "unlock"}) = {}
    /\ MUTEX = 0 => At(Children, {"locked", "unlock"}) # {}
    /\ \A c, e \in At(Children, {"locked", "unlock"}) : c = e

\* Who is on the list is on it once, was forked, and has not been told to
\* stop; and only who was told to stop is done.
ListFresh ==
    /\ \A j, k \in 1..Len(list) : list[j] = list[k] /\ list[j] # NOPID => j = k
    /\ \A k \in 1..Len(list) : list[k] # NOPID =>
         /\ pc[list[k]] # "absent"
         /\ FLAG_CONTINUE[list[k]] = TRUE /\ list[k] \notin signalled
    /\ \A c \in Children :
         /\ pc[c] = "absent" => FLAG_CONTINUE[c] = TRUE /\ c \notin signalled
         /\ pc[c] = "done" => FLAG_CONTINUE[c] = FALSE
    /\ \A p \in Producers : pc[p] # "faulted"

\* Nobody is killed from the menu.
QuitKills == main = "menu" => killed = {}

\* The inductive invariant.
IInv ==
    /\ TypeOK /\ TokenAccounting /\ BusyRun /\ GotMessage /\ MutexHeld
    /\ ListFresh /\ QuitKills

------------------------------------------------------------------------------
(***************************************************************************)
(* The ring                                                                *)
(***************************************************************************)

\* Following, without the remainder.
LEMMA FollowingNode ==
    ASSUME NEW n \in Nodes
    PROVE  /\ Following(n) = IF n = BUFFER_SIZE - 1 THEN 0 ELSE n + 1
           /\ Following(n) \in Nodes
<1>1. BUFFER_SIZE \in Nat \ {0} /\ n \in Nat /\ n < BUFFER_SIZE
  BY Lab4Assumption DEF Nodes
<1>2. \A m, b \in Nat : m < b => m % b = m
  OBVIOUS
<1>3. \A b \in Nat \ {0} : b % b = 0
  OBVIOUS
<1>4. CASE n = BUFFER_SIZE - 1
  BY <1>1, <1>3, <1>4 DEF Following, Nodes
<1>5. CASE n # BUFFER_SIZE - 1
  BY <1>1, <1>2, <1>5 DEF Following, Nodes
<1>6. QED
  BY <1>4, <1>5

\* There are BUFFER_SIZE nodes, of which Busy is a part.
LEMMA NodeCounts ==
    /\ BUFFER_SIZE \in Nat /\ 0 \in Nodes
    /\ IsFiniteSet(Nodes) /\ Cardinality(Nodes) = BUFFER_SIZE
    /\ IsFiniteSet(Busy) /\ Cardinality(Busy) \in Nat
    /\ Cardinality(Busy) <= BUFFER_SIZE
<1>1. BUFFER_SIZE \in Nat \ {0}
  BY Lab4Assumption
<1>2. /\ IsFiniteSet(0..(BUFFER_SIZE - 1))
      /\ Cardinality(0..(BUFFER_SIZE - 1))
           = IF 0 > BUFFER_SIZE - 1 THEN 0 ELSE BUFFER_SIZE - 1 - 0 + 1
  BY <1>1, FS_Interval
<1>3. IsFiniteSet(Nodes) /\ Cardinality(Nodes) = BUFFER_SIZE /\ 0 \in Nodes
  BY <1>1, <1>2 DEF Nodes
<1>4. Busy \subseteq Nodes
  BY DEF Busy
<1>5. QED
  BY <1>1, <1>3, <1>4, FS_Subset, FS_CardinalityType

\* What marking a node does to the number of busy ones.
LEMMA Marked ==
    ASSUME busy \in [Nodes -> BOOLEAN], NEW n \in Nodes,
           ~busy[n], busy' = [busy EXCEPT ![n] = TRUE]
    PROVE  Busy' = Busy \cup {n} /\ Cardinality(Busy') = Cardinality(Busy) + 1
<1>1. Busy' = Busy \cup {n} /\ n \notin Busy
  BY DEF Busy
<1>2. QED
  BY <1>1, NodeCounts, FS_AddElement

LEMMA Unmarked ==
    ASSUME busy \in [Nodes -> BOOLEAN], NEW n \in Nodes,
           busy[n], busy' = [busy EXCEPT ![n] = FALSE]
    PROVE  Busy' = Busy \ {n} /\ Cardinality(Busy') = Cardinality(Busy) - 1
<1>1. Busy' = Busy \ {n} /\ n \in Busy
  BY DEF Busy
<1>2. QED
  BY <1>1, NodeCounts, FS_RemoveElement

\* Marks that stay the same.
LEMMA SameBusy == busy' = busy => Busy' = Busy
BY DEF Busy

------------------------------------------------------------------------------
(***************************************************************************)
(* Counting children                                                       *)
(***************************************************************************)

\* What a child at a place contributes to the counts of TokenAccounting.
Holds(place) == IF place \in {"lock", "locked"} THEN 1 ELSE 0
Owes(place)  == IF place \in {"unlock", "post"} THEN 1 ELSE 0

\* The counts as names of their own, which arithmetic need not look into.
hp == Cardinality(At(Producers, {"lock", "locked"}))
hc == Cardinality(At(Consumers, {"lock", "locked"}))
op == Cardinality(At(Producers, {"unlock", "post"}))
oc == Cardinality(At(Consumers, {"unlock", "post"}))
taken == Cardinality(Busy)

\* Two finite sets that differ at most in t differ in size by what t
\* contributes to each.
LEMMA CountMove ==
    ASSUME NEW A, NEW B, IsFiniteSet(A), NEW t, A \ {t} = B \ {t}
    PROVE  /\ Cardinality(A) \in Nat /\ Cardinality(B) \in Nat
           /\ Cardinality(B) + (IF t \in A THEN 1 ELSE 0)
                = Cardinality(A) + (IF t \in B THEN 1 ELSE 0)
<1>1. CASE t \in B
  <2>1. B = A \cup {t}
    BY <1>1
  <2>2. IsFiniteSet(B) /\ Cardinality(A) \in Nat /\ Cardinality(B) \in Nat
    BY <2>1, FS_AddElement, FS_CardinalityType
  <2>3. Cardinality(B) = IF t \in A THEN Cardinality(A) ELSE Cardinality(A) + 1
    BY <2>1, FS_AddElement
  <2>4. QED
    BY <1>1, <2>2, <2>3
<1>2. CASE t \notin B
  <2>1. B = A \ {t}
    BY <1>2
  <2>2. IsFiniteSet(B) /\ Cardinality(A) \in Nat /\ Cardinality(B) \in Nat
    BY <2>1, FS_RemoveElement, FS_CardinalityType
  <2>3. Cardinality(B) = IF t \in A THEN Cardinality(A) - 1 ELSE Cardinality(A)
    BY <2>1, FS_RemoveElement
  <2>4. QED
    BY <1>2, <2>2, <2>3
<1>3. QED
  BY <1>1, <1>2

\* The sets that are counted are finite.
LEMMA CountTypes ==
    ASSUME NEW W \in {Producers, Consumers}, NEW P
    PROVE  IsFiniteSet(At(W, P)) /\ Cardinality(At(W, P)) \in Nat
<1>1. IsFiniteSet(W) /\ At(W, P) \subseteq W
  BY Lab4Assumption DEF At
<1>2. QED
  BY <1>1, FS_Subset, FS_CardinalityType

\* How a count changes when a child moves from one place to another.
LEMMA CountStep ==
    ASSUME TypeOK, NEW W \in {Producers, Consumers}, NEW P,
           NEW c \in Children, NEW to, pc' = [pc EXCEPT ![c] = to]
    PROVE  /\ Cardinality(At(W, P)') \in Nat
           /\ Cardinality(At(W, P)') + (IF c \in W /\ pc[c] \in P THEN 1 ELSE 0)
                = Cardinality(At(W, P)) + (IF c \in W /\ to \in P THEN 1 ELSE 0)
<1>1. c \in DOMAIN pc /\ W \subseteq DOMAIN pc
  BY DEF Children, TypeOK
<1>2. At(W, P) \ {c} = At(W, P)' \ {c}
  BY <1>1 DEF At
<1>3. /\ c \in At(W, P) <=> c \in W /\ pc[c] \in P
      /\ c \in At(W, P)' <=> c \in W /\ to \in P
  BY <1>1 DEF At
<1>4. QED
  BY <1>2, <1>3, CountTypes, CountMove

\* The same for the four counts, for a producer, a consumer and a step that
\* moves nobody.
LEMMA CountsTypes == hp \in Nat /\ hc \in Nat /\ op \in Nat /\ oc \in Nat
BY CountTypes DEF hp, hc, op, oc

LEMMA ProducerMoves ==
    ASSUME TypeOK, NEW p \in Producers, NEW from, NEW to, Goto(p, from, to)
    PROVE  /\ hp' \in Nat /\ hc' = hc /\ op' \in Nat /\ oc' = oc
           /\ hp' + Holds(from) = hp + Holds(to)
           /\ op' + Owes(from) = op + Owes(to)
<1>1. p \in Children /\ p \notin Consumers /\ pc[p] = from
  BY Lab4Assumption DEF Children, Goto
<1>2. pc' = [pc EXCEPT ![p] = to]
  BY DEF Goto
<1>3. /\ hp' \in Nat /\ op' \in Nat
      /\ hp' + Holds(from) = hp + Holds(to)
      /\ op' + Owes(from) = op + Owes(to)
  BY <1>1, <1>2, CountStep DEF Holds, Owes, hp, op
<1>4. \A P : At(Consumers, P)' = At(Consumers, P)
  BY <1>1, <1>2 DEF At, TypeOK, Children
<1>5. QED
  BY <1>3, <1>4 DEF hc, oc

LEMMA ConsumerMoves ==
    ASSUME TypeOK, NEW c \in Consumers, NEW from, NEW to, Goto(c, from, to)
    PROVE  /\ hc' \in Nat /\ hp' = hp /\ oc' \in Nat /\ op' = op
           /\ hc' + Holds(from) = hc + Holds(to)
           /\ oc' + Owes(from) = oc + Owes(to)
<1>1. c \in Children /\ c \notin Producers /\ pc[c] = from
  BY Lab4Assumption DEF Children, Goto
<1>2. pc' = [pc EXCEPT ![c] = to]
  BY DEF Goto
<1>3. /\ hc' \in Nat /\ oc' \in Nat
      /\ hc' + Holds(from) = hc + Holds(to)
      /\ oc' + Owes(from) = oc + Owes(to)
  BY <1>1, <1>2, CountStep DEF Holds, Owes, hc, oc
<1>4. \A P : At(Producers, P)' = At(Producers, P)
  BY <1>1, <1>2 DEF At, TypeOK, Children
<1>5. QED
  BY <1>3, <1>4 DEF hp, op

\* A move between places that count alike changes no count.
LEMMA CountsAlike ==
    ASSUME TypeOK, NEW c \in Children, NEW from, NEW to, Goto(c, from, to),
           Holds(from) = Holds(to), Owes(from) = Owes(to)
    PROVE  hp' = hp /\ hc' = hc /\ op' = op /\ oc' = oc
<1>1. Holds(to) \in {0, 1} /\ Owes(to) \in {0, 1}
  BY DEF Holds, Owes
<1>2. CASE c \in Producers
  BY <1>1, <1>2, ProducerMoves, CountsTypes
<1>3. CASE c \in Consumers
  BY <1>1, <1>3, ConsumerMoves, CountsTypes
<1>4. QED
  BY <1>2, <1>3 DEF Children

LEMMA NobodyMoves ==
    ASSUME pc' = pc
    PROVE  hp' = hp /\ hc' = hc /\ op' = op /\ oc' = oc
BY DEF At, hp, hc, op, oc

\* What a child holds and owes at each of its places.
LEMMA PlaceValues ==
    /\ Holds("lock") = 1 /\ Holds("locked") = 1 /\ Holds("unlock") = 0
    /\ Holds("post") = 0 /\ Holds("wait") = 0 /\ Holds("done") = 0
    /\ Holds("absent") = 0 /\ Holds("faulted") = 0
    /\ Owes("lock") = 0 /\ Owes("locked") = 0 /\ Owes("unlock") = 1
    /\ Owes("post") = 1 /\ Owes("wait") = 0 /\ Owes("done") = 0
    /\ Owes("absent") = 0 /\ Owes("faulted") = 0
BY DEF Holds, Owes

\* A child with the mutex and a token: the accounting leaves a free node or
\* a message, and BusyRun says which node that is.
LEMMA AccountingGivesSafeAccess ==
    ASSUME TypeOK, TokenAccounting, BusyRun, GotMessage
    PROVE  SafeAccess
<1> begin \in Nat /\ tail \in Nat /\ begin \in Nodes /\ tail \in Nodes
  BY DEF TypeOK, Nodes
<1>1. ASSUME NEW p \in Producers, pc[p] = "locked"
      PROVE  ~busy[tail]
  <2>1. p \in At(Producers, {"lock", "locked"})
    BY <1>1 DEF At
  <2>2. hp # 0
    BY <2>1, CountTypes, FS_EmptySet DEF hp
  <2>3. taken # BUFFER_SIZE
    <3>1. EMPTY + hp + oc = BUFFER_SIZE - taken /\ EMPTY \in Nat
      BY DEF TokenAccounting, hp, oc, taken, TypeOK
    <3>2. taken \in Nat /\ BUFFER_SIZE \in Nat
      BY NodeCounts DEF taken
    <3>3. QED
      BY <2>2, <3>1, <3>2, CountsTypes
  <2>4. Busy # Nodes
    BY <2>3, NodeCounts DEF taken
  <2>5. tail \notin Busy
    BY <2>4 DEF BusyRun
  <2>6. QED
    BY <2>5 DEF Busy
<1>2. ASSUME NEW c \in Consumers, pc[c] = "locked"
      PROVE  busy[begin]
  <2>1. c \in At(Consumers, {"lock", "locked"})
    BY <1>2 DEF At
  <2>2. hc # 0
    BY <2>1, CountTypes, FS_EmptySet DEF hc
  <2>3. taken # 0
    <3>1. FILLED + hc + op = taken /\ FILLED \in Nat
      BY DEF TokenAccounting, hc, op, taken, TypeOK
    <3>2. QED
      BY <2>2, <3>1, CountsTypes
  <2>4. Busy # {}
    BY <2>3, FS_EmptySet DEF taken
  <2>5. begin \in Busy
    BY <2>4 DEF BusyRun
  <2>6. QED
    BY <2>5 DEF Busy
<1>3. QED
  BY <1>1, <1>2 DEF SafeAccess, GotMessage

------------------------------------------------------------------------------
(***************************************************************************)
(* The list                                                                *)
(***************************************************************************)

\* What push_list appends.
LEMMA ListAppend ==
    ASSUME NEW S, NEW l \in Seq(S), NEW e \in S
    PROVE  /\ Append(l, e) \in Seq(S) /\ Len(Append(l, e)) = Len(l) + 1
           /\ Len(l) \in Nat /\ Append(l, e)[Len(l) + 1] = e
           /\ \A k \in 1..Len(l) : Append(l, e)[k] = l[k]
BY AppendProperties, LenProperties

\* l without its k-th entry, as erase_list leaves it.
Without(l, k) == SubSeq(l, 1, k - 1) \o SubSeq(l, k + 1, Len(l))

\* The entries behind the one taken out move up, the others stay.
LEMMA ListWithout ==
    ASSUME NEW S, NEW l \in Seq(S), NEW k \in 1..Len(l),
           NEW m, m = Without(l, k)
    PROVE  /\ m \in Seq(S) /\ Len(m) = Len(l) - 1 /\ Len(l) \in Nat
           /\ l[k] \in S
           /\ \A j \in 1..Len(m) : m[j] = IF j < k THEN l[j] ELSE l[j + 1]
<1> DEFINE a == SubSeq(l, 1, k - 1)
           b == SubSeq(l, k + 1, Len(l))
<1>1. Len(l) \in Nat /\ k \in Nat \ {0} /\ k <= Len(l)
  BY LenProperties
<1>2. \A j \in 1..Len(l) : l[j] \in S
  BY ElementOfSeq
<1>3. /\ a \in Seq(S) /\ Len(a) = k - 1
      /\ \A j \in 1..(k - 1) : a[j] = l[j]
  <2>1. \A j \in 1..(k - 1) : l[j] \in S
    BY <1>1, <1>2
  <2>2. /\ a \in Seq(S)
        /\ Len(a) = IF 1 <= k - 1 THEN k - 1 - 1 + 1 ELSE 0
        /\ \A j \in 1..(k - 1 - 1 + 1) : a[j] = l[1 + j - 1]
    BY <1>1, <2>1, SubSeqProperties
  <2>3. \A n \in Nat \ {0} : (IF 1 <= n - 1 THEN n - 1 - 1 + 1 ELSE 0) = n - 1
    OBVIOUS
  <2>4. \A j \in 1..(k - 1) : j \in 1..(k - 1 - 1 + 1) /\ 1 + j - 1 = j
    BY <1>1
  <2>5. QED
    BY <1>1, <2>2, <2>3, <2>4
<1>4. /\ b \in Seq(S) /\ Len(b) = Len(l) - k
      /\ \A j \in 1..(Len(l) - k) : b[j] = l[k + j]
  <2>1. \A j \in (k + 1)..Len(l) : l[j] \in S
    BY <1>1, <1>2
  <2>2. /\ b \in Seq(S)
        /\ Len(b) = IF k + 1 <= Len(l) THEN Len(l) - (k + 1) + 1 ELSE 0
        /\ \A j \in 1..(Len(l) - (k + 1) + 1) : b[j] = l[k + 1 + j - 1]
    BY <1>1, <2>1, SubSeqProperties
  <2>3. \A n \in Nat : k <= n =>
          (IF k + 1 <= n THEN n - (k + 1) + 1 ELSE 0) = n - k
    BY <1>1
  <2>4. \A j \in 1..(Len(l) - k) :
          j \in 1..(Len(l) - (k + 1) + 1) /\ k + 1 + j - 1 = k + j
    BY <1>1
  <2>5. QED
    BY <1>1, <2>2, <2>3, <2>4
<1>c. m = a \o b
  BY DEF Without
<1> HIDE DEF a, b
<1>5. /\ m \in Seq(S) /\ Len(m) = Len(a) + Len(b)
      /\ \A j \in 1..(Len(a) + Len(b)) :
           m[j] = IF j <= Len(a) THEN a[j] ELSE b[j - Len(a)]
  <2>1. a \in Seq(S) /\ b \in Seq(S)
    BY <1>3, <1>4
  <2>2. QED
    <3>1. /\ a \o b \in Seq(S) /\ Len(a \o b) = Len(a) + Len(b)
          /\ \A j \in 1..(Len(a) + Len(b)) :
               (a \o b)[j] = IF j <= Len(a) THEN a[j] ELSE b[j - Len(a)]
      BY <2>1, ConcatProperties
    <3>2. QED
      BY <3>1, <1>c
<1>6. Len(m) = Len(l) - 1
  <2>1. \A n, j \in Nat : n - 1 + (j - n) = j - 1
    OBVIOUS
  <2>2. QED
    BY <1>1, <1>3, <1>4, <1>5, <2>1
<1>7. ASSUME NEW j \in 1..Len(m)
      PROVE  m[j] = IF j < k THEN l[j] ELSE l[j + 1]
  <2>1. j \in 1..(Len(l) - 1) /\ j \in Nat \ {0} /\ j <= Len(l) - 1
    <3>1. j \in 1..(Len(l) - 1)
      BY <1>6
    <3>2. QED
      BY <1>1, <3>1
  <2>2. CASE j < k
    <3>1. j \in 1..(k - 1) /\ j <= Len(a)
      BY <1>1, <1>3, <2>1, <2>2
    <3>2. QED
      BY <1>3, <1>5, <2>2, <3>1
  <2>3. CASE ~(j < k)
    <3>1. /\ ~(j <= Len(a)) /\ j - Len(a) = j - k + 1
          /\ j - k + 1 \in 1..(Len(l) - k) /\ k + (j - k + 1) = j + 1
      BY <1>1, <1>3, <2>1, <2>3
    <3>2. QED
      BY <1>4, <1>5, <2>3, <3>1
  <2>4. QED
    BY <2>2, <2>3
<1>8. QED
  BY <1>1, <1>2, <1>5, <1>6, <1>7

\* What delete_all_child_proc leaves when it takes the last.
LEMMA ListFront ==
    ASSUME NEW S, NEW l \in Seq(S), l # <<>>,
           NEW m, m = SubSeq(l, 1, Len(l) - 1)
    PROVE  /\ m \in Seq(S) /\ Len(m) = Len(l) - 1 /\ Len(l) \in Nat \ {0}
           /\ l[Len(l)] \in S
           /\ \A j \in 1..Len(m) : m[j] = l[j]
<1>1. Len(l) \in Nat \ {0}
  BY EmptySeq
<1>2. \A j \in 1..Len(l) : l[j] \in S
  BY ElementOfSeq
<1>3. \A j \in 1..(Len(l) - 1) : l[j] \in S
  BY <1>1, <1>2
<1>4. /\ m \in Seq(S)
      /\ Len(m) = IF 1 <= Len(l) - 1 THEN Len(l) - 1 - 1 + 1 ELSE 0
      /\ \A j \in 1..(Len(l) - 1 - 1 + 1) : m[j] = l[1 + j - 1]
  BY <1>1, <1>3, SubSeqProperties
<1>5. \A n \in Nat \ {0} : (IF 1 <= n - 1 THEN n - 1 - 1 + 1 ELSE 0) = n - 1
  OBVIOUS
<1>6. Len(m) = Len(l) - 1
  BY <1>1, <1>4, <1>5
<1>7. \A j \in 1..Len(m) : j \in 1..(Len(l) - 1 - 1 + 1) /\ 1 + j - 1 = j
  BY <1>1, <1>6
<1>8. \A j \in 1..Len(m) : m[j] = l[j]
  BY <1>4, <1>7
<1>9. QED
  BY <1>1, <1>2, <1>4, <1>6, <1>8

------------------------------------------------------------------------------
(***************************************************************************)
(* The invariant is inductive                                              *)
(***************************************************************************)

\* At the start there are no children, and BUFFER_SIZE tokens for
\* BUFFER_SIZE free nodes.
LEMMA InitIInv == Init => IInv
<1> SUFFICES ASSUME Init PROVE IInv
  OBVIOUS
<1>1. list = <<>> /\ list \in Seq(Children \cup {NOPID}) /\ Len(list) = 0
  BY EmptySeq DEF Init
<1>2. TypeOK
  <2>1. BUFFER_SIZE \in Nat /\ 0 \in Nodes
    BY NodeCounts
  <2>2. QED
    BY <1>1, <2>1 DEF Init, TypeOK, Gone
<1>3. Busy = {}
  BY DEF Init, Busy
<1>4. /\ At(Producers, {"lock", "locked"}) = {}
      /\ At(Consumers, {"lock", "locked"}) = {}
      /\ At(Producers, {"unlock", "post"}) = {}
      /\ At(Consumers, {"unlock", "post"}) = {}
      /\ At(Children, {"locked", "unlock"}) = {}
  BY DEF Init, At, Children
<1>5. TokenAccounting
  <2>1. Cardinality({}) = 0 /\ BUFFER_SIZE \in Nat
    BY FS_EmptySet, NodeCounts
  <2>2. \A n, z \in Nat : z = 0 => n + z + z = n - z /\ z + z + z = z
    OBVIOUS
  <2>3. /\ BUFFER_SIZE + Cardinality({}) + Cardinality({})
            = BUFFER_SIZE - Cardinality({})
        /\ 0 + Cardinality({}) + Cardinality({}) = Cardinality({})
    BY <2>1, <2>2
  <2>4. EMPTY = BUFFER_SIZE /\ FILLED = 0
    BY DEF Init
  <2>5. QED
    BY <1>3, <1>4, <2>3, <2>4 DEF TokenAccounting
<1>6. BusyRun /\ GotMessage /\ QuitKills
  BY <1>3 DEF Init, BusyRun, GotMessage, QuitKills, Children
<1>7. MutexHeld
  BY <1>4 DEF Init, MutexHeld
<1>8. ListFresh
  BY <1>1 DEF Init, ListFresh, Children
<1>9. QED
  BY <1>2, <1>5, <1>6, <1>7, <1>8 DEF IInv

\* Type correctness is kept by every step, given the invariant: only who
\* holds the mutex gives it back.
LEMMA TypeStep ==
    ASSUME IInv, [Next]_vars
    PROVE  TypeOK'
<1> USE DEF IInv, Goto, semVars, ringVars, childVars, sigVars, listVars,
            mainVars, TypeOK, Gone, ChildPlaces, Alive
<1>1. ASSUME NEW c \in Alive, Lock(c)
      PROVE  TypeOK'
  BY <1>1 DEF Lock
<1>2. ASSUME NEW c \in Alive, Unlock(c)
      PROVE  TypeOK'
  BY <1>2 DEF Unlock, MutexHeld, At
<1>3. ASSUME NEW c \in Alive, Stop(c)
      PROVE  TypeOK'
  BY <1>3 DEF Stop
<1>4. ASSUME NEW c \in Alive, Die(c)
      PROVE  TypeOK'
  BY <1>4 DEF Die
<1>5. ASSUME NEW c \in Alive, c \in Producers, ProducerWait(c)
      PROVE  TypeOK'
  BY <1>5 DEF ProducerWait
<1>6. ASSUME NEW c \in Alive, c \in Producers, ProducerAdd(c)
      PROVE  TypeOK'
  BY <1>6, FollowingNode DEF ProducerAdd
<1>7. ASSUME NEW c \in Alive, c \in Producers, ProducerPost(c)
      PROVE  TypeOK'
  BY <1>7 DEF ProducerPost, LoopTest
<1>8. ASSUME NEW c \in Alive, c \in Consumers, ConsumerWait(c)
      PROVE  TypeOK'
  BY <1>8 DEF ConsumerWait
<1>9. ASSUME NEW c \in Alive, c \in Consumers, ConsumerExtract(c)
      PROVE  TypeOK'
  BY <1>9, FollowingNode DEF ConsumerExtract
<1>10. ASSUME NEW c \in Alive, c \in Consumers, ConsumerPost(c)
       PROVE  TypeOK'
  BY <1>10 DEF ConsumerPost, LoopTest
<1>11. ASSUME NEW c \in Children, Fork(c)
       PROVE  TypeOK'
  BY <1>11, ListAppend DEF Fork
<1>12. CASE ForkFails
  BY <1>12, ListAppend DEF ForkFails
<1>13. ASSUME NEW num \in 1..(Cardinality(Children) + MaxFailures), Kill(num)
       PROVE  TypeOK'
  BY <1>13, ListWithout DEF Kill, Without
<1>14. CASE Quit
  BY <1>14 DEF Quit
<1>15. CASE DeleteNext
  BY <1>15, ListFront DEF DeleteNext
<1>16. CASE DeleteEnd
  BY <1>16 DEF DeleteEnd
<1>17. CASE ClearNext
  BY <1>17, FollowingNode DEF ClearNext
<1>18. CASE ClearEnd
  BY <1>18 DEF ClearEnd
<1>19. CASE UNCHANGED vars
  BY <1>19 DEF vars
<1>20. QED
  BY <1>1, <1>2, <1>3, <1>4, <1>5, <1>6, <1>7, <1>8, <1>9, <1>10, <1>11,
     <1>12, <1>13, <1>14, <1>15, <1>16, <1>17, <1>18, <1>19
    DEF Next, Main, Leaving, Child, Ended

\* The two equations of TokenAccounting over these names.
Balanced ==
    /\ EMPTY + hp + oc = BUFFER_SIZE - taken
    /\ FILLED + hc + op = taken

\* The numbers the equations are about.
LEMMA Numbers ==
    ASSUME TypeOK
    PROVE  /\ EMPTY \in Nat /\ FILLED \in Nat /\ BUFFER_SIZE \in Nat
           /\ hp \in Nat /\ hc \in Nat /\ op \in Nat /\ oc \in Nat
           /\ taken \in Nat
BY CountsTypes, NodeCounts DEF TypeOK, taken

\* The two equations survive a step: what the step moves into or out of the
\* children's hands it takes from or puts into a semaphore or the ring.
LEMMA TokenStep ==
    ASSUME IInv, Balanced, [Next]_vars
    PROVE  Balanced'
<1> USE NobodyMoves, SameBusy
        DEF IInv, semVars, ringVars, childVars, sigVars, listVars, mainVars,
            Alive
<1>1. ASSUME NEW c \in Alive, Lock(c)
      PROVE  Balanced'
  <2>1. Goto(c, "lock", "locked")
    BY <1>1 DEF Lock
  <2>2. hp' = hp /\ hc' = hc /\ op' = op /\ oc' = oc
    BY <2>1, CountsAlike, PlaceValues
  <2>3. QED
    BY <1>1, <2>2 DEF Lock, Balanced, taken
<1>2. ASSUME NEW c \in Alive, Unlock(c)
      PROVE  Balanced'
  <2>1. Goto(c, "unlock", "post")
    BY <1>2 DEF Unlock
  <2>2. hp' = hp /\ hc' = hc /\ op' = op /\ oc' = oc
    BY <2>1, CountsAlike, PlaceValues
  <2>3. QED
    BY <1>2, <2>2 DEF Unlock, Balanced, taken
<1>3. ASSUME NEW c \in Alive, Stop(c)
      PROVE  Balanced'
  BY <1>3 DEF Stop, Balanced, taken
<1>4. ASSUME NEW c \in Alive, Die(c)
      PROVE  Balanced'
  BY <1>4 DEF Die, Balanced, taken
<1>5. ASSUME NEW c \in Alive, c \in Producers, ProducerWait(c)
      PROVE  Balanced'
  <2>1. hp' = hp + 1 /\ op' = op /\ hc' = hc /\ oc' = oc
    <3>1. Goto(c, "wait", "lock")
      BY <1>5 DEF ProducerWait
    <3>2. QED
      BY <1>5, <3>1, ProducerMoves, PlaceValues, CountsTypes
  <2>2. EMPTY' = EMPTY - 1 /\ FILLED' = FILLED /\ taken' = taken
    BY <1>5 DEF ProducerWait, taken
  <2>3. QED
    BY <2>1, <2>2, Numbers DEF Balanced
<1>6. ASSUME NEW c \in Alive, c \in Producers, ProducerAdd(c)
      PROVE  Balanced'
  <2>1. hp' = hp - 1 /\ op' = op + 1 /\ hc' = hc /\ oc' = oc
    <3>1. Goto(c, "locked", "unlock")
      BY <1>6 DEF ProducerAdd
    <3>2. QED
      BY <1>6, <3>1, ProducerMoves, PlaceValues, CountsTypes
  <2>2. EMPTY' = EMPTY /\ FILLED' = FILLED /\ taken' = taken + 1
    BY <1>6, AccountingGivesSafeAccess, Marked
       DEF ProducerAdd, taken, SafeAccess, TypeOK, Goto
  <2>3. QED
    BY <2>1, <2>2, Numbers DEF Balanced
<1>7. ASSUME NEW c \in Alive, c \in Producers, ProducerPost(c)
      PROVE  Balanced'
  <2>1. hp' = hp /\ op' = op - 1 /\ hc' = hc /\ oc' = oc
    <3>1. PICK to \in {"wait", "done", "faulted"} : Goto(c, "post", to)
      BY <1>7 DEF ProducerPost, LoopTest
    <3>2. QED
      BY <1>7, <3>1, ProducerMoves, PlaceValues, CountsTypes
  <2>2. EMPTY' = EMPTY /\ FILLED' = FILLED + 1 /\ taken' = taken
    BY <1>7 DEF ProducerPost, taken
  <2>3. QED
    BY <2>1, <2>2, Numbers DEF Balanced
<1>8. ASSUME NEW c \in Alive, c \in Consumers, ConsumerWait(c)
      PROVE  Balanced'
  <2>1. hp' = hp /\ op' = op /\ hc' = hc + 1 /\ oc' = oc
    <3>1. Goto(c, "wait", "lock")
      BY <1>8 DEF ConsumerWait
    <3>2. QED
      BY <1>8, <3>1, ConsumerMoves, PlaceValues, CountsTypes
  <2>2. EMPTY' = EMPTY /\ FILLED' = FILLED - 1 /\ taken' = taken
    BY <1>8 DEF ConsumerWait, taken
  <2>3. QED
    BY <2>1, <2>2, Numbers DEF Balanced
<1>9. ASSUME NEW c \in Alive, c \in Consumers, ConsumerExtract(c)
      PROVE  Balanced'
  <2>1. hp' = hp /\ op' = op /\ hc' = hc - 1 /\ oc' = oc + 1
    <3>1. Goto(c, "locked", "unlock")
      BY <1>9 DEF ConsumerExtract
    <3>2. QED
      BY <1>9, <3>1, ConsumerMoves, PlaceValues, CountsTypes
  <2>2. EMPTY' = EMPTY /\ FILLED' = FILLED /\ taken' = taken - 1
    BY <1>9, AccountingGivesSafeAccess, Unmarked
       DEF ConsumerExtract, taken, SafeAccess, TypeOK, Goto
  <2>3. QED
    BY <2>1, <2>2, Numbers DEF Balanced
<1>10. ASSUME NEW c \in Alive, c \in Consumers, ConsumerPost(c)
       PROVE  Balanced'
  <2>1. hp' = hp /\ op' = op /\ hc' = hc /\ oc' = oc - 1
    <3>1. PICK to \in {"wait", "done", "faulted"} : Goto(c, "post", to)
      BY <1>10 DEF ConsumerPost, LoopTest
    <3>2. QED
      BY <1>10, <3>1, ConsumerMoves, PlaceValues, CountsTypes
  <2>2. EMPTY' = EMPTY + 1 /\ FILLED' = FILLED /\ taken' = taken
    BY <1>10 DEF ConsumerPost, taken
  <2>3. QED
    BY <2>1, <2>2, Numbers DEF Balanced
<1>11. ASSUME NEW c \in Children, Fork(c)
       PROVE  Balanced'
  <2>1. Goto(c, "absent", "wait")
    BY <1>11 DEF Fork
  <2>2. hp' = hp /\ hc' = hc /\ op' = op /\ oc' = oc
    BY <2>1, CountsAlike, PlaceValues
  <2>3. QED
    BY <1>11, <2>2 DEF Fork, Balanced, taken
<1>12. CASE ForkFails
  BY <1>12 DEF ForkFails, Balanced, taken
<1>13. ASSUME NEW num \in 1..(Cardinality(Children) + MaxFailures), Kill(num)
       PROVE  Balanced'
  BY <1>13 DEF Kill, Balanced, taken
<1>14. CASE Quit
  BY <1>14 DEF Quit, Balanced, taken
<1>15. CASE DeleteNext
  BY <1>15 DEF DeleteNext, Balanced, taken
<1>16. CASE DeleteEnd
  BY <1>16 DEF DeleteEnd, Balanced, taken
<1>17. CASE ClearNext
  BY <1>17 DEF ClearNext, Balanced, taken
<1>18. CASE ClearEnd
  BY <1>18 DEF ClearEnd, Balanced, taken
<1>19. CASE UNCHANGED vars
  BY <1>19 DEF vars, Balanced, taken
<1>20. QED
  BY <1>1, <1>2, <1>3, <1>4, <1>5, <1>6, <1>7, <1>8, <1>9, <1>10, <1>11,
     <1>12, <1>13, <1>14, <1>15, <1>16, <1>17, <1>18, <1>19
    DEF Next, Main, Leaving, Child, Ended

\* Marking the free node at tail and moving tail on makes the run longer.
LEMMA RunGrows ==
    ASSUME begin \in Nodes, tail \in Nodes, busy \in [Nodes -> BOOLEAN],
           BusyRun, ~busy[tail], busy' = [busy EXCEPT ![tail] = TRUE],
           tail' = Following(tail), begin' = begin
    PROVE  BusyRun'
<1>1. Busy' = Busy \cup {tail} /\ tail \notin Busy /\ Busy \subseteq Nodes
  BY Marked DEF Busy
<1>2. /\ tail' = IF tail = BUFFER_SIZE - 1 THEN 0 ELSE tail + 1
      /\ Nodes = 0..(BUFFER_SIZE - 1) /\ BUFFER_SIZE \in Nat \ {0}
      /\ begin \in Nat /\ tail \in Nat
      /\ begin <= BUFFER_SIZE - 1 /\ tail <= BUFFER_SIZE - 1
  BY FollowingNode, Lab4Assumption DEF Nodes
<1>3. CASE begin < tail
  <2>1. Busy' = begin..tail
    BY <1>1, <1>2, <1>3 DEF BusyRun
  <2>2. CASE tail = BUFFER_SIZE - 1
    <3>1. tail' = 0
      BY <1>2, <2>2
    <3>2. begin = 0 => Busy' = Nodes
      BY <1>2, <2>1, <2>2
    <3>3. begin # 0 => Busy' = Nodes \ (0..(begin - 1))
      BY <1>2, <2>1, <2>2
    <3>4. QED
      BY <1>2, <3>1, <3>2, <3>3 DEF BusyRun
  <2>3. CASE tail # BUFFER_SIZE - 1
    <3>1. tail' = tail + 1 /\ tail' - 1 = tail /\ begin < tail'
      BY <1>2, <1>3, <2>3
    <3>2. QED
      BY <1>2, <2>1, <3>1 DEF BusyRun
  <2>4. QED
    BY <2>2, <2>3
<1>4. CASE tail < begin
  <2>1. Busy' = Nodes \ ((tail + 1)..(begin - 1))
    BY <1>1, <1>2, <1>4 DEF BusyRun
  <2>2. tail' = tail + 1 /\ tail' <= begin
    BY <1>2, <1>4
  <2>3. tail' = begin => Busy' = Nodes
    BY <1>2, <2>1, <2>2
  <2>4. QED
    BY <1>2, <2>1, <2>2, <2>3 DEF BusyRun
<1>5. CASE begin = tail
  <2>1. Busy' = {tail}
    BY <1>1, <1>2, <1>5 DEF BusyRun
  <2>2. CASE BUFFER_SIZE = 1
    <3>1. Nodes = {tail} /\ tail' = tail
      BY <1>2, <2>2
    <3>2. QED
      BY <1>2, <1>5, <2>1, <3>1 DEF BusyRun
  <2>3. CASE BUFFER_SIZE # 1 /\ tail = BUFFER_SIZE - 1
    <3>1. tail' = 0 /\ Nodes \ (0..(begin - 1)) = {tail} /\ 0 < begin
      BY <1>2, <1>5, <2>3
    <3>2. QED
      BY <1>2, <2>1, <3>1 DEF BusyRun
  <2>4. CASE tail # BUFFER_SIZE - 1
    <3>1. tail' = tail + 1 /\ begin..(tail' - 1) = {tail} /\ begin < tail'
      BY <1>2, <1>5, <2>4
    <3>2. QED
      BY <1>2, <2>1, <3>1 DEF BusyRun
  <2>5. QED
    BY <2>2, <2>3, <2>4
<1>6. QED
  BY <1>2, <1>3, <1>4, <1>5

\* Freeing the busy node at begin and moving begin on makes it shorter.
LEMMA RunShrinks ==
    ASSUME begin \in Nodes, tail \in Nodes, busy \in [Nodes -> BOOLEAN],
           BusyRun, busy[begin], busy' = [busy EXCEPT ![begin] = FALSE],
           begin' = Following(begin), tail' = tail
    PROVE  BusyRun'
<1>1. Busy' = Busy \ {begin} /\ begin \in Busy /\ Busy \subseteq Nodes
  BY Unmarked DEF Busy
<1>2. /\ begin' = IF begin = BUFFER_SIZE - 1 THEN 0 ELSE begin + 1
      /\ Nodes = 0..(BUFFER_SIZE - 1) /\ BUFFER_SIZE \in Nat \ {0}
      /\ begin \in Nat /\ tail \in Nat
      /\ begin <= BUFFER_SIZE - 1 /\ tail <= BUFFER_SIZE - 1
  BY FollowingNode, Lab4Assumption DEF Nodes
<1>3. CASE begin < tail
  <2>1. Busy' = (begin + 1)..(tail - 1)
    BY <1>1, <1>2, <1>3 DEF BusyRun
  <2>2. begin' = begin + 1 /\ begin' <= tail
    BY <1>2, <1>3
  <2>3. begin' = tail => Busy' = {}
    BY <1>2, <2>1, <2>2
  <2>4. QED
    BY <1>2, <2>1, <2>2, <2>3 DEF BusyRun
<1>4. CASE tail < begin
  <2>1. Busy' = Nodes \ (tail..begin)
    BY <1>1, <1>2, <1>4 DEF BusyRun
  <2>2. CASE begin = BUFFER_SIZE - 1
    <3>1. begin' = 0 /\ Busy' = 0..(tail - 1)
      BY <1>2, <1>4, <2>1, <2>2
    <3>2. tail = 0 => Busy' = {}
      BY <3>1
    <3>3. QED
      BY <1>2, <3>1, <3>2 DEF BusyRun
  <2>3. CASE begin # BUFFER_SIZE - 1
    <3>1. begin' = begin + 1 /\ begin' - 1 = begin /\ tail < begin'
      BY <1>2, <1>4, <2>3
    <3>2. QED
      BY <1>2, <2>1, <3>1 DEF BusyRun
  <2>4. QED
    BY <2>2, <2>3
<1>5. CASE begin = tail
  <2>1. Busy' = Nodes \ {begin}
    BY <1>1, <1>2, <1>5 DEF BusyRun
  <2>2. CASE BUFFER_SIZE = 1
    <3>1. Nodes = {begin} /\ begin' = begin
      BY <1>2, <2>2
    <3>2. QED
      BY <1>2, <1>5, <2>1, <3>1 DEF BusyRun
  <2>3. CASE BUFFER_SIZE # 1 /\ begin = BUFFER_SIZE - 1
    <3>1. begin' = 0 /\ Nodes \ {begin} = 0..(tail - 1) /\ 0 < tail
      BY <1>2, <1>5, <2>3
    <3>2. QED
      BY <1>2, <2>1, <3>1 DEF BusyRun
  <2>4. CASE begin # BUFFER_SIZE - 1
    <3>1. /\ begin' = begin + 1 /\ tail < begin'
          /\ tail..(begin' - 1) = {begin}
      BY <1>2, <1>5, <2>4
    <3>2. QED
      BY <1>2, <2>1, <3>1 DEF BusyRun
  <2>5. QED
    BY <2>2, <2>3, <2>4
<1>6. QED
  BY <1>2, <1>3, <1>4, <1>5

\* A message is added behind the run of busy nodes and taken from its front.
LEMMA RunStep ==
    ASSUME IInv, [Next]_vars
    PROVE  BusyRun'
<1> USE SameBusy
        DEF IInv, Goto, semVars, ringVars, childVars, sigVars, listVars,
            mainVars, TypeOK, Alive
<1>1. ASSUME NEW c \in Alive, Lock(c)
      PROVE  BusyRun'
  BY <1>1 DEF Lock, BusyRun
<1>2. ASSUME NEW c \in Alive, Unlock(c)
      PROVE  BusyRun'
  BY <1>2 DEF Unlock, BusyRun
<1>3. ASSUME NEW c \in Alive, Stop(c)
      PROVE  BusyRun'
  BY <1>3 DEF Stop, BusyRun
<1>4. ASSUME NEW c \in Alive, Die(c)
      PROVE  BusyRun'
  BY <1>4 DEF Die, BusyRun
<1>5. ASSUME NEW c \in Alive, c \in Producers, ProducerWait(c)
      PROVE  BusyRun'
  BY <1>5 DEF ProducerWait, BusyRun
<1>6. ASSUME NEW c \in Alive, c \in Producers, ProducerAdd(c)
      PROVE  BusyRun'
  <2>1. /\ begin \in Nodes /\ tail \in Nodes /\ busy \in [Nodes -> BOOLEAN]
        /\ BusyRun
    OBVIOUS
  <2>2. /\ ~busy[tail] /\ busy' = [busy EXCEPT ![tail] = TRUE]
        /\ tail' = Following(tail) /\ begin' = begin
    BY <1>6, AccountingGivesSafeAccess DEF ProducerAdd, SafeAccess
  <2>3. QED
    BY <2>1, <2>2, RunGrows
<1>7. ASSUME NEW c \in Alive, c \in Producers, ProducerPost(c)
      PROVE  BusyRun'
  BY <1>7 DEF ProducerPost, LoopTest, BusyRun
<1>8. ASSUME NEW c \in Alive, c \in Consumers, ConsumerWait(c)
      PROVE  BusyRun'
  BY <1>8 DEF ConsumerWait, BusyRun
<1>9. ASSUME NEW c \in Alive, c \in Consumers, ConsumerExtract(c)
      PROVE  BusyRun'
  <2>1. /\ begin \in Nodes /\ tail \in Nodes /\ busy \in [Nodes -> BOOLEAN]
        /\ BusyRun
    OBVIOUS
  <2>2. /\ busy[begin] /\ busy' = [busy EXCEPT ![begin] = FALSE]
        /\ begin' = Following(begin) /\ tail' = tail
    BY <1>9, AccountingGivesSafeAccess DEF ConsumerExtract, SafeAccess
  <2>3. QED
    BY <2>1, <2>2, RunShrinks
<1>10. ASSUME NEW c \in Alive, c \in Consumers, ConsumerPost(c)
       PROVE  BusyRun'
  BY <1>10 DEF ConsumerPost, LoopTest, BusyRun
<1>11. ASSUME NEW c \in Children, Fork(c)
       PROVE  BusyRun'
  BY <1>11 DEF Fork, BusyRun
<1>12. CASE ForkFails
  BY <1>12 DEF ForkFails, BusyRun
<1>13. ASSUME NEW num \in 1..(Cardinality(Children) + MaxFailures), Kill(num)
       PROVE  BusyRun'
  BY <1>13 DEF Kill, BusyRun
<1>14. CASE Quit
  BY <1>14 DEF Quit, BusyRun
<1>15. CASE DeleteNext
  BY <1>15 DEF DeleteNext, BusyRun
<1>16. CASE DeleteEnd
  BY <1>16 DEF DeleteEnd, BusyRun
<1>17. CASE ClearNext
  BY <1>17 DEF ClearNext, BusyRun
<1>18. CASE ClearEnd
  BY <1>18 DEF ClearEnd, BusyRun
<1>19. CASE UNCHANGED vars
  BY <1>19 DEF vars, BusyRun
<1>20. QED
  BY <1>1, <1>2, <1>3, <1>4, <1>5, <1>6, <1>7, <1>8, <1>9, <1>10, <1>11,
     <1>12, <1>13, <1>14, <1>15, <1>16, <1>17, <1>18, <1>19
    DEF Next, Main, Leaving, Child, Ended

\* A consumer with a token and the mutex has been given a message.
LEMMA GotStep ==
    ASSUME IInv, [Next]_vars
    PROVE  GotMessage'
<1> USE Lab4Assumption
        DEF IInv, Goto, semVars, ringVars, childVars, sigVars, listVars,
            mainVars, GotMessage, TypeOK, Gone, Alive
<1>1. ASSUME NEW c \in Alive, Lock(c)
      PROVE  GotMessage'
  BY <1>1 DEF Lock
<1>2. ASSUME NEW c \in Alive, Unlock(c)
      PROVE  GotMessage'
  BY <1>2 DEF Unlock
<1>3. ASSUME NEW c \in Alive, Stop(c)
      PROVE  GotMessage'
  BY <1>3 DEF Stop
<1>4. ASSUME NEW c \in Alive, Die(c)
      PROVE  GotMessage'
  BY <1>4 DEF Die
<1>5. ASSUME NEW c \in Alive, c \in Producers, ProducerWait(c)
      PROVE  GotMessage'
  BY <1>5 DEF ProducerWait
<1>6. ASSUME NEW c \in Alive, c \in Producers, ProducerAdd(c)
      PROVE  GotMessage'
  BY <1>6 DEF ProducerAdd
<1>7. ASSUME NEW c \in Alive, c \in Producers, ProducerPost(c)
      PROVE  GotMessage'
  BY <1>7 DEF ProducerPost, LoopTest
<1>8. ASSUME NEW c \in Alive, c \in Consumers, ConsumerWait(c)
      PROVE  GotMessage'
  BY <1>8 DEF ConsumerWait
<1>9. ASSUME NEW c \in Alive, c \in Consumers, ConsumerExtract(c)
      PROVE  GotMessage'
  <2>1. busy[begin] = TRUE
    BY <1>9, AccountingGivesSafeAccess DEF ConsumerExtract, SafeAccess
  <2>2. got' = [got EXCEPT ![c] = TRUE]
    BY <1>9, <2>1 DEF ConsumerExtract
  <2>3. QED
    BY <1>9, <2>2 DEF ConsumerExtract
<1>10. ASSUME NEW c \in Alive, c \in Consumers, ConsumerPost(c)
       PROVE  GotMessage'
  BY <1>10 DEF ConsumerPost, LoopTest
<1>11. ASSUME NEW c \in Children, Fork(c)
       PROVE  GotMessage'
  BY <1>11 DEF Fork
<1>12. CASE ForkFails
  BY <1>12 DEF ForkFails
<1>13. ASSUME NEW num \in 1..(Cardinality(Children) + MaxFailures), Kill(num)
       PROVE  GotMessage'
  BY <1>13 DEF Kill
<1>14. CASE Quit
  BY <1>14 DEF Quit
<1>15. CASE DeleteNext
  BY <1>15 DEF DeleteNext
<1>16. CASE DeleteEnd
  BY <1>16 DEF DeleteEnd
<1>17. CASE ClearNext
  BY <1>17 DEF ClearNext
<1>18. CASE ClearEnd
  BY <1>18 DEF ClearEnd
<1>19. CASE UNCHANGED vars
  BY <1>19 DEF vars
<1>20. QED
  BY <1>1, <1>2, <1>3, <1>4, <1>5, <1>6, <1>7, <1>8, <1>9, <1>10, <1>11,
     <1>12, <1>13, <1>14, <1>15, <1>16, <1>17, <1>18, <1>19
    DEF Next, Main, Leaving, Child, Ended

\* Who takes the mutex finds it free, and who gives it back had it.
LEMMA MutexStep ==
    ASSUME IInv, [Next]_vars
    PROVE  MutexHeld'
<1> USE DEF IInv, Goto, semVars, ringVars, childVars, sigVars, listVars,
            mainVars, MutexHeld, At, TypeOK, Gone, Alive
<1>1. ASSUME NEW c \in Alive, Lock(c)
      PROVE  MutexHeld'
  BY <1>1 DEF Lock
<1>2. ASSUME NEW c \in Alive, Unlock(c)
      PROVE  MutexHeld'
  BY <1>2 DEF Unlock
<1>3. ASSUME NEW c \in Alive, Stop(c)
      PROVE  MutexHeld'
  BY <1>3 DEF Stop
<1>4. ASSUME NEW c \in Alive, Die(c)
      PROVE  MutexHeld'
  BY <1>4 DEF Die
<1>5. ASSUME NEW c \in Alive, c \in Producers, ProducerWait(c)
      PROVE  MutexHeld'
  BY <1>5 DEF ProducerWait
<1>6. ASSUME NEW c \in Alive, c \in Producers, ProducerAdd(c)
      PROVE  MutexHeld'
  BY <1>6 DEF ProducerAdd
<1>7. ASSUME NEW c \in Alive, c \in Producers, ProducerPost(c)
      PROVE  MutexHeld'
  BY <1>7 DEF ProducerPost, LoopTest
<1>8. ASSUME NEW c \in Alive, c \in Consumers, ConsumerWait(c)
      PROVE  MutexHeld'
  BY <1>8 DEF ConsumerWait
<1>9. ASSUME NEW c \in Alive, c \in Consumers, ConsumerExtract(c)
      PROVE  MutexHeld'
  BY <1>9 DEF ConsumerExtract
<1>10. ASSUME NEW c \in Alive, c \in Consumers, ConsumerPost(c)
       PROVE  MutexHeld'
  BY <1>10 DEF ConsumerPost, LoopTest
<1>11. ASSUME NEW c \in Children, Fork(c)
       PROVE  MutexHeld'
  BY <1>11 DEF Fork
<1>12. CASE ForkFails
  BY <1>12 DEF ForkFails
<1>13. ASSUME NEW num \in 1..(Cardinality(Children) + MaxFailures), Kill(num)
       PROVE  MutexHeld'
  BY <1>13 DEF Kill
<1>14. CASE Quit
  BY <1>14 DEF Quit
<1>15. CASE DeleteNext
  BY <1>15 DEF DeleteNext
<1>16. CASE DeleteEnd
  BY <1>16 DEF DeleteEnd
<1>17. CASE ClearNext
  BY <1>17 DEF ClearNext
<1>18. CASE ClearEnd
  BY <1>18 DEF ClearEnd
<1>19. CASE UNCHANGED vars
  BY <1>19 DEF vars
<1>20. QED
  BY <1>1, <1>2, <1>3, <1>4, <1>5, <1>6, <1>7, <1>8, <1>9, <1>10, <1>11,
     <1>12, <1>13, <1>14, <1>15, <1>16, <1>17, <1>18, <1>19
    DEF Next, Main, Leaving, Child, Ended

\* Whom 'k' signals is no longer listed, and the others move up.
LEMMA KillFresh ==
    ASSUME TypeOK, ListFresh, NEW num, Kill(num)
    PROVE  ListFresh'
<1>1. /\ list \in Seq(Children \cup {NOPID}) /\ num \in 1..Len(list)
      /\ list' = Without(list, num)
      /\ signalled' = signalled \cup ({list[num]} \ {NOPID})
      /\ pc' = pc /\ FLAG_CONTINUE' = FLAG_CONTINUE
  BY DEF Kill, TypeOK, childVars, Without
<1>2. /\ Len(list') = Len(list) - 1 /\ Len(list) \in Nat
      /\ list[num] \in Children \cup {NOPID}
      /\ \A k \in 1..Len(list') :
           list'[k] = IF k < num THEN list[k] ELSE list[k + 1]
  <2>1. PICK S, l, m : S = Children \cup {NOPID} /\ l = list /\ m = list'
    OBVIOUS
  <2>2. /\ Len(m) = Len(l) - 1 /\ Len(l) \in Nat
        /\ l[num] \in S
        /\ \A k \in 1..Len(m) : m[k] = IF k < num THEN l[k] ELSE l[k + 1]
    <3>1. /\ l \in Seq(S) /\ num \in 1..Len(l)
          /\ m = Without(l, num)
      BY <1>1, <2>1
    <3>2. QED
      BY <3>1, ListWithout
  <2>3. QED
    BY <2>1, <2>2
<1> DEFINE Old(k) == IF k < num THEN k ELSE k + 1
<1>3. \A k \in 1..Len(list') : Old(k) \in 1..Len(list) /\ Old(k) # num
  <2>1. num \in Nat
    BY <1>1
  <2>2. \A k \in 1..(Len(list) - 1) : Old(k) \in 1..Len(list) /\ Old(k) # num
    BY <1>2, <2>1
  <2>3. QED
    BY <1>2, <2>2
<1>4. \A k \in 1..Len(list') : list'[k] = list[Old(k)]
  BY <1>2
<1>5. \A j, k \in Nat : Old(j) = Old(k) => j = k
  BY <1>1
<1>6. \A k \in 1..Len(list') : k \in Nat
  OBVIOUS
<1> HIDE DEF Old
<1>7. \A j, k \in 1..Len(list') :
        list'[j] = list'[k] /\ list'[j] # NOPID => j = k
  <2> SUFFICES ASSUME NEW j \in 1..Len(list'), NEW k \in 1..Len(list'),
                      list'[j] = list'[k], list'[j] # NOPID
               PROVE  j = k
    OBVIOUS
  <2>1. Old(j) \in 1..Len(list) /\ Old(k) \in 1..Len(list)
    BY <1>3
  <2>2. list[Old(j)] = list[Old(k)] /\ list[Old(j)] # NOPID
    BY <1>4
  <2>3. Old(j) = Old(k)
    BY <2>1, <2>2 DEF ListFresh
  <2>4. QED
    BY <1>5, <1>6, <2>3
<1>8. \A k \in 1..Len(list') : list'[k] # NOPID => list'[k] # list[num]
  <2> SUFFICES ASSUME NEW k \in 1..Len(list'), list'[k] # NOPID
               PROVE  list'[k] # list[num]
    OBVIOUS
  <2>1. Old(k) \in 1..Len(list) /\ Old(k) # num
    BY <1>3
  <2>2. list[Old(k)] = list'[k]
    BY <1>4
  <2>3. QED
    BY <1>1, <2>1, <2>2 DEF ListFresh
<1>9. \A k \in 1..Len(list') : list'[k] # NOPID =>
        /\ pc'[list'[k]] # "absent"
        /\ FLAG_CONTINUE'[list'[k]] = TRUE /\ list'[k] \notin signalled'
  <2> SUFFICES ASSUME NEW k \in 1..Len(list'), list'[k] # NOPID
               PROVE  /\ pc[list'[k]] # "absent"
                      /\ FLAG_CONTINUE[list'[k]] = TRUE
                      /\ list'[k] \notin signalled'
    BY <1>1
  <2>1. list'[k] = list[Old(k)] /\ Old(k) \in 1..Len(list)
    BY <1>3, <1>4
  <2>2. /\ pc[list[Old(k)]] # "absent"
        /\ FLAG_CONTINUE[list[Old(k)]] = TRUE /\ list[Old(k)] \notin signalled
    BY <2>1 DEF ListFresh
  <2>3. list'[k] # list[num]
    BY <1>8
  <2>4. QED
    BY <1>1, <2>1, <2>2, <2>3
<1>10. list[num] # NOPID => pc[list[num]] # "absent"
  BY <1>1 DEF ListFresh
<1>11. \A c \in Children :
         /\ pc'[c] = "absent" => FLAG_CONTINUE'[c] = TRUE /\ c \notin signalled'
         /\ pc'[c] = "done" => FLAG_CONTINUE'[c] = FALSE
  BY <1>1, <1>10 DEF ListFresh
<1>12. \A p \in Producers : pc'[p] # "faulted"
  BY <1>1 DEF ListFresh
<1>13. QED
  BY <1>7, <1>9, <1>11, <1>12 DEF ListFresh

\* Nobody is listed again, and 'k' takes off the list whom it signals.
LEMMA FreshStep ==
    ASSUME IInv, [Next]_vars
    PROVE  ListFresh'
<1> USE DEF IInv, Goto, semVars, ringVars, childVars, sigVars, listVars,
            mainVars, ListFresh, TypeOK, Gone, Alive
<1>1. ASSUME NEW c \in Alive, Lock(c)
      PROVE  ListFresh'
  BY <1>1 DEF Lock
<1>2. ASSUME NEW c \in Alive, Unlock(c)
      PROVE  ListFresh'
  BY <1>2 DEF Unlock
<1>3. ASSUME NEW c \in Alive, Stop(c)
      PROVE  ListFresh'
  BY <1>3 DEF Stop
<1>4. ASSUME NEW c \in Alive, Die(c)
      PROVE  ListFresh'
  BY <1>4 DEF Die
<1>5. ASSUME NEW c \in Alive, c \in Producers, ProducerWait(c)
      PROVE  ListFresh'
  BY <1>5 DEF ProducerWait
<1>6. ASSUME NEW c \in Alive, c \in Producers, ProducerAdd(c)
      PROVE  ListFresh'
  BY <1>6 DEF ProducerAdd
<1>7. ASSUME NEW c \in Alive, c \in Producers, ProducerPost(c)
      PROVE  ListFresh'
  BY <1>7 DEF ProducerPost, LoopTest
<1>8. ASSUME NEW c \in Alive, c \in Consumers, ConsumerWait(c)
      PROVE  ListFresh'
  BY <1>8 DEF ConsumerWait
<1>9. ASSUME NEW c \in Alive, c \in Consumers, ConsumerExtract(c)
      PROVE  ListFresh'
  BY <1>9 DEF ConsumerExtract
<1>10. ASSUME NEW c \in Alive, c \in Consumers, ConsumerPost(c)
       PROVE  ListFresh'
  BY <1>10, Lab4Assumption DEF ConsumerPost, LoopTest, GotMessage
<1>11. ASSUME NEW c \in Children, Fork(c)
       PROVE  ListFresh'
  BY <1>11, ListAppend DEF Fork
<1>12. CASE ForkFails
  BY <1>12, ListAppend DEF ForkFails
<1>13. ASSUME NEW num \in 1..(Cardinality(Children) + MaxFailures), Kill(num)
       PROVE  ListFresh'
  BY <1>13, KillFresh
<1>14. CASE Quit
  BY <1>14 DEF Quit
<1>15. CASE DeleteNext
  BY <1>15, ListFront DEF DeleteNext
<1>16. CASE DeleteEnd
  BY <1>16 DEF DeleteEnd
<1>17. CASE ClearNext
  BY <1>17 DEF ClearNext
<1>18. CASE ClearEnd
  BY <1>18 DEF ClearEnd
<1>19. CASE UNCHANGED vars
  BY <1>19 DEF vars
<1>20. QED
  BY <1>1, <1>2, <1>3, <1>4, <1>5, <1>6, <1>7, <1>8, <1>9, <1>10, <1>11,
     <1>12, <1>13, <1>14, <1>15, <1>16, <1>17, <1>18, <1>19
    DEF Next, Main, Leaving, Child, Ended

\* Only the loop behind 'q' sends SIGKILL.
LEMMA KillStep ==
    ASSUME IInv, [Next]_vars
    PROVE  QuitKills'
<1> USE DEF IInv, Goto, semVars, ringVars, childVars, sigVars, listVars,
            mainVars, QuitKills
<1>1. ASSUME NEW c \in Alive, Lock(c)
      PROVE  QuitKills'
  BY <1>1 DEF Lock
<1>2. ASSUME NEW c \in Alive, Unlock(c)
      PROVE  QuitKills'
  BY <1>2 DEF Unlock
<1>3. ASSUME NEW c \in Alive, Stop(c)
      PROVE  QuitKills'
  BY <1>3 DEF Stop
<1>4. ASSUME NEW c \in Alive, Die(c)
      PROVE  QuitKills'
  BY <1>4 DEF Die
<1>5. ASSUME NEW c \in Alive, c \in Producers, ProducerWait(c)
      PROVE  QuitKills'
  BY <1>5 DEF ProducerWait
<1>6. ASSUME NEW c \in Alive, c \in Producers, ProducerAdd(c)
      PROVE  QuitKills'
  BY <1>6 DEF ProducerAdd
<1>7. ASSUME NEW c \in Alive, c \in Producers, ProducerPost(c)
      PROVE  QuitKills'
  BY <1>7 DEF ProducerPost, LoopTest
<1>8. ASSUME NEW c \in Alive, c \in Consumers, ConsumerWait(c)
      PROVE  QuitKills'
  BY <1>8 DEF ConsumerWait
<1>9. ASSUME NEW c \in Alive, c \in Consumers, ConsumerExtract(c)
      PROVE  QuitKills'
  BY <1>9 DEF ConsumerExtract
<1>10. ASSUME NEW c \in Alive, c \in Consumers, ConsumerPost(c)
       PROVE  QuitKills'
  BY <1>10 DEF ConsumerPost, LoopTest
<1>11. ASSUME NEW c \in Children, Fork(c)
       PROVE  QuitKills'
  BY <1>11 DEF Fork
<1>12. CASE ForkFails
  BY <1>12 DEF ForkFails
<1>13. ASSUME NEW num \in 1..(Cardinality(Children) + MaxFailures), Kill(num)
       PROVE  QuitKills'
  BY <1>13 DEF Kill
<1>14. CASE Quit
  BY <1>14 DEF Quit
<1>15. CASE DeleteNext
  BY <1>15 DEF DeleteNext
<1>16. CASE DeleteEnd
  BY <1>16 DEF DeleteEnd
<1>17. CASE ClearNext
  BY <1>17 DEF ClearNext
<1>18. CASE ClearEnd
  BY <1>18 DEF ClearEnd
<1>19. CASE UNCHANGED vars
  BY <1>19 DEF vars
<1>20. QED
  BY <1>1, <1>2, <1>3, <1>4, <1>5, <1>6, <1>7, <1>8, <1>9, <1>10, <1>11,
     <1>12, <1>13, <1>14, <1>15, <1>16, <1>17, <1>18, <1>19
    DEF Next, Main, Leaving, Child, Ended

\* The invariant is kept by every step.
LEMMA InvariantStep == IInv /\ [Next]_vars => IInv'
<1> SUFFICES ASSUME IInv, [Next]_vars PROVE IInv'
  OBVIOUS
<1>1. TokenAccounting'
  <2>1. Balanced
    BY DEF IInv, TokenAccounting, Balanced, hp, hc, op, oc, taken
  <2>2. Balanced'
    BY <2>1, TokenStep
  <2>3. QED
    BY <2>2 DEF TokenAccounting, Balanced, hp, hc, op, oc, taken
<1>2. QED
  BY <1>1, TypeStep, RunStep, GotStep, MutexStep, FreshStep, KillStep DEF IInv

------------------------------------------------------------------------------
(***************************************************************************)
(* The theorems                                                            *)
(***************************************************************************)

\* The inductive invariant holds in every reachable state.
THEOREM Invariance == Spec => []IInv
BY InitIInv, InvariantStep, PTL DEF Spec

\* Every variable stays in its type; SEMAPHORE_MUTEX is never 2.
THEOREM TypeCorrect == Spec => []TypeOK
<1>1. IInv => TypeOK
  BY DEF IInv
<1>2. QED
  BY <1>1, Invariance, PTL

\* However children are stopped and killed, the semaphores and the children's
\* hands hold as many tokens as there are free places and messages.
THEOREM TokensAccounted == Spec => []TokenAccounting
<1>1. IInv => TokenAccounting
  BY DEF IInv
<1>2. QED
  BY <1>1, Invariance, PTL

\* No message is dropped by add_message and display_message is never given
\* NULL, for any number of processes over a ring of any size.
THEOREM AccessIsSafe == Spec => []SafeAccess
<1>1. IInv => SafeAccess
  BY AccountingGivesSafeAccess DEF IInv
<1>2. QED
  BY <1>1, Invariance, PTL

\* Who is listed, the -1 of a failed fork apart, is a child that runs or that
\* 'q' has killed: no child leaves by itself before it was told to, and who
\* is told is off the list.
LEMMA ListedAreChildren ==
    ASSUME IInv, NEW k \in 1..Len(list), list[k] # NOPID
    PROVE  list[k] \in Alive \cup killed
<1>1. list[k] \in Children
  BY ElementOfSeq DEF IInv, TypeOK
<1>2. pc[list[k]] \notin Gone
  BY <1>1 DEF IInv, ListFresh, GotMessage, Gone, Children
<1>3. QED
  BY <1>1, <1>2 DEF IInv, TypeOK, Alive

\* The only signal that can reach a process which is no child of this parent
\* is the SIGKILL of 'q' for a -1 still listed; 'k' never sends one, and
\* without a failed fork 'q' does not either.
THEOREM SignalsGoToChildren == Spec => StrangersOnlyByMinusOne
<1>1. ASSUME IInv, [Next]_vars, strangers' # strangers
      PROVE  DeleteNext /\ list[Len(list)] = NOPID
  <2>1. ASSUME NEW num, Kill(num)
        PROVE  FALSE
    <3>1. PICK pid \in {list[num]} \ {NOPID} : Stranger(pid)
      BY <1>1, <2>1 DEF Kill
    <3>2. num \in 1..Len(list) /\ list[num] # NOPID /\ pid = list[num]
      BY <2>1, <3>1 DEF Kill
    <3>3. QED
      BY <1>1, <3>1, <3>2, ListedAreChildren DEF Stranger
  <2>2. ASSUME DeleteNext
        PROVE  list[Len(list)] = NOPID
    <3>1. Stranger(list[Len(list)])
      BY <1>1, <2>2 DEF DeleteNext
    <3>2. Len(list) \in 1..Len(list)
      BY <1>1, <2>2, EmptySeq, LenProperties DEF DeleteNext, IInv, TypeOK
    <3>3. QED
      BY <1>1, <3>1, <3>2, ListedAreChildren DEF Stranger
  <2>3. CASE UNCHANGED strangers
    BY <1>1, <2>3
  <2>4. DeleteNext \/ (\E num : Kill(num)) \/ UNCHANGED strangers
    BY <1>1
       DEF Next, Main, Leaving, Child, Ended, vars, sigVars, Lock, Unlock,
           Stop, Die, ProducerWait, ProducerAdd, ProducerPost, ConsumerWait,
           ConsumerExtract, ConsumerPost, Fork, ForkFails, Quit, DeleteEnd,
           ClearNext, ClearEnd
  <2>5. QED
    BY <2>1, <2>2, <2>3, <2>4
<1>2. IInv /\ [Next]_vars =>
        [strangers' # strangers =>
           DeleteNext /\ list[Len(list)] = NOPID]_vars
  BY <1>1
<1>3. QED
  BY <1>2, Invariance, PTL DEF Spec, StrangersOnlyByMinusOne

\* Stopping children with 'k' never costs the others the mutex.
THEOREM MutexSurvivesStops == Spec => []MutexLostOnlyByQuit
<1>1. ASSUME IInv, MUTEX = 0, At(Alive, {"locked", "unlock"}) = {}
      PROVE  \E c \in dead : pc[c] \in {"locked", "unlock"}
  <2>1. PICK c \in Children : pc[c] \in {"locked", "unlock"}
    BY <1>1 DEF IInv, MutexHeld, At
  <2>2. c \notin Alive
    BY <1>1, <2>1 DEF At
  <2>3. c \in dead
    BY <2>1, <2>2 DEF Alive, Gone
  <2>4. QED
    BY <2>1, <2>3
<1>2. IInv => MutexLostOnlyByQuit
  BY <1>1 DEF MutexLostOnlyByQuit
<1>3. QED
  BY <1>2, Invariance, PTL

\* With nobody dead, the child in the critical section is alive.
LEMMA HeldByTheLiving ==
    ASSUME IInv, main = "menu"
    PROVE  dead = {} /\ (MUTEX = 1 \/ At(Alive, {"locked", "unlock"}) # {})
<1>1. dead = {}
  BY DEF IInv, TypeOK, QuitKills
<1>2. ASSUME MUTEX # 1
      PROVE  At(Alive, {"locked", "unlock"}) # {}
  <2>1. MUTEX = 0
    BY <1>2 DEF IInv, TypeOK
  <2>2. PICK c \in Children : pc[c] \in {"locked", "unlock"}
    BY <2>1 DEF IInv, MutexHeld, At
  <2>3. c \in Alive
    BY <1>1, <2>2 DEF Alive, Gone
  <2>4. QED
    BY <2>2, <2>3 DEF At
<1>3. QED
  BY <1>1, <1>2

\* What MutexLostOnlyByQuit means for the others.
MutexInTheMenu ==
    main = "menu" =>
      dead = {} /\ (MUTEX = 1 \/ At(Alive, {"locked", "unlock"}) # {})

\* While the menu of main runs nobody is dead, so a mutex that is not free is
\* held by a child that is on its way to sem_post.
THEOREM MutexIsHeldByTheLiving == Spec => []MutexInTheMenu
<1>1. IInv => MutexInTheMenu
  BY HeldByTheLiving DEF MutexInTheMenu
<1>2. QED
  BY <1>1, Invariance, PTL

\* Who can go on while the menu is up: the side whose semaphore has a token,
\* a child that waits for nothing, or one that finds the mutex free.
TokensGoRound ==
    main = "menu" =>
      \/ EMPTY > 0 \/ FILLED > 0
      \/ At(Alive, {"locked", "unlock", "post"}) # {}
      \/ MUTEX = 1 /\ At(Alive, {"lock"}) # {}

\* Children that 'k' has stopped take no token with them, so the producers
\* and the consumers that are left never all wait for each other.
THEOREM MenuNeverStandsStill == Spec => []TokensGoRound
<1>1. ASSUME IInv, main = "menu", EMPTY = 0, FILLED = 0
      PROVE  \E c \in Alive : pc[c] \in {"lock", "locked", "unlock", "post"}
  <2>1. dead = {}
    BY <1>1 DEF IInv, TypeOK, QuitKills
  <2>2. SUFFICES ASSUME \A c \in Children :
                          pc[c] \notin {"lock", "locked", "unlock", "post"}
                 PROVE  FALSE
    BY <2>1 DEF Alive, Gone
  <2>3. /\ At(Producers, {"lock", "locked"}) = {}
        /\ At(Consumers, {"unlock", "post"}) = {}
        /\ At(Consumers, {"lock", "locked"}) = {}
        /\ At(Producers, {"unlock", "post"}) = {}
    BY <2>2 DEF At, Children
  <2>4. 0 = BUFFER_SIZE - Cardinality(Busy) /\ 0 = Cardinality(Busy)
    <3>1. /\ Cardinality(At(Producers, {"lock", "locked"})) = 0
          /\ Cardinality(At(Consumers, {"unlock", "post"})) = 0
          /\ Cardinality(At(Consumers, {"lock", "locked"})) = 0
          /\ Cardinality(At(Producers, {"unlock", "post"})) = 0
      BY <2>3, FS_EmptySet
    <3>2. Cardinality(Busy) \in Nat /\ BUFFER_SIZE \in Nat
      BY NodeCounts
    <3>3. QED
      BY <1>1, <3>1, <3>2 DEF IInv, TokenAccounting
  <2>5. QED
    BY <2>4, Lab4Assumption
<1>2. ASSUME IInv, main = "menu", ~ (EMPTY > 0), ~ (FILLED > 0)
      PROVE  \/ At(Alive, {"locked", "unlock", "post"}) # {}
             \/ MUTEX = 1 /\ At(Alive, {"lock"}) # {}
  <2>1. EMPTY = 0 /\ FILLED = 0
    BY <1>2 DEF IInv, TypeOK
  <2>2. PICK c \in Alive : pc[c] \in {"lock", "locked", "unlock", "post"}
    BY <1>1, <1>2, <2>1
  <2>3. MUTEX = 1 \/ At(Alive, {"locked", "unlock"}) # {}
    BY <1>2, HeldByTheLiving
  <2>4. QED
    BY <2>2, <2>3 DEF At
<1>3. IInv => TokensGoRound
  BY <1>2 DEF TokensGoRound
<1>4. QED
  BY <1>3, Invariance, PTL

==============================================================================
