------------------------- MODULE Lab6IndexSortProofs --------------------------
(***************************************************************************)
(* What the run of Lab6IndexSort checks for three workers and eight        *)
(* blocks, proved for any number of workers, blocks, records and pieces.   *)
(*                                                                         *)
(* The argument: the barrier keeps all workers in one of four phases       *)
(* (Phases): between two pieces, sorting, halving, merging.  In each phase *)
(* the sizes are known (Sizes), and a claimed block is marked in state_map *)
(* until main sets the map back (Claims), so that the phases and the map   *)
(* together say who may be in a block with whom.  That the sort is right   *)
(* takes a second invariant (OrderInv, below): which blocks are in order   *)
(* wherever main is, and that merge makes one of two.                      *)
(***************************************************************************)
EXTENDS Lab6IndexSort, FiniteSets, SequenceTheorems, WellFoundedInduction,
        TLAPS

\* All workers are at the same piece, and it is one of the file.
SamePiece == \A w \in Workers : round[w] = round[0] /\ round[w] < repeats

\* Before the first barrier of a piece, or behind the last.  Main counts the
\* piece when it has finished it, the others when they leave the barrier.
Between ==
    /\ \A w \in Workers :
         /\ pc[w] \in {"next", "finish", "wait_start", "end"}
         /\ pc[w] = "finish" => w = 0
         /\ pc[w] = "wait_start" => round[w] < repeats
         /\ pc[w] = "end" => round[w] = repeats
         /\ current_index[w] = w
    /\ pc[0] = "finish" =>
         /\ blocks = 1 /\ round[0] < repeats
         /\ \A w \in Workers \ {0} : round[w] = round[0] + 1
    /\ pc[0] # "finish" =>
         /\ blocks = BLOCKS
         /\ \A w \in Workers : round[w] = round[0]

\* Sorting: own blocks first, then blocks behind those of all workers.
Sorting ==
    /\ SamePiece /\ blocks = BLOCKS
    /\ \A w \in Workers :
         /\ pc[w] \in {"work", "lock", "scan", "reset", "wait_phase"}
         /\ pc[w] = "reset" => w = 0
         /\ stage[w] = "sort"
         /\ pc[w] = "work" => i[w] \in threads..(BLOCKS - 1)
         /\ pc[w] \in {"lock", "scan"} => i[w] > threads
         /\ pc[w] = "reset" => i[w] < BLOCKS
         /\ pc[w] = "wait_phase" => i[w] = 0

\* Main halves the blocks, between two barriers.
Halving ==
    /\ SamePiece
    /\ \A w \in Workers :
         /\ pc[w] \in {"halve", "wait_halved"}
         /\ pc[w] = "halve" => w = 0
         /\ i[w] = 0 /\ current_index[w] = w
    /\ pc[0] = "halve" => blocks # 1
    /\ pc[0] # "halve" => cnt_records % 2 = 0

\* Merging, or leaving when there is one block.
Merging ==
    /\ SamePiece
    /\ \A w \in Workers :
         /\ pc[w] \in {"test", "work", "lock", "scan", "wait_phase",
                       "wait_done"}
         /\ pc[w] = "wait_done" => blocks = 1
         /\ pc[w] \in {"work", "lock", "scan", "wait_phase"} =>
              blocks # 1 /\ stage[w] = "merge"
         /\ pc[w] \in {"test", "wait_phase", "wait_done"} => i[w] = 0
         /\ pc[w] \in {"test", "wait_done"} => current_index[w] = w
         /\ pc[w] = "work" => i[w] < blocks
    /\ cnt_records % 2 = 0

Phases == Between \/ Sorting \/ Halving \/ Merging

\* What halving and doubling keep, and that the halves of the last block are
\* there to be merged.
Sizes ==
    /\ \E c \in 1..BLOCKS : blocks * c = BLOCKS /\ cnt_records = CNT * c
    /\ pc[0] = "finish" => cnt_records % 2 = 0
    /\ \A w \in Workers : pc[w] = "work" => current_index[w] < blocks

\* Nobody has set the map back behind the claim of w.
Unreset(w) == stage[w] = "merge" \/ pc[0] \notin {"reset", "wait_phase"}

\* While the map stands, everybody is in a block of his own or in one that
\* is marked, and alone.
Claims ==
    \A w \in Workers : pc[w] = "work" /\ Unreset(w) =>
        /\ \/ stage[w] = "sort" /\ current_index[w] <= threads
           \/ state_map[current_index[w]] = TRUE
        /\ \A v \in Workers : pc[v] = "work" /\ v # w =>
             current_index[v] # current_index[w]

\* The mutex belongs to the worker that looks for a block.
MutexHeld == \A w \in Workers : pc[w] = "scan" <=> mutex = w

\* The inductive invariant.
IInv == TypeOK /\ Phases /\ Sizes /\ Claims /\ MutexHeld

\* All that wait at the barrier are in the same of its four calls, and
\* nobody whom they wait for has left.
BarrierPairsUp ==
    \A w \in arrived :
        /\ \A v \in arrived : pc[v] = pc[w]
        /\ \A v \in Workers : pc[v] # "end"

\* Somebody has a step to take that nobody else can keep him from: he is
\* neither at the barrier nor at the mutex, or the mutex is free, or he has
\* still to arrive.
SomebodyGoesOn ==
    \/ \A w \in Workers : pc[w] = "end"
    \/ \E w \in Workers : pc[w] \notin Waits \cup {"lock", "end"}
    \/ mutex = NULL /\ \E w \in Workers : pc[w] = "lock"
    \/ \E w \in Workers \ arrived : pc[w] \in Waits

------------------------------------------------------------------------------
(***************************************************************************)
(* merge                                                                   *)
(***************************************************************************)

\* A non-empty set of numbers has a least one.
LEMMA Least ==
    ASSUME NEW T, T \subseteq Nat, T # {}
    PROVE  \E x \in T : \A y \in T : x <= y
<1> DEFINE R == OpToRel(<, Nat)
<1>1. IsWellFoundedOn(R, Nat)
  BY NatLessThanWellFounded
<1>2. \A x, y \in Nat : <<x, y>> \in R <=> x < y
  BY DEF OpToRel
<1> HIDE DEF R
<1>3. PICK x \in T : \A y \in T : ~ (<<y, x>> \in R)
  BY <1>1, WFMin
<1>4. x \in Nat /\ \A y \in T : y \in Nat /\ ~ (y < x)
  BY <1>2, <1>3
<1>5. \A y \in Nat : ~ (y < x) => x <= y
  BY <1>4
<1>6. QED
  BY <1>4, <1>5

\* How many records each half has given; how many are still to come; which
\* half gives the next, what it gives, and what has been given then.
Given(n)   == (0..n) \X (0..n)
Togo(n, p) == (n - p[1]) + (n - p[2])

TakesLeft(first, n, p) ==
    \/ p[2] = n
    \/ p[1] < n /\ time_mark[part[first + p[1]]]
                   <= time_mark[part[first + n + p[2]]]

Taken(first, n, p) == IF TakesLeft(first, n, p) THEN part[first + p[1]]
                                                ELSE part[first + n + p[2]]
Then(first, n, p)  == IF TakesLeft(first, n, p) THEN <<p[1] + 1, p[2]>>
                                                ELSE <<p[1], p[2] + 1>>

\* What rest computes, step by step.
Out(first, n, f, p) ==
    IF p[1] = n /\ p[2] = n THEN <<>>
    ELSE <<Taken(first, n, p)>> \o f[Then(first, n, p)]

\* f is the table `rest' of a merge.
Rest(first, n, f) == f = [p \in Given(n) |-> Out(first, n, f, p)]

\* A step gives a record of the two halves, and one less is to come.
LEMMA MergeStep ==
    ASSUME NEW first, NEW n \in Nat, NEW p \in Given(n)
    PROVE  /\ Togo(n, p) \in 0..(2 * n)
           /\ Togo(n, p) = 0 <=> p[1] = n /\ p[2] = n
           /\ Togo(n, p) # 0 =>
                /\ Then(first, n, p) \in Given(n)
                /\ Togo(n, Then(first, n, p)) = Togo(n, p) - 1
<1>1. /\ p[1] \in 0..n /\ p[2] \in 0..n
      /\ p[1] \in Nat /\ p[2] \in Nat /\ p[1] <= n /\ p[2] <= n
  BY DEF Given
<1>2. /\ Togo(n, p) \in 0..(2 * n)
      /\ Togo(n, p) = 0 <=> p[1] = n /\ p[2] = n
  <2>1. ASSUME NEW a \in Nat, NEW b \in Nat, a <= n, b <= n
        PROVE  /\ (n - a) + (n - b) \in 0..(2 * n)
               /\ (n - a) + (n - b) = 0 <=> a = n /\ b = n
    <3>1. (n - a) + (n - b) \in 0..(n + n) /\ n + n = 2 * n
      BY <2>1
    <3>2. (n - a) + (n - b) = 0 <=> a = n /\ b = n
      BY <2>1
    <3>3. QED
      BY <3>1, <3>2
  <2>2. Togo(n, p) = (n - p[1]) + (n - p[2])
    BY DEF Togo
  <2>3. QED
    BY <1>1, <2>1, <2>2
<1>3. ASSUME Togo(n, p) # 0, TakesLeft(first, n, p)
      PROVE  /\ Then(first, n, p) \in Given(n)
             /\ Togo(n, Then(first, n, p)) = Togo(n, p) - 1
  <2>1. p[1] # n
    BY <1>2, <1>3 DEF TakesLeft
  <2>2. p[1] + 1 \in 0..n /\ (n - (p[1] + 1)) + (n - p[2]) = Togo(n, p) - 1
    BY <1>1, <2>1 DEF Togo
  <2>3. Then(first, n, p) = <<p[1] + 1, p[2]>>
    BY <1>3 DEF Then
  <2>4. QED
    BY <1>1, <2>2, <2>3 DEF Given, Togo
<1>4. ASSUME Togo(n, p) # 0, ~ TakesLeft(first, n, p)
      PROVE  /\ Then(first, n, p) \in Given(n)
             /\ Togo(n, Then(first, n, p)) = Togo(n, p) - 1
  <2>1. p[2] # n
    BY <1>4 DEF TakesLeft
  <2>2. p[2] + 1 \in 0..n /\ (n - p[1]) + (n - (p[2] + 1)) = Togo(n, p) - 1
    BY <1>1, <2>1 DEF Togo
  <2>3. Then(first, n, p) = <<p[1], p[2] + 1>>
    BY <1>4 DEF Then
  <2>4. QED
    BY <1>1, <2>2, <2>3 DEF Given, Togo
<1>5. QED
  BY <1>2, <1>3, <1>4

\* The recursion ends, so that there is such a table.
LEMMA RestExists ==
    ASSUME NEW first, NEW n \in Nat
    PROVE  \E f : Rest(first, n, f)
<1> DEFINE D(m) == {p \in Given(n) : Togo(n, p) <= m}
           Table(m, f) == f = [p \in D(m) |-> Out(first, n, f, p)]
           Bad == {m \in Nat : ~ \E f : Table(m, f)}
<1>1. ASSUME NEW p \in Given(n)
      PROVE  /\ Togo(n, p) \in Nat /\ Togo(n, p) <= 2 * n
             /\ Togo(n, p) = 0 <=> p[1] = n /\ p[2] = n
             /\ Togo(n, p) # 0 =>
                  /\ Then(first, n, p) \in Given(n)
                  /\ Togo(n, Then(first, n, p)) = Togo(n, p) - 1
  BY MergeStep
<1>2. Bad = {}
  <2>1. SUFFICES ASSUME Bad # {} PROVE FALSE
    OBVIOUS
  <2>2. Bad \subseteq Nat
    OBVIOUS
  <2> HIDE DEF Bad
  <2>3. PICK m \in Bad : \A l \in Bad : m <= l
    BY <2>1, <2>2, Least
  <2>4. m \in Nat /\ ~ \E f : Table(m, f)
    BY <2>3 DEF Bad
  <2>5. CASE m = 0
    <3> DEFINE g == [p \in D(0) |-> <<>>]
    <3>1. \A p \in D(0) : p[1] = n /\ p[2] = n
      BY <1>1
    <3>2. \A p \in D(0) : Out(first, n, g, p) = <<>>
      BY <3>1 DEF Out
    <3>3. Table(0, g)
      BY <3>2
    <3>4. QED
      BY <2>4, <2>5, <3>3
  <2>6. CASE m # 0
    <3>1. m - 1 \in Nat /\ ~ (m <= m - 1)
      BY <2>4, <2>6
    <3>2. m - 1 \notin Bad
      BY <2>3, <3>1
    <3>3. PICK f : Table(m - 1, f)
      BY <3>1, <3>2 DEF Bad
    <3> DEFINE g == [p \in D(m) |-> IF p \in D(m - 1) THEN f[p]
                                    ELSE Out(first, n, f, p)]
    <3>4. \A p \in D(m - 1) : f[p] = Out(first, n, f, p)
      BY <3>3
    <3>5. \A p \in D(m) : g[p] = Out(first, n, f, p)
      BY <3>4
    <3>6. ASSUME NEW p \in D(m)
          PROVE  Out(first, n, f, p) = Out(first, n, g, p)
      <4>1. CASE p[1] = n /\ p[2] = n
        BY <4>1 DEF Out
      <4>2. CASE ~ (p[1] = n /\ p[2] = n)
        <5>1. /\ Togo(n, p) # 0 /\ Togo(n, p) \in Nat /\ Togo(n, p) <= m
              /\ Then(first, n, p) \in Given(n)
              /\ Togo(n, Then(first, n, p)) = Togo(n, p) - 1
          BY <1>1, <4>2
        <5>2. Togo(n, p) - 1 <= m - 1 /\ Togo(n, p) - 1 <= m
          BY <2>4, <5>1
        <5>3. Then(first, n, p) \in D(m - 1) /\ Then(first, n, p) \in D(m)
          BY <5>1, <5>2
        <5>4. g[Then(first, n, p)] = f[Then(first, n, p)]
          BY <5>3
        <5>5. QED
          BY <5>4 DEF Out
      <4>3. QED
        BY <4>1, <4>2
    <3>7. \A p \in D(m) : g[p] = Out(first, n, g, p)
      BY <3>5, <3>6
    <3>8. g = [p \in D(m) |-> g[p]]
      OBVIOUS
    <3> HIDE DEF g
    <3>9. Table(m, g)
      BY <3>7, <3>8
    <3>10. QED
      BY <2>4, <3>9
  <2>7. QED
    BY <2>5, <2>6
<1>3. 2 * n \in Nat
  OBVIOUS
<1>4. PICK f : Table(2 * n, f)
  BY <1>2, <1>3
<1>5. D(2 * n) = Given(n)
  BY <1>1
<1>6. QED
  BY <1>4, <1>5 DEF Rest

\* What Merge puts in the places of the two halves.
LEMMA MergeIsRest ==
    ASSUME NEW first, NEW n \in Nat
    PROVE  \E f : /\ Rest(first, n, f)
                  /\ Merge(first, n)
                     = [k \in first..(first + 2 * n - 1) |->
                          f[<<0, 0>>][k - first + 1]]
<1> DEFINE Is(f) == f = [p \in (0..n) \X (0..n) |->
               IF p[1] = n /\ p[2] = n THEN <<>>
               ELSE IF \/ p[2] = n
                       \/ p[1] < n /\ time_mark[part[first + p[1]]]
                                      <= time_mark[part[first + n + p[2]]]
                    THEN <<part[first + p[1]]>> \o f[<<p[1] + 1, p[2]>>]
                    ELSE <<part[first + n + p[2]]>> \o f[<<p[1], p[2] + 1>>]]
           R == CHOOSE f : Is(f)
<1>1. ASSUME NEW f
      PROVE  Is(f) <=> Rest(first, n, f)
  <2>1. ASSUME NEW p
        PROVE  Out(first, n, f, p)
               = IF p[1] = n /\ p[2] = n THEN <<>>
                 ELSE IF \/ p[2] = n
                         \/ p[1] < n /\ time_mark[part[first + p[1]]]
                                        <= time_mark[part[first + n + p[2]]]
                      THEN <<part[first + p[1]]>> \o f[<<p[1] + 1, p[2]>>]
                      ELSE <<part[first + n + p[2]]>>
                           \o f[<<p[1], p[2] + 1>>]
    BY DEF Out, Taken, Then, TakesLeft
  <2>2. QED
    BY <2>1 DEF Rest, Given
<1>2. \E f : Is(f)
  BY <1>1, RestExists
<1>3. Is(R)
  BY <1>2
<1>4. Merge(first, n) = [k \in first..(first + 2 * n - 1) |->
                           R[<<0, 0>>][k - first + 1]]
  BY DEF Merge
<1>5. QED
  BY <1>1, <1>3, <1>4

\* The table has at <<a, b>> the records still to come.
LEMMA RestTyped ==
    ASSUME NEW first \in Nat, NEW n \in Nat, NEW f, Rest(first, n, f),
           part \in [Records -> Records],
           first..(first + 2 * n - 1) \subseteq Records
    PROVE  \A p \in Given(n) : f[p] \in Seq(Records) /\ Len(f[p]) = Togo(n, p)
<1> DEFINE Good(p) == f[p] \in Seq(Records) /\ Len(f[p]) = Togo(n, p)
           Bad == {m \in Nat : \E p \in Given(n) : Togo(n, p) = m /\ ~ Good(p)}
<1>1. Bad = {}
  <2>1. SUFFICES ASSUME Bad # {} PROVE FALSE
    OBVIOUS
  <2>2. PICK m \in Bad : \A l \in Bad : m <= l
    <3>1. Bad \subseteq Nat
      OBVIOUS
    <3>2. QED
      BY <2>1, <3>1, Least
  <2>3. PICK p \in Given(n) : Togo(n, p) = m /\ ~ Good(p)
    BY <2>2
  <2>4. /\ Togo(n, p) = 0 <=> p[1] = n /\ p[2] = n
        /\ Togo(n, p) # 0 =>
             /\ Then(first, n, p) \in Given(n)
             /\ Togo(n, Then(first, n, p)) = Togo(n, p) - 1
    BY MergeStep
  <2>5. f[p] = Out(first, n, f, p)
    BY DEF Rest
  <2>6. CASE m = 0
    <3>1. f[p] = <<>>
      BY <2>3, <2>4, <2>5, <2>6 DEF Out
    <3>2. QED
      BY <2>3, <2>6, <3>1
  <2>7. CASE m # 0
    <3> DEFINE q == Then(first, n, p)
    <3>1. q \in Given(n) /\ Togo(n, q) = m - 1
      BY <2>3, <2>4, <2>7
    <3> HIDE DEF q
    <3>2. m - 1 \in Nat /\ ~ (m <= m - 1) /\ 1 + (m - 1) = m
      BY <2>2, <2>7
    <3>3. Good(q)
      BY <2>2, <3>1, <3>2
    <3>4. Taken(first, n, p) \in Records
      <4>1. /\ p[1] \in Nat /\ p[2] \in Nat /\ p[1] <= n /\ p[2] <= n
            /\ p[1] # n \/ p[2] # n
        BY <2>3, <2>4, <2>7 DEF Given
      <4>2. CASE TakesLeft(first, n, p)
        <5>1. first + p[1] \in first..(first + 2 * n - 1)
          BY <4>1, <4>2 DEF TakesLeft
        <5>2. QED
          BY <4>2, <5>1 DEF Taken
      <4>3. CASE ~ TakesLeft(first, n, p)
        <5>1. first + n + p[2] \in first..(first + 2 * n - 1)
          BY <4>1, <4>3 DEF TakesLeft
        <5>2. QED
          BY <4>3, <5>1 DEF Taken
      <4>4. QED
        BY <4>2, <4>3
    <3>5. f[p] = <<Taken(first, n, p)>> \o f[q]
      BY <2>3, <2>4, <2>5, <2>7 DEF Out, q
    <3>6. Good(p)
      BY <2>3, <3>1, <3>2, <3>3, <3>4, <3>5
    <3>7. QED
      BY <2>3, <3>6
  <2>8. QED
    BY <2>6, <2>7
<1>2. \A p \in Given(n) : Togo(n, p) \in Nat
  BY MergeStep
<1>3. QED
  BY <1>1, <1>2

\* Merging two halves fills their places with records.
LEMMA MergeTyped ==
    ASSUME NEW first \in Nat, NEW n \in Nat,
           part \in [Records -> Records],
           first..(first + 2 * n - 1) \subseteq Records
    PROVE  Merge(first, n) \in [first..(first + 2 * n - 1) -> Records]
<1>1. PICK f : /\ Rest(first, n, f)
               /\ Merge(first, n)
                  = [k \in first..(first + 2 * n - 1) |->
                       f[<<0, 0>>][k - first + 1]]
  BY MergeIsRest
<1>2. <<0, 0>> \in Given(n) /\ Togo(n, <<0, 0>>) = 2 * n
  BY DEF Given, Togo
<1>3. f[<<0, 0>>] \in Seq(Records) /\ Len(f[<<0, 0>>]) = 2 * n
  BY <1>1, <1>2, RestTyped
<1>4. ASSUME NEW k \in first..(first + 2 * n - 1)
      PROVE  f[<<0, 0>>][k - first + 1] \in Records
  <2>1. k - first + 1 \in 1..(2 * n)
    OBVIOUS
  <2>2. QED
    BY <1>3, <2>1
<1>5. QED
  BY <1>1, <1>4

------------------------------------------------------------------------------
(***************************************************************************)
(* Sizes                                                                   *)
(***************************************************************************)

\* The arguments of the program.
LEMMA Arguments ==
    /\ threads \in Nat /\ repeats \in Nat /\ BLOCKS \in Nat /\ CNT \in Nat
    /\ BLOCKS > 1 /\ CNT > 0 /\ threads < BLOCKS /\ NULL \notin Workers
    /\ 0 \in Workers /\ \A w \in Workers : w \in 0..(BLOCKS - 1)
BY IndexSortAssumption DEF Workers

\* A block that there is lies in the piece; so does what merge writes there.
LEMMA SegmentInPiece ==
    ASSUME TypeOK, Sizes, NEW b \in Nat, b < blocks
    PROVE  /\ cnt_records \in Nat /\ cnt_records * b \in Nat
           /\ Segment(b) \subseteq Records
           /\ cnt_records % 2 = 0 =>
                /\ cnt_records \div 2 \in Nat
                /\ cnt_records * b
                   ..(cnt_records * b + 2 * (cnt_records \div 2) - 1)
                   = Segment(b)
<1>1. PICK c \in 1..BLOCKS : blocks * c = BLOCKS /\ cnt_records = CNT * c
  BY DEF Sizes
<1>2. CNT \in Nat /\ BLOCKS \in Nat /\ blocks \in Nat /\ c \in Nat
  <2>1. CNT \in Nat /\ BLOCKS \in Nat /\ blocks \in 1..BLOCKS
    BY Arguments DEF TypeOK
  <2>2. QED
    BY <2>1
<1>3. cnt_records \in Nat
  BY <1>1, <1>2
<1>4. ASSUME NEW x \in Nat, NEW y \in Nat, b < y
      PROVE  x * b \in Nat /\ x * (b + 1) <= y * x /\ x * (b + 1) = x * b + x
  <2>1. PICK z \in Nat : y = b + 1 + z
    BY <1>4
  <2>2. y * x = x * (b + 1) + x * z /\ x * z \in Nat
    BY <2>1
  <2>3. x * b \in Nat /\ x * (b + 1) \in Nat /\ x * (b + 1) = x * b + x
    OBVIOUS
  <2>4. QED
    BY <2>2, <2>3
<1>5. /\ cnt_records * b \in Nat
      /\ cnt_records * (b + 1) <= BLOCKS * CNT
      /\ cnt_records * (b + 1) = cnt_records * b + cnt_records
  BY <1>2, <1>3, <1>4 DEF TypeOK
<1>6. BLOCKS * CNT \in Nat
  BY <1>2
<1>7. Segment(b) \subseteq Records
  BY <1>3, <1>5, <1>6 DEF Segment, Records
<1>8. cnt_records % 2 = 0 => 2 * (cnt_records \div 2) = cnt_records
  BY <1>3
<1>9. cnt_records \div 2 \in Nat
  BY <1>3
<1>10. QED
  BY <1>3, <1>5, <1>7, <1>8, <1>9 DEF Segment

------------------------------------------------------------------------------
(***************************************************************************)
(* The inductive invariant                                                 *)
(***************************************************************************)

\* A worker's place in the code says which phase it is.
LEMMA PhaseOf ==
    ASSUME IInv, NEW w \in Workers
    PROVE  /\ pc[w] \in {"next", "finish", "wait_start", "end"} => Between
           /\ pc[w] \in {"halve", "wait_halved"} => Halving
           /\ pc[w] = "reset" => Sorting
           /\ pc[w] \in {"test", "wait_done"} => Merging
           /\ pc[w] \in {"work", "lock", "scan", "wait_phase"} =>
                Sorting \/ Merging
BY DEF IInv, Phases, Between, Sorting, Halving, Merging

LEMMA InitIInv == Init => IInv
<1> SUFFICES ASSUME Init PROVE IInv
  OBVIOUS
<1> USE Arguments
<1>1. BLOCKS * CNT \in Nat
  OBVIOUS
<1>2. part \in [Records -> Records]
  BY DEF Init
<1>3. TypeOK
  <2>1. blocks \in 1..BLOCKS /\ blocks * cnt_records = BLOCKS * CNT
    BY DEF Init
  <2>2. state_map \in [DOMAIN state_map -> BOOLEAN]
    <3>1. state_map = <<>> /\ DOMAIN <<>> = {} /\ <<>> \in [{} -> BOOLEAN]
      BY DEF Init
    <3>2. QED
      BY <3>1
  <2>3. /\ pc \in [Workers -> Waits \cup
              {"next", "work", "lock", "scan", "reset", "halve", "test",
               "finish", "end"}]
        /\ pc[0] = "next" /\ stage \in [Workers -> {"sort", "merge"}]
        /\ i \in [Workers -> 0..BLOCKS]
        /\ current_index \in [Workers -> 0..(BLOCKS - 1)]
        /\ round \in [Workers -> 0..repeats]
    BY DEF Init
  <2>4. /\ time_mark \in TimeMarks /\ mutex = NULL /\ arrived = {}
        /\ spoilt = FALSE
    BY DEF Init
  <2>5. QED
    BY <1>2, <2>1, <2>2, <2>3, <2>4 DEF TypeOK
<1>4. Between
  BY DEF Init, Between
<1>5. Sizes
  <2>1. 1 \in 1..BLOCKS /\ blocks * 1 = BLOCKS /\ cnt_records = CNT * 1
    BY DEF Init
  <2>2. \A w \in Workers : pc[w] = "next"
    BY DEF Init
  <2>3. QED
    BY <2>1, <2>2 DEF Sizes
<1>6. Claims /\ MutexHeld
  BY DEF Init, Claims, MutexHeld
<1>7. QED
  BY <1>3, <1>4, <1>5, <1>6 DEF IInv, Phases

\* Waiting changes only who has arrived.
LEMMA ArriveKeeps ==
    ASSUME IInv, NEW w \in Workers, Arrive(w)
    PROVE  IInv'
<1> USE DEF Arrive, shared
<1>1. TypeOK'
  BY DEF IInv, TypeOK, Waits
<1>2. Phases'
  BY DEF IInv, Phases, Between, Sorting, Halving, Merging, SamePiece
<1>3. Sizes' /\ Claims' /\ MutexHeld'
  BY DEF IInv, Sizes, Claims, Unreset, MutexHeld
<1>4. QED
  BY <1>1, <1>2, <1>3 DEF IInv

\* The last to arrive finds all at the same of the four barriers, and starts
\* the phase behind it.
LEMMA ArriveLastKeeps ==
    ASSUME IInv, NEW w \in Workers, ArriveLast(w)
    PROVE  IInv'
<1> USE Arguments
<1>1. TypeOK /\ Sizes
  BY DEF IInv
<1>2. \A v \in Workers : pc[v] \in Waits
  BY <1>1 DEF ArriveLast, TypeOK
<1>3. /\ arrived' = {}
      /\ UNCHANGED <<part, time_mark, blocks, cnt_records, state_map, mutex,
                     spoilt>>
      /\ pc' = [v \in Workers |-> After(v)]
      /\ stage' = [v \in Workers |->
                     IF pc[v] = "wait_start" THEN "sort" ELSE stage[v]]
      /\ i' = [v \in Workers |->
                 IF pc[v] = "wait_start" THEN threads ELSE i[v]]
      /\ current_index' = [v \in Workers |->
                 IF pc[v] = "wait_phase" THEN v ELSE current_index[v]]
      /\ round' = [v \in Workers |->
                 IF pc[v] = "wait_done" /\ v # 0 THEN round[v] + 1
                                                 ELSE round[v]]
  BY DEF ArriveLast, shared
<1>4. \A v \in Workers : mutex # v
  BY <1>2 DEF IInv, MutexHeld, Waits
<1>5. /\ part' \in [Records -> Records] /\ time_mark' \in TimeMarks
      /\ blocks' \in 1..BLOCKS /\ blocks' * cnt_records' = BLOCKS * CNT
      /\ mutex' \in Workers \cup {NULL} /\ spoilt' \in BOOLEAN
      /\ arrived' \subseteq Workers /\ \A v \in arrived' : pc'[v] \in Waits
  BY <1>1, <1>3 DEF TypeOK
<1>6. state_map' \in [DOMAIN state_map' -> BOOLEAN]
  BY <1>1, <1>3 DEF TypeOK
<1>7. DOMAIN state_map' = 0..(blocks' - 1)
  <2>1. pc[0] \notin {"next", "end"}
    BY <1>2 DEF Waits
  <2>2. QED
    BY <1>1, <1>3, <2>1 DEF TypeOK
<1>8. CASE Between
  <2>1. \A v \in Workers : pc[v] = "wait_start"
    BY <1>2, <1>8 DEF Between, Waits
  <2>2. /\ pc' = [v \in Workers |-> "work"]
        /\ stage' = [v \in Workers |-> "sort"]
        /\ i' = [v \in Workers |-> threads]
        /\ \A v \in Workers : current_index'[v] = current_index[v]
        /\ \A v \in Workers : round'[v] = round[v]
    BY <1>3, <2>1 DEF After
  <2>3. TypeOK'
    <3>1. /\ current_index' \in [Workers -> 0..(BLOCKS - 1)]
          /\ round' \in [Workers -> 0..repeats]
      BY <1>1, <1>3, <2>2 DEF TypeOK
    <3>2. pc' \in [Workers -> Waits \cup
             {"next", "work", "lock", "scan", "reset", "halve", "test",
              "finish", "end"}]
      BY <2>2 DEF Waits
    <3>3. /\ stage' \in [Workers -> {"sort", "merge"}]
          /\ i' \in [Workers -> 0..BLOCKS]
      BY <1>1, <2>2, Arguments
    <3>4. QED
      BY <1>5, <1>6, <1>7, <3>1, <3>2, <3>3 DEF TypeOK
  <2>4. Sorting'
    BY <1>3, <1>8, <2>1, <2>2 DEF Between, Sorting, SamePiece
  <2>5. Sizes' /\ Claims'
    <3>1. \A v \in Workers : current_index'[v] = v /\ v < BLOCKS /\ v <= threads
      BY <1>8, <2>2 DEF Between, Workers
    <3>2. blocks = BLOCKS
      BY <1>8, <2>1 DEF Between
    <3>3. Sizes'
      BY <1>1, <1>3, <2>2, <3>1, <3>2 DEF Sizes
    <3>4. Claims'
      BY <2>2, <3>1 DEF Claims
    <3>5. QED
      BY <3>3, <3>4
  <2>6. MutexHeld'
    BY <1>3, <1>4, <2>2 DEF MutexHeld
  <2>7. QED
    BY <2>3, <2>4, <2>5, <2>6 DEF IInv, Phases
<1>9. CASE (\A v \in Workers : pc[v] = "wait_phase") /\ SamePiece
           /\ blocks # 1 /\ \A v \in Workers : i[v] = 0
  <2>1. /\ pc' = [v \in Workers |-> IF v = 0 THEN "halve" ELSE "wait_halved"]
        /\ \A v \in Workers : i'[v] = i[v]
        /\ \A v \in Workers : stage'[v] = stage[v]
        /\ current_index' = [v \in Workers |-> v]
        /\ \A v \in Workers : round'[v] = round[v]
    BY <1>3, <1>9 DEF After
  <2>2. TypeOK'
    <3>1. /\ i' \in [Workers -> 0..BLOCKS]
          /\ stage' \in [Workers -> {"sort", "merge"}]
          /\ round' \in [Workers -> 0..repeats]
      BY <1>1, <1>3, <2>1 DEF TypeOK
    <3>2. current_index' \in [Workers -> 0..(BLOCKS - 1)]
      BY <2>1
    <3>3. pc' \in [Workers -> Waits \cup
             {"next", "work", "lock", "scan", "reset", "halve", "test",
              "finish", "end"}]
      BY <2>1 DEF Waits
    <3>4. QED
      BY <1>5, <1>6, <1>7, <2>1, <3>1, <3>2, <3>3 DEF TypeOK
  <2>3. Halving'
    BY <1>3, <1>9, <2>1 DEF Halving, SamePiece
  <2>4. Sizes'
    BY <1>1, <1>3, <2>1 DEF Sizes
  <2>5. Claims' /\ MutexHeld'
    BY <1>3, <1>4, <2>1 DEF Claims, MutexHeld
  <2>6. QED
    BY <2>2, <2>3, <2>4, <2>5 DEF IInv, Phases
<1>10. CASE Halving
  <2>1. \A v \in Workers : pc[v] = "wait_halved"
    BY <1>2, <1>10 DEF Halving, Waits
  <2>2. /\ pc' = [v \in Workers |-> "test"]
        /\ \A v \in Workers : i'[v] = i[v]
        /\ \A v \in Workers : stage'[v] = stage[v]
        /\ \A v \in Workers : current_index'[v] = current_index[v]
        /\ \A v \in Workers : round'[v] = round[v]
    BY <1>3, <2>1 DEF After
  <2>3. TypeOK'
    <3>1. /\ i' \in [Workers -> 0..BLOCKS]
          /\ stage' \in [Workers -> {"sort", "merge"}]
          /\ current_index' \in [Workers -> 0..(BLOCKS - 1)]
          /\ round' \in [Workers -> 0..repeats]
      BY <1>1, <1>3, <2>2 DEF TypeOK
    <3>2. pc' \in [Workers -> Waits \cup
             {"next", "work", "lock", "scan", "reset", "halve", "test",
              "finish", "end"}]
      BY <2>2 DEF Waits
    <3>3. QED
      BY <1>5, <1>6, <1>7, <2>2, <3>1, <3>2 DEF TypeOK
  <2>4. Merging'
    BY <1>3, <1>10, <2>1, <2>2 DEF Halving, Merging, SamePiece
  <2>5. Sizes'
    BY <1>1, <1>3, <2>2 DEF Sizes
  <2>6. Claims' /\ MutexHeld'
    BY <1>3, <1>4, <2>2 DEF Claims, MutexHeld
  <2>7. QED
    BY <2>3, <2>4, <2>5, <2>6 DEF IInv, Phases
<1>11. CASE Merging /\ \A v \in Workers : pc[v] = "wait_done"
  <2>1. /\ pc' = [v \in Workers |-> IF v = 0 THEN "finish" ELSE "next"]
        /\ \A v \in Workers : i'[v] = i[v]
        /\ \A v \in Workers : stage'[v] = stage[v]
        /\ \A v \in Workers : current_index'[v] = current_index[v]
        /\ round'[0] = round[0]
        /\ \A v \in Workers \ {0} : round'[v] = round[v] + 1
    BY <1>3, <1>11 DEF After
  <2>2. \A v \in Workers : round[v] = round[0] /\ round[v] < repeats
    BY <1>11 DEF Merging, SamePiece
  <2>3. round[0] \in Nat /\ \A v \in Workers : round[v] \in 0..repeats
    BY <1>1 DEF TypeOK
  <2>4. TypeOK'
    <3>1. /\ i' \in [Workers -> 0..BLOCKS]
          /\ stage' \in [Workers -> {"sort", "merge"}]
          /\ current_index' \in [Workers -> 0..(BLOCKS - 1)]
      BY <1>1, <1>3, <2>1 DEF TypeOK
    <3>2. round' \in [Workers -> 0..repeats]
      BY <1>3, <2>2, <2>3
    <3>3. pc' \in [Workers -> Waits \cup
             {"next", "work", "lock", "scan", "reset", "halve", "test",
              "finish", "end"}]
      BY <2>1 DEF Waits
    <3>4. QED
      BY <1>5, <1>6, <1>7, <2>1, <3>1, <3>2, <3>3 DEF TypeOK
  <2>5. Between'
    <3>1. /\ blocks' = 1 /\ round'[0] < repeats
          /\ \A v \in Workers \ {0} : round'[v] = round'[0] + 1
      BY <1>3, <1>11, <2>1, <2>2 DEF Merging
    <3>2. \A v \in Workers : current_index'[v] = v
      BY <1>11, <2>1 DEF Merging
    <3>3. QED
      BY <2>1, <3>1, <3>2 DEF Between
  <2>6. Sizes'
    BY <1>1, <1>3, <1>11, <2>1 DEF Sizes, Merging
  <2>7. Claims' /\ MutexHeld'
    BY <1>3, <1>4, <2>1 DEF Claims, MutexHeld
  <2>8. QED
    BY <2>4, <2>5, <2>6, <2>7 DEF IInv, Phases
<1>12. CASE Sorting
  BY <1>1, <1>2, <1>9, <1>12 DEF Sorting, Waits
<1>13. CASE Merging
  BY <1>1, <1>2, <1>9, <1>11, <1>13 DEF Merging, Waits
<1>14. QED
  BY <1>8, <1>10, <1>12, <1>13 DEF IInv, Phases

\* Between two pieces the blocks are those of the beginning, or one.
LEMMA StartPieceKeeps ==
    ASSUME IInv, StartPiece
    PROVE  IInv'
<1> USE Arguments
<1>1. TypeOK /\ Sizes /\ Claims /\ MutexHeld /\ Between
  BY PhaseOf DEF IInv, StartPiece, Goto
<1>2. /\ pc[0] = "next" /\ round[0] < repeats /\ blocks = BLOCKS
      /\ \A v \in Workers : pc'[v] = IF v = 0 THEN "wait_start" ELSE pc[v]
      /\ \A v \in Workers : current_index'[v] = v
      /\ UNCHANGED <<blocks, cnt_records, mutex, arrived, stage, i, round>>
  BY <1>1 DEF StartPiece, Goto, TypeOK, Between
<1>3. TypeOK'
  <2>1. /\ pc' \in [Workers -> Waits \cup
              {"next", "work", "lock", "scan", "reset", "halve", "test",
               "finish", "end"}]
        /\ current_index' \in [Workers -> 0..(BLOCKS - 1)]
    BY <1>1 DEF StartPiece, Goto, TypeOK, Waits
  <2>2. /\ state_map' \in [DOMAIN state_map' -> BOOLEAN]
        /\ DOMAIN state_map' = 0..(blocks' - 1)
    BY <1>2 DEF StartPiece
  <2>3. /\ part' \in [Records -> Records] /\ time_mark' \in TimeMarks
        /\ spoilt' \in BOOLEAN
    BY DEF StartPiece
  <2>4. /\ arrived' \subseteq Workers
        /\ \A v \in arrived' : pc'[v] \in Waits
    BY <1>1, <1>2 DEF TypeOK, Waits
  <2>5. /\ blocks' \in 1..BLOCKS /\ blocks' * cnt_records' = BLOCKS * CNT
        /\ mutex' \in Workers \cup {NULL}
        /\ stage' \in [Workers -> {"sort", "merge"}]
        /\ i' \in [Workers -> 0..BLOCKS]
        /\ round' \in [Workers -> 0..repeats]
    BY <1>1, <1>2 DEF TypeOK
  <2>6. QED
    BY <2>1, <2>2, <2>3, <2>4, <2>5 DEF TypeOK
<1>4. Between'
  BY <1>1, <1>2 DEF Between
<1>5. Sizes' /\ Claims' /\ MutexHeld'
  <2>1. \A v \in Workers : pc[v] # "work" /\ pc[v] # "scan"
    BY <1>1 DEF Between
  <2>2. QED
    BY <1>1, <1>2, <2>1 DEF Sizes, Claims, MutexHeld
<1>6. QED
  BY <1>3, <1>4, <1>5 DEF IInv, Phases

\* A worker that begins a piece, or leaves.
LEMMA StartRoundEndKeep ==
    ASSUME IInv, NEW w \in Workers, StartRound(w) \/ End(w)
    PROVE  IInv'
<1> USE Arguments
<1>1. TypeOK /\ Sizes /\ Claims /\ MutexHeld /\ Between
  BY PhaseOf DEF IInv, StartRound, End, Goto
<1>2. PICK to \in {"wait_start", "end"} :
        /\ pc[w] = "next" /\ pc' = [pc EXCEPT ![w] = to]
        /\ to = "wait_start" => round[w] < repeats /\ w # 0
        /\ to = "end" => round[w] = repeats
  BY DEF StartRound, End, Goto
<1>3. /\ \A v \in Workers : pc'[v] = IF v = w THEN to ELSE pc[v]
      /\ UNCHANGED <<part, time_mark, blocks, cnt_records, state_map, mutex,
                     arrived, stage, i, current_index, round, spoilt>>
  BY <1>1, <1>2 DEF StartRound, End, TypeOK, shared
<1>4. TypeOK'
  <2>1. pc' \in [Workers -> Waits \cup
              {"next", "work", "lock", "scan", "reset", "halve", "test",
               "finish", "end"}]
    BY <1>1, <1>2 DEF TypeOK, Waits
  <2>2. pc'[0] \notin {"next", "end"} => pc[0] \notin {"next", "end"}
    BY <1>2, <1>3
  <2>3. \A v \in arrived : pc'[v] \in Waits
    BY <1>1, <1>2, <1>3 DEF TypeOK, Waits
  <2>4. QED
    BY <1>1, <1>3, <2>1, <2>2, <2>3 DEF TypeOK
<1>5. Between'
  BY <1>1, <1>2, <1>3 DEF Between
<1>6. Sizes' /\ Claims' /\ MutexHeld'
  <2>1. \A v \in Workers : pc[v] # "work" /\ pc[v] # "scan"
    BY <1>1 DEF Between
  <2>2. pc'[0] = "finish" => pc[0] = "finish"
    BY <1>2, <1>3
  <2>3. QED
    BY <1>1, <1>2, <1>3, <2>1, <2>2 DEF Sizes, Claims, MutexHeld
<1>7. QED
  BY <1>4, <1>5, <1>6 DEF IInv, Phases

\* Sorting or merging a block puts records in its places.
LEMMA WorkKeeps ==
    ASSUME IInv, NEW w \in Workers, Work(w)
    PROVE  IInv'
<1> USE Arguments
<1>1. TypeOK /\ Sizes /\ Claims /\ MutexHeld
  BY DEF IInv
<1>2. /\ pc[w] = "work" /\ pc' = [pc EXCEPT ![w] = "lock"]
      /\ i' = [i EXCEPT ![w] = @ + 1]
      /\ spoilt' = (spoilt \/ Company(w) # {})
      /\ UNCHANGED <<time_mark, blocks, cnt_records, state_map, mutex,
                     arrived, stage, current_index, round>>
  BY DEF Work, Goto
<1>3. \A v \in Workers : /\ pc'[v] = IF v = w THEN "lock" ELSE pc[v]
                         /\ i'[v] = IF v = w THEN i[v] + 1 ELSE i[v]
  BY <1>1, <1>2 DEF TypeOK
<1>4. /\ Sorting => i[w] \in threads..(BLOCKS - 1)
      /\ Merging => i[w] < blocks /\ stage[w] = "merge"
      /\ i[w] \in Nat /\ i[w] + 1 \in 0..BLOCKS
      /\ Sorting \/ Merging
  <2>1. Sorting \/ Merging
    BY <1>2, PhaseOf
  <2>2. Sorting => i[w] \in threads..(BLOCKS - 1)
    BY <1>2 DEF Sorting
  <2>3. Merging => i[w] < blocks /\ stage[w] = "merge"
    BY <1>2 DEF Merging
  <2>4. i[w] \in 0..BLOCKS /\ blocks \in 1..BLOCKS
    BY <1>1 DEF TypeOK
  <2>5. QED
    BY <2>1, <2>2, <2>3, <2>4
<1>5. part' \in [Records -> Records]
  <2>1. CASE UNCHANGED part
    BY <1>1, <2>1 DEF TypeOK
  <2>2. CASE part' # part
    <3> DEFINE b == current_index[w]
    <3>1. b \in Nat /\ b < blocks
      BY <1>1, <1>2 DEF TypeOK, Sizes
    <3>2. PICK f \in IF stage[w] = "sort" THEN Qsort(Segment(b))
                     ELSE {Merge(cnt_records * b, cnt_records \div 2)} :
            part' = [k \in Records |->
                       IF k \in Segment(b) THEN f[k] ELSE part[k]]
      BY <2>2 DEF Work
    <3> HIDE DEF b
    <3>3. part \in [Records -> Records] /\ Segment(b) \subseteq Records
      BY <1>1, <3>1, SegmentInPiece DEF TypeOK
    <3>4. \A k \in Segment(b) : f[k] \in Records
      <4>1. CASE stage[w] = "sort"
        <5>1. f \in [Segment(b) -> {part[k] : k \in Segment(b)}]
          BY <3>2, <4>1 DEF Qsort
        <5>2. QED
          BY <3>3, <5>1
      <4>2. CASE stage[w] # "sort"
        <5>1. f = Merge(cnt_records * b, cnt_records \div 2)
          BY <3>2, <4>2
        <5>2. cnt_records % 2 = 0
          BY <1>4, <4>2, <1>2 DEF Sorting, Merging
        <5>3. /\ cnt_records * b \in Nat /\ cnt_records \div 2 \in Nat
              /\ cnt_records * b
                 ..(cnt_records * b + 2 * (cnt_records \div 2) - 1)
                 = Segment(b)
          BY <1>1, <3>1, <5>2, SegmentInPiece
        <5>4. f \in [Segment(b) -> Records]
          BY <3>3, <5>1, <5>3, MergeTyped
        <5>5. QED
          BY <5>4
      <4>3. QED
        BY <4>1, <4>2
    <3>5. QED
      BY <3>2, <3>3, <3>4
  <2>3. QED
    BY <2>1, <2>2
<1>6. TypeOK'
  <2>1. /\ pc' \in [Workers -> Waits \cup
              {"next", "work", "lock", "scan", "reset", "halve", "test",
               "finish", "end"}]
        /\ i' \in [Workers -> 0..BLOCKS]
    BY <1>1, <1>2, <1>4 DEF TypeOK
  <2>2. pc'[0] \notin {"next", "end"} => pc[0] \notin {"next", "end"}
    BY <1>2, <1>3
  <2>3. \A v \in arrived : pc'[v] \in Waits
    BY <1>1, <1>2, <1>3 DEF TypeOK, Waits
  <2>4. spoilt' \in BOOLEAN
    BY <1>1, <1>2 DEF TypeOK
  <2>5. QED
    BY <1>1, <1>2, <1>5, <2>1, <2>2, <2>3, <2>4 DEF TypeOK
<1>7. Phases'
  <2>1. CASE Sorting
    <3>1. Sorting'
      BY <1>2, <1>3, <1>4, <2>1 DEF Sorting, SamePiece
    <3>2. QED
      BY <3>1 DEF Phases
  <2>2. CASE Merging
    <3>1. Merging'
      BY <1>2, <1>3, <1>4, <2>2 DEF Merging, SamePiece
    <3>2. QED
      BY <3>1 DEF Phases
  <2>3. QED
    BY <1>4, <2>1, <2>2
<1>8. Sizes' /\ MutexHeld'
  BY <1>1, <1>2, <1>3 DEF Sizes, MutexHeld
<1>9. Claims'
  BY <1>1, <1>2, <1>3 DEF Claims, Unreset
<1>10. QED
  BY <1>6, <1>7, <1>8, <1>9 DEF IInv

\* Looking for a block: the mutex is taken, and marked blocks are passed.
LEMMA LockSkipKeep ==
    ASSUME IInv, NEW w \in Workers, Lock(w) \/ Skip(w)
    PROVE  IInv'
<1> USE Arguments
<1>1. TypeOK /\ Sizes /\ Claims /\ MutexHeld
  BY DEF IInv
<1>2. /\ pc[w] \in {"lock", "scan"}
      /\ pc' = [pc EXCEPT ![w] = "scan"]
      /\ i'[w] \in Nat /\ i'[w] >= i[w] /\ i'[w] <= BLOCKS /\ i[w] \in Nat
      /\ \A v \in Workers : v # w => i'[v] = i[v]
      /\ i' \in [Workers -> 0..BLOCKS]
      /\ mutex' \in Workers \cup {NULL}
      /\ MutexHeld'
      /\ UNCHANGED <<part, time_mark, blocks, cnt_records, state_map,
                     arrived, stage, current_index, round, spoilt>>
  <2>1. CASE Lock(w)
    <3>1. /\ pc[w] = "lock" /\ pc' = [pc EXCEPT ![w] = "scan"]
          /\ mutex = NULL /\ mutex' = w /\ i' = i
          /\ UNCHANGED <<part, time_mark, blocks, cnt_records, state_map,
                         arrived, stage, current_index, round, spoilt>>
      BY <2>1 DEF Lock, Goto, shared
    <3>2. i \in [Workers -> 0..BLOCKS] /\ i[w] \in 0..BLOCKS
      BY <1>1 DEF TypeOK
    <3>3. \A v \in Workers : pc'[v] = IF v = w THEN "scan" ELSE pc[v]
      BY <1>1, <3>1 DEF TypeOK
    <3>4. MutexHeld'
      BY <1>1, <3>1, <3>3 DEF MutexHeld
    <3>5. i[w] \in Nat /\ i[w] >= i[w] /\ i[w] <= BLOCKS
      BY <3>2
    <3>6. QED
      BY <3>1, <3>2, <3>4, <3>5
  <2>2. CASE Skip(w)
    <3>1. i[w] \in 0..BLOCKS /\ i[w] < blocks /\ blocks \in 1..BLOCKS
      BY <1>1, <2>2 DEF Skip, TypeOK
    <3>2. i[w] + 1 \in 0..BLOCKS /\ i[w] + 1 >= i[w]
      BY <3>1
    <3>3. pc' = [pc EXCEPT ![w] = "scan"]
      BY <1>1, <2>2 DEF Skip, TypeOK
    <3>4. i' = [i EXCEPT ![w] = @ + 1] /\ i \in [Workers -> 0..BLOCKS]
      BY <1>1, <2>2 DEF Skip, TypeOK
    <3>5. i' \in [Workers -> 0..BLOCKS] /\ i'[w] = i[w] + 1
      BY <3>2, <3>4
    <3>6. /\ pc[w] = "scan"
          /\ UNCHANGED <<part, time_mark, blocks, cnt_records, state_map,
                         mutex, arrived, pc, stage, current_index, round,
                         spoilt>>
      BY <2>2 DEF Skip, shared
    <3>7. MutexHeld' /\ mutex' \in Workers \cup {NULL}
      BY <1>1, <3>6 DEF MutexHeld, TypeOK
    <3>8. /\ i'[w] \in Nat /\ i'[w] >= i[w] /\ i'[w] <= BLOCKS
          /\ i[w] \in Nat
      BY <3>1, <3>5
    <3>9. \A v \in Workers : v # w => i'[v] = i[v]
      BY <3>4
    <3>10. QED
      BY <3>3, <3>5, <3>6, <3>7, <3>8, <3>9
  <2>3. QED
    BY <2>1, <2>2
<1>3. \A v \in Workers : pc'[v] = IF v = w THEN "scan" ELSE pc[v]
  BY <1>1, <1>2 DEF TypeOK
<1>4. TypeOK'
  <2>1. pc' \in [Workers -> Waits \cup
              {"next", "work", "lock", "scan", "reset", "halve", "test",
               "finish", "end"}]
    BY <1>1, <1>2 DEF TypeOK
  <2>2. pc'[0] \notin {"next", "end"} => pc[0] \notin {"next", "end"}
    BY <1>2, <1>3
  <2>3. \A v \in arrived : pc'[v] \in Waits
    BY <1>1, <1>2, <1>3 DEF TypeOK, Waits
  <2>4. QED
    BY <1>1, <1>2, <2>1, <2>2, <2>3 DEF TypeOK
<1>5. Sorting => Sorting'
  BY <1>2, <1>3 DEF Sorting, SamePiece
<1>6. Merging => Merging'
  BY <1>2, <1>3 DEF Merging, SamePiece
<1>7. Phases'
  BY <1>2, <1>5, <1>6, PhaseOf DEF Phases
<1>8. Sizes' /\ Claims'
  BY <1>1, <1>2, <1>3 DEF Sizes, Claims, Unreset
<1>9. QED
  BY <1>2, <1>4, <1>7, <1>8 DEF IInv

\* The block claimed was not marked, so nobody is in it; now it is.
LEMMA ClaimKeeps ==
    ASSUME IInv, NEW w \in Workers, Claim(w)
    PROVE  IInv'
<1> USE Arguments
<1>1. TypeOK /\ Sizes /\ Claims /\ MutexHeld
  BY DEF IInv
<1>2. /\ pc[w] = "scan" /\ pc' = [pc EXCEPT ![w] = "work"]
      /\ i[w] < blocks /\ state_map[i[w]] = FALSE
      /\ state_map' = [state_map EXCEPT ![i[w]] = TRUE]
      /\ current_index' = [current_index EXCEPT ![w] = i[w]]
      /\ mutex' = NULL
      /\ UNCHANGED <<part, time_mark, blocks, cnt_records, arrived, stage, i,
                     round, spoilt>>
  <2>1. Claim(w) => pc[w] = "scan" /\ pc[0] \notin {"next", "end"}
    <3>1. Claim(w) => pc[w] = "scan"
      BY DEF Claim, Goto
    <3>2. pc[w] = "scan" => pc[0] \notin {"next", "end"}
      BY PhaseOf DEF Sorting, Merging
    <3>3. QED
      BY <3>1, <3>2
  <2>2. i[w] \in Nat /\ (Claim(w) => i[w] < blocks) /\ blocks \in Nat
    BY <1>1 DEF Claim, TypeOK
  <2>3. /\ i[w] \in DOMAIN state_map
        /\ state_map \in [DOMAIN state_map -> BOOLEAN]
    <3>1. /\ DOMAIN state_map = 0..(blocks - 1)
          /\ state_map \in [DOMAIN state_map -> BOOLEAN]
      BY <1>1, <2>1 DEF Claim, TypeOK
    <3>2. i[w] \in 0..(blocks - 1)
      BY <2>2
    <3>3. QED
      BY <3>1, <3>2
  <2>4. state_map[i[w]] \in BOOLEAN
    BY <2>3
  <2>5. QED
    BY <2>4 DEF Claim, Goto
<1>3. /\ \A v \in Workers : pc'[v] = IF v = w THEN "work" ELSE pc[v]
      /\ \A v \in Workers :
           current_index'[v] = IF v = w THEN i[w] ELSE current_index[v]
  BY <1>1, <1>2 DEF TypeOK
<1>4. Sorting \/ Merging
  BY <1>2, PhaseOf
<1>5. i[w] \in Nat /\ i[w] \in 0..(BLOCKS - 1) /\ i[w] \in 0..(blocks - 1)
  BY <1>1, <1>2 DEF TypeOK
<1>6. pc[0] \notin {"next", "end"}
  BY <1>4 DEF Sorting, Merging
<1>7. /\ DOMAIN state_map = 0..(blocks - 1)
      /\ state_map \in [0..(blocks - 1) -> BOOLEAN]
  BY <1>1, <1>6 DEF TypeOK
<1>8. /\ DOMAIN state_map' = 0..(blocks - 1)
      /\ state_map' \in [DOMAIN state_map' -> BOOLEAN]
      /\ state_map'[i[w]] = TRUE
      /\ \A b \in 0..(blocks - 1) : state_map[b] = TRUE => state_map'[b] = TRUE
  BY <1>2, <1>5, <1>7
<1>9. TypeOK'
  <2>1. /\ pc' \in [Workers -> Waits \cup
              {"next", "work", "lock", "scan", "reset", "halve", "test",
               "finish", "end"}]
        /\ current_index' \in [Workers -> 0..(BLOCKS - 1)]
    BY <1>1, <1>2, <1>5 DEF TypeOK
  <2>2. \A v \in arrived : pc'[v] \in Waits
    BY <1>1, <1>2, <1>3 DEF TypeOK, Waits
  <2>3. /\ part \in [Records -> Records] /\ time_mark \in TimeMarks
        /\ blocks \in 1..BLOCKS /\ blocks * cnt_records = BLOCKS * CNT
        /\ arrived \subseteq Workers
        /\ stage \in [Workers -> {"sort", "merge"}]
        /\ i \in [Workers -> 0..BLOCKS]
        /\ round \in [Workers -> 0..repeats] /\ spoilt \in BOOLEAN
    BY <1>1 DEF TypeOK
  <2>4. QED
    BY <1>2, <1>8, <2>1, <2>2, <2>3 DEF TypeOK
<1>10. Phases'
  <2>1. CASE Sorting
    <3>1. i[w] > threads /\ blocks = BLOCKS
      BY <1>2, <2>1 DEF Sorting
    <3>2. i[w] \in threads..(BLOCKS - 1)
      BY <1>5, <3>1
    <3>3. Sorting'
      BY <1>2, <1>3, <2>1, <3>2 DEF Sorting, SamePiece
    <3>4. QED
      BY <3>3 DEF Phases
  <2>2. CASE Merging
    <3>1. Merging'
      BY <1>2, <1>3, <2>2 DEF Merging, SamePiece
    <3>2. QED
      BY <3>1 DEF Phases
  <2>3. QED
    BY <1>4, <2>1, <2>2
<1>11. Sizes' /\ MutexHeld'
  BY <1>1, <1>2, <1>3 DEF Sizes, MutexHeld
<1>12. Claims'
  <2>1. ASSUME NEW v \in Workers, v # w, pc[v] = "work", Unreset(v)
        PROVE  current_index[v] # i[w]
    <3>1. CASE stage[v] = "sort" /\ current_index[v] <= threads
      <4>1. Sorting
        BY <1>4, <2>1, <3>1 DEF Merging
      <4>2. i[w] > threads
        BY <1>2, <4>1 DEF Sorting
      <4>3. current_index[v] \in 0..(BLOCKS - 1)
        BY <1>1 DEF TypeOK
      <4>4. QED
        BY <1>5, <3>1, <4>2, <4>3
    <3>2. CASE state_map[current_index[v]] = TRUE
      BY <1>2, <3>2
    <3>3. QED
      BY <1>1, <2>1, <3>1, <3>2 DEF Claims
  <2>2. ASSUME NEW v \in Workers, pc[v] = "work", Unreset(v), v # w
        PROVE  \/ stage[v] = "sort" /\ current_index[v] <= threads
               \/ state_map'[current_index[v]] = TRUE
    <3>1. current_index[v] \in 0..(blocks - 1)
      <4>1. /\ current_index[v] \in 0..(BLOCKS - 1)
            /\ blocks \in 1..BLOCKS
        BY <1>1 DEF TypeOK
      <4>2. current_index[v] < blocks
        BY <1>1, <2>2 DEF Sizes
      <4>3. QED
        BY <4>1, <4>2
    <3>2. QED
      BY <1>1, <1>8, <2>2, <3>1 DEF Claims
  <2>3. ASSUME NEW v \in Workers, NEW u \in Workers,
               pc[v] = "work" \/ v = w, Unreset(v), pc[u] = "work" \/ u = w
        PROVE  Unreset(u)
    <3>1. stage[v] = stage[u]
      BY <1>2, <1>4, <2>3 DEF Sorting, Merging
    <3>2. QED
      BY <2>3, <3>1 DEF Unreset
  <2>4. \A v \in Workers : Unreset(v)' => Unreset(v)
    BY <1>2, <1>3 DEF Unreset
  <2>5. SUFFICES ASSUME NEW v \in Workers, pc'[v] = "work", Unreset(v)'
                 PROVE  /\ \/ stage'[v] = "sort"
                              /\ current_index'[v] <= threads
                           \/ state_map'[current_index'[v]] = TRUE
                        /\ \A u \in Workers : pc'[u] = "work" /\ u # v =>
                             current_index'[u] # current_index'[v]
    BY DEF Claims
  <2>6. Unreset(v) /\ (pc[v] = "work" \/ v = w)
    BY <1>3, <2>4, <2>5
  <2>7. ASSUME NEW u \in Workers, pc'[u] = "work", u # v
        PROVE  current_index'[u] # current_index'[v]
    <3>1. Unreset(u) /\ (pc[u] = "work" \/ u = w)
      BY <1>3, <2>3, <2>6, <2>7
    <3>2. CASE v = w
      BY <1>3, <2>1, <2>7, <3>1, <3>2
    <3>3. CASE u = w
      BY <1>3, <2>1, <2>6, <2>7, <3>3
    <3>4. CASE v # w /\ u # w
      BY <1>1, <1>3, <2>6, <2>7, <3>1, <3>4 DEF Claims
    <3>5. QED
      BY <3>2, <3>3, <3>4
  <2>8. \/ stage'[v] = "sort" /\ current_index'[v] <= threads
        \/ state_map'[current_index'[v]] = TRUE
    <3>1. CASE v = w
      BY <1>3, <1>8, <3>1
    <3>2. CASE v # w
      BY <1>2, <1>3, <2>2, <2>6, <3>2
    <3>3. QED
      BY <3>1, <3>2
  <2>9. QED
    BY <2>7, <2>8
<1>13. QED
  BY <1>9, <1>10, <1>11, <1>12 DEF IInv

\* The search is over.
LEMMA ScanEndKeeps ==
    ASSUME IInv, NEW w \in Workers, ScanEnd(w)
    PROVE  IInv'
<1> USE Arguments
<1>1. TypeOK /\ Sizes /\ Claims /\ MutexHeld
  BY DEF IInv
<1>2. PICK to \in {"reset", "wait_phase"} :
        /\ to = "reset" <=> w = 0 /\ stage[w] = "sort"
        /\ pc[w] = "scan" /\ pc' = [pc EXCEPT ![w] = to]
  BY DEF ScanEnd, Goto
<1>3. /\ i' = [i EXCEPT ![w] = 0] /\ mutex' = NULL
      /\ UNCHANGED <<part, time_mark, blocks, cnt_records, state_map,
                     arrived, stage, current_index, round, spoilt>>
  BY DEF ScanEnd, shared
<1>4. /\ \A v \in Workers : pc'[v] = IF v = w THEN to ELSE pc[v]
      /\ \A v \in Workers : i'[v] = IF v = w THEN 0 ELSE i[v]
  BY <1>1, <1>2, <1>3 DEF TypeOK
<1>5. Sorting \/ Merging
  BY <1>2, PhaseOf
<1>6. TypeOK'
  <2>1. /\ pc' \in [Workers -> Waits \cup
              {"next", "work", "lock", "scan", "reset", "halve", "test",
               "finish", "end"}]
        /\ i' \in [Workers -> 0..BLOCKS]
    <3>1. to \in Waits \cup
            {"next", "work", "lock", "scan", "reset", "halve", "test",
             "finish", "end"}
      BY <1>2 DEF Waits
    <3>2. 0 \in 0..BLOCKS
      OBVIOUS
    <3>3. QED
      BY <1>1, <1>2, <1>3, <3>1, <3>2 DEF TypeOK
  <2>2. pc'[0] \notin {"next", "end"} => pc[0] \notin {"next", "end"}
    BY <1>2, <1>4
  <2>3. \A v \in arrived : pc'[v] \in Waits
    BY <1>1, <1>2, <1>4 DEF TypeOK, Waits
  <2>4. QED
    BY <1>1, <1>3, <2>1, <2>2, <2>3 DEF TypeOK
<1>7. Phases'
  <2>1. CASE Sorting
    <3>1. Sorting'
      BY <1>2, <1>3, <1>4, <2>1 DEF Sorting, SamePiece
    <3>2. QED
      BY <3>1 DEF Phases
  <2>2. CASE Merging
    <3>1. to = "wait_phase"
      BY <1>2, <2>2 DEF Merging
    <3>2. Merging'
      BY <1>2, <1>3, <1>4, <2>2, <3>1 DEF Merging, SamePiece
    <3>3. QED
      BY <3>2 DEF Phases
  <2>3. QED
    BY <1>5, <2>1, <2>2
<1>8. Sizes' /\ MutexHeld'
  BY <1>1, <1>2, <1>3, <1>4 DEF Sizes, MutexHeld
<1>9. Claims'
  <2>1. \A v \in Workers : Unreset(v)' => Unreset(v)
    BY <1>2, <1>3, <1>4 DEF Unreset
  <2>2. QED
    BY <1>1, <1>2, <1>3, <1>4, <2>1 DEF Claims
<1>10. QED
  BY <1>6, <1>7, <1>8, <1>9 DEF IInv

\* main sets the map back: from here on it says nothing of the sorting.
LEMMA ResetKeeps ==
    ASSUME IInv, Reset
    PROVE  IInv'
<1> USE Arguments
<1>1. TypeOK /\ Sizes /\ Claims /\ MutexHeld /\ Sorting
  BY PhaseOf DEF IInv, Reset
<1>2. i[0] \in 0..(BLOCKS - 1) /\ blocks = BLOCKS /\ pc[0] = "reset"
  <2>1. i[0] \in 0..BLOCKS /\ i[0] < BLOCKS /\ blocks = BLOCKS
    BY <1>1 DEF TypeOK, Sorting, Reset
  <2>2. QED
    BY <2>1 DEF Reset
<1>3. /\ state_map' = [state_map EXCEPT ![i[0]] = FALSE]
      /\ UNCHANGED <<part, time_mark, blocks, cnt_records, mutex, arrived,
                     stage, current_index, round, spoilt>>
  BY DEF Reset
<1>4. PICK to \in {"reset", "wait_phase"}, j \in 0..(BLOCKS - 1) :
        /\ pc' = [pc EXCEPT ![0] = to] /\ i' = [i EXCEPT ![0] = j]
        /\ to = "wait_phase" => j = 0
  <2>1. CASE i[0] + 1 < blocks
    <3>1. pc' = [pc EXCEPT ![0] = "reset"]
      BY <1>1, <1>2, <2>1 DEF Reset, TypeOK
    <3>2. i' = [i EXCEPT ![0] = i[0] + 1] /\ i[0] + 1 \in 0..(BLOCKS - 1)
      BY <1>2, <2>1 DEF Reset
    <3>3. QED
      BY <3>1, <3>2
  <2>2. CASE ~ (i[0] + 1 < blocks)
    <3>1. pc' = [pc EXCEPT ![0] = "wait_phase"] /\ i' = [i EXCEPT ![0] = 0]
      BY <2>2 DEF Reset
    <3>2. 0 \in 0..(BLOCKS - 1)
      OBVIOUS
    <3>3. QED
      BY <3>1, <3>2
  <2>3. QED
    BY <2>1, <2>2
<1>5. /\ \A v \in Workers : pc'[v] = IF v = 0 THEN to ELSE pc[v]
      /\ \A v \in Workers : i'[v] = IF v = 0 THEN j ELSE i[v]
  BY <1>1, <1>4 DEF TypeOK
<1>6. TypeOK'
  <2>1. /\ pc' \in [Workers -> Waits \cup
              {"next", "work", "lock", "scan", "reset", "halve", "test",
               "finish", "end"}]
        /\ i' \in [Workers -> 0..BLOCKS]
    BY <1>1, <1>4 DEF TypeOK, Waits
  <2>2. /\ DOMAIN state_map' = 0..(blocks' - 1)
        /\ state_map' \in [DOMAIN state_map' -> BOOLEAN]
    <3>1. /\ DOMAIN state_map = 0..(blocks - 1)
          /\ state_map \in [DOMAIN state_map -> BOOLEAN]
      BY <1>1, <1>2 DEF TypeOK
    <3>2. QED
      BY <1>3, <3>1
  <2>3. \A v \in arrived : pc'[v] \in Waits
    BY <1>1, <1>2, <1>5 DEF TypeOK, Waits
  <2>4. /\ part \in [Records -> Records] /\ time_mark \in TimeMarks
        /\ blocks \in 1..BLOCKS /\ blocks * cnt_records = BLOCKS * CNT
        /\ mutex \in Workers \cup {NULL} /\ arrived \subseteq Workers
        /\ stage \in [Workers -> {"sort", "merge"}]
        /\ current_index \in [Workers -> 0..(BLOCKS - 1)]
        /\ round \in [Workers -> 0..repeats] /\ spoilt \in BOOLEAN
    BY <1>1 DEF TypeOK
  <2>5. QED
    BY <1>3, <2>1, <2>2, <2>3, <2>4 DEF TypeOK
<1>7. Sorting'
  BY <1>1, <1>2, <1>3, <1>4, <1>5 DEF Sorting, SamePiece
<1>8. Sizes' /\ MutexHeld'
  BY <1>1, <1>2, <1>3, <1>5 DEF Sizes, MutexHeld
<1>9. Claims'
  <2>1. \A v \in Workers : stage[v] = "sort"
    BY <1>1 DEF Sorting
  <2>2. pc'[0] \in {"reset", "wait_phase"}
    BY <1>5
  <2>3. \A v \in Workers : ~ Unreset(v)'
    BY <1>3, <2>1, <2>2 DEF Unreset
  <2>4. QED
    BY <2>3 DEF Claims
<1>10. QED
  BY <1>6, <1>7, <1>8, <1>9 DEF IInv, Phases

\* Of a power of two that is not 1, half is one as well; blocks twice as
\* large have an even number of records.
LEMMA HalveKeeps ==
    ASSUME IInv, Halve
    PROVE  IInv'
<1> USE Arguments
<1>1. TypeOK /\ Sizes /\ Claims /\ MutexHeld /\ Halving
  BY PhaseOf DEF IInv, Halve, Goto
<1>2. /\ pc[0] = "halve" /\ pc' = [pc EXCEPT ![0] = "wait_halved"]
      /\ blocks' = blocks \div 2 /\ cnt_records' = cnt_records * 2
      /\ state_map' = [b \in 0..(blocks' - 1) |-> FALSE]
      /\ UNCHANGED <<part, time_mark, mutex, arrived, stage, i,
                     current_index, round, spoilt>>
  BY DEF Halve, Goto
<1>3. \A v \in Workers : pc'[v] = IF v = 0 THEN "wait_halved" ELSE pc[v]
  BY <1>1, <1>2 DEF TypeOK
<1>4. PICK c \in 1..BLOCKS : blocks * c = BLOCKS /\ cnt_records = CNT * c
  BY <1>1 DEF Sizes
<1>5. blocks \in 1..BLOCKS /\ blocks # 1
  BY <1>1, <1>2 DEF TypeOK, Halving
<1>6. blocks % 2 = 0
  BY <1>4, <1>5, IndexSortAssumption
<1>7. PICK h \in Nat : h > 0 /\ blocks = 2 * h /\ blocks' = h
  BY <1>2, <1>5, <1>6
<1>8. h * (2 * c) = BLOCKS /\ c \in Nat /\ 2 * c \in Nat
  <2>1. c \in Nat /\ (2 * h) * c = BLOCKS
    BY <1>4, <1>7
  <2>2. (2 * h) * c = h * (2 * c)
    BY <1>7, <2>1
  <2>3. QED
    BY <2>1, <2>2
<1>9. 2 * c <= BLOCKS
  <2>1. ASSUME NEW x \in Nat
        PROVE  x <= h * x
    <3>1. PICK y \in Nat : h = 1 + y
      BY <1>7
    <3>2. h * x = x + y * x /\ y * x \in Nat
      BY <3>1
    <3>3. QED
      BY <3>2
  <2>2. QED
    BY <1>8, <2>1
<1>10. cnt_records' = CNT * (2 * c) /\ cnt_records \in Nat
  <2>1. CNT * c \in Nat /\ (CNT * c) * 2 = CNT * (2 * c)
    BY <1>8
  <2>2. QED
    BY <1>2, <1>4, <2>1
<1>11. Sizes'
  <2>1. 2 * c \in 1..BLOCKS
    BY <1>4, <1>8, <1>9
  <2>2. \A v \in Workers : pc'[v] # "work" /\ pc'[v] # "finish"
    BY <1>1, <1>3 DEF Halving
  <2>3. QED
    BY <1>7, <1>8, <1>10, <2>1, <2>2 DEF Sizes
<1>12. TypeOK'
  <2>1. pc' \in [Workers -> Waits \cup
              {"next", "work", "lock", "scan", "reset", "halve", "test",
               "finish", "end"}]
    BY <1>1, <1>2 DEF TypeOK, Waits
  <2>2. /\ DOMAIN state_map' = 0..(blocks' - 1)
        /\ state_map' \in [DOMAIN state_map' -> BOOLEAN]
    BY <1>2
  <2>3. \A v \in arrived : pc'[v] \in Waits
    BY <1>1, <1>2, <1>3 DEF TypeOK, Waits
  <2>4. /\ part \in [Records -> Records] /\ time_mark \in TimeMarks
        /\ mutex \in Workers \cup {NULL} /\ arrived \subseteq Workers
        /\ stage \in [Workers -> {"sort", "merge"}]
        /\ i \in [Workers -> 0..BLOCKS]
        /\ current_index \in [Workers -> 0..(BLOCKS - 1)]
        /\ round \in [Workers -> 0..repeats] /\ spoilt \in BOOLEAN
    BY <1>1 DEF TypeOK
  <2>5. blocks' \in 1..BLOCKS
    BY <1>5, <1>7
  <2>6. blocks' * cnt_records' = BLOCKS * CNT
    <3>1. h * (cnt_records * 2) = (2 * h) * cnt_records
      BY <1>7, <1>10
    <3>2. blocks * cnt_records = BLOCKS * CNT
      BY <1>1 DEF TypeOK
    <3>3. QED
      BY <1>2, <1>7, <3>1, <3>2
  <2>7. QED
    BY <1>2, <2>1, <2>2, <2>3, <2>4, <2>5, <2>6 DEF TypeOK
<1>13. Halving'
  <2>1. cnt_records' % 2 = 0
    BY <1>2, <1>10
  <2>2. QED
    BY <1>1, <1>2, <1>3, <2>1 DEF Halving, SamePiece
<1>14. Claims' /\ MutexHeld'
  <2>1. \A v \in Workers : pc'[v] # "work"
    BY <1>1, <1>3 DEF Halving
  <2>2. QED
    BY <1>1, <1>2, <1>3, <2>1 DEF Claims, MutexHeld
<1>15. QED
  BY <1>11, <1>12, <1>13, <1>14 DEF IInv, Phases

\* Merging goes on, or ends with one block.
LEMMA TestKeeps ==
    ASSUME IInv, NEW w \in Workers, Test(w)
    PROVE  IInv'
<1> USE Arguments
<1>1. TypeOK /\ Sizes /\ Claims /\ MutexHeld /\ Merging
  BY PhaseOf DEF IInv, Test, Goto
<1>2. PICK to \in {"wait_done", "lock"} :
        /\ to = "wait_done" <=> blocks = 1
        /\ pc[w] = "test" /\ pc' = [pc EXCEPT ![w] = to]
  BY DEF Test, Goto
<1>3. /\ stage' = [stage EXCEPT ![w] = "merge"]
      /\ UNCHANGED <<part, time_mark, blocks, cnt_records, state_map, mutex,
                     arrived, i, current_index, round, spoilt>>
  BY DEF Test, shared
<1>4. /\ \A v \in Workers : pc'[v] = IF v = w THEN to ELSE pc[v]
      /\ \A v \in Workers : stage'[v] = IF v = w THEN "merge" ELSE stage[v]
  BY <1>1, <1>2, <1>3 DEF TypeOK
<1>5. TypeOK'
  <2>1. /\ pc' \in [Workers -> Waits \cup
              {"next", "work", "lock", "scan", "reset", "halve", "test",
               "finish", "end"}]
        /\ stage' \in [Workers -> {"sort", "merge"}]
    BY <1>1, <1>2, <1>3 DEF TypeOK, Waits
  <2>2. pc'[0] \notin {"next", "end"} => pc[0] \notin {"next", "end"}
    BY <1>2, <1>4
  <2>3. \A v \in arrived : pc'[v] \in Waits
    BY <1>1, <1>2, <1>4 DEF TypeOK, Waits
  <2>4. QED
    BY <1>1, <1>3, <2>1, <2>2, <2>3 DEF TypeOK
<1>6. Merging'
  BY <1>1, <1>2, <1>3, <1>4 DEF Merging, SamePiece
<1>7. Sizes' /\ MutexHeld'
  BY <1>1, <1>2, <1>3, <1>4 DEF Sizes, MutexHeld
<1>8. Claims'
  <2>1. \A v \in Workers : pc'[v] = "work" =>
          pc[v] = "work" /\ stage[v] = "merge" /\ stage'[v] = "merge"
    BY <1>1, <1>2, <1>4 DEF Merging
  <2>2. QED
    BY <1>1, <1>3, <2>1 DEF Claims, Unreset
<1>9. QED
  BY <1>5, <1>6, <1>7, <1>8 DEF IInv, Phases

\* The last merge is of the whole piece.
LEMMA FinishKeeps ==
    ASSUME IInv, Finish
    PROVE  IInv'
<1> USE Arguments
<1>1. TypeOK /\ Sizes /\ Claims /\ MutexHeld /\ Between
  BY PhaseOf DEF IInv, Finish, Goto
<1>2. /\ pc[0] = "finish" /\ pc' = [pc EXCEPT ![0] = "next"]
      /\ part' = Merge(0, cnt_records \div 2)
      /\ blocks' = BLOCKS /\ cnt_records' = CNT
      /\ round' = [round EXCEPT ![0] = @ + 1]
      /\ UNCHANGED <<time_mark, state_map, mutex, arrived, stage, i,
                     current_index, spoilt>>
  BY DEF Finish, Goto
<1>3. /\ \A v \in Workers : pc'[v] = IF v = 0 THEN "next" ELSE pc[v]
      /\ \A v \in Workers : round'[v] = IF v = 0 THEN round[v] + 1 ELSE round[v]
  BY <1>1, <1>2 DEF TypeOK
<1>4. blocks = 1 /\ round[0] < repeats
      /\ \A v \in Workers \ {0} : round[v] = round[0] + 1
  BY <1>1, <1>2 DEF Between
<1>5. cnt_records % 2 = 0 /\ cnt_records \in Nat
      /\ cnt_records = BLOCKS * CNT
  <2>1. cnt_records \in Nat /\ cnt_records % 2 = 0
    BY <1>1, <1>2, <1>4, SegmentInPiece DEF Sizes
  <2>2. 1 * cnt_records = BLOCKS * CNT
    BY <1>1, <1>4 DEF TypeOK
  <2>3. QED
    BY <2>1, <2>2
<1>6. part' \in [Records -> Records]
  <2>1. PICK n \in Nat : cnt_records \div 2 = n /\ cnt_records = 2 * n
    BY <1>5
  <2>2. 0..(0 + 2 * n - 1) = Records
    BY <1>5, <2>1 DEF Records
  <2>3. part \in [Records -> Records] /\ 0 \in Nat
    BY <1>1 DEF TypeOK
  <2>4. Merge(0, n) \in [Records -> Records]
    BY <2>2, <2>3, MergeTyped
  <2>5. QED
    BY <1>2, <2>1, <2>4
<1>7. TypeOK'
  <2>1. pc' \in [Workers -> Waits \cup
              {"next", "work", "lock", "scan", "reset", "halve", "test",
               "finish", "end"}]
    BY <1>1, <1>2 DEF TypeOK, Waits
  <2>2. pc'[0] = "next"
    BY <1>3
  <2>3. \A v \in arrived : pc'[v] \in Waits
    BY <1>1, <1>2, <1>3 DEF TypeOK, Waits
  <2>4. round' \in [Workers -> 0..repeats]
    <3>1. round \in [Workers -> 0..repeats] /\ round[0] + 1 \in 0..repeats
      BY <1>1, <1>4 DEF TypeOK
    <3>2. QED
      BY <1>2, <3>1
  <2>5. blocks' \in 1..BLOCKS
    BY <1>2
  <2>6. state_map' \in [DOMAIN state_map' -> BOOLEAN]
    BY <1>1, <1>2 DEF TypeOK
  <2>7. QED
    BY <1>1, <1>2, <1>6, <2>1, <2>2, <2>3, <2>4, <2>5, <2>6 DEF TypeOK
<1>8. Between'
  <2>1. \A v \in Workers : round'[v] = round'[0]
    BY <1>3, <1>4
  <2>2. QED
    BY <1>1, <1>2, <1>3, <2>1 DEF Between
<1>9. Sizes'
  <2>1. 1 \in 1..BLOCKS /\ BLOCKS * 1 = BLOCKS /\ CNT = CNT * 1
    OBVIOUS
  <2>2. \A v \in Workers : pc'[v] # "work"
    BY <1>1, <1>3 DEF Between
  <2>3. QED
    BY <1>2, <1>3, <2>1, <2>2 DEF Sizes
<1>10. Claims' /\ MutexHeld'
  <2>1. \A v \in Workers : pc'[v] # "work"
    BY <1>1, <1>3 DEF Between
  <2>2. QED
    BY <1>1, <1>2, <1>3, <2>1 DEF Claims, MutexHeld
<1>11. QED
  BY <1>7, <1>8, <1>9, <1>10 DEF IInv, Phases

LEMMA NextKeeps == IInv /\ [Next]_vars => IInv'
<1> SUFFICES ASSUME IInv, [Next]_vars PROVE IInv'
  OBVIOUS
<1>1. ASSUME NEW w \in Workers, Worker(w)
      PROVE  IInv'
  BY <1>1, ArriveKeeps, ArriveLastKeeps, StartRoundEndKeep, WorkKeeps,
     LockSkipKeep, ClaimKeeps, ScanEndKeeps, TestKeeps DEF Worker
<1>2. ASSUME Main
      PROVE  IInv'
  BY <1>2, StartPieceKeeps, ResetKeeps, HalveKeeps, FinishKeeps DEF Main
<1>3. ASSUME UNCHANGED vars
      PROVE  IInv'
  <2>1. TypeOK' /\ Sizes' /\ Claims' /\ MutexHeld'
    BY <1>3 DEF vars, shared, IInv, TypeOK, Sizes, Claims, Unreset, MutexHeld
  <2>2. Phases'
    BY <1>3
       DEF vars, shared, IInv, Phases, Between, Sorting, Halving, Merging,
           SamePiece
  <2>3. QED
    BY <2>1, <2>2 DEF IInv
<1>4. QED
  BY <1>1, <1>2, <1>3 DEF Next, Ended

------------------------------------------------------------------------------
(***************************************************************************)
(* The order of the records                                                *)
(***************************************************************************)

\* Every record is in one place; m places from a are in order.
Distinct        == \A k, l \in Records : k # l => part[k] # part[l]
OrderedOn(a, m) == \A k \in a..(a + m - 2) :
                     Whole(part[k]) <= Whole(part[k + 1])

\* Dividing keeps the order.
LEMMA DivKeepsOrder ==
    ASSUME NEW u \in Nat \ {0}, NEW a \in Nat, NEW b \in Nat, a <= b
    PROVE  a \div u <= b \div u
<1>1. /\ a \div u \in Int /\ b \div u \in Int
      /\ u * (a \div u) <= a /\ b < u * (b \div u) + u
  OBVIOUS
<1>2. ASSUME NEW x \in Int, NEW y \in Int, x >= y + 1
      PROVE  u * x >= u * y + u
  <2>1. PICK z \in Nat : x = y + 1 + z
    BY <1>2
  <2>2. u * x = u * y + u + u * z /\ u * z \in Nat /\ u * y \in Int
    BY <2>1
  <2>3. QED
    BY <2>2
<1>3. u * (a \div u) \in Int /\ u * (b \div u) \in Int
  BY <1>1
<1>4. ~ (a \div u >= b \div u + 1)
  BY <1>1, <1>2, <1>3
<1>5. QED
  BY <1>1, <1>4

\* merge compares whole and fraction; that keeps the order of the wholes.
LEMMA WholeOrder ==
    ASSUME TypeOK, NEW r \in Records, NEW s \in Records,
           time_mark[r] <= time_mark[s]
    PROVE  Whole(r) <= Whole(s)
<1>1. time_mark[r] \in Nat /\ time_mark[s] \in Nat
  BY IndexSortAssumption DEF TypeOK
<1>2. UNIT \in Nat \ {0}
  BY IndexSortAssumption
<1>3. QED
  BY <1>1, <1>2, DivKeepsOrder DEF Whole

\* A merge of n places and the n behind them.
Merges(first, n) ==
    /\ first \in Nat /\ n \in Nat
    /\ first..(first + 2 * n - 1) \subseteq Records

\* One record given after the other is not before it in the order.
LEMMA TakenInOrder ==
    ASSUME TypeOK, NEW first, NEW n, Merges(first, n),
           OrderedOn(first, n), OrderedOn(first + n, n),
           NEW p \in Given(n), NEW q \in Given(n), q = Then(first, n, p),
           Togo(n, p) # 0, Togo(n, q) # 0
    PROVE  Whole(Taken(first, n, p)) <= Whole(Taken(first, n, q))
<1> DEFINE a == p[1]
           b == p[2]
<1>1. /\ first \in Nat /\ n \in Nat /\ a \in Nat /\ b \in Nat
      /\ a <= n /\ b <= n /\ ~ (a = n /\ b = n)
      /\ ~ (q[1] = n /\ q[2] = n)
  BY MergeStep DEF Merges, Given
<1>2. \A k \in Nat : k < 2 * n => first + k \in Records
  BY <1>1 DEF Merges
<1>3. ASSUME NEW k \in Nat, k < 2 * n
      PROVE  part[first + k] \in Records
  BY <1>2, <1>3 DEF TypeOK
<1>4. /\ a < n => part[first + a] \in Records
      /\ b < n => part[first + n + b] \in Records
  <2>1. b < n => /\ n + b \in Nat /\ n + b < 2 * n
                 /\ first + (n + b) = first + n + b
    BY <1>1
  <2>2. a < n => a < 2 * n
    BY <1>1
  <2>3. QED
    BY <1>1, <1>3, <2>1, <2>2
<1>5. CASE TakesLeft(first, n, p)
  <2>1. q = <<a + 1, b>> /\ Taken(first, n, p) = part[first + a]
    BY <1>5 DEF Then, Taken
  <2>2. a < n
    BY <1>1, <1>5 DEF TakesLeft
  <2>3. CASE TakesLeft(first, n, q)
    <3>1. Taken(first, n, q) = part[first + (a + 1)]
      BY <2>1, <2>3 DEF Taken
    <3>2. a + 1 < n
      BY <1>1, <2>1, <2>2, <2>3 DEF TakesLeft
    <3>3. /\ first + a \in first..(first + n - 2)
          /\ first + (a + 1) = (first + a) + 1
      BY <1>1, <3>2
    <3>4. QED
      BY <2>1, <3>1, <3>3 DEF OrderedOn
  <2>4. CASE ~ TakesLeft(first, n, q)
    <3>1. Taken(first, n, q) = part[first + n + b]
      BY <2>1, <2>4 DEF Taken
    <3>2. b # n
      BY <2>1, <2>4 DEF TakesLeft
    <3>3. time_mark[part[first + a]] <= time_mark[part[first + n + b]]
      BY <1>5, <3>2 DEF TakesLeft
    <3>4. b < n
      BY <1>1, <3>2
    <3>5. QED
      BY <1>4, <2>1, <2>2, <3>1, <3>3, <3>4, WholeOrder
  <2>5. QED
    BY <2>3, <2>4
<1>6. CASE ~ TakesLeft(first, n, p)
  <2>1. q = <<a, b + 1>> /\ Taken(first, n, p) = part[first + n + b]
    BY <1>6 DEF Then, Taken
  <2>2. b < n
    BY <1>1, <1>6 DEF TakesLeft
  <2>3. CASE TakesLeft(first, n, q)
    <3>1. Taken(first, n, q) = part[first + a]
      BY <2>1, <2>3 DEF Taken
    <3>2. a < n
      BY <1>1, <2>1, <2>3 DEF TakesLeft
    <3>3. ~ (time_mark[part[first + a]] <= time_mark[part[first + n + b]])
      BY <1>6, <3>2 DEF TakesLeft
    <3>4. /\ time_mark[part[first + a]] \in Nat
          /\ time_mark[part[first + n + b]] \in Nat
      <4>1. part[first + a] \in Records /\ part[first + n + b] \in Records
        BY <1>4, <2>2, <3>2 DEF TypeOK
      <4>2. time_mark \in [Records -> Nat]
        BY IndexSortAssumption DEF TypeOK
      <4>3. QED
        BY <4>1, <4>2
    <3>5. time_mark[part[first + n + b]] <= time_mark[part[first + a]]
      BY <3>3, <3>4
    <3>6. QED
      BY <1>4, <2>1, <2>2, <3>1, <3>2, <3>5, WholeOrder
  <2>4. CASE ~ TakesLeft(first, n, q)
    <3>1. Taken(first, n, q) = part[first + n + (b + 1)]
      BY <2>1, <2>4 DEF Taken
    <3>2. b + 1 # n
      BY <2>1, <2>4 DEF TakesLeft
    <3>3. /\ first + n + b \in (first + n)..(first + n + n - 2)
          /\ first + n + (b + 1) = (first + n + b) + 1
      BY <1>1, <2>2, <3>2
    <3>4. QED
      BY <2>1, <3>1, <3>3 DEF OrderedOn
  <2>5. QED
    BY <2>3, <2>4
<1>7. QED
  BY <1>5, <1>6

\* The places of which the records are still to come, and the next of them.
ToCome(first, n, p) == (first + p[1])..(first + n - 1)
                       \cup (first + n + p[2])..(first + 2 * n - 1)
NextPlace(first, n, p) == IF TakesLeft(first, n, p) THEN first + p[1]
                          ELSE first + n + p[2]

LEMMA TakenFromPlace ==
    ASSUME NEW first, NEW n, Merges(first, n), NEW p \in Given(n),
           Togo(n, p) # 0
    PROVE  LET q == Then(first, n, p)
               l == NextPlace(first, n, p)
           IN  /\ Taken(first, n, p) = part[l]
               /\ l \in ToCome(first, n, p) /\ l \notin ToCome(first, n, q)
               /\ ToCome(first, n, q) \subseteq ToCome(first, n, p)
               /\ ToCome(first, n, p) \subseteq Records
<1> DEFINE a == p[1]
           b == p[2]
<1>1. /\ first \in Nat /\ n \in Nat /\ a \in Nat /\ b \in Nat
      /\ a <= n /\ b <= n /\ ~ (a = n /\ b = n)
  <2>1. first \in Nat /\ n \in Nat
    BY DEF Merges
  <2>2. a \in 0..n /\ b \in 0..n
    BY DEF Given
  <2>3. ~ (a = n /\ b = n)
    BY <2>1, MergeStep
  <2>4. QED
    BY <2>1, <2>2, <2>3
<1>2. ToCome(first, n, p) \subseteq Records
  BY <1>1 DEF ToCome, Merges
<1>3. CASE TakesLeft(first, n, p)
  <2>1. /\ Then(first, n, p) = <<a + 1, b>>
        /\ NextPlace(first, n, p) = first + a
        /\ Taken(first, n, p) = part[first + a] /\ a < n
    BY <1>1, <1>3 DEF Then, Taken, NextPlace, TakesLeft
  <2>2. /\ first + a \in ToCome(first, n, p)
        /\ first + a \notin ToCome(first, n, <<a + 1, b>>)
        /\ ToCome(first, n, <<a + 1, b>>) \subseteq ToCome(first, n, p)
    BY <1>1, <2>1 DEF ToCome
  <2>3. QED
    BY <1>2, <2>1, <2>2
<1>4. CASE ~ TakesLeft(first, n, p)
  <2>1. /\ Then(first, n, p) = <<a, b + 1>>
        /\ NextPlace(first, n, p) = first + n + b
        /\ Taken(first, n, p) = part[first + n + b] /\ b < n
    BY <1>1, <1>4 DEF Then, Taken, NextPlace, TakesLeft
  <2>2. /\ first + n + b \in ToCome(first, n, p)
        /\ first + n + b \notin ToCome(first, n, <<a, b + 1>>)
        /\ ToCome(first, n, <<a, b + 1>>) \subseteq ToCome(first, n, p)
    BY <1>1, <2>1 DEF ToCome
  <2>3. QED
    BY <1>2, <2>1, <2>2
<1>5. QED
  BY <1>3, <1>4

\* What is still to come is in order, and is of the places still to come,
\* each once.
RestGood(first, n, f, p) ==
    /\ \A k \in 1..(Togo(n, p) - 1) : Whole(f[p][k]) <= Whole(f[p][k + 1])
    /\ \A k \in 1..Togo(n, p) : \E l \in ToCome(first, n, p) : f[p][k] = part[l]
    /\ \A k, l \in 1..Togo(n, p) : k # l => f[p][k] # f[p][l]

LEMMA RestInOrder ==
    ASSUME TypeOK, Distinct, NEW first, NEW n, Merges(first, n),
           OrderedOn(first, n), OrderedOn(first + n, n),
           NEW f, Rest(first, n, f)
    PROVE  \A p \in Given(n) : RestGood(first, n, f, p)
<1> DEFINE Bad == {m \in Nat : \E p \in Given(n) :
                     Togo(n, p) = m /\ ~ RestGood(first, n, f, p)}
<1>1. /\ first \in Nat /\ n \in Nat /\ part \in [Records -> Records]
      /\ first..(first + 2 * n - 1) \subseteq Records
  BY DEF Merges, TypeOK
<1>2. Bad = {}
  <2>1. SUFFICES ASSUME Bad # {} PROVE FALSE
    OBVIOUS
  <2>2. PICK m \in Bad : \A l \in Bad : m <= l
    <3>1. Bad \subseteq Nat
      OBVIOUS
    <3>2. QED
      BY <2>1, <3>1, Least
  <2>3. PICK p \in Given(n) : Togo(n, p) = m /\ ~ RestGood(first, n, f, p)
    BY <2>2
  <2>4. m \in Nat
    BY <2>2
  <2>5. CASE m = 0
    <3>1. 1..Togo(n, p) = {} /\ 1..(Togo(n, p) - 1) = {}
      BY <2>3, <2>5
    <3>2. QED
      BY <2>3, <3>1 DEF RestGood
  <2>6. CASE m # 0
    <3> DEFINE q == Then(first, n, p)
               t == Taken(first, n, p)
               place == NextPlace(first, n, p)
    <3>1. q \in Given(n) /\ Togo(n, q) = m - 1 /\ ~ (p[1] = n /\ p[2] = n)
      BY <1>1, <2>3, <2>6, MergeStep
    <3>2. /\ t = part[place]
          /\ place \in ToCome(first, n, p) /\ place \notin ToCome(first, n, q)
          /\ ToCome(first, n, q) \subseteq ToCome(first, n, p)
          /\ ToCome(first, n, p) \subseteq Records
      BY <2>3, <2>6, TakenFromPlace
    <3>3. m - 1 \in Nat /\ ~ (m <= m - 1)
      BY <2>4, <2>6
    <3>4. RestGood(first, n, f, q)
      BY <2>2, <3>1, <3>3
    <3>5. f[q] \in Seq(Records) /\ Len(f[q]) = m - 1
      BY <1>1, <3>1, RestTyped
    <3>6. f[p] = <<t>> \o f[q]
      <4>1. f[p] = Out(first, n, f, p)
        BY DEF Rest
      <4>2. QED
        BY <3>1, <4>1 DEF Out
    <3>7. m > 1 => t = part[place] /\ Whole(t) <= Whole(f[q][1])
      <4>1. SUFFICES ASSUME m > 1 PROVE Whole(t) <= Whole(f[q][1])
        BY <3>2
      <4>2. Togo(n, q) # 0 /\ Togo(n, p) # 0
        BY <2>3, <3>1, <4>1, <2>4
      <4>3. Whole(t) <= Whole(Taken(first, n, q))
        BY <3>1, <4>2, TakenInOrder
      <4>4. f[q] = <<Taken(first, n, q)>> \o f[Then(first, n, q)]
        <5>1. ~ (q[1] = n /\ q[2] = n)
          BY <1>1, <3>1, <4>2, MergeStep
        <5>2. f[q] = Out(first, n, f, q)
          BY <3>1 DEF Rest
        <5>3. QED
          BY <5>1, <5>2 DEF Out
      <4>5. f[Then(first, n, q)] \in Seq(Records)
        <5>1. Then(first, n, q) \in Given(n)
          BY <1>1, <3>1, <4>2, MergeStep
        <5>2. QED
          BY <1>1, <5>1, RestTyped
      <4>6. f[q][1] = Taken(first, n, q)
        BY <4>4, <4>5
      <4>7. QED
        BY <4>3, <4>6
    <3> HIDE DEF q, t, place
    <3>8. /\ f[p][1] = t
          /\ \A k \in 2..m : k - 1 \in 1..(m - 1) /\ f[p][k] = f[q][k - 1]
      <4>1. ASSUME NEW k \in 2..m
            PROVE  k - 1 \in 1..(m - 1) /\ f[p][k] = f[q][k - 1]
        <5>1. k \in Nat /\ k # 1 /\ k <= 1 + (m - 1) /\ k - 1 \in 1..(m - 1)
          BY <2>4, <4>1
        <5>2. QED
          BY <3>5, <3>6, <5>1
      <4>2. f[p][1] = t
        BY <3>5, <3>6
      <4>3. QED
        BY <4>1, <4>2
    <3>9. \A k \in 1..m : k = 1 \/ k \in 2..m
      BY <2>4
    <3>10. ASSUME NEW k \in 1..(m - 1)
           PROVE  Whole(f[p][k]) <= Whole(f[p][k + 1])
      <4>1. k + 1 \in 2..m /\ (k + 1) - 1 = k /\ m > 1
        BY <2>4
      <4>2. f[p][k + 1] = f[q][k]
        BY <3>8, <4>1
      <4>3. CASE k = 1
        BY <3>7, <3>8, <4>1, <4>2, <4>3
      <4>4. CASE k # 1
        <5>1. k \in 2..m /\ k - 1 \in 1..((m - 1) - 1) /\ (k - 1) + 1 = k
          BY <2>4, <4>4
        <5>2. Whole(f[q][k - 1]) <= Whole(f[q][k])
          BY <3>1, <3>4, <5>1 DEF RestGood
        <5>3. QED
          BY <3>8, <4>2, <5>1, <5>2
      <4>5. QED
        BY <4>3, <4>4
    <3>11. \A k \in 1..(m - 1) :
             \E l \in ToCome(first, n, q) : f[q][k] = part[l]
      BY <3>1, <3>4 DEF RestGood
    <3>12. ASSUME NEW k \in 1..m
           PROVE  \E l \in ToCome(first, n, p) : f[p][k] = part[l]
      <4>1. CASE k = 1
        BY <3>2, <3>8, <4>1
      <4>2. CASE k \in 2..m
        BY <3>2, <3>8, <3>11, <4>2
      <4>3. QED
        BY <3>9, <4>1, <4>2
    <3>13. \A k \in 2..m : f[p][k] # t
      BY <3>2, <3>8, <3>11 DEF Distinct
    <3>14. ASSUME NEW k \in 1..m, NEW l \in 1..m, k # l
           PROVE  f[p][k] # f[p][l]
      <4>1. CASE k = 1 \/ l = 1
        BY <3>8, <3>9, <3>13, <3>14, <4>1
      <4>2. CASE k \in 2..m /\ l \in 2..m
        <5>1. k - 1 # l - 1
          BY <3>14, <4>2
        <5>2. QED
          BY <3>1, <3>4, <3>8, <4>2, <5>1 DEF RestGood
      <4>3. QED
        BY <3>9, <4>1, <4>2
    <3>15. QED
      BY <2>3, <3>10, <3>12, <3>14 DEF RestGood
  <2>7. QED
    BY <2>5, <2>6
<1>3. \A p \in Given(n) : Togo(n, p) \in Nat
  BY <1>1, MergeStep
<1>4. QED
  BY <1>2, <1>3

\* Two halves in order become one block in order, of the same records.
LEMMA MergeOrders ==
    ASSUME TypeOK, Distinct, NEW first, NEW n, Merges(first, n),
           OrderedOn(first, n), OrderedOn(first + n, n)
    PROVE  LET S == first..(first + 2 * n - 1)
               f == Merge(first, n)
           IN  /\ f \in [S -> {part[k] : k \in S}]
               /\ \A k, l \in S : k # l => f[k] # f[l]
               /\ \A k \in S : k + 1 \in S => Whole(f[k]) <= Whole(f[k + 1])
<1> DEFINE S == first..(first + 2 * n - 1)
           o == <<0, 0>>
<1>1. first \in Nat /\ n \in Nat
  BY DEF Merges
<1>2. PICK g : /\ Rest(first, n, g)
               /\ Merge(first, n) = [k \in S |-> g[<<0, 0>>][k - first + 1]]
  BY <1>1, MergeIsRest
<1>3. o \in Given(n) /\ Togo(n, o) = 2 * n /\ ToCome(first, n, o) \subseteq S
  BY <1>1 DEF Given, Togo, ToCome
<1>4. RestGood(first, n, g, o)
  BY <1>2, <1>3, RestInOrder
<1> DEFINE h(k) == g[o][k]
<1>5. /\ \A k \in 1..(2 * n - 1) : Whole(h(k)) <= Whole(h(k + 1))
      /\ \A k \in 1..(2 * n) : \E l \in S : h(k) = part[l]
      /\ \A k, l \in 1..(2 * n) : k # l => h(k) # h(l)
  BY <1>3, <1>4 DEF RestGood
<1>6. \A k \in S : k - first + 1 \in 1..(2 * n)
  BY <1>1
<1>7. \A k \in S : Merge(first, n)[k] = h(k - first + 1)
  BY <1>2
<1>8. \A k, l \in S : k # l => k - first + 1 # l - first + 1
  BY <1>1
<1>9. \A k \in S : k + 1 \in S =>
        /\ k - first + 1 \in 1..(2 * n - 1)
        /\ (k + 1) - first + 1 = (k - first + 1) + 1
  BY <1>1
<1> HIDE DEF h
<1>10. \A k \in S : Merge(first, n)[k] \in {part[l] : l \in S}
  BY <1>5, <1>6, <1>7
<1>11. \A k, l \in S : k # l => Merge(first, n)[k] # Merge(first, n)[l]
  BY <1>5, <1>6, <1>7, <1>8
<1>12. \A k \in S : k + 1 \in S =>
         Whole(Merge(first, n)[k]) <= Whole(Merge(first, n)[k + 1])
  BY <1>5, <1>7, <1>9
<1>13. Merge(first, n) \in [S -> {part[l] : l \in S}]
  BY <1>2, <1>10
<1>14. QED
  BY <1>11, <1>12, <1>13

\* A block, or its two halves, in order; a block in order or in work.
Ordered(b) == OrderedOn(cnt_records * b, cnt_records)
Halves(b)  ==
    /\ OrderedOn(cnt_records * b, cnt_records \div 2)
    /\ OrderedOn(cnt_records * b + cnt_records \div 2, cnt_records \div 2)
InWork(b)  == \E w \in Workers : pc[w] = "work" /\ current_index[w] = b
Handled(b) == Ordered(b) \/ InWork(b)

\* The search of w has gone past block b.
Passed(w, b) ==
    \/ pc[w] = "work" /\ b <= i[w]
    \/ pc[w] \in {"lock", "scan"} /\ b < i[w]
    \/ pc[w] \in {"reset", "wait_phase"}

\* Nobody has passed a block that is neither in order nor in work, and none
\* such is marked.
Accounted == \A b \in 0..(blocks - 1) :
               state_map[b] = TRUE \/ (\E w \in Workers : Passed(w, b)) =>
                 Handled(b)
Unmarked  == \A b \in 0..(blocks - 1) : state_map[b] = FALSE
AllHalves == \A b \in 0..(blocks - 1) : Halves(b)

MainSorts  == /\ pc[0] \in {"work", "lock", "scan", "reset", "wait_phase"}
              /\ stage[0] = "sort"
MainMerges == \/ pc[0] \in {"test", "wait_done"}
              \/ /\ pc[0] \in {"work", "lock", "scan", "wait_phase"}
                 /\ stage[0] = "merge"

\* What is in order, by the place of main.
Progress ==
    /\ pc[0] = "next" /\ round[0] > 0 => OrderedOn(0, BLOCKS * CNT)
    /\ pc[0] = "wait_start" => Unmarked
    /\ MainSorts => Accounted /\ \A b \in 0..threads : Handled(b)
    /\ pc[0] = "halve" => \A b \in 0..(blocks - 1) : Ordered(b)
    /\ pc[0] = "wait_halved" => Unmarked /\ AllHalves
    /\ MainMerges => Accounted /\ AllHalves
    /\ pc[0] = "finish" => Halves(0)

\* The second inductive invariant, beside IInv.
OrderInv == ~ spoilt => Distinct /\ Progress

\* Places of a block, and of another.
LEMMA SegmentsApart ==
    ASSUME TypeOK, Sizes
    PROVE  /\ \A b \in Nat :
                /\ cnt_records * b \in Nat
                /\ Segment(b) = (cnt_records * b)
                                ..(cnt_records * b + cnt_records - 1)
           /\ \A b, c \in Nat : b # c => Segment(b) \cap Segment(c) = {}
<1>1. cnt_records \in Nat
  <2>1. PICK c \in 1..BLOCKS : cnt_records = CNT * c
    BY DEF Sizes
  <2>2. QED
    BY <2>1, Arguments
<1>2. ASSUME NEW x \in Nat, NEW b \in Nat
      PROVE  x * b \in Nat /\ x * (b + 1) = x * b + x
  OBVIOUS
<1>3. ASSUME NEW b \in Nat, NEW c \in Nat, b < c
      PROVE  /\ Segment(b) \cap Segment(c) = {}
             /\ Segment(c) \cap Segment(b) = {}
  <2>1. PICK d \in Nat : c = (b + 1) + d
    BY <1>3
  <2>2. /\ cnt_records * c = cnt_records * (b + 1) + cnt_records * d
        /\ cnt_records * d \in Nat /\ cnt_records * (b + 1) \in Nat
        /\ cnt_records * b \in Nat /\ cnt_records * (c + 1) \in Nat
    BY <1>1, <2>1
  <2>3. QED
    BY <2>2 DEF Segment
<1>4. \A b, c \in Nat : b # c => b < c \/ c < b
  OBVIOUS
<1>5. \A b \in Nat :
        /\ cnt_records * b \in Nat
        /\ Segment(b) = (cnt_records * b)..(cnt_records * b + cnt_records - 1)
  BY <1>1, <1>2 DEF Segment
<1>6. QED
  BY <1>3, <1>4, <1>5

\* The halves of a block lie in it.
LEMMA HalvesInBlock ==
    ASSUME TypeOK, Sizes, NEW b \in Nat,
           NEW a, NEW m, <<a, m>> \in
             {<<cnt_records * b, cnt_records>>,
              <<cnt_records * b, cnt_records \div 2>>,
              <<cnt_records * b + cnt_records \div 2, cnt_records \div 2>>}
    PROVE  \A k \in a..(a + m - 2) : k \in Segment(b) /\ k + 1 \in Segment(b)
<1>1. cnt_records \in Nat
  <2>1. PICK c \in 1..BLOCKS : cnt_records = CNT * c
    BY DEF Sizes
  <2>2. QED
    BY <2>1, Arguments
<1>2. PICK n \in Nat : cnt_records \div 2 = n /\ 2 * n <= cnt_records
  BY <1>1
<1>3. PICK s \in Nat : cnt_records * b = s
                       /\ Segment(b) = s..(s + cnt_records - 1)
  BY SegmentsApart
<1>4. \/ a = s /\ m = cnt_records
      \/ a = s /\ m = n
      \/ a = s + n /\ m = n
  BY <1>2, <1>3
<1>5. \A k \in a..(a + m - 2) : /\ k \in s..(s + cnt_records - 1)
                                /\ k + 1 \in s..(s + cnt_records - 1)
  BY <1>1, <1>2, <1>4
<1>6. QED
  BY <1>3, <1>5

\* What is in order on c places is in order on both halves of them.
LEMMA HalvesInside ==
    ASSUME NEW c \in Nat, NEW s \in Nat
    PROVE  \A k : \/ k \in s..(s + c \div 2 - 2)
                 \/ k \in (s + c \div 2)..(s + c \div 2 + c \div 2 - 2)
                 => k \in s..(s + c - 2)
<1>1. PICK n \in Nat : c \div 2 = n /\ 2 * n <= c
  OBVIOUS
<1>2. QED
  BY <1>1

\* As long as the records and the sizes stay, what is in order stays.
LEMMA SameOrder ==
    ASSUME UNCHANGED <<part, time_mark, cnt_records>>
    PROVE  /\ Distinct => Distinct'
           /\ \A a, m : OrderedOn(a, m) => OrderedOn(a, m)'
           /\ \A b : Ordered(b) => Ordered(b)'
           /\ \A b : Halves(b) => Halves(b)'
<1>1. \A a, m : OrderedOn(a, m) => OrderedOn(a, m)'
  BY DEF OrderedOn, Whole
<1>2. Distinct => Distinct'
  BY DEF Distinct
<1>3. QED
  BY <1>1, <1>2 DEF Ordered, Halves

\* Putting block b in order puts it in order and leaves the others.
LEMMA BlockDone ==
    ASSUME TypeOK, Sizes, Distinct, NEW b \in Nat, b < blocks,
           NEW f \in [Segment(b) -> {part[k] : k \in Segment(b)}],
           \A k, l \in Segment(b) : k # l => f[k] # f[l],
           \A k \in Segment(b) : k + 1 \in Segment(b) =>
             Whole(f[k]) <= Whole(f[k + 1]),
           part' = [k \in Records |->
                      IF k \in Segment(b) THEN f[k] ELSE part[k]],
           UNCHANGED <<time_mark, cnt_records>>
    PROVE  /\ Distinct' /\ Ordered(b)'
           /\ \A c \in Nat : c # b /\ c < blocks =>
                (Ordered(c) => Ordered(c)') /\ (Halves(c) => Halves(c)')
<1> DEFINE S == Segment(b)
<1>1. S \subseteq Records
  BY SegmentInPiece
<1>2. \A k \in S : \E l \in S : f[k] = part[l]
  OBVIOUS
<1>3. \A k \in Records : part'[k] = IF k \in S THEN f[k] ELSE part[k]
  OBVIOUS
<1>4. Distinct'
  <2>1. SUFFICES ASSUME NEW k \in Records, NEW l \in Records, k # l
                 PROVE  part'[k] # part'[l]
    BY DEF Distinct
  <2>2. CASE k \in S /\ l \in S
    BY <1>3, <2>1, <2>2
  <2>3. CASE k \notin S /\ l \notin S
    BY <1>3, <2>1, <2>3 DEF Distinct
  <2>4. CASE k \in S /\ l \notin S
    <3>1. PICK m \in S : f[k] = part[m]
      BY <1>2, <2>4
    <3>2. part[m] # part[l]
      BY <1>1, <2>4, <3>1 DEF Distinct
    <3>3. QED
      BY <1>3, <2>4, <3>1, <3>2
  <2>5. CASE k \notin S /\ l \in S
    <3>1. PICK m \in S : f[l] = part[m]
      BY <1>2, <2>5
    <3>2. part[m] # part[k]
      BY <1>1, <2>5, <3>1 DEF Distinct
    <3>3. QED
      BY <1>3, <2>5, <3>1, <3>2
  <2>6. QED
    BY <2>2, <2>3, <2>4, <2>5
<1>5. ASSUME NEW a, NEW m,
             \A k \in a..(a + m - 2) : Whole(part'[k]) <= Whole(part'[k + 1])
      PROVE  OrderedOn(a, m)'
  BY <1>5 DEF OrderedOn, Whole
<1>6. \A k \in S : k + 1 \in S => Whole(part'[k]) <= Whole(part'[k + 1])
  BY <1>1, <1>3
<1>7. Ordered(b)'
  <2>1. \A k \in (cnt_records * b)..(cnt_records * b + cnt_records - 2) :
          k \in S /\ k + 1 \in S
    BY HalvesInBlock
  <2>2. QED
    BY <1>5, <1>6, <2>1 DEF Ordered
<1>8. ASSUME NEW c \in Nat, c # b, c < blocks,
             NEW a, NEW m, <<a, m>> \in
               {<<cnt_records * c, cnt_records>>,
                <<cnt_records * c, cnt_records \div 2>>,
                <<cnt_records * c + cnt_records \div 2, cnt_records \div 2>>},
             OrderedOn(a, m)
      PROVE  OrderedOn(a, m)'
  <2>1. \A k \in a..(a + m - 2) : k \in Segment(c) /\ k + 1 \in Segment(c)
    BY <1>8, HalvesInBlock
  <2>2. Segment(c) \subseteq Records
    BY <1>8, SegmentInPiece
  <2>3. \A k \in Segment(c) : k \notin S
    BY <1>8, SegmentsApart
  <2>4. \A k \in Segment(c) : part'[k] = part[k]
    BY <1>3, <2>2, <2>3
  <2>5. \A k \in a..(a + m - 2) : Whole(part[k]) <= Whole(part[k + 1])
    BY <1>8 DEF OrderedOn
  <2>6. \A k \in a..(a + m - 2) : Whole(part'[k]) <= Whole(part'[k + 1])
    BY <2>1, <2>4, <2>5
  <2>7. QED
    BY <1>5, <2>6
<1>9. ASSUME NEW c \in Nat, c # b, c < blocks
      PROVE  (Ordered(c) => Ordered(c)') /\ (Halves(c) => Halves(c)')
  BY <1>8, <1>9 DEF Ordered, Halves
<1>10. QED
  BY <1>4, <1>7, <1>9

\* One worker goes on in its search or its work: nothing gets lost if what
\* was in order or in work stays so, and whatever the step marks or passes
\* is in order or in work.
LEMMA SearchOrders ==
    ASSUME IInv, Progress, NEW w \in Workers,
           pc[w] \in {"work", "lock", "scan", "reset"},
           pc'[w] \in {"work", "lock", "scan", "reset", "wait_phase"},
           pc'[w] = "reset" => stage[w] = "sort",
           \A v \in Workers : v # w => pc'[v] = pc[v] /\ i'[v] = i[v],
           UNCHANGED <<blocks, stage>>,
           \A b \in 0..(blocks - 1) : (Handled(b) => Handled(b)')
                                      /\ (Halves(b) => Halves(b)'),
           \A b \in 0..(blocks - 1) : state_map'[b] = TRUE =>
             state_map[b] = TRUE \/ Handled(b)',
           \A b \in 0..(blocks - 1) : Passed(w, b)' =>
             Passed(w, b) \/ Handled(b)'
    PROVE  Progress'
<1> USE Arguments
<1>1. Sorting \/ Merging
  BY PhaseOf
<1>2. pc'[0] \in {"work", "lock", "scan", "reset", "wait_phase", "test",
                  "wait_done"}
  BY <1>1 DEF Sorting, Merging
<1>3. MainSorts' => MainSorts /\ blocks = BLOCKS
  <2>1. CASE Sorting
    BY <2>1 DEF Sorting, MainSorts
  <2>2. CASE Merging
    BY <2>2 DEF Merging, MainSorts
  <2>3. QED
    BY <1>1, <2>1, <2>2
<1>4. MainMerges' => MainMerges
  <2>1. CASE Sorting
    BY <2>1 DEF Sorting, MainMerges
  <2>2. CASE Merging
    BY <2>2 DEF Merging, MainMerges
  <2>3. QED
    BY <1>1, <2>1, <2>2
<1>5. ASSUME NEW v \in Workers, v # w, NEW b
      PROVE  Passed(v, b)' => Passed(v, b)
  BY <1>5 DEF Passed
<1>6. Accounted => Accounted'
  BY <1>5 DEF Accounted
<1>7. AllHalves => AllHalves'
  BY DEF AllHalves
<1>8. MainSorts /\ blocks = BLOCKS /\ (\A b \in 0..threads : Handled(b)) =>
        \A b \in 0..threads : Handled(b)'
  <2>1. blocks = BLOCKS => \A b \in 0..threads : b \in 0..(blocks - 1)
    OBVIOUS
  <2>2. QED
    BY <2>1
<1>9. QED
  BY <1>2, <1>3, <1>4, <1>6, <1>7, <1>8 DEF Progress

LEMMA LockSkipOrder ==
    ASSUME IInv, OrderInv, NEW w \in Workers, Lock(w) \/ Skip(w)
    PROVE  OrderInv'
<1>1. SUFFICES ASSUME ~ spoilt, Distinct, Progress
               PROVE  Distinct' /\ Progress'
  BY DEF OrderInv, Lock, Skip
<1>2. TypeOK
  BY DEF IInv
<1>3. /\ UNCHANGED <<part, time_mark, blocks, cnt_records, state_map, stage,
                     current_index>>
      /\ pc[w] \in {"lock", "scan"} /\ pc' = [pc EXCEPT ![w] = "scan"]
      /\ \A v \in Workers : v # w => i'[v] = i[v]
  BY <1>2 DEF Lock, Skip, Goto, TypeOK, shared
<1>4. \A v \in Workers : pc'[v] = IF v = w THEN "scan" ELSE pc[v]
  BY <1>2, <1>3 DEF TypeOK
<1>5. \A b : (Handled(b) => Handled(b)') /\ (Halves(b) => Halves(b)')
  <2>1. \A b : InWork(b) => InWork(b)'
    BY <1>3, <1>4 DEF InWork
  <2>2. QED
    BY <1>3, <2>1, SameOrder DEF Handled
<1>6. ASSUME NEW b \in 0..(blocks - 1), Passed(w, b)'
      PROVE  Passed(w, b) \/ Handled(b)'
  <2>1. b < i'[w]
    BY <1>4, <1>6 DEF Passed
  <2>2. CASE Lock(w)
    BY <1>3, <2>1, <2>2 DEF Lock, Passed
  <2>3. CASE Skip(w)
    <3>1. i[w] \in Nat /\ i'[w] = i[w] + 1 /\ state_map[i[w]]
      BY <1>2, <2>3 DEF Skip, TypeOK
    <3>2. CASE b < i[w]
      BY <1>3, <3>2 DEF Passed
    <3>3. CASE b = i[w]
      <4>1. state_map[b] = TRUE
        <5>1. Sorting \/ Merging
          BY <1>3, PhaseOf
        <5>2. pc[0] \notin {"next", "end"}
          BY <5>1, Arguments DEF Sorting, Merging
        <5>3. state_map \in [0..(blocks - 1) -> BOOLEAN]
          BY <1>2, <5>2 DEF TypeOK
        <5>4. state_map[b] \in BOOLEAN
          BY <5>3
        <5>5. QED
          BY <3>1, <3>3, <5>4
      <4>2. Accounted
        <5>1. Sorting \/ Merging
          BY <1>3, PhaseOf
        <5>2. MainSorts \/ MainMerges
          BY <5>1, Arguments DEF Sorting, Merging, MainSorts, MainMerges
        <5>3. QED
          BY <1>1, <5>2 DEF Progress
      <4>3. Handled(b)
        BY <4>1, <4>2 DEF Accounted
      <4>4. QED
        BY <1>5, <4>3
    <3>4. QED
      BY <2>1, <3>1, <3>2, <3>3
  <2>4. QED
    BY <2>2, <2>3
<1>7. Distinct'
  BY <1>1, <1>3, SameOrder
<1>8. Progress'
  <2>1. /\ pc[w] \in {"work", "lock", "scan", "reset"}
        /\ pc'[w] \in {"work", "lock", "scan", "reset", "wait_phase"}
        /\ pc'[w] # "reset"
        /\ \A v \in Workers : v # w => pc'[v] = pc[v] /\ i'[v] = i[v]
    BY <1>3, <1>4
  <2>2. \A b \in 0..(blocks - 1) : state_map'[b] = TRUE =>
          state_map[b] = TRUE \/ Handled(b)'
    BY <1>3
  <2>3. \A b \in 0..(blocks - 1) : (Handled(b) => Handled(b)')
                                   /\ (Halves(b) => Halves(b)')
    BY <1>5
  <2>4. UNCHANGED <<blocks, stage>>
    BY <1>3
  <2>5. \A b \in 0..(blocks - 1) : Passed(w, b)' =>
          Passed(w, b) \/ Handled(b)'
    BY <1>6
  <2>6. QED
    BY <1>1, <2>1, <2>2, <2>3, <2>4, <2>5, SearchOrders
<1>9. QED
  BY <1>7, <1>8

LEMMA ClaimOrder ==
    ASSUME IInv, OrderInv, NEW w \in Workers, Claim(w)
    PROVE  OrderInv'
<1>1. SUFFICES ASSUME ~ spoilt, Distinct, Progress
               PROVE  Distinct' /\ Progress'
  BY DEF OrderInv, Claim
<1>2. TypeOK /\ Sizes
  BY DEF IInv
<1>3. /\ UNCHANGED <<part, time_mark, blocks, cnt_records, stage, i>>
      /\ pc[w] = "scan" /\ pc' = [pc EXCEPT ![w] = "work"]
      /\ current_index' = [current_index EXCEPT ![w] = i[w]]
      /\ state_map' = [state_map EXCEPT ![i[w]] = TRUE]
      /\ i[w] \in Nat
  BY <1>2 DEF Claim, Goto, TypeOK
<1>4. \A v \in Workers :
        /\ pc'[v] = IF v = w THEN "work" ELSE pc[v]
        /\ current_index'[v] = IF v = w THEN i[w] ELSE current_index[v]
  BY <1>2, <1>3 DEF TypeOK
<1>5. \A b : (Handled(b) => Handled(b)') /\ (Halves(b) => Halves(b)')
  <2>1. \A b : InWork(b) => InWork(b)'
    BY <1>3, <1>4 DEF InWork
  <2>2. QED
    BY <1>3, <2>1, SameOrder DEF Handled
<1>6. \A b : b = i[w] => Handled(b)'
  BY <1>4 DEF Handled, InWork
<1>7. /\ \A b \in 0..(blocks - 1) : state_map'[b] = TRUE =>
           state_map[b] = TRUE \/ Handled(b)'
      /\ \A b \in 0..(blocks - 1) : Passed(w, b)' => Passed(w, b) \/ Handled(b)'
  <2>1. \A b \in 0..(blocks - 1) : b # i[w] /\ state_map'[b] = TRUE =>
          state_map[b] = TRUE
    <3>1. Sorting \/ Merging
      BY <1>3, PhaseOf
    <3>2. pc[0] \notin {"next", "end"}
      BY <3>1, Arguments DEF Sorting, Merging
    <3>3. state_map \in [0..(blocks - 1) -> BOOLEAN]
      BY <1>2, <3>2 DEF TypeOK
    <3>4. QED
      BY <1>3, <3>3
  <2>2. \A b \in 0..(blocks - 1) : Passed(w, b)' => Passed(w, b) \/ b = i[w]
    BY <1>3, <1>4 DEF Passed
  <2>3. QED
    BY <1>6, <2>1, <2>2
<1>8. Distinct'
  BY <1>1, <1>3, SameOrder
<1>9. Progress'
  <2>1. /\ pc[w] \in {"work", "lock", "scan", "reset"}
        /\ pc'[w] \in {"work", "lock", "scan", "reset", "wait_phase"}
        /\ pc'[w] # "reset"
        /\ \A v \in Workers : v # w => pc'[v] = pc[v] /\ i'[v] = i[v]
    BY <1>3, <1>4
  <2>2. UNCHANGED <<blocks, stage>>
    BY <1>3
  <2>3. \A b \in 0..(blocks - 1) : (Handled(b) => Handled(b)')
                                   /\ (Halves(b) => Halves(b)')
    BY <1>5
  <2>4. QED
    BY <1>1, <1>7, <2>1, <2>2, <2>3, SearchOrders
<1>10. QED
  BY <1>8, <1>9

LEMMA ScanEndOrder ==
    ASSUME IInv, OrderInv, NEW w \in Workers, ScanEnd(w)
    PROVE  OrderInv'
<1>1. SUFFICES ASSUME ~ spoilt, Distinct, Progress
               PROVE  Distinct' /\ Progress'
  BY DEF OrderInv, ScanEnd
<1>2. TypeOK /\ Sizes
  BY DEF IInv
<1>3. PICK to \in {"reset", "wait_phase"} :
        /\ to = "reset" => stage[w] = "sort"
        /\ pc[w] = "scan" /\ pc' = [pc EXCEPT ![w] = to]
  BY DEF ScanEnd, Goto
<1>4. /\ UNCHANGED <<part, time_mark, blocks, cnt_records, state_map, stage,
                     current_index>>
      /\ i[w] >= blocks /\ i' = [i EXCEPT ![w] = 0]
  BY DEF ScanEnd, shared
<1>5. \A v \in Workers : /\ pc'[v] = IF v = w THEN to ELSE pc[v]
                         /\ i'[v] = IF v = w THEN 0 ELSE i[v]
  BY <1>2, <1>3, <1>4 DEF TypeOK
<1>6. \A b : (Handled(b) => Handled(b)') /\ (Halves(b) => Halves(b)')
  <2>1. \A b : InWork(b) => InWork(b)'
    BY <1>3, <1>4, <1>5 DEF InWork
  <2>2. QED
    BY <1>4, <2>1, SameOrder DEF Handled
<1>7. \A b \in 0..(blocks - 1) : Passed(w, b)
  <2>1. i[w] \in Nat /\ blocks \in Nat
    BY <1>2 DEF TypeOK
  <2>2. \A b \in 0..(blocks - 1) : b < i[w]
    BY <1>4, <2>1
  <2>3. QED
    BY <1>3, <2>2 DEF Passed
<1>8. Distinct'
  BY <1>1, <1>4, SameOrder
<1>9. Progress'
  <2>1. /\ pc[w] \in {"work", "lock", "scan", "reset"}
        /\ pc'[w] \in {"work", "lock", "scan", "reset", "wait_phase"}
        /\ pc'[w] = "reset" => stage[w] = "sort"
        /\ \A v \in Workers : v # w => pc'[v] = pc[v] /\ i'[v] = i[v]
    BY <1>3, <1>5
  <2>2. UNCHANGED <<blocks, stage>>
    BY <1>4
  <2>3. \A b \in 0..(blocks - 1) : (Handled(b) => Handled(b)')
                                   /\ (Halves(b) => Halves(b)')
    BY <1>6
  <2>4. \A b \in 0..(blocks - 1) : state_map'[b] = TRUE =>
          state_map[b] = TRUE \/ Handled(b)'
    BY <1>4
  <2>5. \A b \in 0..(blocks - 1) : Passed(w, b)' =>
          Passed(w, b) \/ Handled(b)'
    BY <1>7
  <2>6. QED
    BY <1>1, <2>1, <2>2, <2>3, <2>4, <2>5, SearchOrders
<1>10. QED
  BY <1>8, <1>9

LEMMA ResetOrder ==
    ASSUME IInv, OrderInv, Reset
    PROVE  OrderInv'
<1>1. SUFFICES ASSUME ~ spoilt, Distinct, Progress
               PROVE  Distinct' /\ Progress'
  BY DEF OrderInv, Reset
<1>2. TypeOK /\ Sizes /\ Sorting
  BY Arguments, PhaseOf DEF IInv, Reset
<1>3. PICK to \in {"reset", "wait_phase"} :
        pc[0] = "reset" /\ pc' = [pc EXCEPT ![0] = to]
  <2>1. pc[0] = "reset"
    BY DEF Reset
  <2>2. CASE UNCHANGED pc
    <3>1. pc' = [pc EXCEPT ![0] = "reset"]
      BY <1>2, <2>1, <2>2 DEF TypeOK
    <3>2. QED
      BY <2>1, <3>1
  <2>3. CASE pc' = [pc EXCEPT ![0] = "wait_phase"]
    BY <2>1, <2>3
  <2>4. QED
    BY <2>2, <2>3 DEF Reset
<1>4. /\ UNCHANGED <<part, time_mark, blocks, cnt_records, stage,
                     current_index>>
      /\ state_map' = [state_map EXCEPT ![i[0]] = FALSE]
      /\ \A v \in Workers : v # 0 => i'[v] = i[v]
  BY <1>2 DEF Reset, TypeOK
<1>5. \A v \in Workers : pc'[v] = IF v = 0 THEN to ELSE pc[v]
  BY <1>2, <1>3 DEF TypeOK
<1>6. \A b : (Handled(b) => Handled(b)') /\ (Halves(b) => Halves(b)')
  <2>1. \A b : InWork(b) => InWork(b)'
    BY <1>3, <1>4, <1>5 DEF InWork
  <2>2. QED
    BY <1>4, <2>1, SameOrder DEF Handled
<1>7. \A b \in 0..(blocks - 1) : Passed(0, b)
  BY <1>3 DEF Passed
<1>8. Distinct'
  BY <1>1, <1>4, SameOrder
<1>9. Progress'
  <2>1. /\ pc[0] \in {"work", "lock", "scan", "reset"}
        /\ pc'[0] \in {"work", "lock", "scan", "reset", "wait_phase"}
        /\ stage[0] = "sort"
        /\ \A v \in Workers : v # 0 => pc'[v] = pc[v] /\ i'[v] = i[v]
    BY <1>2, <1>3, <1>4, <1>5, Arguments DEF Sorting
  <2>2. UNCHANGED <<blocks, stage>>
    BY <1>4
  <2>3. \A b \in 0..(blocks - 1) : (Handled(b) => Handled(b)')
                                   /\ (Halves(b) => Halves(b)')
    BY <1>6
  <2>4. \A b \in 0..(blocks - 1) : state_map'[b] = TRUE =>
          state_map[b] = TRUE \/ Handled(b)'
    <3>1. state_map \in [0..(blocks - 1) -> BOOLEAN]
      BY <1>2, <1>3 DEF TypeOK
    <3>2. QED
      BY <1>4, <3>1
  <2>5. \A b \in 0..(blocks - 1) : Passed(0, b)' =>
          Passed(0, b) \/ Handled(b)'
    BY <1>7
  <2>6. QED
    BY <1>1, <2>1, <2>2, <2>3, <2>4, <2>5, Arguments, SearchOrders
<1>10. QED
  BY <1>8, <1>9

\* What qsort and merge put into a block.
LEMMA WorkDone ==
    ASSUME IInv, Distinct, Progress, NEW w \in Workers, pc[w] = "work",
           NEW b, b = current_index[w],
           NEW f, f \in IF stage[w] = "sort" THEN Qsort(Segment(b))
                        ELSE {Merge(cnt_records * b, cnt_records \div 2)}
    PROVE  /\ f \in [Segment(b) -> {part[k] : k \in Segment(b)}]
           /\ \A k, l \in Segment(b) : k # l => f[k] # f[l]
           /\ \A k \in Segment(b) : k + 1 \in Segment(b) =>
                Whole(f[k]) <= Whole(f[k + 1])
<1>1. TypeOK /\ Sizes /\ (Sorting \/ Merging)
  BY PhaseOf DEF IInv
<1>2. b \in Nat /\ b < blocks /\ b \in 0..(blocks - 1)
  <2>1. b \in 0..(BLOCKS - 1) /\ blocks \in 1..BLOCKS
    BY <1>1 DEF TypeOK
  <2>2. b < blocks
    BY <1>1 DEF Sizes
  <2>3. QED
    BY <2>1, <2>2
<1>3. CASE stage[w] = "sort"
  BY <1>3 DEF Qsort
<1>4. CASE stage[w] # "sort"
  <2>1. Merging
    BY <1>1, <1>4 DEF Sorting
  <2>2. AllHalves
    <3>1. MainMerges
      BY <2>1, Arguments DEF Merging, MainMerges
    <3>2. QED
      BY <3>1 DEF Progress
  <2>3. Halves(b)
    BY <1>2, <2>2 DEF AllHalves
  <2> DEFINE first == cnt_records * b
             n == cnt_records \div 2
  <2>4. cnt_records % 2 = 0
    BY <2>1 DEF Merging
  <2>5. /\ first \in Nat /\ n \in Nat
        /\ first..(first + 2 * n - 1) = Segment(b)
        /\ Segment(b) \subseteq Records
    BY <1>1, <1>2, <2>4, SegmentInPiece
  <2>6. OrderedOn(first, n) /\ OrderedOn(first + n, n)
    BY <2>3 DEF Halves
  <2>7. f = Merge(first, n)
    BY <1>4
  <2> HIDE DEF first, n
  <2>8. Merges(first, n)
    BY <2>5 DEF Merges
  <2> DEFINE S == first..(first + 2 * n - 1)
  <2>9. /\ f \in [S -> {part[k] : k \in S}]
        /\ \A k, l \in S : k # l => f[k] # f[l]
        /\ \A k \in S : k + 1 \in S => Whole(f[k]) <= Whole(f[k + 1])
    BY <1>1, <2>6, <2>7, <2>8, MergeOrders
  <2>10. S = Segment(b)
    BY <2>5
  <2> HIDE DEF S
  <2>11. QED
    BY <2>9, <2>10
<1>5. QED
  BY <1>3, <1>4

LEMMA WorkOrder ==
    ASSUME IInv, OrderInv, NEW w \in Workers, Work(w)
    PROVE  OrderInv'
<1>1. SUFFICES ASSUME ~ spoilt, ~ spoilt', Distinct, Progress
               PROVE  Distinct' /\ Progress'
  BY DEF OrderInv, Work
<1>2. TypeOK /\ Sizes /\ TypeOK' /\ Sizes'
  BY WorkKeeps DEF IInv
<1>3. PICK b : b = current_index[w]
  OBVIOUS
<1>4. /\ UNCHANGED <<time_mark, blocks, cnt_records, state_map, stage,
                     current_index>>
      /\ pc[w] = "work" /\ pc' = [pc EXCEPT ![w] = "lock"]
      /\ i' = [i EXCEPT ![w] = @ + 1] /\ i[w] \in Nat
  BY <1>2 DEF Work, Goto, TypeOK
<1>5. \A v \in Workers : /\ pc'[v] = IF v = w THEN "lock" ELSE pc[v]
                         /\ i'[v] = IF v = w THEN i[w] + 1 ELSE i[v]
  BY <1>2, <1>4 DEF TypeOK
<1>6. b \in Nat /\ b < blocks /\ blocks \in Nat
  BY <1>2, <1>4, <1>3 DEF TypeOK, Sizes
<1>7. PICK f \in IF stage[w] = "sort" THEN Qsort(Segment(b))
                 ELSE {Merge(cnt_records * b, cnt_records \div 2)} :
        part' = [k \in Records |-> IF k \in Segment(b) THEN f[k] ELSE part[k]]
  BY <1>1, <1>3 DEF Work
<1>8. /\ f \in [Segment(b) -> {part[k] : k \in Segment(b)}]
      /\ \A k, l \in Segment(b) : k # l => f[k] # f[l]
      /\ \A k \in Segment(b) : k + 1 \in Segment(b) =>
           Whole(f[k]) <= Whole(f[k + 1])
  BY <1>1, <1>4, <1>7, <1>3, WorkDone
<1>9. /\ Distinct' /\ Ordered(b)'
      /\ \A c \in Nat : c # b /\ c < blocks =>
           (Ordered(c) => Ordered(c)') /\ (Halves(c) => Halves(c)')
  BY <1>1, <1>2, <1>4, <1>6, <1>7, <1>8, BlockDone
<1>10. Halves(b)'
  <2>1. cnt_records \in Nat /\ cnt_records * b \in Nat
    BY <1>2, <1>6, SegmentInPiece
  <2>2. QED
    BY <1>4, <1>9, <2>1, HalvesInside DEF Ordered, Halves, OrderedOn
<1>11. \A c \in 0..(blocks - 1) : c \in Nat /\ c < blocks
  BY <1>6
<1>12. \A c \in 0..(blocks - 1) : Handled(c) => Handled(c)'
  <2>1. ASSUME NEW c \in 0..(blocks - 1), c # b
        PROVE  InWork(c) => InWork(c)'
    BY <1>4, <1>5, <2>1, <1>3 DEF InWork
  <2>2. QED
    BY <1>9, <1>11, <2>1 DEF Handled
<1>13. \A c \in 0..(blocks - 1) : Halves(c) => Halves(c)'
  BY <1>9, <1>10, <1>11
<1>14. \A c \in 0..(blocks - 1) : Passed(w, c)' => Passed(w, c)
  <2>1. \A c \in 0..(blocks - 1) : c < i[w] + 1 => c <= i[w]
    BY <1>4, <1>6
  <2>2. QED
    BY <1>4, <1>5, <2>1 DEF Passed
<1>15. Progress'
  <2>1. /\ pc[w] \in {"work", "lock", "scan", "reset"}
        /\ pc'[w] \in {"work", "lock", "scan", "reset", "wait_phase"}
        /\ pc'[w] # "reset"
        /\ \A v \in Workers : v # w => pc'[v] = pc[v] /\ i'[v] = i[v]
    BY <1>4, <1>5
  <2>2. UNCHANGED <<blocks, stage>>
    BY <1>4
  <2>3. \A c \in 0..(blocks - 1) : state_map'[c] = TRUE =>
          state_map[c] = TRUE \/ Handled(c)'
    BY <1>4
  <2>4. QED
    BY <1>1, <1>12, <1>13, <1>14, <2>1, <2>2, <2>3, SearchOrders
<1>16. QED
  BY <1>9, <1>15

LEMMA InitOrder == Init => OrderInv
<1> SUFFICES ASSUME Init PROVE OrderInv
  OBVIOUS
<1>1. Distinct
  BY DEF Init, Distinct
<1>2. pc[0] = "next" /\ round[0] = 0
  BY Arguments DEF Init
<1>3. Progress
  BY <1>2 DEF Progress, MainSorts, MainMerges
<1>4. QED
  BY <1>1, <1>3 DEF OrderInv

\* Steps in which nothing moves, no size changes and no search goes on.
LEMMA QuietOrder ==
    ASSUME OrderInv,
           UNCHANGED <<part, time_mark, blocks, cnt_records, state_map, i,
                       current_index, stage, spoilt, round>>,
           \A v \in Workers :
             \/ pc'[v] = pc[v]
             \/ pc[v] = "next" /\ pc'[v] = "end"
             \/ pc[v] = "next" /\ pc'[v] = "wait_start" /\ v # 0
    PROVE  OrderInv'
<1>1. SUFFICES ASSUME ~ spoilt, Distinct, Progress
               PROVE  Distinct' /\ Progress'
  BY DEF OrderInv
<1>2. Distinct'
  BY <1>1, SameOrder
<1>3. \A b : /\ Ordered(b) => Ordered(b)'
             /\ Halves(b) => Halves(b)'
             /\ InWork(b) => InWork(b)'
             /\ \A v \in Workers : Passed(v, b)' => Passed(v, b)
  <2>1. \A b : InWork(b) => InWork(b)'
    BY DEF InWork
  <2>2. \A b : \A v \in Workers : Passed(v, b)' => Passed(v, b)
    BY DEF Passed
  <2>3. QED
    BY <2>1, <2>2, SameOrder
<1>4. \A b : Handled(b) => Handled(b)'
  BY <1>3 DEF Handled
<1>5. /\ Accounted => Accounted'
      /\ Unmarked => Unmarked'
      /\ AllHalves => AllHalves'
  BY <1>3, <1>4 DEF Accounted, Unmarked, AllHalves
<1>6. pc'[0] = pc[0] \/ pc'[0] = "end"
  BY Arguments
<1>7. OrderedOn(0, BLOCKS * CNT) => OrderedOn(0, BLOCKS * CNT)'
  BY SameOrder
<1>8. /\ (\A b \in 0..threads : Handled(b)) => \A b \in 0..threads : Handled(b)'
      /\ (\A b \in 0..(blocks - 1) : Ordered(b)) =>
           \A b \in 0..(blocks' - 1) : Ordered(b)'
      /\ Halves(0) => Halves(0)'
  BY <1>3, <1>4
<1>9. Progress'
  BY <1>1, <1>5, <1>6, <1>7, <1>8 DEF Progress, MainSorts, MainMerges
<1>10. QED
  BY <1>2, <1>9

LEMMA ArriveStartEndOrder ==
    ASSUME IInv, OrderInv, NEW w \in Workers,
           Arrive(w) \/ StartRound(w) \/ End(w)
    PROVE  OrderInv'
<1>1. TypeOK
  BY DEF IInv
<1>2. UNCHANGED <<part, time_mark, blocks, cnt_records, state_map, i,
                  current_index, stage, spoilt, round>>
  BY DEF Arrive, StartRound, End, shared
<1>3. \A v \in Workers :
        \/ pc'[v] = pc[v]
        \/ pc[v] = "next" /\ pc'[v] = "end"
        \/ pc[v] = "next" /\ pc'[v] = "wait_start" /\ v # 0
  BY <1>1 DEF Arrive, StartRound, End, Goto, TypeOK
<1>4. QED
  BY <1>2, <1>3, QuietOrder

\* When all wait for the end of a phase, no block is in work.
LEMMA PhaseDone ==
    ASSUME Accounted, \A v \in Workers : pc[v] = "wait_phase"
    PROVE  \A b \in 0..(blocks - 1) : Ordered(b)
BY Arguments DEF Accounted, Passed, Handled, InWork

LEMMA ArriveLastOrder ==
    ASSUME IInv, OrderInv, NEW w \in Workers, ArriveLast(w)
    PROVE  OrderInv'
<1> USE Arguments
<1>1. SUFFICES ASSUME ~ spoilt, Distinct, Progress
               PROVE  Distinct' /\ Progress'
  BY DEF OrderInv, ArriveLast
<1>2. \A v \in Workers : pc[v] \in Waits
  BY DEF ArriveLast, IInv, TypeOK
<1>3. /\ UNCHANGED <<part, time_mark, blocks, cnt_records, state_map>>
      /\ pc' = [v \in Workers |-> After(v)]
      /\ stage' = [v \in Workers |->
                     IF pc[v] = "wait_start" THEN "sort" ELSE stage[v]]
      /\ i' = [v \in Workers |->
                 IF pc[v] = "wait_start" THEN threads ELSE i[v]]
      /\ current_index' = [v \in Workers |->
                 IF pc[v] = "wait_phase" THEN v ELSE current_index[v]]
  BY DEF ArriveLast, shared
<1>4. Distinct'
  BY <1>1, <1>3, SameOrder
<1>5. \A b : (Ordered(b) => Ordered(b)') /\ (Halves(b) => Halves(b)')
  BY <1>3, SameOrder
<1>6. CASE Between
  <2>1. \A v \in Workers : pc[v] = "wait_start"
    BY <1>2, <1>6 DEF Between, Waits
  <2>2. \A v \in Workers : /\ pc'[v] = "work" /\ stage'[v] = "sort"
                           /\ i'[v] = threads /\ current_index'[v] = v
    BY <1>3, <1>6, <2>1 DEF After, Between
  <2>3. Unmarked
    BY <1>1, <2>1 DEF Progress
  <2>4. \A b \in 0..threads : Handled(b)'
    BY <2>2 DEF Handled, InWork, Workers
  <2>5. Accounted'
    <3>1. ASSUME NEW v \in Workers, NEW b \in 0..(blocks - 1), Passed(v, b)'
          PROVE  b \in 0..threads
      <4>1. b <= threads
        BY <2>2, <3>1 DEF Passed
      <4>2. b \in Nat
        BY DEF IInv, TypeOK
      <4>3. QED
        BY <4>1, <4>2
    <3>2. \A b \in 0..(blocks' - 1) :
            state_map'[b] # TRUE /\ b \in 0..(blocks - 1)
      BY <1>3, <2>3 DEF Unmarked
    <3>3. QED
      BY <1>3, <2>4, <3>1, <3>2 DEF Accounted
  <2>6. QED
    BY <1>4, <2>2, <2>4, <2>5 DEF Progress, MainSorts, MainMerges
<1>7. CASE \A v \in Workers : pc[v] = "wait_phase"
  <2>1. pc'[0] = "halve"
    BY <1>3, <1>7 DEF After
  <2>2. Accounted
    <3>1. MainSorts \/ MainMerges
      <4>1. stage[0] \in {"sort", "merge"} /\ pc[0] = "wait_phase"
        BY <1>7 DEF IInv, TypeOK
      <4>2. QED
        BY <4>1 DEF MainSorts, MainMerges
    <3>2. QED
      BY <1>1, <3>1 DEF Progress
  <2>3. \A b \in 0..(blocks - 1) : Ordered(b)
    BY <1>7, <2>2, PhaseDone
  <2>4. \A b \in 0..(blocks' - 1) : Ordered(b)'
    BY <1>3, <1>5, <2>3
  <2>5. QED
    BY <1>4, <2>1, <2>4 DEF Progress, MainSorts, MainMerges
<1>8. CASE Halving
  <2>1. \A v \in Workers : pc[v] = "wait_halved"
    BY <1>2, <1>8 DEF Halving, Waits
  <2>2. \A v \in Workers : pc'[v] = "test"
    BY <1>3, <2>1 DEF After
  <2>3. Unmarked /\ AllHalves
    BY <1>1, <2>1 DEF Progress
  <2>4. AllHalves'
    BY <1>3, <1>5, <2>3 DEF AllHalves
  <2>5. Accounted'
    <3>1. \A v \in Workers, b \in 0..(blocks' - 1) : ~ Passed(v, b)'
      BY <2>2 DEF Passed
    <3>2. \A b \in 0..(blocks' - 1) : state_map'[b] = FALSE
      BY <1>3, <2>3 DEF Unmarked
    <3>3. QED
      BY <3>1, <3>2 DEF Accounted
  <2>6. pc'[0] = "test"
    BY <2>2
  <2>7. QED
    BY <1>4, <2>4, <2>5, <2>6 DEF Progress, MainSorts, MainMerges
<1>9. CASE Merging /\ \A v \in Workers : pc[v] = "wait_done"
  <2>1. pc'[0] = "finish" /\ pc[0] = "wait_done" /\ blocks = 1
    BY <1>3, <1>9 DEF After, Merging
  <2>2. AllHalves
    BY <1>1, <2>1 DEF Progress, MainMerges
  <2>3. Halves(0)
    BY <2>1, <2>2 DEF AllHalves
  <2>4. Halves(0)'
    BY <1>5, <2>3
  <2>5. QED
    BY <1>4, <2>1, <2>4 DEF Progress, MainSorts, MainMerges
<1>10. CASE Sorting
  BY <1>2, <1>7, <1>10 DEF Sorting, Waits
<1>11. CASE Merging
  BY <1>2, <1>7, <1>9, <1>11 DEF Merging, Waits
<1>12. QED
  BY <1>6, <1>8, <1>10, <1>11 DEF IInv, Phases

LEMMA StartPieceOrder ==
    ASSUME IInv, OrderInv, StartPiece
    PROVE  OrderInv'
<1>1. pc'[0] = "wait_start"
  BY Arguments DEF StartPiece, Goto, IInv, TypeOK
<1>2. Distinct'
  BY DEF StartPiece, Distinct
<1>3. Unmarked'
  <2>1. blocks = BLOCKS
    BY Arguments, PhaseOf DEF StartPiece, Goto, Between
  <2>2. QED
    BY <2>1 DEF StartPiece, Unmarked
<1>4. Progress'
  BY <1>1, <1>3 DEF Progress, MainSorts, MainMerges
<1>5. QED
  BY <1>2, <1>4 DEF OrderInv

LEMMA TestOrder ==
    ASSUME IInv, OrderInv, NEW w \in Workers, Test(w)
    PROVE  OrderInv'
<1> USE Arguments
<1>1. SUFFICES ASSUME ~ spoilt, Distinct, Progress
               PROVE  Distinct' /\ Progress'
  BY DEF OrderInv, Test
<1>2. TypeOK /\ Merging
  BY PhaseOf DEF IInv, Test, Goto
<1>3. PICK to \in {"wait_done", "lock"} :
        pc[w] = "test" /\ pc' = [pc EXCEPT ![w] = to]
  BY DEF Test, Goto
<1>4. /\ UNCHANGED <<part, time_mark, blocks, cnt_records, state_map, i,
                     current_index>>
      /\ stage' = [stage EXCEPT ![w] = "merge"]
      /\ i[w] = 0
  BY <1>2, <1>3 DEF Test, Merging, shared
<1>5. \A v \in Workers :
        /\ pc'[v] = IF v = w THEN to ELSE pc[v]
        /\ stage'[v] = IF v = w THEN "merge" ELSE stage[v]
  BY <1>2, <1>3, <1>4 DEF TypeOK
<1>6. Distinct'
  BY <1>1, <1>4, SameOrder
<1>7. \A b : Handled(b) => Handled(b)'
  <2>1. \A b : InWork(b) => InWork(b)'
    BY <1>3, <1>4, <1>5 DEF InWork
  <2>2. QED
    BY <1>4, <2>1, SameOrder DEF Handled
<1>8. \A v \in Workers, b \in 0..(blocks - 1) : Passed(v, b)' => Passed(v, b)
  <2>1. \A b \in 0..(blocks - 1) : ~ (b < 0)
    BY <1>2 DEF TypeOK
  <2>2. QED
    BY <1>3, <1>4, <1>5, <2>1 DEF Passed
<1>9. Accounted => Accounted'
  BY <1>4, <1>7, <1>8 DEF Accounted
<1>10. AllHalves => AllHalves'
  BY <1>4, SameOrder DEF AllHalves
<1>11. MainMerges /\ MainMerges' /\ ~ MainSorts'
  BY <1>2, <1>3, <1>5 DEF Merging, MainMerges, MainSorts
<1>12. pc'[0] \in {"test", "work", "lock", "scan", "wait_phase", "wait_done"}
  BY <1>11 DEF MainMerges
<1>13. Progress'
  BY <1>1, <1>9, <1>10, <1>11, <1>12 DEF Progress
<1>14. QED
  BY <1>6, <1>13

\* Two blocks in order are the halves of the block they become.
LEMMA HalveOrder ==
    ASSUME IInv, OrderInv, Halve
    PROVE  OrderInv'
<1> USE Arguments
<1>1. SUFFICES ASSUME ~ spoilt, Distinct, Progress
               PROVE  Distinct' /\ Progress'
  BY DEF OrderInv, Halve
<1>2. TypeOK /\ Sizes
  BY DEF IInv
<1>3. /\ pc[0] = "halve" /\ pc'[0] = "wait_halved"
      /\ blocks' = blocks \div 2 /\ cnt_records' = cnt_records * 2
      /\ state_map' = [b \in 0..(blocks' - 1) |-> FALSE]
      /\ UNCHANGED <<part, time_mark>>
  BY <1>2 DEF Halve, Goto, TypeOK
<1>4. \A b \in 0..(blocks - 1) : Ordered(b)
  BY <1>1, <1>3 DEF Progress
<1>5. cnt_records \in Nat
  <2>1. PICK c \in 1..BLOCKS : cnt_records = CNT * c
    BY <1>2 DEF Sizes
  <2>2. QED
    BY <2>1
<1>6. \A a, m : OrderedOn(a, m) => OrderedOn(a, m)'
  BY <1>3 DEF OrderedOn, Whole
<1>7. ASSUME NEW b \in 0..(blocks' - 1)
      PROVE  Halves(b)'
  <2>1. /\ b \in Nat /\ 2 * b \in 0..(blocks - 1)
        /\ 2 * b + 1 \in 0..(blocks - 1)
    <3>1. blocks \in Nat
      BY <1>2 DEF TypeOK
    <3>2. PICK h \in Nat : blocks' = h /\ 2 * h <= blocks
      BY <1>3, <3>1
    <3>3. b \in 0..(h - 1)
      BY <3>2
    <3>4. QED
      BY <3>1, <3>2, <3>3
  <2>2. Ordered(2 * b) /\ Ordered(2 * b + 1)
    BY <1>4, <2>1
  <2>3. PICK s \in Nat : /\ cnt_records * (2 * b) = s
                         /\ cnt_records * (2 * b + 1) = s + cnt_records
                         /\ (cnt_records * 2) * b = s
    BY <1>5, <2>1
  <2>4. PICK c \in Nat : c = cnt_records
    BY <1>5
  <2>5. OrderedOn(s, c) /\ OrderedOn(s + c, c)
    BY <2>2, <2>3, <2>4 DEF Ordered
  <2>6. OrderedOn(s, c)' /\ OrderedOn(s + c, c)'
    BY <1>6, <2>5
  <2>7. cnt_records' * b = s /\ cnt_records' \div 2 = c
    <3>1. (c * 2) \div 2 = c
      OBVIOUS
    <3>2. QED
      BY <1>3, <2>3, <2>4, <3>1
  <2>8. QED
    BY <2>6, <2>7 DEF Halves
<1>8. AllHalves' /\ Unmarked'
  BY <1>3, <1>7 DEF AllHalves, Unmarked
<1>9. Distinct'
  BY <1>1, <1>3 DEF Distinct
<1>10. Progress'
  BY <1>3, <1>8 DEF Progress, MainSorts, MainMerges
<1>11. QED
  BY <1>9, <1>10

\* The last two halves are those of the piece.
LEMMA FinishOrder ==
    ASSUME IInv, OrderInv, Finish
    PROVE  OrderInv'
<1> USE Arguments
<1>1. SUFFICES ASSUME ~ spoilt, Distinct, Progress
               PROVE  Distinct' /\ Progress'
  BY DEF OrderInv, Finish
<1>2. TypeOK /\ Sizes /\ Between
  BY PhaseOf DEF IInv, Finish, Goto
<1>3. /\ pc[0] = "finish" /\ pc'[0] = "next"
      /\ part' = Merge(0, cnt_records \div 2)
      /\ time_mark' = time_mark /\ blocks = 1
  BY <1>2 DEF Finish, Goto, TypeOK, Between
<1>4. cnt_records \in Nat /\ cnt_records = BLOCKS * CNT /\ cnt_records % 2 = 0
  <2>1. cnt_records \in Nat /\ cnt_records % 2 = 0
    BY <1>2, <1>3, SegmentInPiece DEF Sizes
  <2>2. 1 * cnt_records = BLOCKS * CNT
    BY <1>2, <1>3 DEF TypeOK
  <2>3. QED
    BY <2>1, <2>2
<1>5. PICK n \in Nat : cnt_records \div 2 = n /\ cnt_records = 2 * n
  BY <1>4
<1>6. 0..(0 + 2 * n - 1) = Records
  BY <1>4, <1>5 DEF Records
<1>7. OrderedOn(0, n) /\ OrderedOn(0 + n, n)
  <2>1. Halves(0)
    BY <1>1, <1>3 DEF Progress
  <2>2. cnt_records * 0 = 0
    BY <1>4
  <2>3. QED
    BY <1>5, <2>1, <2>2 DEF Halves
<1>8. Merges(0, n)
  BY <1>6 DEF Merges
<1>9. /\ \A k, l \in Records : k # l => part'[k] # part'[l]
      /\ \A k \in Records : k + 1 \in Records =>
           Whole(part'[k]) <= Whole(part'[k + 1])
  <2> DEFINE S == 0..(0 + 2 * n - 1)
             f == Merge(0, n)
  <2>1. /\ \A k, l \in S : k # l => f[k] # f[l]
        /\ \A k \in S : k + 1 \in S => Whole(f[k]) <= Whole(f[k + 1])
    BY <1>1, <1>2, <1>7, <1>8, MergeOrders
  <2>2. part' = f /\ S = Records
    BY <1>3, <1>5, <1>6
  <2> HIDE DEF S, f
  <2>3. QED
    BY <2>1, <2>2
<1>10. Distinct'
  BY <1>9 DEF Distinct
<1>11. OrderedOn(0, BLOCKS * CNT)'
  <2>1. BLOCKS * CNT \in Nat
    BY <1>4
  <2>2. \A k \in 0..(0 + BLOCKS * CNT - 2) : k \in Records /\ k + 1 \in Records
    BY <2>1 DEF Records
  <2>3. \A k \in 0..(0 + BLOCKS * CNT - 2) :
          Whole(part'[k]) <= Whole(part'[k + 1])
    BY <1>9, <2>2
  <2>4. QED
    BY <1>3, <2>3 DEF OrderedOn, Whole
<1>12. Progress'
  BY <1>3, <1>11 DEF Progress, MainSorts, MainMerges
<1>13. QED
  BY <1>10, <1>12

LEMMA NextOrder == IInv /\ OrderInv /\ [Next]_vars => OrderInv'
<1> SUFFICES ASSUME IInv, OrderInv, [Next]_vars PROVE OrderInv'
  OBVIOUS
<1>1. ASSUME NEW w \in Workers, Worker(w)
      PROVE  OrderInv'
  BY <1>1, ArriveStartEndOrder, ArriveLastOrder, WorkOrder, LockSkipOrder,
     ClaimOrder, ScanEndOrder, TestOrder DEF Worker
<1>2. ASSUME Main
      PROVE  OrderInv'
  BY <1>2, StartPieceOrder, ResetOrder, HalveOrder, FinishOrder DEF Main
<1>3. ASSUME UNCHANGED vars
      PROVE  OrderInv'
  BY <1>3, QuietOrder DEF vars, shared
<1>4. QED
  BY <1>1, <1>2, <1>3 DEF Next, Ended

------------------------------------------------------------------------------
(***************************************************************************)
(* Theorems                                                                *)
(***************************************************************************)

\* Barrier, claims and sizes keep the phases in step in every behaviour.
THEOREM Invariance == Spec => []IInv
<1>1. Init => IInv
  BY InitIInv
<1>2. IInv /\ [Next]_vars => IInv'
  BY NextKeeps
<1>3. QED
  BY <1>1, <1>2, PTL DEF Spec

\* Every variable keeps its type: current_index and i stay within the blocks
\* there are, and state_map is as long as blocks says whenever it is used.
THEOREM TypeCorrect == Spec => []TypeOK
<1>1. IInv => TypeOK
  BY DEF IInv
<1>2. QED
  BY <1>1, Invariance, PTL

\* Two threads share a block only while sorting, when main has set state_map
\* back; the claims under the mutex never put two into one block, and no
\* merge is ever disturbed.
THEOREM OnlyResetLetsTwoIn == Spec => []RaceOnlyThroughReset
<1>1. IInv => RaceOnlyThroughReset
  <2> SUFFICES ASSUME IInv, NEW v \in Workers, NEW w \in Workers,
                      pc[w] = "work", v \in Company(w)
               PROVE  /\ stage[v] = "sort" /\ stage[w] = "sort"
                      /\ pc[0] \in {"reset", "wait_phase"}
    BY DEF RaceOnlyThroughReset
  <2>1. pc[v] = "work" /\ v # w /\ current_index[v] = current_index[w]
    BY DEF Company
  <2>2. ~ Unreset(w)
    BY <2>1 DEF IInv, Claims
  <2>3. stage[w] # "merge" /\ pc[0] \in {"reset", "wait_phase"}
    BY <2>2 DEF Unreset
  <2>4. Sorting
    BY <2>3, PhaseOf DEF Merging
  <2>5. QED
    BY <2>3, <2>4 DEF Sorting
<1>2. QED
  BY <1>1, Invariance, PTL

\* blocks, cnt_records and the length of state_map change only while every
\* other thread is at the barrier before its work or behind it, or gone.
THEOREM SizesChangeAlone == Spec => ResizedAlone
<1> DEFINE S == <<blocks, cnt_records, DOMAIN state_map>>
           Away == \A w \in Workers \ {0} :
                     pc[w] \in {"wait_start", "wait_halved", "next", "end"}
<1>1. IInv /\ [Next]_vars => (S' # S => Away)
  <2> SUFFICES ASSUME IInv, [Next]_vars PROVE S' = S \/ Away
    OBVIOUS
  <2>1. Between => Away
    BY DEF Between
  <2>2. CASE StartPiece
    BY <2>1, <2>2, Arguments, PhaseOf DEF StartPiece, Goto
  <2>3. CASE Finish
    BY <2>1, <2>3, Arguments, PhaseOf DEF Finish, Goto
  <2>4. CASE Halve
    BY <2>4, Arguments, PhaseOf DEF Halve, Goto, Halving
  <2>5. CASE Reset
    BY <2>5 DEF Reset
  <2>6. ASSUME NEW w \in Workers, Worker(w)
        PROVE  S' = S
    BY <2>6 DEF Worker, Arrive, ArriveLast, StartRound, End, Work, Lock, Skip,
                Claim, ScanEnd, Test, shared
  <2>7. CASE UNCHANGED vars
    BY <2>7 DEF vars, shared
  <2>8. QED
    BY <2>2, <2>3, <2>4, <2>5, <2>6, <2>7 DEF Next, Main, Ended
<1>2. QED
  BY <1>1, Invariance, PTL DEF Spec, ResizedAlone

\* Unless two threads have spoilt it, a piece is unmapped with the records it
\* was mapped with, each once, in the order of their whole time marks: for
\* any number of threads, blocks, records and keys, whichever thread claims
\* which block, and whatever order qsort leaves among equal keys.
THEOREM PiecesAreSorted == Spec => []ResultOrdered
<1>1. Init => IInv /\ OrderInv
  BY InitIInv, InitOrder
<1>2. IInv /\ OrderInv /\ [Next]_vars => IInv' /\ OrderInv'
  BY NextKeeps, NextOrder
<1>3. IInv /\ OrderInv => ResultOrdered
  <2> SUFFICES ASSUME IInv, Distinct, Progress, pc[0] = "next", round[0] > 0,
                      NEW k \in Records, k + 1 \in Records
               PROVE  Whole(part[k]) <= Whole(part[k + 1])
    BY DEF OrderInv, ResultOrdered, Distinct
  <2>1. OrderedOn(0, BLOCKS * CNT)
    BY DEF Progress
  <2>2. BLOCKS * CNT \in Nat
    BY Arguments
  <2>3. k \in 0..(0 + BLOCKS * CNT - 2)
    BY <2>2 DEF Records
  <2>4. QED
    BY <2>1, <2>3 DEF OrderedOn
<1>4. QED
  BY <1>1, <1>2, <1>3, PTL DEF Spec

\* Main and the threads make the same calls of pthread_barrier_wait, though
\* each decides by itself how many, from blocks and its number of pieces.
THEOREM BarrierCallsPairUp == Spec => []BarrierPairsUp
<1>1. IInv => BarrierPairsUp
  <2> SUFFICES ASSUME IInv, NEW w \in arrived
               PROVE  /\ \A v \in arrived : pc[v] = pc[w]
                      /\ \A v \in Workers : pc[v] # "end"
    BY DEF BarrierPairsUp
  <2>1. /\ arrived \subseteq Workers
        /\ \A v \in arrived : pc[v] \in Waits
    BY DEF IInv, TypeOK
  <2>2. CASE Between
    <3>1. \A v \in arrived : pc[v] = "wait_start"
      BY <2>1, <2>2 DEF Between, Waits
    <3>2. round[w] \in Nat /\ repeats \in Nat /\ round[w] < repeats
      BY <2>1, <2>2, <3>1, Arguments DEF IInv, TypeOK, Between
    <3>3. ASSUME NEW v \in Workers, pc[v] = "end"
          PROVE  FALSE
      <4>1. round[v] = repeats /\ pc[w] # "finish" /\ pc[v] # "finish"
        BY <2>1, <2>2, <3>1, <3>3 DEF Between
      <4>2. round[v] = round[w]
        BY <2>1, <2>2, <4>1, Arguments DEF Between
      <4>3. QED
        BY <3>2, <4>1, <4>2
    <3>4. QED
      BY <3>1, <3>3
  <2>3. CASE Sorting
    BY <2>1, <2>3 DEF Sorting, Waits
  <2>4. CASE Halving
    BY <2>1, <2>4 DEF Halving, Waits
  <2>5. CASE Merging
    BY <2>1, <2>5 DEF Merging, Waits
  <2>6. QED
    BY <2>2, <2>3, <2>4, <2>5 DEF IInv, Phases
<1>2. QED
  BY <1>1, Invariance, PTL

\* The workers never wait for each other all at once, at the barrier or for
\* the mutex.
THEOREM NoStandstill == Spec => []SomebodyGoesOn
<1>1. Init => arrived # Workers
  BY Arguments DEF Init
<1>2. arrived # Workers /\ [Next]_vars => (arrived # Workers)'
  <2> SUFFICES ASSUME arrived # Workers, [Next]_vars
               PROVE  arrived' # Workers
    OBVIOUS
  <2>1. ASSUME NEW w \in Workers, Worker(w)
        PROVE  arrived' # Workers
    BY <2>1, Arguments
       DEF Worker, Arrive, ArriveLast, StartRound, End, Work, Lock, Skip,
           Claim, ScanEnd, Test
  <2>2. CASE Main
    BY <2>2 DEF Main, StartPiece, Reset, Halve, Finish
  <2>3. CASE UNCHANGED vars
    BY <2>3 DEF vars
  <2>4. QED
    BY <2>1, <2>2, <2>3 DEF Next, Ended
<1>3. IInv /\ BarrierPairsUp /\ arrived # Workers => SomebodyGoesOn
  <2> SUFFICES ASSUME IInv, BarrierPairsUp, arrived # Workers,
                      \A w \in Workers : pc[w] \in Waits \cup {"lock", "end"},
                      \A w \in Workers \ arrived : pc[w] \notin Waits,
                      NEW u \in Workers, pc[u] # "end"
               PROVE  mutex = NULL /\ \E w \in Workers : pc[w] = "lock"
    BY DEF SomebodyGoesOn
  <2>1. mutex = NULL
    BY DEF IInv, TypeOK, MutexHeld, Waits
  <2>2. PICK v \in Workers : v \notin arrived
    BY DEF IInv, TypeOK
  <2>3. pc[v] \in {"lock", "end"}
    BY <2>2
  <2>4. CASE pc[v] = "end"
    <3>1. u \notin arrived
      BY <2>4 DEF BarrierPairsUp
    <3>2. pc[u] = "lock"
      BY <3>1
    <3>3. QED
      BY <2>1, <3>2
  <2>5. QED
    BY <2>1, <2>3, <2>4
<1>4. QED
  BY <1>1, <1>2, <1>3, Invariance, BarrierCallsPairUp, PTL DEF Spec

==============================================================================
