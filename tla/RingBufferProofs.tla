-------------------------- MODULE RingBufferProofs ---------------------------
(***************************************************************************)
(* What the run of RingBuffer checks for four addresses and two messages,  *)
(* proved for any number of either: the pointer structure of ring.c is one *)
(* closed ring and implements BoundedFifo.                                 *)
(*                                                                         *)
(* The argument: instead of following next from begin, the invariant says  *)
(* that there is a numbering of the live nodes, from 0 at begin, that next *)
(* and prev step along (Circle), of which the first k nodes are busy and   *)
(* the next one is tail (Laid).  Each operation is a change of numbering:  *)
(* a node more at the end, all numbers moved on or back by one, or a node  *)
(* left out.  The numbering is what Nth computes (NthIsLaid), so Contents  *)
(* can be read off it, before a step and after it.                         *)
(***************************************************************************)
EXTENDS RingBuffer, FiniteSetTheorems, FunctionTheorems, SequenceTheorems,
        WellFoundedInduction, TLAPS

\* The number after i, and the one before it, around a ring of s nodes.
Up(i, s)   == IF i = s - 1 THEN 0 ELSE i + 1
Down(i, s) == IF i = 0 THEN s - 1 ELSE i - 1

\* r numbers the nodes of L, and the links nx and pv step along it.
Circle(r, s, L, nx, pv) ==
    /\ s \in Nat \ {0}
    /\ r \in [0..(s - 1) -> L] /\ nx \in [L -> L] /\ pv \in [L -> L]
    /\ \A i, j \in 0..(s - 1) : r[i] = r[j] => i = j
    /\ \A n \in L : \E i \in 0..(s - 1) : r[i] = n
    /\ \A i \in 0..(s - 1) :
         nx[r[i]] = r[Up(i, s)] /\ pv[r[Up(i, s)]] = r[i]

\* The ring is numbered from begin by r, and its first k places are busy.
Laid(r, k) ==
    /\ Circle(r, size_queue, Live, next, prev)
    /\ k \in 0..size_queue
    /\ begin = r[0] /\ tail = r[IF k = size_queue THEN 0 ELSE k]
    /\ \A i \in 0..(k - 1) : flag_is_busy[r[i]] = TRUE
    /\ \A i \in k..(size_queue - 1) : flag_is_busy[r[i]] = FALSE

Numbered ==
    IF begin = NULL
    THEN tail = NULL /\ Live = {} /\ size_queue = 0
    ELSE \E r \in [0..(size_queue - 1) -> Live], k \in 0..size_queue :
           Laid(r, k)

\* The appends at start-up find no message: they would leave tail behind
\* begin, in front of a place that add_message never reaches.
BootEmpty == boot > 0 => Busy = {}

\* No busy place holds what calloc left there.
MessagesReal == \A n \in Busy : message[n] \in Message

\* The inductive invariant.
IInv == TypeOK /\ Numbered /\ BootEmpty /\ MessagesReal

------------------------------------------------------------------------------
(***************************************************************************)
(* Rings of pointers                                                       *)
(***************************************************************************)

\* A non-empty set of numbers has a least one.
LEMMA Least ==
    ASSUME NEW T, T \subseteq Nat, T # {}
    PROVE  \E x \in T : \A y \in T : x <= y
<1> DEFINE R == OpToRel(<, Nat)
<1>1. IsWellFoundedOn(R, Nat)
  BY NatLessThanWellFounded
<1>2. \A x, y \in Nat : <<x, y>> \in R <=> x < y
  BY DEF OpToRel
<1> HIDE DEF R
<1>3. PICK x \in T : \A y \in T : ~ (<<y, x>> \in R)
  BY <1>1, WFMin
<1>4. x \in Nat /\ \A y \in T : y \in Nat /\ ~ (y < x)
  BY <1>2, <1>3
<1>5. \A y \in Nat : ~ (y < x) => x <= y
  BY <1>4
<1>6. QED
  BY <1>4, <1>5

\* Going up and down is within the numbers and undoes each other.
LEMMA UpDown ==
    ASSUME NEW s \in Nat \ {0}, NEW i \in 0..(s - 1)
    PROVE  /\ Up(i, s) \in 0..(s - 1) /\ Down(i, s) \in 0..(s - 1)
           /\ Up(Down(i, s), s) = i /\ Down(Up(i, s), s) = i
BY DEF Up, Down

\* The links from every node of a circle.
LEMMA CircleLinks ==
    ASSUME NEW r, NEW s, NEW L, NEW nx, NEW pv, Circle(r, s, L, nx, pv),
           NEW i \in 0..(s - 1)
    PROVE  /\ r[i] \in L /\ nx[r[i]] = r[Up(i, s)] /\ pv[r[i]] = r[Down(i, s)]
           /\ \A j \in 0..(s - 1) : r[i] = r[j] <=> i = j
<1>1. Up(Down(i, s), s) = i /\ Down(i, s) \in 0..(s - 1)
  BY UpDown DEF Circle
<1>2. pv[r[Up(Down(i, s), s)]] = r[Down(i, s)]
  BY <1>1 DEF Circle
<1>3. QED
  BY <1>1, <1>2 DEF Circle

\* constructor_buffer: a node linked to itself.
LEMMA CircleOfOne ==
    ASSUME NEW n
    PROVE  Circle([i \in 0..0 |-> n], 1, {n}, [y \in {n} |-> n],
                  [y \in {n} |-> n])
BY DEF Circle, Up

\* append: a node between the last and the first.
LEMMA CircleInsert ==
    ASSUME NEW r, NEW s, NEW L, NEW nx, NEW pv, Circle(r, s, L, nx, pv),
           NEW n, n \notin L,
           NEW nx2, nx2 = With([nx EXCEPT ![r[s - 1]] = n], n, r[0]),
           NEW pv2, pv2 = With([pv EXCEPT ![r[0]] = n], n, r[s - 1]),
           NEW q \in [0..s -> L \cup {n}], q[s] = n,
           \A i \in 0..(s - 1) : q[i] = r[i]
    PROVE  Circle(q, s + 1, L \cup {n}, nx2, pv2)
<1>1. /\ s \in Nat \ {0} /\ s + 1 \in Nat \ {0} /\ s + 1 - 1 = s
      /\ \A i \in 0..s : i \in 0..(s - 1) \/ i = s
      /\ s \notin 0..(s - 1) /\ 0 \in 0..(s - 1) /\ s - 1 \in 0..(s - 1)
  BY DEF Circle
<1>2. /\ r \in [0..(s - 1) -> L] /\ nx \in [L -> L] /\ pv \in [L -> L]
      /\ \A i, j \in 0..(s - 1) : r[i] = r[j] => i = j
      /\ \A i \in 0..(s - 1) : r[i] \in L /\ r[i] # n
  BY DEF Circle
<1>3. /\ nx2 \in [L \cup {n} -> L \cup {n}]
      /\ nx2[n] = r[0] /\ nx2[r[s - 1]] = n
      /\ \A y \in L : y # r[s - 1] => nx2[y] = nx[y]
  BY <1>1, <1>2 DEF With
<1>4. /\ pv2 \in [L \cup {n} -> L \cup {n}]
      /\ pv2[n] = r[s - 1] /\ pv2[r[0]] = n
      /\ \A y \in L : y # r[0] => pv2[y] = pv[y]
  BY <1>1, <1>2 DEF With
<1>5. /\ q \in [0..s -> L \cup {n}] /\ q[s] = n
      /\ \A i \in 0..(s - 1) : q[i] = r[i]
  OBVIOUS
<1>6. \A i, j \in 0..s : q[i] = q[j] => i = j
  BY <1>1, <1>2, <1>5
<1>7. \A y \in L \cup {n} : \E i \in 0..s : q[i] = y
  BY <1>1, <1>5 DEF Circle
<1>8. ASSUME NEW i \in 0..s
      PROVE  nx2[q[i]] = q[Up(i, s + 1)] /\ pv2[q[Up(i, s + 1)]] = q[i]
  <2>1. CASE i = s
    <3>1. Up(i, s + 1) = 0
      BY <1>1, <2>1 DEF Up
    <3>2. QED
      BY <1>1, <1>3, <1>4, <1>5, <2>1, <3>1
  <2>2. CASE i = s - 1
    <3>1. Up(i, s + 1) = s
      BY <1>1, <2>2 DEF Up
    <3>2. QED
      BY <1>1, <1>3, <1>4, <1>5, <2>2, <3>1
  <2>3. CASE i # s /\ i # s - 1
    <3>1. /\ Up(i, s + 1) = i + 1 /\ Up(i, s) = i + 1
          /\ i \in 0..(s - 1) /\ i + 1 \in 0..(s - 1) /\ i + 1 # 0
      BY <1>1, <2>3 DEF Up
    <3>2. r[i] # r[s - 1] /\ r[i + 1] # r[0]
      BY <1>1, <1>2, <2>3, <3>1
    <3>3. nx[r[i]] = r[i + 1] /\ pv[r[i + 1]] = r[i]
      BY <3>1 DEF Circle
    <3>4. q[i] = r[i] /\ q[i + 1] = r[i + 1] /\ r[i] \in L /\ r[i + 1] \in L
      BY <1>2, <1>5, <3>1
    <3>5. nx2[r[i]] = r[i + 1] /\ pv2[r[i + 1]] = r[i]
      BY <1>3, <1>4, <3>2, <3>3, <3>4
    <3>6. QED
      BY <3>1, <3>4, <3>5
  <2>4. QED
    BY <2>1, <2>2, <2>3
<1>9. QED
  <2>1. 0..(s + 1 - 1) = 0..s
    BY <1>1
  <2>2. \A i \in 0..s :
          nx2[q[i]] = q[Up(i, s + 1)] /\ pv2[q[Up(i, s + 1)]] = q[i]
    BY <1>8
  <2> DEFINE s2 == s + 1
  <2>3. s2 \in Nat \ {0} /\ 0..(s2 - 1) = 0..s
    BY <1>1, <2>1
  <2> HIDE DEF s2
  <2>4. Circle(q, s2, L \cup {n}, nx2, pv2)
    <3>1. \A i \in 0..(s2 - 1) :
            nx2[q[i]] = q[Up(i, s2)] /\ pv2[q[Up(i, s2)]] = q[i]
      BY <2>2, <2>3 DEF s2
    <3>2. QED
      <4>1. q \in [0..(s2 - 1) -> L \cup {n}]
        BY <2>3
      <4>2. /\ nx2 \in [L \cup {n} -> L \cup {n}]
            /\ pv2 \in [L \cup {n} -> L \cup {n}]
        BY <1>3, <1>4, <1>5
      <4>3. /\ \A i, j \in 0..(s2 - 1) : q[i] = q[j] => i = j
            /\ \A y \in L \cup {n} : \E i \in 0..(s2 - 1) : q[i] = y
        BY <1>3, <1>4, <1>5, <1>6, <1>7, <2>3
      <4>4. QED
        BY <2>3, <3>1, <4>1, <4>2, <4>3 DEF Circle
  <2>5. QED
    BY <2>4 DEF s2

\* The same ring, numbered from its second node.
LEMMA CircleForward ==
    ASSUME NEW r, NEW s, NEW L, NEW nx, NEW pv, Circle(r, s, L, nx, pv),
           NEW q \in [0..(s - 1) -> L],
           \A i \in 0..(s - 1) : q[i] = r[Up(i, s)]
    PROVE  Circle(q, s, L, nx, pv)
<1>1. s \in Nat \ {0}
  BY DEF Circle
<1>2. \A i \in 0..(s - 1) :
        /\ Up(i, s) \in 0..(s - 1) /\ Down(i, s) \in 0..(s - 1)
        /\ Up(Down(i, s), s) = i /\ Down(Up(i, s), s) = i
  BY <1>1, UpDown
<1>3. \A i \in 0..(s - 1) : q[i] = r[Up(i, s)]
  OBVIOUS
<1>4. q \in [0..(s - 1) -> L]
  OBVIOUS
<1>5. \A i, j \in 0..(s - 1) : q[i] = q[j] => i = j
  BY <1>2, <1>3 DEF Circle
<1>6. \A n \in L : \E i \in 0..(s - 1) : q[i] = n
  <2>1. SUFFICES ASSUME NEW n \in L
                 PROVE  \E i \in 0..(s - 1) : q[i] = n
    OBVIOUS
  <2>2. PICK i \in 0..(s - 1) : r[i] = n
    BY DEF Circle
  <2>3. q[Down(i, s)] = n
    BY <1>2, <1>3, <2>2
  <2>4. QED
    BY <1>2, <2>3
<1>7. \A i \in 0..(s - 1) :
        nx[q[i]] = q[Up(i, s)] /\ pv[q[Up(i, s)]] = q[i]
  BY <1>2, <1>3 DEF Circle
<1>8. QED
  BY <1>4, <1>5, <1>6, <1>7 DEF Circle

\* The same ring, numbered from its last node.
LEMMA CircleBackward ==
    ASSUME NEW r, NEW s, NEW L, NEW nx, NEW pv, Circle(r, s, L, nx, pv),
           NEW q \in [0..(s - 1) -> L],
           \A i \in 0..(s - 1) : q[i] = r[Down(i, s)]
    PROVE  Circle(q, s, L, nx, pv)
<1>1. s \in Nat \ {0}
  BY DEF Circle
<1>2. \A i \in 0..(s - 1) :
        /\ Up(i, s) \in 0..(s - 1) /\ Down(i, s) \in 0..(s - 1)
        /\ Up(Down(i, s), s) = i /\ Down(Up(i, s), s) = i
  BY <1>1, UpDown
<1>3. \A i \in 0..(s - 1) : q[i] = r[Down(i, s)]
  OBVIOUS
<1>4. q \in [0..(s - 1) -> L]
  OBVIOUS
<1>5. \A i, j \in 0..(s - 1) : q[i] = q[j] => i = j
  BY <1>2, <1>3 DEF Circle
<1>6. \A n \in L : \E i \in 0..(s - 1) : q[i] = n
  <2>1. SUFFICES ASSUME NEW n \in L
                 PROVE  \E i \in 0..(s - 1) : q[i] = n
    OBVIOUS
  <2>2. PICK i \in 0..(s - 1) : r[i] = n
    BY DEF Circle
  <2>3. q[Up(i, s)] = n
    BY <1>2, <1>3, <2>2
  <2>4. QED
    BY <1>2, <2>3
<1>7. \A i \in 0..(s - 1) :
        nx[q[i]] = q[Up(i, s)] /\ pv[q[Up(i, s)]] = q[i]
  <2>1. SUFFICES ASSUME NEW i \in 0..(s - 1)
                 PROVE  nx[q[i]] = q[Up(i, s)] /\ pv[q[Up(i, s)]] = q[i]
    OBVIOUS
  <2>2. q[i] = r[Down(i, s)] /\ q[Up(i, s)] = r[i]
    BY <1>2, <1>3
  <2>3. nx[r[Down(i, s)]] = r[i] /\ pv[r[i]] = r[Down(i, s)]
    BY <1>2 DEF Circle
  <2>4. QED
    BY <2>2, <2>3
<1>8. QED
  BY <1>4, <1>5, <1>6, <1>7 DEF Circle

\* The numbers of the nodes that are left when the j-th is taken out.
Old(i, j) == IF i < j THEN i ELSE i + 1

LEMMA OldNumbers ==
    ASSUME NEW s \in Nat \ {0, 1}, NEW j \in 0..(s - 1), NEW i \in 0..(s - 2)
    PROVE  /\ Old(i, j) \in 0..(s - 1) /\ Old(i, j) # j
           /\ Up(i, s - 1) \in 0..(s - 2)
           /\ Old(i, j) = Down(j, s) <=> Up(Old(i, j), s) = j
           /\ Old(i, j) = Down(j, s) => Old(Up(i, s - 1), j) = Up(j, s)
           /\ Old(i, j) # Down(j, s) =>
                /\ Old(Up(i, s - 1), j) = Up(Old(i, j), s)
                /\ Up(Old(i, j), s) # Up(j, s)
BY DEF Old, Up, Down

\* erase: a node is taken out, and its neighbours are linked.
LEMMA CircleRemove ==
    ASSUME NEW r, NEW s, NEW L, NEW nx, NEW pv, Circle(r, s, L, nx, pv),
           s # 1, NEW j \in 0..(s - 1),
           NEW q \in [0..(s - 2) -> L \ {r[j]}],
           \A i \in 0..(s - 2) : q[i] = r[Old(i, j)]
    PROVE  Circle(q, s - 1, L \ {r[j]},
                  Without([nx EXCEPT ![pv[r[j]]] = nx[r[j]]], r[j]),
                  Without([pv EXCEPT ![nx[r[j]]] = pv[r[j]]], r[j]))
<1> DEFINE n == r[j]
           nx2 == Without([nx EXCEPT ![pv[n]] = nx[n]], n)
           pv2 == Without([pv EXCEPT ![nx[n]] = pv[n]], n)
<1>1. s \in Nat \ {0, 1} /\ s - 1 \in Nat \ {0} /\ s - 1 - 1 = s - 2
  BY DEF Circle
<1>2. /\ r \in [0..(s - 1) -> L] /\ nx \in [L -> L] /\ pv \in [L -> L]
      /\ \A i, k \in 0..(s - 1) : r[i] = r[k] => i = k
      /\ n \in L
  BY DEF Circle
<1>3. nx[n] = r[Up(j, s)] /\ pv[n] = r[Down(j, s)]
  BY CircleLinks
<1>4. /\ Up(j, s) \in 0..(s - 1) /\ Down(j, s) \in 0..(s - 1)
      /\ Up(j, s) # j /\ Down(j, s) # j
  BY <1>1 DEF Up, Down
<1>5. /\ DOMAIN nx2 = L \ {n}
      /\ \A y \in L \ {n} :
           nx2[y] = IF y = r[Down(j, s)] THEN r[Up(j, s)] ELSE nx[y]
  BY <1>2, <1>3 DEF Without
<1>6. /\ DOMAIN pv2 = L \ {n}
      /\ \A y \in L \ {n} :
           pv2[y] = IF y = r[Up(j, s)] THEN r[Down(j, s)] ELSE pv[y]
  BY <1>2, <1>3 DEF Without
<1>7. \A i \in 0..(s - 2) :
        /\ Old(i, j) \in 0..(s - 1) /\ Old(i, j) # j
        /\ Up(i, s - 1) \in 0..(s - 2)
        /\ Old(i, j) = Down(j, s) <=> Up(Old(i, j), s) = j
        /\ Old(i, j) = Down(j, s) => Old(Up(i, s - 1), j) = Up(j, s)
        /\ Old(i, j) # Down(j, s) =>
             /\ Old(Up(i, s - 1), j) = Up(Old(i, j), s)
             /\ Up(Old(i, j), s) # Up(j, s)
  BY <1>1, OldNumbers
<1>8. \A i \in 0..(s - 2) : q[i] = r[Old(i, j)]
  OBVIOUS
<1>9. q \in [0..(s - 2) -> L \ {n}]
  OBVIOUS
<1>n. DOMAIN nx2 = L \ {n} /\ nx2 = [y \in L \ {n} |-> nx2[y]]
      /\ DOMAIN pv2 = L \ {n} /\ pv2 = [y \in L \ {n} |-> pv2[y]]
  BY <1>2 DEF Without
<1> HIDE DEF nx2, pv2, n
<1>10. \A i, k \in 0..(s - 2) : q[i] = q[k] => i = k
  <2>1. \A i, k \in 0..(s - 2) : Old(i, j) = Old(k, j) => i = k
    BY <1>1 DEF Old
  <2>2. QED
    BY <1>2, <1>7, <1>8, <2>1
<1>11. \A y \in L \ {n} : \E i \in 0..(s - 2) : q[i] = y
  <2>1. SUFFICES ASSUME NEW y \in L \ {n}
                 PROVE  \E i \in 0..(s - 2) : q[i] = y
    OBVIOUS
  <2>2. PICK k \in 0..(s - 1) : r[k] = y
    BY DEF Circle
  <2>3. k # j
    BY <2>1, <2>2 DEF n
  <2>4. \E i \in 0..(s - 2) : Old(i, j) = k
    <3>1. CASE k < j
      BY <1>1, <3>1 DEF Old
    <3>2. CASE ~ (k < j)
      <4>1. k - 1 \in 0..(s - 2) /\ Old(k - 1, j) = k
        BY <1>1, <2>3, <3>2 DEF Old
      <4>2. QED
        BY <4>1
    <3>3. QED
      BY <3>1, <3>2
  <2>5. QED
    BY <1>8, <2>2, <2>4
<1>12. ASSUME NEW i \in 0..(s - 2)
       PROVE  nx2[q[i]] = q[Up(i, s - 1)] /\ pv2[q[Up(i, s - 1)]] = q[i]
  <2> DEFINE o == Old(i, j)
  <2>1. /\ o \in 0..(s - 1) /\ o # j /\ Up(o, s) \in 0..(s - 1)
        /\ Up(i, s - 1) \in 0..(s - 2)
    BY <1>1, <1>7, UpDown
  <2>2. /\ q[i] = r[o] /\ q[Up(i, s - 1)] = r[Old(Up(i, s - 1), j)]
        /\ q[i] \in L \ {n} /\ q[Up(i, s - 1)] \in L \ {n}
    BY <1>8, <1>9, <2>1
  <2>3. nx[r[o]] = r[Up(o, s)] /\ pv[r[Up(o, s)]] = r[o]
    BY <2>1 DEF Circle
  <2>4. CASE o = Down(j, s)
    <3>1. q[Up(i, s - 1)] = r[Up(j, s)]
      BY <1>7, <2>2, <2>4
    <3>2. QED
      BY <1>5, <1>6, <2>2, <2>4, <3>1
  <2>5. CASE o # Down(j, s)
    <3>1. q[Up(i, s - 1)] = r[Up(o, s)] /\ Up(o, s) # Up(j, s)
      BY <1>7, <2>2, <2>5
    <3>2. r[o] # r[Down(j, s)] /\ r[Up(o, s)] # r[Up(j, s)]
      BY <1>2, <1>4, <2>1, <2>5, <3>1
    <3>3. QED
      BY <1>5, <1>6, <2>2, <2>3, <3>1, <3>2
  <2>6. QED
    BY <2>4, <2>5
<1>13. \A y \in L \ {n} : nx2[y] \in L \ {n} /\ pv2[y] \in L \ {n}
  <2>1. SUFFICES ASSUME NEW y \in L \ {n}
                 PROVE  nx2[y] \in L \ {n} /\ pv2[y] \in L \ {n}
    OBVIOUS
  <2>2. PICK i \in 0..(s - 2) : q[i] = y
    BY <1>11
  <2>3. nx2[y] \in L \ {n}
    BY <1>7, <1>9, <1>12, <2>2
  <2>4. Down(i, s - 1) \in 0..(s - 2) /\ Up(Down(i, s - 1), s - 1) = i
    BY <1>1, UpDown
  <2>5. pv2[y] = q[Down(i, s - 1)]
    BY <1>12, <2>2, <2>4
  <2>6. QED
    BY <1>9, <2>3, <2>4, <2>5
<1>14. nx2 \in [L \ {n} -> L \ {n}] /\ pv2 \in [L \ {n} -> L \ {n}]
  BY <1>13, <1>n
<1>15. Circle(q, s - 1, L \ {n}, nx2, pv2)
  BY <1>1, <1>9, <1>10, <1>11, <1>12, <1>14 DEF Circle
<1>16. QED
  BY <1>15 DEF n, nx2, pv2

------------------------------------------------------------------------------
(***************************************************************************)
(* What the numbering says about Nth, Busy and Contents                    *)
(***************************************************************************)

\* Nth is defined: links that stay in Live can be followed for ever.
LEMMA NthSteps ==
    ASSUME next \in [Live -> Live], begin \in Live
    PROVE  /\ Nth[0] = begin
           /\ \A i \in 1..MaxPlaces : Nth[i] = next[Nth[i - 1]]
<1>0. MaxPlaces \in Nat
  BY RingAssumption
<1> DEFINE Walk(m, f) == /\ f \in [0..m -> Live] /\ f[0] = begin
                         /\ \A i \in 1..m : f[i] = next[f[i - 1]]
           Bad == {m \in 0..MaxPlaces : ~ \E f : Walk(m, f)}
<1>1. ASSUME Bad # {} PROVE FALSE
  <2>0. Bad \subseteq Nat
    BY <1>0
  <2> HIDE DEF Bad
  <2>1. PICK m \in Bad : \A l \in Bad : m <= l
    BY <1>1, <2>0, Least
  <2> USE DEF Bad
  <2>2. CASE m = 0
    <3>1. Walk(0, [i \in 0..0 |-> begin])
      OBVIOUS
    <3>2. QED
      BY <2>1, <2>2, <3>1
  <2>3. CASE m # 0
    <3>1. m \in Nat \ {0} /\ m - 1 \in 0..MaxPlaces /\ ~ (m <= m - 1)
      BY <1>0, <2>1, <2>3
    <3>2. m - 1 \notin Bad
      BY <2>1, <3>1
    <3>3. PICK f : Walk(m - 1, f)
      BY <3>1, <3>2
    <3> DEFINE g == [i \in 0..m |-> IF i = m THEN next[f[m - 1]] ELSE f[i]]
    <3>4. /\ m \notin 0..(m - 1) /\ m - 1 \in 0..(m - 1) /\ 0 \in 0..(m - 1)
          /\ \A i \in 0..m : i = m \/ i \in 0..(m - 1)
          /\ \A i \in 1..m : /\ i \in 0..m /\ i - 1 \in 0..m /\ i - 1 # m
                             /\ i = m \/ i \in 1..(m - 1)
      BY <3>1
    <3>5. g \in [0..m -> Live] /\ g[0] = begin
      BY <3>3, <3>4
    <3>6. \A i \in 1..m : g[i] = next[g[i - 1]]
      BY <3>3, <3>4
    <3>7. Walk(m, g)
      BY <3>5, <3>6
    <3>8. QED
      BY <2>1, <3>7
  <2>4. QED
    BY <2>2, <2>3
<1>2. MaxPlaces \in 0..MaxPlaces
  BY <1>0
<1>3. PICK g : Walk(MaxPlaces, g)
  BY <1>1, <1>2
<1>4. g = [i \in 0..MaxPlaces |-> IF i = 0 THEN begin ELSE next[g[i - 1]]]
  <2>1. \A i \in 0..MaxPlaces : i = 0 \/ i \in 1..MaxPlaces
    BY <1>0
  <2>2. QED
    BY <1>3, <2>1
<1>5. Nth = [i \in 0..MaxPlaces |-> IF i = 0 THEN begin ELSE next[Nth[i - 1]]]
  BY <1>4 DEF Nth
<1>6. /\ 0 \in 0..MaxPlaces
      /\ \A i \in 1..MaxPlaces : i \in 0..MaxPlaces /\ i # 0
  BY <1>0
<1>7. QED
  BY <1>5, <1>6

\* What Nth computes is the numbering, and the number after the last is 0.
LEMMA NthIsLaid ==
    ASSUME TypeOK, NEW r, NEW k, Laid(r, k)
    PROVE  /\ \A i \in 0..(size_queue - 1) : Nth[i] = r[i]
           /\ Nth[k] = tail
<1> DEFINE s == size_queue
<1>1. /\ s \in Nat \ {0} /\ MaxPlaces \in Nat /\ s <= MaxPlaces
      /\ k \in 0..s /\ 0 \in 0..(s - 1)
  BY RingAssumption DEF TypeOK, Laid, Circle
<1>2. /\ next \in [Live -> Live] /\ begin = r[0] /\ r \in [0..(s - 1) -> Live]
      /\ \A i \in 0..(s - 1) : next[r[i]] = r[Up(i, s)]
  BY DEF Laid, Circle
<1>3. /\ Nth[0] = r[0]
      /\ \A i \in 1..MaxPlaces : Nth[i] = next[Nth[i - 1]]
  BY <1>1, <1>2, NthSteps
<1> HIDE DEF s
<1> DEFINE Bad == {i \in 0..(s - 1) : Nth[i] # r[i]}
<1>4. Bad = {}
  <2>1. SUFFICES ASSUME Bad # {} PROVE FALSE
    OBVIOUS
  <2>2. Bad \subseteq Nat
    BY <1>1
  <2> HIDE DEF Bad
  <2>3. PICK m \in Bad : \A l \in Bad : m <= l
    BY <2>1, <2>2, Least
  <2> USE DEF Bad
  <2>4. m \in 0..(s - 1) /\ Nth[m] # r[m] /\ m # 0
    BY <1>3, <2>3
  <2>5. /\ m - 1 \in 0..(s - 1) /\ ~ (m <= m - 1) /\ m \in 1..MaxPlaces
        /\ Up(m - 1, s) = m
    BY <1>1, <2>4 DEF Up
  <2>6. Nth[m - 1] = r[m - 1]
    BY <2>3, <2>5
  <2>7. QED
    BY <1>2, <1>3, <2>4, <2>5, <2>6
<1>5. \A i \in 0..(s - 1) : Nth[i] = r[i]
  BY <1>4
<1>6. Nth[k] = tail
  <2>1. CASE k = s
    <3>1. tail = r[0] /\ k \in 1..MaxPlaces /\ k - 1 \in 0..(s - 1)
          /\ Up(k - 1, s) = 0
      BY <1>1, <2>1 DEF Laid, Up, s
    <3>2. QED
      BY <1>2, <1>3, <1>5, <3>1
  <2>2. CASE k # s
    <3>1. tail = r[k] /\ k \in 0..(s - 1)
      BY <1>1, <2>2 DEF Laid, s
    <3>2. QED
      BY <1>5, <3>1
  <2>3. QED
    BY <2>1, <2>2
<1>7. QED
  BY <1>5, <1>6 DEF s

\* The busy nodes are the first k, so there are k of them; and size_queue
\* nodes in all.
LEMMA LaidCounts ==
    ASSUME TypeOK, NEW r, NEW k, Laid(r, k)
    PROVE  /\ Busy = {r[i] : i \in 0..(k - 1)} /\ Cardinality(Busy) = k
           /\ Live = {r[i] : i \in 0..(size_queue - 1)}
           /\ Cardinality(Live) = size_queue
<1> DEFINE s == size_queue
<1>1. /\ s \in Nat \ {0} /\ k \in Nat /\ k <= s
      /\ \A i \in 0..(k - 1) : i \in 0..(s - 1)
      /\ \A i \in 0..(s - 1) : i \in 0..(k - 1) \/ i \in k..(s - 1)
  BY DEF Laid, Circle
<1>2. /\ r \in [0..(s - 1) -> Live]
      /\ \A i, j \in 0..(s - 1) : r[i] = r[j] => i = j
      /\ \A n \in Live : \E i \in 0..(s - 1) : r[i] = n
      /\ \A i \in 0..(k - 1) : flag_is_busy[r[i]] = TRUE
      /\ \A i \in k..(s - 1) : flag_is_busy[r[i]] = FALSE
  BY DEF Laid, Circle
<1>3. Live = {r[i] : i \in 0..(s - 1)}
  BY <1>2
<1>4. Busy = {r[i] : i \in 0..(k - 1)}
  <2>1. ASSUME NEW n \in Busy
        PROVE  \E i \in 0..(k - 1) : n = r[i]
    BY <1>1, <1>2 DEF Busy
  <2>2. ASSUME NEW i \in 0..(k - 1)
        PROVE  r[i] \in Busy
    <3>1. i \in 0..(s - 1)
      BY <1>1
    <3>2. r[i] \in Live /\ flag_is_busy[r[i]] = TRUE
      BY <1>2, <3>1
    <3>3. QED
      BY <3>2 DEF Busy
  <2>3. QED
    BY <2>1, <2>2
<1>5. /\ IsFiniteSet(0..(s - 1)) /\ Cardinality(0..(s - 1)) = s
      /\ IsFiniteSet(0..(k - 1)) /\ Cardinality(0..(k - 1)) = k
  <2>1. \A m \in Nat : (IF 0 > m - 1 THEN 0 ELSE m - 1 - 0 + 1) = m
    OBVIOUS
  <2>2. \A m \in Nat : m - 1 \in Int /\ 0 \in Int
    OBVIOUS
  <2>3. QED
    BY <1>1, <2>1, <2>2, FS_Interval
<1>6. Cardinality(Live) = s
  <2>1. r \in Bijection(0..(s - 1), Live)
    BY <1>2 DEF Bijection, Injection, Surjection, IsInjective
  <2>2. QED
    BY <1>5, <2>1, FS_Bijection DEF ExistsBijection
<1>7. Cardinality(Busy) = k
  <2> DEFINE b == [i \in 0..(k - 1) |-> r[i]]
  <2>1. b \in [0..(k - 1) -> Busy]
    BY <1>4
  <2>2. \A i, j \in 0..(k - 1) : b[i] = b[j] => i = j
    BY <1>1, <1>2
  <2>3. \A n \in Busy : \E i \in 0..(k - 1) : b[i] = n
    BY <1>4
  <2> HIDE DEF b
  <2>4. b \in Bijection(0..(k - 1), Busy)
    BY <2>1, <2>2, <2>3 DEF Bijection, Injection, Surjection, IsInjective
  <2>5. QED
    BY <1>5, <2>4, FS_Bijection DEF ExistsBijection
<1>8. QED
  BY <1>3, <1>4, <1>6, <1>7

\* A function on 1..k is a sequence of length k.
LEMMA SequenceOf ==
    ASSUME NEW S, NEW k \in Nat, NEW f \in [1..k -> S]
    PROVE  f \in Seq(S) /\ Len(f) = k
<1>1. f \in Seq(S)
  BY SeqDef
<1>2. Len(f) \in Nat /\ 1..Len(f) = 1..k
  BY <1>1, LenProperties
<1>3. \A l, m \in Nat : 1..l = 1..m => l = m
  <2>1. SUFFICES ASSUME NEW l \in Nat, NEW m \in Nat, 1..l = 1..m
                 PROVE  l = m
    OBVIOUS
  <2>2. l >= 1 => l \in 1..m
    BY <2>1
  <2>3. m >= 1 => m \in 1..l
    BY <2>1
  <2>4. QED
    BY <2>2, <2>3
<1>4. QED
  BY <1>1, <1>2, <1>3

\* The stored messages are those at the first k nodes.
Reads(r, k) ==
    /\ Contents \in Seq(Message \cup {Zeroed}) /\ Len(Contents) = k
    /\ \A i \in 1..k : Contents[i] = message[r[i - 1]]

NumberingReads ==
    /\ \A r, k : TypeOK /\ Laid(r, k) => Reads(r, k)
    /\ TypeOK /\ Numbered /\ begin = NULL => Contents = <<>>

LEMMA NumberingIsRead == NumberingReads
<1>1. ASSUME NEW r, NEW k, TypeOK, Laid(r, k)
      PROVE  Reads(r, k)
  <2>1. Contents = [i \in 1..k |-> message[Nth[i - 1]]]
    BY <1>1, LaidCounts DEF Contents
  <2>2. k \in Nat /\ \A i \in 1..k : i - 1 \in 0..(size_queue - 1)
    BY <1>1 DEF Laid, Circle
  <2>3. \A i \in 1..k : Contents[i] = message[r[i - 1]]
    BY <1>1, <2>1, <2>2, NthIsLaid
  <2>4. \A i \in 1..k : message[r[i - 1]] \in Message \cup {Zeroed}
    BY <1>1, <2>2 DEF TypeOK, Laid, Circle
  <2>5. Contents \in [1..k -> Message \cup {Zeroed}]
    BY <2>1, <2>3, <2>4
  <2>6. QED
    BY <2>2, <2>3, <2>5, SequenceOf DEF Reads
<1>2. ASSUME TypeOK, Numbered, begin = NULL
      PROVE  Contents = <<>>
  <2>1. Busy = {} /\ Cardinality(Busy) = 0
    BY <1>2, FS_EmptySet DEF Numbered, Busy
  <2>2. 1..0 = {}
    OBVIOUS
  <2>3. Contents \in [1..0 -> {}]
    BY <2>1, <2>2 DEF Contents
  <2>4. Contents \in Seq({}) /\ Len(Contents) = 0
    BY <2>3, SequenceOf
  <2>5. QED
    BY <2>4, EmptySeq
<1>3. QED
  BY <1>1, <1>2 DEF NumberingReads

\* The same of the state after a step.
LEMMA NumberingIsReadAfter == NumberingReads'
BY NumberingIsRead, PTL

------------------------------------------------------------------------------
(***************************************************************************)
(* What each operation does to the numbering                               *)
(***************************************************************************)

\* What a numbering says, for the steps below: s is the number of nodes.
NumberedBy(r, k, s) ==
    /\ s \in Nat \ {0} /\ k \in 0..s /\ k \in Nat /\ k <= s
    /\ 0 \in 0..(s - 1) /\ s - 1 \in 0..(s - 1)
    /\ Circle(r, s, Live, next, prev) /\ r \in [0..(s - 1) -> Live]
    /\ begin = r[0] /\ tail = r[IF k = s THEN 0 ELSE k]
    /\ \A i \in 0..(k - 1) : flag_is_busy[r[i]] = TRUE
    /\ \A i \in k..(s - 1) : flag_is_busy[r[i]] = FALSE
    /\ \A i \in 0..(k - 1) : i \in 0..(s - 1)
    /\ \A i, j \in 0..(s - 1) : r[i] = r[j] => i = j
    /\ \A i \in 0..(s - 1) : r[i] \in Live
    /\ next \in [Live -> Live] /\ prev \in [Live -> Live]
    /\ DOMAIN flag_is_busy = Live /\ Live \subseteq Node
    /\ DOMAIN message = Live /\ DOMAIN next = Live

LEMMA LaidFacts ==
    ASSUME TypeOK, NEW r, NEW k, Laid(r, k)
    PROVE  NumberedBy(r, k, size_queue)
<1> DEFINE s == size_queue
<1>1. /\ Circle(r, s, Live, next, prev) /\ k \in 0..s /\ s \in Nat \ {0}
      /\ begin = r[0] /\ tail = r[IF k = s THEN 0 ELSE k]
      /\ \A i \in 0..(k - 1) : flag_is_busy[r[i]] = TRUE
      /\ \A i \in k..(s - 1) : flag_is_busy[r[i]] = FALSE
  BY DEF Laid, Circle
<1>2. /\ k \in Nat /\ k <= s /\ 0 \in 0..(s - 1) /\ s - 1 \in 0..(s - 1)
      /\ \A i \in 0..(k - 1) : i \in 0..(s - 1)
  BY <1>1
<1>3. /\ r \in [0..(s - 1) -> Live]
      /\ \A i, j \in 0..(s - 1) : r[i] = r[j] => i = j
      /\ next \in [Live -> Live] /\ prev \in [Live -> Live]
  BY <1>1 DEF Circle
<1>4. \A i \in 0..(s - 1) : r[i] \in Live
  BY <1>3
<1>5. /\ DOMAIN flag_is_busy = Live /\ Live \subseteq Node
      /\ DOMAIN message = Live /\ DOMAIN next = Live
  BY DEF TypeOK, Live
<1>6. QED
  BY <1>1, <1>2, <1>3, <1>4, <1>5 DEF NumberedBy

\* The first place of a new queue.
LEMMA AppendFirstLays ==
    ASSUME TypeOK, Numbered, NEW n \in Node, AppendFirst(n)
    PROVE  /\ \E q : Laid(q, 0)'
           /\ begin' = n /\ tail' = n /\ size_queue' = 1
           /\ Live = {} /\ Live' = {n}
           /\ message' = [y \in {n} |-> Zeroed]
           /\ flag_is_busy' = [y \in {n} |-> FALSE]
<1>1. Live = {} /\ DOMAIN prev = {} /\ DOMAIN message = {}
      /\ DOMAIN flag_is_busy = {}
  BY DEF AppendFirst, Numbered, TypeOK
<1>2. /\ next' = [y \in {n} |-> n] /\ prev' = [y \in {n} |-> n]
      /\ flag_is_busy' = [y \in {n} |-> FALSE]
      /\ message' = [y \in {n} |-> Zeroed]
      /\ size_queue' = 1 /\ begin' = n /\ tail' = n
  BY <1>1 DEF AppendFirst, ConstructorNode, With, Live
<1>3. Live' = {n}
  BY <1>2 DEF Live
<1>4. PICK q : q = [i \in 0..0 |-> n]
  OBVIOUS
<1>5. Circle(q, 1, {n}, next', prev')
  BY <1>2, <1>4, CircleOfOne
<1>6. Circle(q, size_queue', Live', next', prev')
  BY <1>2, <1>3, <1>5
<1>7. /\ q[0] = n /\ 0 \in 0..1 /\ 0 # 1
      /\ \A i \in 0..(0 - 1) : flag_is_busy'[q[i]] = TRUE
      /\ \A i \in 0..(1 - 1) : flag_is_busy'[q[i]] = FALSE
  BY <1>2, <1>4
<1>8. Laid(q, 0)'
  BY <1>2, <1>6, <1>7 DEF Laid
<1>9. QED
  BY <1>1, <1>2, <1>3, <1>8

\* A place more: behind the others, or in front of them in an empty ring, but
\* never in front of a message.
LEMMA AppendNodeLays ==
    ASSUME TypeOK, NEW r, NEW k, Laid(r, k), NEW n \in Node,
           NEW flag_after \in BOOLEAN, AppendNode(n, flag_after),
           flag_after = TRUE \/ k = 0
    PROVE  /\ \E q : Laid(q, k)' /\ \A i \in 0..(k - 1) : q[i] = r[i]
           /\ begin' \in Live' /\ tail' \in Live'
           /\ n \notin Live /\ Live' = Live \cup {n}
           /\ message' = With(message, n, Zeroed)
           /\ flag_is_busy' = With(flag_is_busy, n, FALSE)
<1>0. PICK s : s = size_queue
  OBVIOUS
<1>1. /\ s \in Nat \ {0} /\ k \in 0..s /\ k \in Nat /\ k <= s
      /\ 0 \in 0..(s - 1) /\ s - 1 \in 0..(s - 1)
      /\ Circle(r, s, Live, next, prev) /\ r \in [0..(s - 1) -> Live]
      /\ begin = r[0] /\ tail = r[IF k = s THEN 0 ELSE k]
      /\ \A i \in 0..(k - 1) : flag_is_busy[r[i]] = TRUE
      /\ \A i \in k..(s - 1) : flag_is_busy[r[i]] = FALSE
      /\ \A i \in 0..(k - 1) : i \in 0..(s - 1)
      /\ \A i, j \in 0..(s - 1) : r[i] = r[j] => i = j
      /\ \A i \in 0..(s - 1) : r[i] \in Live
      /\ next \in [Live -> Live] /\ prev \in [Live -> Live]
      /\ DOMAIN flag_is_busy = Live /\ Live \subseteq Node
  <2>1. NumberedBy(r, k, size_queue)
    BY LaidFacts
  <2>2. NumberedBy(r, k, s)
    BY <1>0, <2>1
  <2>3. QED
    BY <1>0, <2>2 DEF NumberedBy
<1>2. /\ n \notin Live /\ size_queue' = s + 1
      /\ message' = With(message, n, Zeroed)
      /\ flag_is_busy' = With(flag_is_busy, n, FALSE)
  BY <1>0 DEF AppendNode, ConstructorNode
<1>s. size_queue' - 1 = s
  BY <1>1, <1>2
<1>3. /\ next' = With([next EXCEPT ![r[s - 1]] = n], n, r[0])
      /\ prev' = With([prev EXCEPT ![r[0]] = n], n, r[s - 1])
  <2>1. next[r[0]] = r[Up(0, s)] /\ prev[r[0]] = r[Down(0, s)]
    BY <1>1, CircleLinks
  <2>2. Down(0, s) = s - 1 /\ Up(0, s) \in 0..(s - 1)
    BY <1>1, UpDown DEF Down
  <2>3. CASE next[begin] = begin
    <3>1. Up(0, s) = 0
      BY <1>1, <2>1, <2>2, <2>3
    <3>2. s - 1 = 0
      BY <1>1, <3>1 DEF Up
    <3>3. QED
      BY <1>1, <2>3, <3>2 DEF AppendNode, LinkBeforeBegin
  <2>4. CASE next[begin] # begin
    BY <1>1, <2>1, <2>2, <2>4 DEF AppendNode, LinkBeforeBegin
  <2>5. QED
    BY <2>3, <2>4
<1>4. Live' = Live \cup {n} /\ next'[n] = r[0]
  BY <1>1, <1>2, <1>3 DEF Live, With
<1>5. /\ s \notin 0..(s - 1) /\ s \in 0..s
      /\ \A i \in 0..(s - 1) : i \in 0..s
      /\ \A i \in 0..s : i = s \/ i \in 0..(s - 1)
      /\ s + 1 \in Nat \ {0} /\ s + 1 - 1 = s /\ s + 1 # s /\ k # s + 1
      /\ k \in 0..(s + 1)
  BY <1>1
<1>6. PICK q \in [0..s -> Live \cup {n}] :
         q[s] = n /\ \A i \in 0..(s - 1) : q[i] = r[i]
  <2> DEFINE f == [i \in 0..s |-> IF i = s THEN n ELSE r[i]]
  <2>1. f \in [0..s -> Live \cup {n}]
    BY <1>1, <1>5
  <2>2. f[s] = n /\ \A i \in 0..(s - 1) : f[i] = r[i]
    BY <1>5
  <2> HIDE DEF f
  <2>3. QED
    BY <2>1, <2>2
<1>7. Circle(q, s + 1, Live \cup {n}, next', prev')
  <2>1. Circle(r, s, Live, next, prev) /\ n \notin Live
    BY <1>1, <1>2
  <2>2. /\ next' = With([next EXCEPT ![r[s - 1]] = n], n, r[0])
        /\ prev' = With([prev EXCEPT ![r[0]] = n], n, r[s - 1])
    BY <1>3
  <2>3. QED
    BY <1>6, <2>1, <2>2, CircleInsert
<1>8. /\ flag_is_busy'[n] = FALSE
      /\ \A y \in Live : flag_is_busy'[y] = flag_is_busy[y]
  BY <1>1, <1>2 DEF With
<1>9. /\ \A i \in 0..(k - 1) : flag_is_busy'[q[i]] = TRUE
      /\ \A i \in k..s : flag_is_busy'[q[i]] = FALSE
  <2>1. \A i \in 0..(k - 1) : flag_is_busy'[q[i]] = TRUE
    BY <1>1, <1>6, <1>8
  <2>2. \A i \in k..s : i = s \/ (i \in 0..(s - 1) /\ i \in k..(s - 1))
    BY <1>1
  <2>3. QED
    BY <1>1, <1>6, <1>8, <2>1, <2>2
<1>10. CASE flag_after = TRUE /\ tail = r[0] /\ k = 0
  <2>1. begin' = n /\ tail' = n
    <3>1. flag_is_busy[begin] = FALSE
      BY <1>1, <1>10
    <3>2. QED
      BY <1>1, <1>4, <1>10, <3>1 DEF AppendNode, MoveCursors
  <2>2. \A i \in 0..s : Down(i, s + 1) \in 0..s
    BY <1>1, <1>5 DEF Down
  <2>3. PICK f \in [0..s -> Live \cup {n}] :
           \A i \in 0..s : f[i] = q[Down(i, s + 1)]
    <3> DEFINE g == [i \in 0..s |-> q[Down(i, s + 1)]]
    <3>1. g \in [0..s -> Live \cup {n}]
      BY <1>6, <2>2
    <3>2. \A i \in 0..s : g[i] = q[Down(i, s + 1)]
      OBVIOUS
    <3> HIDE DEF g
    <3>3. QED
      BY <3>1, <3>2
  <2>4. Circle(f, s + 1, Live \cup {n}, next', prev')
    BY <1>5, <1>7, <2>3, CircleBackward
  <2>5. f[0] = n
    <3>1. Down(0, s + 1) = s /\ 0 \in 0..s
      BY <1>1, <1>5 DEF Down
    <3>2. QED
      BY <1>6, <2>3, <3>1
  <2>6. \A i \in 0..s : flag_is_busy'[f[i]] = FALSE
    <3>1. \A i \in 0..s : i \in k..s
      BY <1>10
    <3>2. QED
      BY <1>9, <2>2, <2>3, <3>1
  <2>7. \A i \in 0..(k - 1) : i \notin 0..(k - 1)
    BY <1>10
  <2>8. Circle(f, size_queue', Live', next', prev')
    BY <1>2, <1>4, <2>4
  <2>9. \A i \in k..(size_queue' - 1) : flag_is_busy'[f[i]] = FALSE
    BY <1>s, <1>10, <2>6
  <2>10. Laid(f, k)'
    BY <1>2, <1>5, <1>10, <2>1, <2>5, <2>7, <2>8, <2>9 DEF Laid
  <2>11. QED
    BY <1>2, <1>4, <2>1, <2>7, <2>10
<1>11. CASE ~ (flag_after = TRUE /\ tail = r[0] /\ k = 0)
  <2>1. begin' = r[0] /\ tail' = q[k]
    <3>1. CASE k = s
      <4>1. flag_after = TRUE /\ tail = r[0] /\ q[k] = n
        BY <1>1, <1>6, <3>1
      <4>2. flag_is_busy[begin] = TRUE
        BY <1>1, <3>1
      <4>3. QED
        BY <1>1, <1>4, <4>1, <4>2 DEF AppendNode, MoveCursors
    <3>2. CASE k # s
      <4>1. tail = r[k] /\ k \in 0..(s - 1)
        BY <1>1, <3>2
      <4>2. tail = r[0] => k = 0
        BY <1>1, <4>1
      <4>3. ~ (flag_after = TRUE /\ next'[n] = tail)
        BY <1>4, <1>11, <4>2
      <4>4. begin' = begin /\ tail' = tail
        BY <4>3 DEF AppendNode, MoveCursors
      <4>5. QED
        BY <1>1, <1>6, <4>1, <4>4
    <3>3. QED
      BY <3>1, <3>2
  <2>2. q[0] = r[0] /\ r[0] \in Live /\ q[k] \in Live \cup {n}
    BY <1>1, <1>6
  <2>3. Circle(q, size_queue', Live', next', prev')
    BY <1>2, <1>4, <1>7
  <2>4. \A i \in k..(size_queue' - 1) : flag_is_busy'[q[i]] = FALSE
    BY <1>s, <1>9
  <2>5. Laid(q, k)'
    BY <1>2, <1>5, <1>9, <2>1, <2>2, <2>3, <2>4 DEF Laid
  <2>6. \A i \in 0..(k - 1) : q[i] = r[i]
    BY <1>1, <1>6
  <2>7. QED
    BY <1>2, <1>4, <2>1, <2>2, <2>5, <2>6
<1>12. QED
  BY <1>10, <1>11

\* The last place: the queue is gone.
LEMMA EraseLastLays ==
    ASSUME TypeOK, NEW r, NEW k, Laid(r, k), Erase, size_queue = 1
    PROVE  /\ begin' = NULL /\ tail' = NULL /\ Live' = {} /\ size_queue' = 0
           /\ next' = <<>> /\ prev' = <<>>
           /\ message' = Without(message, begin)
           /\ flag_is_busy' = Without(flag_is_busy, begin)
           /\ Live = {begin} /\ k \in 0..1
           /\ k = 1 => ret' = TRUE
           /\ k = 0 => ret' = FALSE
<1>1. /\ begin = r[0] /\ tail = r[0] /\ k \in 0..1
      /\ 0 \in 0..(1 - 1) /\ Circle(r, 1, Live, next, prev)
      /\ k = 1 => flag_is_busy[r[0]] = TRUE
      /\ k = 0 => flag_is_busy[r[0]] = FALSE
  BY DEF Laid
<1>2. next[begin] = begin /\ prev[begin] = begin
  <2>1. Up(0, 1) = 0 /\ Down(0, 1) = 0
    BY DEF Up, Down
  <2>2. next[r[0]] = r[Up(0, 1)] /\ prev[r[0]] = r[Down(0, 1)]
    BY <1>1, CircleLinks
  <2>3. QED
    BY <1>1, <2>1, <2>2
<1>3. EraseLast /\ size_queue' = 0
  BY <1>1, <1>2 DEF Erase, EraseBegin, EraseOfTwo, EraseTail
<1>4. Live = {begin}
  <2>1. \A i \in 0..(1 - 1) : i = 0
    OBVIOUS
  <2>2. \A n \in Live : \E i \in 0..(1 - 1) : r[i] = n
    BY <1>1 DEF Circle
  <2>3. r[0] \in Live
    BY <1>1 DEF Circle
  <2>4. QED
    BY <1>1, <2>1, <2>2, <2>3
<1>5. Live' = {}
  BY <1>3 DEF EraseLast, Live
<1>6. QED
  BY <1>1, <1>3, <1>4, <1>5 DEF EraseLast, Free

\* What every erase in a ring of several places does: the j-th node goes.
LEMMA NodeGoes ==
    ASSUME TypeOK, NEW r, NEW k, Laid(r, k), size_queue # 1,
           NEW j \in 0..(size_queue - 1), Free(r[j]), Unlink(r[j]),
           size_queue' = size_queue - 1
    PROVE  /\ r[j] \in Live /\ Live' = Live \ {r[j]}
           /\ message' = Without(message, r[j])
           /\ flag_is_busy' = Without(flag_is_busy, r[j])
           /\ \E q : /\ \A i \in 0..(size_queue - 2) : q[i] = r[Old(i, j)]
                     /\ Circle(q, size_queue, Live, next, prev)'
                     /\ \A i \in 0..(size_queue - 2) :
                          /\ q[i] \in Live \ {r[j]}
                          /\ flag_is_busy'[q[i]] = flag_is_busy[q[i]]
<1>0. PICK s : s = size_queue
  OBVIOUS
<1>1. /\ s \in Nat \ {0} /\ s \in Nat \ {0, 1} /\ j \in 0..(s - 1)
      /\ Circle(r, s, Live, next, prev) /\ r \in [0..(s - 1) -> Live]
      /\ \A i, l \in 0..(s - 1) : r[i] = r[l] => i = l
      /\ \A i \in 0..(s - 1) : r[i] \in Live
      /\ next \in [Live -> Live] /\ prev \in [Live -> Live]
      /\ DOMAIN flag_is_busy = Live
  <2>1. NumberedBy(r, k, size_queue)
    BY LaidFacts
  <2>2. NumberedBy(r, k, s)
    BY <1>0, <2>1
  <2>3. QED
    BY <1>0, <2>2 DEF NumberedBy
<1>2. \A i \in 0..(s - 2) : Old(i, j) \in 0..(s - 1) /\ Old(i, j) # j
  BY <1>1, OldNumbers
<1>3. PICK q \in [0..(s - 2) -> Live \ {r[j]}] :
         \A i \in 0..(s - 2) : q[i] = r[Old(i, j)]
  <2> DEFINE f == [i \in 0..(s - 2) |-> r[Old(i, j)]]
  <2>1. \A i \in 0..(s - 2) : r[Old(i, j)] \in Live \ {r[j]}
    BY <1>1, <1>2
  <2>2. f \in [0..(s - 2) -> Live \ {r[j]}]
    BY <2>1
  <2>3. \A i \in 0..(s - 2) : f[i] = r[Old(i, j)]
    OBVIOUS
  <2> HIDE DEF f
  <2>4. QED
    BY <2>2, <2>3
<1>4. Circle(q, s - 1, Live \ {r[j]},
             Without([next EXCEPT ![prev[r[j]]] = next[r[j]]], r[j]),
             Without([prev EXCEPT ![next[r[j]]] = prev[r[j]]], r[j]))
  BY <1>1, <1>3, CircleRemove
<1>5. Circle(q, s - 1, Live \ {r[j]}, next', prev')
  BY <1>4 DEF Unlink
<1>6. r[j] \in Live /\ Live' = Live \ {r[j]}
  <2>1. DOMAIN next' = Live \ {r[j]}
    BY <1>5 DEF Circle
  <2>2. QED
    BY <1>1, <2>1 DEF Live
<1>7. Circle(q, size_queue, Live, next, prev)'
  BY <1>0, <1>5, <1>6
<1>8. /\ message' = Without(message, r[j])
      /\ flag_is_busy' = Without(flag_is_busy, r[j])
  BY DEF Free
<1>9. \A i \in 0..(s - 2) : /\ q[i] \in Live \ {r[j]}
                            /\ flag_is_busy'[q[i]] = flag_is_busy[q[i]]
  BY <1>1, <1>3, <1>8 DEF Without
<1>10. QED
  BY <1>0, <1>3, <1>6, <1>7, <1>8, <1>9

\* A place of several: the oldest message in a full ring, else a free place,
\* and the messages in front of it keep their numbers.
Erases(r, k) ==
    /\ begin' \in Live' /\ tail' \in Live'
    /\ size_queue' = size_queue - 1
    /\ k = size_queue => ret' = TRUE
    /\ k # size_queue => ret' = FALSE
    /\ \E n \in Live : /\ Live' = Live \ {n}
                       /\ message' = Without(message, n)
                       /\ flag_is_busy' = Without(flag_is_busy, n)
    /\ k = size_queue =>
         \E q : Laid(q, k - 1)' /\ \A i \in 0..(k - 2) : q[i] = r[i + 1]
    /\ k # size_queue =>
         \E q : Laid(q, k)' /\ \A i \in 0..(k - 1) : q[i] = r[i]

LEMMA EraseLays ==
    ASSUME TypeOK, NEW r, NEW k, Laid(r, k), Erase, size_queue # 1
    PROVE  Erases(r, k)
<1>0. PICK s : s = size_queue
  OBVIOUS
<1>1. /\ s \in Nat \ {0} /\ k \in 0..s /\ k \in Nat /\ k <= s
      /\ 0 \in 0..(s - 1) /\ s - 1 \in 0..(s - 1)
      /\ Circle(r, s, Live, next, prev) /\ r \in [0..(s - 1) -> Live]
      /\ begin = r[0] /\ tail = r[IF k = s THEN 0 ELSE k]
      /\ \A i \in 0..(k - 1) : flag_is_busy[r[i]] = TRUE
      /\ \A i \in k..(s - 1) : flag_is_busy[r[i]] = FALSE
      /\ \A i, j \in 0..(s - 1) : r[i] = r[j] => i = j
      /\ \A i \in 0..(s - 1) : r[i] \in Live
      /\ next \in [Live -> Live] /\ prev \in [Live -> Live]
  <2>1. NumberedBy(r, k, size_queue)
    BY LaidFacts
  <2>2. NumberedBy(r, k, s)
    BY <1>0, <2>1
  <2>3. QED
    BY <1>0, <2>2 DEF NumberedBy
<1>2. /\ s # 1 /\ 1 \in 0..(s - 1) /\ s - 1 \in Nat \ {0}
      /\ s - 1 - 1 = s - 2 /\ 0 \in 0..(s - 2)
      /\ Up(0, s) = 1 /\ Down(0, s) = s - 1
  BY <1>0, <1>1 DEF Up, Down
<1>3. next[r[0]] = r[1] /\ prev[r[0]] = r[s - 1] /\ r[1] # r[0]
  <2>1. next[r[0]] = r[Up(0, s)] /\ prev[r[0]] = r[Down(0, s)]
    BY <1>1, CircleLinks
  <2>2. QED
    BY <1>1, <1>2, <2>1
<1>4. size_queue' = s - 1 /\ size_queue' - 1 = s - 2
  BY <1>0, <1>1, <1>2 DEF Erase
\* The node at the j-th place goes, and the numbering of the others is q.
<1>5. ASSUME NEW j \in 0..(s - 1), Free(r[j]), Unlink(r[j])
      PROVE  /\ r[j] \in Live /\ Live' = Live \ {r[j]}
             /\ message' = Without(message, r[j])
             /\ flag_is_busy' = Without(flag_is_busy, r[j])
             /\ \E q : /\ \A i \in 0..(s - 2) : q[i] = r[Old(i, j)]
                       /\ Circle(q, size_queue, Live, next, prev)'
                       /\ \A i \in 0..(s - 2) :
                            /\ q[i] \in Live \ {r[j]}
                            /\ flag_is_busy'[q[i]] = flag_is_busy[q[i]]
  <2>1. size_queue # 1 /\ size_queue' = size_queue - 1
    BY <1>0, <1>2, <1>4
  <2>2. j \in 0..(size_queue - 1)
    BY <1>0
  <2>3. /\ r[j] \in Live /\ Live' = Live \ {r[j]}
        /\ message' = Without(message, r[j])
        /\ flag_is_busy' = Without(flag_is_busy, r[j])
        /\ \E q : /\ \A i \in 0..(size_queue - 2) : q[i] = r[Old(i, j)]
                  /\ Circle(q, size_queue, Live, next, prev)'
                  /\ \A i \in 0..(size_queue - 2) :
                       /\ q[i] \in Live \ {r[j]}
                       /\ flag_is_busy'[q[i]] = flag_is_busy[q[i]]
    BY <1>5, <2>1, <2>2, NodeGoes
  <2>4. QED
    BY <1>0, <2>3
<1>6. ~ EraseLast
  BY <1>1, <1>3 DEF EraseLast
<1>7. CASE EraseBegin
  <2>1. k = s \/ k = 0
    <3>1. tail = begin
      BY <1>7 DEF EraseBegin
    <3>2. k # s => r[k] = r[0]
      BY <1>1, <3>1
    <3>3. k # s => k \in 0..(s - 1)
      BY <1>1
    <3>4. QED
      BY <1>1, <3>2, <3>3
  <2>2. Free(r[0]) /\ Unlink(r[0]) /\ begin' = r[1] /\ tail' = r[1]
    BY <1>1, <1>3, <1>7 DEF EraseBegin
  <2>3. PICK q : /\ \A i \in 0..(s - 2) : q[i] = r[Old(i, 0)]
                 /\ Circle(q, size_queue, Live, next, prev)'
                 /\ \A i \in 0..(s - 2) :
                      /\ q[i] \in Live \ {r[0]}
                      /\ flag_is_busy'[q[i]] = flag_is_busy[q[i]]
    BY <1>1, <1>5, <2>2
  <2>4. /\ Live' = Live \ {r[0]} /\ r[0] \in Live
        /\ message' = Without(message, r[0])
        /\ flag_is_busy' = Without(flag_is_busy, r[0])
    BY <1>1, <1>5, <2>2
  <2>5. /\ \A i \in 0..(s - 2) : q[i] = r[i + 1] /\ i + 1 \in 0..(s - 1)
        /\ q[0] = r[1]
    <3>1. \A i \in 0..(s - 2) : Old(i, 0) = i + 1 /\ i + 1 \in 0..(s - 1)
      BY <1>1 DEF Old
    <3>2. 0 + 1 = 1
      OBVIOUS
    <3>3. QED
      BY <1>2, <2>3, <3>1, <3>2
  <2>6. begin' \in Live' /\ tail' \in Live'
    BY <1>1, <1>2, <1>3, <2>2, <2>4
  <2>7. CASE k = s
    <3>1. ret' = TRUE
      <4>1. 0 \in 0..(k - 1)
        BY <1>1, <2>7
      <4>2. QED
        BY <1>1, <2>2, <4>1 DEF Free
    <3>2. \A i \in 0..(s - 2) : flag_is_busy'[q[i]] = TRUE
      <4>1. \A i \in 0..(s - 2) : i + 1 \in 0..(k - 1)
        BY <1>1, <2>7
      <4>2. QED
        BY <1>1, <2>3, <2>5, <4>1
    <3>3. /\ \A i \in 0..(k - 1 - 1) : i \in 0..(s - 2)
          /\ \A i \in (k - 1)..(size_queue' - 1) : FALSE
          /\ k - 1 = size_queue' /\ k - 1 \in 0..size_queue'
      BY <1>1, <1>2, <1>4, <2>7
    <3>4. Laid(q, k - 1)'
      BY <2>2, <2>3, <2>5, <3>2, <3>3 DEF Laid
    <3>5. \A i \in 0..(k - 2) : q[i] = r[i + 1]
      BY <2>5, <2>7
    <3>6. QED
      BY <1>0, <1>4, <2>4, <2>6, <2>7, <3>1, <3>4, <3>5 DEF Erases
  <2>8. CASE k = 0
    <3>1. k # s /\ ret' = FALSE
      <4>1. 0 \in k..(s - 1)
        BY <1>1, <2>8
      <4>2. QED
        BY <1>1, <2>2, <2>8, <4>1 DEF Free
    <3>2. \A i \in 0..(s - 2) : flag_is_busy'[q[i]] = FALSE
      <4>1. \A i \in 0..(s - 2) : i + 1 \in k..(s - 1)
        BY <1>1, <2>8
      <4>2. QED
        BY <1>1, <2>3, <2>5, <4>1
    <3>3. /\ \A i \in 0..(k - 1) : FALSE
          /\ \A i \in k..(size_queue' - 1) : i \in 0..(s - 2)
          /\ k # size_queue' /\ k \in 0..size_queue'
      BY <1>1, <1>2, <1>4, <2>8
    <3>4. Laid(q, k)'
      BY <2>2, <2>3, <2>5, <2>8, <3>2, <3>3 DEF Laid
    <3>5. QED
      BY <1>0, <1>4, <2>4, <2>6, <3>1, <3>3, <3>4 DEF Erases
  <2>9. QED
    BY <2>1, <2>7, <2>8
\* A tail that is not begin is the first free place; EraseOfTwo and EraseTail
\* both free it and move tail to the next.
<1>8. CASE EraseOfTwo \/ EraseTail
  <2>1. tail # begin
    BY <1>8 DEF EraseOfTwo, EraseTail
  <2>2. /\ k \in 1..(s - 1) /\ k \in 0..(s - 1) /\ k # s /\ k \in k..(s - 1)
        /\ tail = r[k]
    <3>1. k # s /\ k # 0
      BY <1>1, <2>1
    <3>2. QED
      BY <1>1, <3>1
  <2>3. next[r[k]] = r[Up(k, s)] /\ prev[r[k]] = r[Down(k, s)]
    BY <1>1, <2>2, CircleLinks
  <2>4. /\ Free(r[k]) /\ Unlink(r[k]) /\ begin' = r[0]
        /\ tail' = r[Up(k, s)]
    <3>1. CASE EraseOfTwo
      <4>1. s = 2 /\ k = 1
        <5>1. r[1] = r[s - 1]
          BY <1>1, <1>3, <3>1 DEF EraseOfTwo
        <5>2. QED
          BY <1>1, <1>2, <2>2, <5>1
      <4>2. Up(k, s) = 0 /\ Down(k, s) = 0
        BY <4>1 DEF Up, Down
      <4>3. prev[tail] = r[0] /\ next[r[0]] = r[k] /\ next[r[k]] = r[0]
            /\ prev[r[k]] = r[0]
        BY <1>3, <2>2, <2>3, <4>1, <4>2
      <4>4. QED
        BY <1>1, <3>1, <4>2, <4>3 DEF EraseOfTwo, Unlink
    <3>2. CASE EraseTail
      BY <1>1, <2>2, <2>3, <3>2 DEF EraseTail
    <3>3. QED
      BY <1>8, <3>1, <3>2
  <2>5. PICK q : /\ \A i \in 0..(s - 2) : q[i] = r[Old(i, k)]
                 /\ Circle(q, size_queue, Live, next, prev)'
                 /\ \A i \in 0..(s - 2) :
                      /\ q[i] \in Live \ {r[k]}
                      /\ flag_is_busy'[q[i]] = flag_is_busy[q[i]]
    BY <1>5, <2>2, <2>4
  <2>6. /\ Live' = Live \ {r[k]} /\ r[k] \in Live
        /\ message' = Without(message, r[k])
        /\ flag_is_busy' = Without(flag_is_busy, r[k])
    BY <1>5, <2>2, <2>4
  <2>7. q[0] = r[0] /\ r[Up(k, s)] = q[IF k = s - 1 THEN 0 ELSE k]
    <3>1. Old(0, k) = 0
      BY <2>2 DEF Old
    <3>2. q[0] = r[0]
      BY <1>2, <2>5, <3>1
    <3>3. CASE k = s - 1
      <4>1. Up(k, s) = 0
        BY <3>3 DEF Up
      <4>2. QED
        BY <3>2, <3>3, <4>1
    <3>4. CASE k # s - 1
      <4>1. k \in 0..(s - 2) /\ Old(k, k) = k + 1 /\ Up(k, s) = k + 1
        BY <1>1, <2>2, <3>4 DEF Old, Up
      <4>2. QED
        BY <2>5, <3>2, <3>4, <4>1
    <3>5. QED
      BY <3>3, <3>4
  <2>8. \A i \in 0..(k - 1) : i \in 0..(s - 2) /\ q[i] = r[i]
    <3>1. \A i \in 0..(k - 1) : i \in 0..(s - 2) /\ Old(i, k) = i
      BY <1>1, <2>2 DEF Old
    <3>2. QED
      BY <2>5, <3>1
  <2>9. \A i \in 0..(k - 1) : flag_is_busy'[q[i]] = TRUE
    BY <1>1, <2>5, <2>8
  <2>10. \A i \in k..(s - 2) : flag_is_busy'[q[i]] = FALSE
    <3>1. \A i \in k..(s - 2) :
            i \in 0..(s - 2) /\ Old(i, k) = i + 1 /\ i + 1 \in k..(s - 1)
      BY <1>1, <2>2 DEF Old
    <3>2. QED
      BY <1>1, <2>5, <3>1
  <2>11. ret' = FALSE
    BY <1>1, <2>2, <2>4 DEF Free
  <2>12. begin' \in Live' /\ tail' \in Live'
    <3>1. Up(k, s) \in 0..(s - 1) /\ Up(k, s) # k
      BY <1>1, <1>2, <2>2 DEF Up
    <3>2. QED
      BY <1>1, <2>2, <2>4, <2>6, <3>1
  <2>13. /\ k \in 0..size_queue'
         /\ \A i \in k..(size_queue' - 1) : i \in k..(s - 2)
    BY <1>1, <1>4, <2>2
  <2>14. Laid(q, k)'
    <3>1. tail' = q[IF k = size_queue' THEN 0 ELSE k]
      BY <1>4, <2>4, <2>7
    <3>2. begin' = q[0]
      BY <2>4, <2>7
    <3>3. QED
      BY <2>5, <2>9, <2>10, <2>13, <3>1, <3>2 DEF Laid
  <2>15. QED
    BY <1>0, <1>4, <2>2, <2>6, <2>8, <2>11, <2>12, <2>14 DEF Erases
<1>9. QED
  BY <1>6, <1>7, <1>8 DEF Erase

\* A message more, behind the others.
LEMMA AddLays ==
    ASSUME TypeOK, NEW r, NEW k, Laid(r, k), NEW m, AddMessage(m)
    PROVE  /\ k # size_queue /\ k \in 0..(size_queue - 1)
           /\ Laid(r, k + 1)'
           /\ message' = [message EXCEPT ![r[k]] = m]
           /\ \A i \in 0..(k - 1) : r[i] # r[k] /\ r[i] \in Live
           /\ Live' = Live /\ r[k] \in Live /\ size_queue' = size_queue
           /\ begin' = begin /\ begin \in Live /\ tail' \in Live
           /\ flag_is_busy' = [flag_is_busy EXCEPT ![r[k]] = TRUE]
<1>0. PICK s : s = size_queue
  OBVIOUS
<1>1. /\ s \in Nat \ {0} /\ k \in 0..s /\ k \in Nat /\ k <= s
      /\ 0 \in 0..(s - 1)
      /\ Circle(r, s, Live, next, prev) /\ r \in [0..(s - 1) -> Live]
      /\ begin = r[0] /\ tail = r[IF k = s THEN 0 ELSE k]
      /\ \A i \in 0..(k - 1) : flag_is_busy[r[i]] = TRUE
      /\ \A i \in k..(s - 1) : flag_is_busy[r[i]] = FALSE
      /\ \A i \in 0..(k - 1) : i \in 0..(s - 1)
      /\ \A i, j \in 0..(s - 1) : r[i] = r[j] => i = j
      /\ \A i \in 0..(s - 1) : r[i] \in Live
      /\ DOMAIN flag_is_busy = Live
  <2>1. NumberedBy(r, k, size_queue)
    BY LaidFacts
  <2>2. NumberedBy(r, k, s)
    BY <1>0, <2>1
  <2>3. QED
    BY <1>0, <2>2 DEF NumberedBy
<1>2. k # s
  <2>1. flag_is_busy[tail] # TRUE
    BY DEF AddMessage
  <2>2. k = s => 0 \in 0..(k - 1)
    BY <1>1
  <2>3. QED
    BY <1>1, <2>1, <2>2
<1>3. k \in 0..(s - 1) /\ k + 1 \in 0..s
  BY <1>1, <1>2
<1>4. tail = r[k] /\ r[k] \in Live
  BY <1>1, <1>2, <1>3
<1>5. /\ message' = [message EXCEPT ![r[k]] = m]
      /\ flag_is_busy' = [flag_is_busy EXCEPT ![r[k]] = TRUE]
      /\ tail' = r[Up(k, s)] /\ begin' = r[0] /\ size_queue' = s
      /\ next' = next /\ prev' = prev /\ Live' = Live
  <2>1. next[r[k]] = r[Up(k, s)]
    BY <1>1, <1>3, CircleLinks
  <2>2. QED
    BY <1>0, <1>1, <1>4, <2>1 DEF AddMessage, links, Live
<1>6. /\ flag_is_busy'[r[k]] = TRUE
      /\ \A y \in Live : y # r[k] => flag_is_busy'[y] = flag_is_busy[y]
  BY <1>1, <1>4, <1>5
<1>7. \A i \in 0..(k - 1) : r[i] # r[k] /\ r[i] \in Live
  <2>1. \A i \in 0..(k - 1) : i # k
    BY <1>1
  <2>2. QED
    BY <1>1, <1>3, <2>1
<1>8. \A i \in 0..(k + 1 - 1) : flag_is_busy'[r[i]] = TRUE
  <2>1. \A i \in 0..(k + 1 - 1) : i = k \/ i \in 0..(k - 1)
    BY <1>1
  <2>2. QED
    BY <1>1, <1>6, <1>7, <2>1
<1>9. \A i \in (k + 1)..(s - 1) : flag_is_busy'[r[i]] = FALSE
  <2>1. \A i \in (k + 1)..(s - 1) :
          i \in 0..(s - 1) /\ i \in k..(s - 1) /\ i # k
    BY <1>1
  <2>2. \A i \in (k + 1)..(s - 1) : r[i] # r[k] /\ r[i] \in Live
    BY <1>1, <1>3, <2>1
  <2>3. QED
    BY <1>1, <1>6, <2>1, <2>2
<1>10. Up(k, s) = (IF k + 1 = s THEN 0 ELSE k + 1) /\ Up(k, s) \in 0..(s - 1)
  BY <1>1, <1>3 DEF Up
<1>11. Laid(r, k + 1)'
  <2>1. Circle(r, size_queue, Live, next, prev)'
    BY <1>1, <1>5
  <2>2. tail' = r[IF k + 1 = size_queue' THEN 0 ELSE k + 1]
    BY <1>5, <1>10
  <2>3. QED
    BY <1>3, <1>5, <1>8, <1>9, <2>1, <2>2 DEF Laid
<1>12. tail' \in Live /\ begin' = begin /\ begin \in Live
  BY <1>1, <1>5, <1>10
<1>13. QED
  BY <1>0, <1>2, <1>3, <1>4, <1>5, <1>7, <1>11, <1>12

\* The first message goes, and all numbers are one less.
LEMMA ExtractLays ==
    ASSUME TypeOK, NEW r, NEW k, Laid(r, k), ExtractMessage
    PROVE  /\ k \in 1..size_queue /\ ret' = message[r[0]]
           /\ \E q : /\ Laid(q, k - 1)'
                     /\ \A i \in 0..(k - 2) : q[i] = r[i + 1]
           /\ Live' = Live /\ size_queue' = size_queue /\ message' = message
           /\ begin' \in Live /\ tail' = tail /\ r[0] \in Busy
           /\ flag_is_busy' = [flag_is_busy EXCEPT ![r[0]] = FALSE]
<1>0. PICK s : s = size_queue
  OBVIOUS
<1>1. /\ s \in Nat \ {0} /\ k \in 0..s /\ k \in Nat /\ k <= s
      /\ 0 \in 0..(s - 1)
      /\ Circle(r, s, Live, next, prev) /\ r \in [0..(s - 1) -> Live]
      /\ begin = r[0] /\ tail = r[IF k = s THEN 0 ELSE k]
      /\ \A i \in 0..(k - 1) : flag_is_busy[r[i]] = TRUE
      /\ \A i \in k..(s - 1) : flag_is_busy[r[i]] = FALSE
      /\ \A i, j \in 0..(s - 1) : r[i] = r[j] => i = j
      /\ \A i \in 0..(s - 1) : r[i] \in Live
      /\ DOMAIN flag_is_busy = Live
  <2>1. NumberedBy(r, k, size_queue)
    BY LaidFacts
  <2>2. NumberedBy(r, k, s)
    BY <1>0, <2>1
  <2>3. QED
    BY <1>0, <2>2 DEF NumberedBy
<1>2. k # 0 /\ r[0] \in Busy
  <2>1. flag_is_busy[r[0]] # FALSE
    BY <1>1 DEF ExtractMessage
  <2>2. k = 0 => 0 \in k..(s - 1)
    BY <1>1
  <2>3. flag_is_busy[r[0]]
    BY <1>1 DEF ExtractMessage
  <2>4. QED
    BY <1>1, <2>1, <2>2, <2>3 DEF Busy
<1>3. k \in 1..s /\ k - 1 \in 0..(s - 1) /\ k - 1 \in 0..s /\ k - 1 # s
  BY <1>1, <1>2
<1>4. /\ flag_is_busy' = [flag_is_busy EXCEPT ![r[0]] = FALSE]
      /\ begin' = r[Up(0, s)] /\ tail' = tail /\ size_queue' = s
      /\ next' = next /\ prev' = prev /\ message' = message /\ Live' = Live
      /\ ret' = message[r[0]]
  <2>1. next[r[0]] = r[Up(0, s)]
    BY <1>1, CircleLinks
  <2>2. QED
    BY <1>0, <1>1, <2>1 DEF ExtractMessage, links, Live
<1>5. \A i \in 0..(s - 1) : Up(i, s) \in 0..(s - 1)
  BY <1>1, UpDown
<1>6. PICK q \in [0..(s - 1) -> Live] :
         \A i \in 0..(s - 1) : q[i] = r[Up(i, s)]
  <2> DEFINE f == [i \in 0..(s - 1) |-> r[Up(i, s)]]
  <2>1. f \in [0..(s - 1) -> Live]
    BY <1>1, <1>5
  <2>2. \A i \in 0..(s - 1) : f[i] = r[Up(i, s)]
    OBVIOUS
  <2> HIDE DEF f
  <2>3. QED
    BY <2>1, <2>2
<1>7. Circle(q, s, Live, next, prev)
  BY <1>1, <1>6, CircleForward
<1>8. /\ flag_is_busy'[r[0]] = FALSE
      /\ \A y \in Live : y # r[0] => flag_is_busy'[y] = flag_is_busy[y]
  BY <1>1, <1>4
<1>9. \A i \in 0..(k - 2) : /\ i \in 0..(s - 1) /\ Up(i, s) = i + 1
                            /\ i + 1 \in 0..(k - 1) /\ i + 1 \in 0..(s - 1)
                            /\ i + 1 # 0
  BY <1>1 DEF Up
<1>10. \A i \in 0..(k - 2) : q[i] = r[i + 1]
  BY <1>6, <1>9
<1>11. \A i \in 0..(k - 2) : flag_is_busy'[q[i]] = TRUE
  <2>1. \A i \in 0..(k - 2) : r[i + 1] # r[0] /\ r[i + 1] \in Live
    BY <1>1, <1>9
  <2>2. \A i \in 0..(k - 2) : flag_is_busy[r[i + 1]] = TRUE
    BY <1>1, <1>9
  <2>3. QED
    BY <1>8, <1>10, <2>1, <2>2
<1>12. \A i \in (k - 1)..(s - 1) : flag_is_busy'[q[i]] = FALSE
  <2>1. SUFFICES ASSUME NEW i \in (k - 1)..(s - 1)
                 PROVE  flag_is_busy'[q[i]] = FALSE
    OBVIOUS
  <2>2. i \in 0..(s - 1) /\ q[i] = r[Up(i, s)]
    <3>1. i \in 0..(s - 1)
      BY <1>1, <1>3
    <3>2. QED
      BY <1>6, <3>1
  <2>3. CASE i = s - 1
    <3>1. Up(i, s) = 0
      BY <2>3 DEF Up
    <3>2. QED
      BY <1>8, <2>2, <3>1
  <2>4. CASE i # s - 1
    <3>1. Up(i, s) = i + 1 /\ i + 1 \in 0..(s - 1) /\ i + 1 # 0
          /\ i + 1 \in k..(s - 1)
      BY <1>1, <1>3, <2>4 DEF Up
    <3>2. r[i + 1] # r[0] /\ r[i + 1] \in Live
      BY <1>1, <3>1
    <3>3. flag_is_busy[r[i + 1]] = FALSE
      BY <1>1, <3>1
    <3>4. QED
      BY <1>8, <2>2, <3>1, <3>2, <3>3
  <2>5. QED
    BY <2>3, <2>4
<1>13. tail = q[k - 1]
  <2>1. Up(k - 1, s) = IF k = s THEN 0 ELSE k
    BY <1>1, <1>3 DEF Up
  <2>2. QED
    BY <1>1, <1>3, <1>6, <2>1
<1>14. q[0] = begin' /\ begin' \in Live
  BY <1>1, <1>4, <1>5, <1>6
<1>15. Laid(q, k - 1)'
  <2>1. Circle(q, size_queue, Live, next, prev)'
    BY <1>4, <1>7
  <2>2. /\ k - 1 \in 0..size_queue' /\ k - 1 # size_queue'
        /\ k - 1 - 1 = k - 2
    BY <1>1, <1>3, <1>4
  <2>3. QED
    BY <1>4, <1>11, <1>12, <1>13, <1>14, <2>1, <2>2 DEF Laid
<1>16. QED
  BY <1>0, <1>2, <1>3, <1>4, <1>10, <1>14, <1>15

------------------------------------------------------------------------------
(***************************************************************************)
(* The invariant is inductive                                              *)
(***************************************************************************)

\* A numbering after a step gives the pointers their types.
LEMMA LaidAfter ==
    ASSUME NEW r, NEW k, Laid(r, k)'
    PROVE  /\ next' \in [Live' -> Live'] /\ prev' \in [Live' -> Live']
           /\ begin' \in Live' /\ tail' \in Live'
           /\ size_queue' \in Nat \ {0}
           /\ begin' # NULL => Numbered'
<1>1. /\ Circle(r, size_queue', Live', next', prev')
      /\ k \in 0..size_queue' /\ begin' = r[0]
      /\ tail' = r[IF k = size_queue' THEN 0 ELSE k]
  BY DEF Laid
<1>2. /\ next' \in [Live' -> Live'] /\ prev' \in [Live' -> Live']
      /\ size_queue' \in Nat \ {0} /\ r \in [0..(size_queue' - 1) -> Live']
  BY <1>1 DEF Circle
<1>3. /\ 0 \in 0..(size_queue' - 1)
      /\ k = size_queue' \/ k \in 0..(size_queue' - 1)
  <2>1. \A s \in Nat \ {0} : \A l \in 0..s :
          0 \in 0..(s - 1) /\ (l = s \/ l \in 0..(s - 1))
    OBVIOUS
  <2>2. QED
    BY <1>1, <1>2, <2>1
<1>4. begin' \in Live' /\ tail' \in Live'
  BY <1>1, <1>2, <1>3
<1>5. begin' # NULL => Numbered'
  BY <1>1, <1>2 DEF Numbered
<1>6. QED
  BY <1>2, <1>4, <1>5

\* The invariant in the form the steps use.
LEMMA Facts ==
    ASSUME IInv
    PROVE  /\ MaxPlaces \in Nat /\ CounterMod \in Nat \ {0}
           /\ BUFFER_SIZE \in 1..MaxPlaces /\ BUFFER_SIZE \in Nat
           /\ Garbage \subseteq 0..(CounterMod - 1)
           /\ NULL \notin Node /\ NULL \notin Message
           /\ TypeOK /\ Numbered /\ Live \subseteq Node
           /\ message \in [Live -> Message \cup {Zeroed}]
           /\ flag_is_busy \in [Live -> BOOLEAN]
           /\ size_queue \in 0..MaxPlaces /\ boot \in 0..BUFFER_SIZE
           /\ produced \in 0..(CounterMod - 1)
           /\ consumed \in 0..(CounterMod - 1)
           /\ begin # NULL => \E r, k : Laid(r, k)
           /\ \A n \in Live : flag_is_busy[n] = TRUE => message[n] \in Message
<1>1. begin # NULL => \E r, k : Laid(r, k)
  BY DEF IInv, Numbered
<1>2. \A n \in Live : flag_is_busy[n] = TRUE => message[n] \in Message
  BY DEF IInv, MessagesReal, Busy
<1>3. QED
  BY <1>1, <1>2, RingAssumption DEF IInv, TypeOK

LEMMA InitIInv == Init => IInv
<1>1. SUFFICES ASSUME Init PROVE IInv
  OBVIOUS
<1>2. Live = {} /\ Busy = {}
  BY <1>1 DEF Init, Live, Busy
<1>3. TypeOK
  <2>1. \A S : <<>> \in [{} -> S]
    OBVIOUS
  <2>2. 0 \in 0..MaxPlaces /\ BUFFER_SIZE \in 0..BUFFER_SIZE
        /\ 0 \in 0..(CounterMod - 1)
    BY RingAssumption
  <2>3. QED
    BY <1>1, <1>2, <2>1, <2>2 DEF TypeOK, Init
<1>4. QED
  BY <1>1, <1>2, <1>3 DEF IInv, Numbered, BootEmpty, MessagesReal, Init

\* A new place is free: no busy place and no message more.
LEMMA NewPlaceIsFree ==
    ASSUME IInv, NEW n \in Node \ Live, Live' = Live \cup {n},
           message' = With(message, n, Zeroed),
           flag_is_busy' = With(flag_is_busy, n, FALSE)
    PROVE  /\ message' \in [Live' -> Message \cup {Zeroed}]
           /\ flag_is_busy' \in [Live' -> BOOLEAN]
           /\ Busy' = Busy /\ MessagesReal'
           /\ \A y \in Live : message'[y] = message[y]
<1>1. /\ message \in [Live -> Message \cup {Zeroed}]
      /\ flag_is_busy \in [Live -> BOOLEAN]
  BY Facts
<1>2. /\ message' \in [Live' -> Message \cup {Zeroed}]
      /\ flag_is_busy' \in [Live' -> BOOLEAN]
      /\ flag_is_busy'[n] = FALSE
      /\ \A y \in Live : /\ message'[y] = message[y]
                         /\ flag_is_busy'[y] = flag_is_busy[y]
  BY <1>1 DEF With
<1>3. Busy' = Busy
  BY <1>2 DEF Busy
<1>4. MessagesReal'
  BY <1>2, <1>3 DEF MessagesReal, IInv, Busy
<1>5. QED
  BY <1>2, <1>3, <1>4

\* Start-up appends find the ring empty.
LEMMA BootFindsNoMessage ==
    ASSUME IInv, boot > 0, NEW r, NEW k, Laid(r, k)
    PROVE  k = 0
<1>1. Busy = {} /\ TypeOK
  BY DEF IInv, BootEmpty
<1>2. Cardinality(Busy) = k
  BY <1>1, LaidCounts
<1>3. QED
  BY <1>1, <1>2, FS_EmptySet

LEMMA AppendStep ==
    ASSUME IInv, NEW flag_after \in BOOLEAN, AppendPlace(flag_after),
           flag_after = TRUE \/ boot > 0,
           boot' \in 0..BUFFER_SIZE, boot' > 0 => boot > 0
    PROVE  IInv'
<1>1. ret' = NULL
  BY DEF AppendPlace
<1>2. PICK n \in Node : AppendFirst(n) \/ AppendNode(n, flag_after)
  BY DEF AppendPlace
<1>3. CASE AppendFirst(n)
  <2>1. /\ \E q : Laid(q, 0)'
        /\ begin' = n /\ size_queue' = 1 /\ Live = {} /\ Live' = {n}
        /\ message' = [y \in {n} |-> Zeroed]
        /\ flag_is_busy' = [y \in {n} |-> FALSE]
    BY <1>3, Facts, AppendFirstLays
  <2>2. /\ next' \in [Live' -> Live'] /\ prev' \in [Live' -> Live']
        /\ begin' \in Live' /\ tail' \in Live'
        /\ begin' # NULL => Numbered'
    BY <2>1, LaidAfter
  <2>3. begin' # NULL /\ 1 \in 0..MaxPlaces
    BY <2>1, Facts
  <2>4. produced' \in 0..(CounterMod - 1) /\ consumed' \in 0..(CounterMod - 1)
    BY <1>3, Facts DEF AppendFirst
  <2>5. TypeOK'
    BY <1>1, <2>1, <2>2, <2>3, <2>4 DEF TypeOK
  <2>6. Busy' = {}
    BY <2>1 DEF Busy
  <2>7. BootEmpty' /\ MessagesReal'
    BY <2>6 DEF BootEmpty, MessagesReal
  <2>8. QED
    BY <2>2, <2>3, <2>5, <2>7 DEF IInv
<1>4. CASE AppendNode(n, flag_after)
  <2>1. begin # NULL /\ size_queue < MaxPlaces
        /\ size_queue' = size_queue + 1
        /\ produced' = produced /\ consumed' = consumed
    BY <1>4 DEF AppendNode
  <2>2. PICK r, k : Laid(r, k)
    BY <2>1, Facts
  <2>3. flag_after = TRUE \/ k = 0
    BY <2>2, BootFindsNoMessage
  <2>0. TypeOK
    BY Facts
  <2>4. /\ \E q : Laid(q, k)' /\ \A i \in 0..(k - 1) : q[i] = r[i]
        /\ begin' \in Live' /\ tail' \in Live'
        /\ n \notin Live /\ Live' = Live \cup {n}
        /\ message' = With(message, n, Zeroed)
        /\ flag_is_busy' = With(flag_is_busy, n, FALSE)
    BY <1>4, <2>2, <2>3, <2>0, AppendNodeLays
  <2>5. /\ next' \in [Live' -> Live'] /\ prev' \in [Live' -> Live']
        /\ begin' \in Live' /\ tail' \in Live'
        /\ begin' # NULL => Numbered'
    BY <2>4, LaidAfter
  <2>6. /\ message' \in [Live' -> Message \cup {Zeroed}]
        /\ flag_is_busy' \in [Live' -> BOOLEAN]
        /\ Busy' = Busy /\ MessagesReal'
    BY <2>4, NewPlaceIsFree
  <2>7. Live' \subseteq Node /\ begin' # NULL
    BY <2>4, <2>5, Facts
  <2>8. size_queue' \in 0..MaxPlaces
    BY <2>1, Facts
  <2>9. next' \in [Live' -> Node] /\ prev' \in [Live' -> Node]
    BY <2>5, <2>7
  <2>10. TypeOK'
    BY <1>1, <2>1, <2>5, <2>6, <2>7, <2>8, <2>9, Facts DEF TypeOK
  <2>11. BootEmpty'
    BY <2>6 DEF BootEmpty, IInv
  <2>12. QED
    BY <2>5, <2>6, <2>7, <2>10, <2>11 DEF IInv
<1>5. QED
  BY <1>2, <1>3, <1>4

\* The busy places and their messages when a place has gone.
LEMMA PlaceIsGone ==
    ASSUME IInv, NEW n, message' = Without(message, n),
           flag_is_busy' = Without(flag_is_busy, n), Live' = Live \ {n}
    PROVE  /\ message' \in [Live' -> Message \cup {Zeroed}]
           /\ flag_is_busy' \in [Live' -> BOOLEAN]
           /\ MessagesReal'
           /\ \A y \in Live' : message'[y] = message[y]
<1>1. /\ message \in [Live -> Message \cup {Zeroed}]
      /\ flag_is_busy \in [Live -> BOOLEAN]
  BY Facts
<1>2. /\ message' \in [Live' -> Message \cup {Zeroed}]
      /\ flag_is_busy' \in [Live' -> BOOLEAN]
      /\ \A y \in Live' : /\ message'[y] = message[y]
                          /\ flag_is_busy'[y] = flag_is_busy[y]
  BY <1>1 DEF Without
<1>3. MessagesReal'
  BY <1>2 DEF MessagesReal, IInv, Busy
<1>4. QED
  BY <1>2, <1>3

LEMMA EraseStep == IInv /\ Erase => IInv'
<1>1. SUFFICES ASSUME IInv, Erase PROVE IInv'
  OBVIOUS
<1>2. /\ boot = 0 /\ begin # NULL /\ size_queue' = size_queue - 1
      /\ produced' = produced /\ consumed' = consumed /\ boot' = boot
  BY <1>1 DEF Erase
<1>3. PICK r, k : Laid(r, k)
  BY <1>1, <1>2, Facts
<1>4. TypeOK /\ size_queue \in Nat \ {0}
  BY <1>1, <1>3, Facts DEF Laid, Circle
<1>5. size_queue' \in 0..MaxPlaces /\ boot' \in 0..BUFFER_SIZE /\ ~ (boot' > 0)
  BY <1>1, <1>2, <1>4, Facts
<1>6. CASE size_queue = 1
  <2>1. /\ begin' = NULL /\ tail' = NULL /\ Live' = {} /\ size_queue' = 0
        /\ next' = <<>> /\ prev' = <<>> /\ Live = {begin}
        /\ message' = Without(message, begin)
        /\ flag_is_busy' = Without(flag_is_busy, begin)
        /\ k \in 0..1 /\ (k = 1 => ret' = TRUE) /\ (k = 0 => ret' = FALSE)
    BY <1>1, <1>3, <1>4, <1>6, EraseLastLays
  <2>2. ret' \in BOOLEAN
    <3>1. k = 0 \/ k = 1
      BY <2>1
    <3>2. QED
      BY <2>1, <3>1
  <2>3. /\ message' \in [Live' -> Message \cup {Zeroed}]
        /\ flag_is_busy' \in [Live' -> BOOLEAN] /\ MessagesReal'
    BY <1>1, <2>1, PlaceIsGone
  <2>4. next' \in [Live' -> Node] /\ prev' \in [Live' -> Node]
    BY <2>1
  <2>5. TypeOK'
    BY <1>1, <1>2, <1>5, <2>1, <2>2, <2>3, <2>4, Facts DEF TypeOK
  <2>6. Numbered' /\ BootEmpty'
    BY <1>5, <2>1 DEF Numbered, BootEmpty
  <2>7. QED
    BY <2>3, <2>5, <2>6 DEF IInv
<1>7. CASE size_queue # 1
  <2>1. /\ k = size_queue => ret' = TRUE
        /\ k # size_queue => ret' = FALSE
        /\ \E n \in Live : /\ Live' = Live \ {n}
                           /\ message' = Without(message, n)
                           /\ flag_is_busy' = Without(flag_is_busy, n)
        /\ \E q, l : Laid(q, l)'
    <3>1. Erases(r, k)
      BY <1>1, <1>3, <1>4, <1>7, EraseLays
    <3>2. QED
      BY <3>1 DEF Erases
  <2>2. ret' \in BOOLEAN
    BY <2>1
  <2>3. /\ message' \in [Live' -> Message \cup {Zeroed}]
        /\ flag_is_busy' \in [Live' -> BOOLEAN] /\ MessagesReal'
    BY <1>1, <2>1, PlaceIsGone
  <2>4. /\ next' \in [Live' -> Live'] /\ prev' \in [Live' -> Live']
        /\ begin' \in Live' /\ tail' \in Live'
        /\ begin' # NULL => Numbered'
    BY <2>1, LaidAfter
  <2>5. Live' \subseteq Node /\ begin' # NULL
    BY <1>1, <2>1, <2>4, Facts
  <2>6. next' \in [Live' -> Node] /\ prev' \in [Live' -> Node]
    BY <2>4, <2>5
  <2>7. TypeOK'
    BY <1>1, <1>2, <1>5, <2>2, <2>3, <2>4, <2>5, <2>6, Facts DEF TypeOK
  <2>8. BootEmpty'
    BY <1>5 DEF BootEmpty
  <2>9. QED
    BY <2>3, <2>4, <2>5, <2>7, <2>8 DEF IInv
<1>8. QED
  BY <1>6, <1>7

LEMMA AddStep ==
    ASSUME IInv, NEW m \in Message, AddMessage(m)
    PROVE  IInv'
<1>1. /\ boot = 0 /\ begin # NULL /\ ret' = NULL /\ boot' = boot
      /\ produced' = (produced + 1) % CounterMod /\ consumed' = consumed
      /\ next' = next /\ prev' = prev
  BY DEF AddMessage, links
<1>2. PICK r, k : Laid(r, k)
  BY <1>1, Facts
<1>3. /\ Laid(r, k + 1)' /\ message' = [message EXCEPT ![r[k]] = m]
      /\ Live' = Live /\ r[k] \in Live /\ size_queue' = size_queue
      /\ begin' = begin /\ begin \in Live /\ tail' \in Live
      /\ flag_is_busy' = [flag_is_busy EXCEPT ![r[k]] = TRUE]
  BY <1>2, Facts, AddLays
<1>4. /\ message' \in [Live' -> Message \cup {Zeroed}]
      /\ flag_is_busy' \in [Live' -> BOOLEAN]
      /\ message'[r[k]] = m
      /\ \A y \in Live : y # r[k] => /\ message'[y] = message[y]
                                     /\ flag_is_busy'[y] = flag_is_busy[y]
  BY <1>3, Facts
<1>5. produced' \in 0..(CounterMod - 1)
  BY <1>1, Facts
<1>6. TypeOK'
  BY <1>1, <1>3, <1>4, <1>5 DEF TypeOK, IInv
<1>7. Numbered'
  BY <1>1, <1>3, LaidAfter
<1>8. MessagesReal'
  BY <1>3, <1>4 DEF MessagesReal, IInv, Busy
<1>9. BootEmpty'
  BY <1>1 DEF BootEmpty
<1>10. QED
  BY <1>6, <1>7, <1>8, <1>9 DEF IInv

LEMMA ExtractStep == IInv /\ ExtractMessage => IInv'
<1>1. SUFFICES ASSUME IInv, ExtractMessage PROVE IInv'
  OBVIOUS
<1>2. /\ boot = 0 /\ begin # NULL /\ boot' = boot
      /\ consumed' = (consumed + 1) % CounterMod /\ produced' = produced
      /\ next' = next /\ prev' = prev
  BY <1>1 DEF ExtractMessage, links
<1>3. PICK r, k : Laid(r, k)
  BY <1>1, <1>2, Facts
<1>4. /\ ret' = message[r[0]] /\ \E q : Laid(q, k - 1)'
      /\ Live' = Live /\ size_queue' = size_queue /\ message' = message
      /\ begin' \in Live /\ tail' = tail /\ r[0] \in Busy
      /\ flag_is_busy' = [flag_is_busy EXCEPT ![r[0]] = FALSE]
  BY <1>1, <1>3, Facts, ExtractLays
<1>5. /\ flag_is_busy' \in [Live' -> BOOLEAN]
      /\ \A y \in Live : flag_is_busy'[y] => flag_is_busy[y]
  BY <1>1, <1>4, Facts
<1>6. consumed' \in 0..(CounterMod - 1)
  BY <1>1, <1>2, Facts
<1>7. ret' \in Message
  BY <1>1, <1>4 DEF IInv, MessagesReal
<1>8. TypeOK'
  BY <1>1, <1>2, <1>4, <1>5, <1>6, <1>7 DEF TypeOK, IInv
<1>9. Numbered'
  <2>1. begin' # NULL
    BY <1>1, <1>4, Facts
  <2>2. QED
    BY <1>4, <2>1, LaidAfter
<1>10. MessagesReal'
  BY <1>1, <1>4, <1>5 DEF MessagesReal, IInv, Busy
<1>11. BootEmpty'
  BY <1>1, <1>2 DEF BootEmpty
<1>12. QED
  BY <1>8, <1>9, <1>10, <1>11 DEF IInv

\* A refused call changes ret only.
LEMMA RefusedStep ==
    ASSUME IInv, ret' \in Message \cup BOOLEAN \cup {NULL},
           UNCHANGED <<begin, tail, size_queue, produced, consumed, links,
                       content, boot>>
    PROVE  IInv' /\ \A r, k : Laid(r, k) => Laid(r, k)'
<1>1. \A r, k : Laid(r, k) => Laid(r, k)'
  BY DEF Laid, Live, links, content
<1>2. TypeOK'
  BY DEF IInv, TypeOK, Live, links, content
<1>3. Numbered'
  <2>1. CASE begin = NULL
    BY <2>1 DEF IInv, Numbered, Live, links, content
  <2>2. CASE begin # NULL
    <3>1. PICK r \in [0..(size_queue - 1) -> Live], k \in 0..size_queue :
             Laid(r, k)
      BY <2>2 DEF IInv, Numbered
    <3>2. Laid(r, k)'
      BY <1>1, <3>1
    <3>3. begin' = begin /\ size_queue' = size_queue /\ Live' = Live
      BY DEF Live, links
    <3>4. QED
      BY <2>2, <3>2, <3>3 DEF Numbered
  <2>3. QED
    BY <2>1, <2>2
<1>4. BootEmpty' /\ MessagesReal'
  BY DEF IInv, BootEmpty, MessagesReal, Busy, Live, links, content
<1>5. QED
  BY <1>1, <1>2, <1>3, <1>4 DEF IInv

\* The invariant is kept by every step.
LEMMA InvariantStep == IInv /\ [Next]_vars => IInv'
<1>1. SUFFICES ASSUME IInv, [Next]_vars PROVE IInv'
  OBVIOUS
<1>2. CASE BootAppend
  <2>1. boot > 0 /\ boot' = boot - 1 /\ AppendPlace(FALSE)
    BY <1>2 DEF BootAppend
  <2>2. boot' \in 0..BUFFER_SIZE
    BY <1>1, <2>1, Facts
  <2>3. QED
    BY <1>1, <2>1, <2>2, AppendStep
<1>3. CASE Append_
  <2>1. boot' = boot /\ AppendPlace(TRUE)
    BY <1>3 DEF Append_
  <2>2. QED
    BY <1>1, <2>1, Facts, AppendStep
<1>4. CASE Erase
  BY <1>1, <1>4, EraseStep
<1>5. CASE \E m \in Message : AddMessage(m)
  BY <1>1, <1>5, AddStep
<1>6. CASE AddMessageRefused
  BY <1>1, <1>6, RefusedStep DEF AddMessageRefused
<1>7. CASE ExtractMessage
  BY <1>1, <1>7, ExtractStep
<1>8. CASE ExtractMessageRefused
  BY <1>1, <1>8, RefusedStep DEF ExtractMessageRefused
<1>9. CASE UNCHANGED vars
  <2>1. ret' \in Message \cup BOOLEAN \cup {NULL}
    BY <1>1, <1>9 DEF vars, IInv, TypeOK
  <2>2. QED
    BY <1>1, <1>9, <2>1, RefusedStep DEF vars
<1>10. QED
  BY <1>1, <1>2, <1>3, <1>4, <1>5, <1>6, <1>7, <1>8, <1>9 DEF Next

------------------------------------------------------------------------------
(***************************************************************************)
(* What each step does to the queue of messages                            *)
(***************************************************************************)

\* The same messages at the same numbers: the same contents.
LEMMA SameContents ==
    ASSUME TypeOK, TypeOK', NEW r, NEW k, Laid(r, k), NEW q, Laid(q, k)',
           \A i \in 0..(k - 1) : message'[q[i]] = message[r[i]]
    PROVE  Contents' = Contents
<1> DEFINE S == Message \cup {Zeroed}
<1>1. /\ Contents \in Seq(S) /\ Len(Contents) = k
      /\ \A i \in 1..k : Contents[i] = message[r[i - 1]]
  BY NumberingIsRead DEF NumberingReads, Reads
<1>2. /\ Contents' \in Seq(S) /\ Len(Contents') = k
      /\ \A i \in 1..k : Contents'[i] = message'[q[i - 1]]
  BY NumberingIsReadAfter DEF NumberingReads, Reads
<1>3. \A i \in 1..k : i - 1 \in 0..(k - 1)
  BY DEF Laid
<1>4. \A i \in 1..Len(Contents) : Contents'[i] = Contents[i]
  BY <1>1, <1>2, <1>3
<1> HIDE DEF S
<1>5. QED
  BY <1>1, <1>2, <1>4, SeqEqual

\* Every number one less: the oldest message is gone.
LEMMA OneMessageLess ==
    ASSUME TypeOK, TypeOK', NEW r, NEW k, Laid(r, k), k # 0,
           NEW q, Laid(q, k - 1)',
           \A i \in 0..(k - 2) : message'[q[i]] = message[r[i + 1]]
    PROVE  /\ Contents # <<>> /\ Contents' = Tail(Contents)
           /\ Head(Contents) = message[r[0]]
<1> DEFINE S == Message \cup {Zeroed}
<1>0. k \in Nat \ {0}
  BY DEF Laid, Circle
<1>1. /\ Contents \in Seq(S) /\ Len(Contents) = k
      /\ \A i \in 1..k : Contents[i] = message[r[i - 1]]
  BY NumberingIsRead DEF NumberingReads, Reads
<1>2. /\ Contents' \in Seq(S) /\ Len(Contents') = k - 1
      /\ \A i \in 1..(k - 1) : Contents'[i] = message'[q[i - 1]]
  BY NumberingIsReadAfter DEF NumberingReads, Reads
<1> HIDE DEF S
<1>3. Contents # <<>>
  BY <1>0, <1>1, EmptySeq
<1>4. /\ Tail(Contents) \in Seq(S) /\ Len(Tail(Contents)) = k - 1
      /\ \A i \in 1..(k - 1) : Tail(Contents)[i] = Contents[i + 1]
  <2>1. /\ Tail(Contents) \in Seq(S)
        /\ Len(Tail(Contents)) = Len(Contents) - 1
        /\ \A i \in 1..Len(Tail(Contents)) :
             Tail(Contents)[i] = Contents[i + 1]
    BY <1>1, <1>3, HeadTailProperties
  <2>2. QED
    BY <1>1, <2>1
<1>5. \A i \in 1..(k - 1) : /\ i + 1 \in 1..k /\ i + 1 - 1 = i
                            /\ i - 1 \in 0..(k - 2) /\ i - 1 + 1 = i
  BY <1>0
<1>6. \A i \in 1..(k - 1) : Contents'[i] = Tail(Contents)[i]
  <2>1. SUFFICES ASSUME NEW i \in 1..(k - 1)
                 PROVE  Contents'[i] = Tail(Contents)[i]
    OBVIOUS
  <2>2. Contents'[i] = message[r[i]]
    BY <1>2, <1>5
  <2>3. Tail(Contents)[i] = message[r[i]]
    BY <1>1, <1>4, <1>5
  <2>4. QED
    BY <2>2, <2>3
<1>7. Contents' = Tail(Contents)
  BY <1>2, <1>4, <1>6, SeqEqual
<1>8. Head(Contents) = message[r[0]]
  <2>1. 1 \in 1..k /\ 1 - 1 = 0
    BY <1>0
  <2>2. Head(Contents) = Contents[1]
    BY <1>1, <1>3
  <2>3. QED
    BY <1>1, <2>1, <2>2
<1>9. QED
  BY <1>3, <1>7, <1>8

\* A message behind the others.
LEMMA OneMessageMore ==
    ASSUME TypeOK, TypeOK', NEW r, NEW k, Laid(r, k), Laid(r, k + 1)',
           NEW m \in Message, message'[r[k]] = m,
           \A i \in 0..(k - 1) : message'[r[i]] = message[r[i]]
    PROVE  Contents' = Append(Contents, m)
<1> DEFINE S == Message \cup {Zeroed}
<1>0. k \in Nat
  BY DEF Laid, Circle
<1>1. /\ Contents \in Seq(S) /\ Len(Contents) = k /\ m \in S
      /\ \A i \in 1..k : Contents[i] = message[r[i - 1]]
  BY NumberingIsRead DEF NumberingReads, Reads
<1>2. /\ Contents' \in Seq(S) /\ Len(Contents') = k + 1
      /\ \A i \in 1..(k + 1) : Contents'[i] = message'[r[i - 1]]
  BY NumberingIsReadAfter DEF NumberingReads, Reads
<1> HIDE DEF S
<1>3. /\ Append(Contents, m) \in Seq(S) /\ Len(Append(Contents, m)) = k + 1
      /\ \A i \in 1..k : Append(Contents, m)[i] = Contents[i]
      /\ Append(Contents, m)[k + 1] = m
  BY <1>1, AppendProperties
<1>4. \A i \in 1..(k + 1) : Contents'[i] = Append(Contents, m)[i]
  <2>1. SUFFICES ASSUME NEW i \in 1..(k + 1)
                 PROVE  Contents'[i] = Append(Contents, m)[i]
    OBVIOUS
  <2>2. CASE i = k + 1
    <3>1. i - 1 = k
      BY <1>0, <2>2
    <3>2. QED
      BY <1>2, <1>3, <2>2, <3>1
  <2>3. CASE i # k + 1
    <3>1. i \in 1..k /\ i - 1 \in 0..(k - 1)
      BY <1>0, <2>3
    <3>2. QED
      BY <1>1, <1>2, <1>3, <3>1
  <2>4. QED
    BY <2>2, <2>3
<1>5. QED
  BY <1>2, <1>3, <1>4, SeqEqual

\* The effects a step can have on the queue, whatever it does to the ring.
PlaceAdded ==
    /\ size_queue < MaxPlaces /\ size_queue' = size_queue + 1
    /\ Contents' = Contents /\ ret' = NULL
    /\ begin # NULL => produced' = produced /\ consumed' = consumed

FreePlaceGone ==
    /\ Len(Contents) # size_queue
    /\ size_queue > 0 /\ size_queue' = size_queue - 1
    /\ Contents' = Contents /\ ret' = FALSE
    /\ produced' = produced /\ consumed' = consumed

OldestGone ==
    /\ Len(Contents) = size_queue
    /\ size_queue > 0 /\ size_queue' = size_queue - 1
    /\ Contents # <<>> /\ Contents' = Tail(Contents) /\ ret' = TRUE
    /\ produced' = produced /\ consumed' = consumed

MessageAdded(m) ==
    /\ Len(Contents) # size_queue
    /\ Contents' = Append(Contents, m) /\ ret' = NULL
    /\ size_queue' = size_queue
    /\ produced' = (produced + 1) % CounterMod /\ consumed' = consumed

MessageTaken ==
    /\ Contents # <<>>
    /\ Contents' = Tail(Contents) /\ ret' = Head(Contents)
    /\ size_queue' = size_queue
    /\ produced' = produced /\ consumed' = (consumed + 1) % CounterMod

Refused ==
    /\ Contents = <<>> \/ (Len(Contents) = size_queue /\ Message # {})
    /\ ret' = NULL
    /\ Contents' = Contents /\ size_queue' = size_queue
    /\ produced' = produced /\ consumed' = consumed

Nothing ==
    /\ ret' = ret
    /\ Contents' = Contents /\ size_queue' = size_queue
    /\ produced' = produced /\ consumed' = consumed

QueueStep ==
    \/ PlaceAdded \/ FreePlaceGone \/ OldestGone
    \/ \E m \in Message : MessageAdded(m)
    \/ MessageTaken \/ Refused \/ Nothing

\* How many messages there are, and none when there is no queue.
LEMMA ContentsOf ==
    ASSUME IInv
    PROVE  /\ begin = NULL => Contents = <<>> /\ size_queue = 0
           /\ \A r, k : Laid(r, k) => /\ Len(Contents) = k
                                      /\ Contents \in Seq(Message \cup {Zeroed})
                                      /\ k = 0 <=> Contents = <<>>
<1>1. TypeOK /\ Numbered
  BY DEF IInv
<1>2. begin = NULL => Contents = <<>> /\ size_queue = 0
  BY <1>1, NumberingIsRead DEF NumberingReads, Numbered
<1>3. ASSUME NEW r, NEW k, Laid(r, k)
      PROVE  /\ Len(Contents) = k
             /\ Contents \in Seq(Message \cup {Zeroed})
             /\ k = 0 <=> Contents = <<>>
  <2>1. Len(Contents) = k /\ Contents \in Seq(Message \cup {Zeroed})
    BY <1>1, <1>3, NumberingIsRead DEF NumberingReads, Reads
  <2>2. k = 0 <=> Contents = <<>>
    BY <2>1, EmptySeq
  <2>3. QED
    BY <2>1, <2>2
<1>4. QED
  BY <1>2, <1>3

LEMMA ContentsAfter ==
    ASSUME IInv'
    PROVE  /\ begin' = NULL => Contents' = <<>>
           /\ \A r, k : Laid(r, k)' =>
                /\ Len(Contents') = k
                /\ k = 0 <=> Contents' = <<>>
<1>1. TypeOK' /\ Numbered'
  BY DEF IInv
<1>2. begin' = NULL => Contents' = <<>>
  BY <1>1, NumberingIsReadAfter DEF NumberingReads
<1>3. ASSUME NEW r, NEW k, Laid(r, k)'
      PROVE  Len(Contents') = k /\ (k = 0 <=> Contents' = <<>>)
  <2>1. Len(Contents') = k /\ Contents' \in Seq(Message \cup {Zeroed})
    BY <1>1, <1>3, NumberingIsReadAfter DEF NumberingReads, Reads
  <2>2. k = 0 <=> Contents' = <<>>
    BY <2>1, EmptySeq
  <2>3. QED
    BY <2>1, <2>2
<1>4. QED
  BY <1>2, <1>3

LEMMA AppendEffect ==
    ASSUME IInv, IInv', NEW flag_after \in BOOLEAN, AppendPlace(flag_after),
           flag_after = TRUE \/ boot > 0
    PROVE  PlaceAdded
<1>1. ret' = NULL
  BY DEF AppendPlace
<1>2. PICK n \in Node : AppendFirst(n) \/ AppendNode(n, flag_after)
  BY DEF AppendPlace
<1>3. TypeOK /\ TypeOK'
  BY DEF IInv
<1>4. CASE AppendFirst(n)
  <2>1. PICK q : Laid(q, 0)'
    BY <1>3, <1>4, AppendFirstLays DEF IInv
  <2>2. size_queue' = 1 /\ begin = NULL
    BY <1>4 DEF AppendFirst
  <2>3. Contents = <<>> /\ size_queue = 0
    BY <2>2, ContentsOf
  <2>4. Contents' = <<>>
    BY <2>1, ContentsAfter
  <2>5. 0 < MaxPlaces
    BY Facts
  <2>6. QED
    BY <1>1, <2>2, <2>3, <2>4, <2>5 DEF PlaceAdded
<1>5. CASE AppendNode(n, flag_after)
  <2>1. begin # NULL /\ size_queue < MaxPlaces
        /\ size_queue' = size_queue + 1
        /\ produced' = produced /\ consumed' = consumed
    BY <1>5 DEF AppendNode
  <2>2. PICK r, k : Laid(r, k)
    BY <2>1, Facts
  <2>3. flag_after = TRUE \/ k = 0
    BY <2>2, BootFindsNoMessage
  <2>4. /\ \E q : Laid(q, k)' /\ \A i \in 0..(k - 1) : q[i] = r[i]
        /\ begin' \in Live' /\ tail' \in Live'
        /\ n \notin Live /\ Live' = Live \cup {n}
        /\ message' = With(message, n, Zeroed)
        /\ flag_is_busy' = With(flag_is_busy, n, FALSE)
    BY <1>3, <1>5, <2>2, <2>3, AppendNodeLays
  <2>5. PICK q : Laid(q, k)' /\ \A i \in 0..(k - 1) : q[i] = r[i]
    BY <2>4
  <2>6. \A y \in Live : message'[y] = message[y]
    BY <2>4, NewPlaceIsFree
  <2>7. \A i \in 0..(k - 1) : r[i] \in Live
    BY <1>3, <2>2, LaidFacts DEF NumberedBy
  <2>8. \A i \in 0..(k - 1) : message'[q[i]] = message[r[i]]
    BY <2>5, <2>6, <2>7
  <2>9. Contents' = Contents
    BY <1>3, <2>2, <2>5, <2>8, SameContents
  <2>10. QED
    BY <1>1, <2>1, <2>9 DEF PlaceAdded
<1>6. QED
  BY <1>2, <1>4, <1>5

LEMMA EraseEffect ==
    ASSUME IInv, IInv', Erase
    PROVE  FreePlaceGone \/ OldestGone
<1>1. /\ begin # NULL /\ size_queue' = size_queue - 1
      /\ produced' = produced /\ consumed' = consumed
  BY DEF Erase
<1>2. PICK r, k : Laid(r, k)
  BY <1>1, Facts
<1>3. TypeOK /\ TypeOK' /\ Len(Contents) = k /\ (k = 0 <=> Contents = <<>>)
      /\ Contents \in Seq(Message \cup {Zeroed})
  BY <1>2, ContentsOf DEF IInv
<1>4. size_queue \in Nat \ {0} /\ size_queue > 0 /\ k \in 0..size_queue
  BY <1>2 DEF Laid, Circle
<1>5. CASE size_queue = 1
  <2>1. /\ begin' = NULL /\ k \in 0..1
        /\ k = 1 => ret' = TRUE
        /\ k = 0 => ret' = FALSE
    BY <1>2, <1>3, <1>5, EraseLastLays
  <2>2. Contents' = <<>>
    BY <2>1, ContentsAfter
  <2>3. CASE k = 0
    BY <1>1, <1>3, <1>4, <1>5, <2>1, <2>2, <2>3 DEF FreePlaceGone
  <2>4. CASE k = 1
    <3>1. Contents # <<>>
      BY <1>3, <2>4
    <3>2. /\ Tail(Contents) \in Seq(Message \cup {Zeroed})
          /\ Len(Tail(Contents)) = 0
      <4>1. /\ Tail(Contents) \in Seq(Message \cup {Zeroed})
            /\ Len(Tail(Contents)) = Len(Contents) - 1
        BY <1>3, <3>1, HeadTailProperties
      <4>2. QED
        BY <1>3, <2>4, <4>1
    <3>3. Tail(Contents) = <<>>
      BY <3>2, EmptySeq
    <3>4. QED
      BY <1>1, <1>3, <1>4, <1>5, <2>1, <2>2, <2>4, <3>1, <3>3 DEF OldestGone
  <2>5. QED
    <3>1. k = 0 \/ k = 1
      BY <2>1
    <3>2. QED
      BY <2>3, <2>4, <3>1
<1>6. CASE size_queue # 1
  <2>1. Erases(r, k)
    BY <1>2, <1>3, <1>6, EraseLays
  <2>2. \A y \in Live' : message'[y] = message[y]
    BY <2>1, PlaceIsGone DEF Erases
  <2>3. CASE k = size_queue
    <3>1. PICK q : Laid(q, k - 1)' /\ \A i \in 0..(k - 2) : q[i] = r[i + 1]
      BY <2>1, <2>3 DEF Erases
    <3>2. \A i \in 0..(k - 2) : q[i] \in Live'
      <4>1. q \in [0..(size_queue' - 1) -> Live']
        BY <3>1 DEF Laid, Circle
      <4>2. size_queue' - 1 = k - 2
        BY <1>1, <1>4, <2>3
      <4>3. QED
        BY <4>1, <4>2
    <3>3. \A i \in 0..(k - 2) : message'[q[i]] = message[r[i + 1]]
      BY <2>2, <3>1, <3>2
    <3>4. k # 0
      BY <1>4, <2>3
    <3>5. Contents # <<>> /\ Contents' = Tail(Contents)
      BY <1>2, <1>3, <3>1, <3>3, <3>4, OneMessageLess
    <3>6. ret' = TRUE
      BY <2>1, <2>3 DEF Erases
    <3>7. QED
      BY <1>1, <1>3, <1>4, <2>3, <3>5, <3>6 DEF OldestGone
  <2>4. CASE k # size_queue
    <3>1. PICK q : Laid(q, k)' /\ \A i \in 0..(k - 1) : q[i] = r[i]
      BY <2>1, <2>4 DEF Erases
    <3>2. \A i \in 0..(k - 1) : q[i] \in Live'
      <4>1. q \in [0..(size_queue' - 1) -> Live']
        BY <3>1 DEF Laid, Circle
      <4>2. \A i \in 0..(k - 1) : i \in 0..(size_queue - 1 - 1)
        BY <1>4, <2>4
      <4>3. QED
        BY <1>1, <4>1, <4>2
    <3>3. \A i \in 0..(k - 1) : message'[q[i]] = message[r[i]]
      BY <2>2, <3>1, <3>2
    <3>4. Contents' = Contents
      BY <1>2, <1>3, <3>1, <3>3, SameContents
    <3>5. ret' = FALSE
      BY <2>1, <2>4 DEF Erases
    <3>6. QED
      BY <1>1, <1>3, <1>4, <2>4, <3>4, <3>5 DEF FreePlaceGone
  <2>5. QED
    BY <2>3, <2>4
<1>7. QED
  BY <1>5, <1>6

LEMMA AddEffect ==
    ASSUME IInv, IInv', NEW m \in Message, AddMessage(m)
    PROVE  MessageAdded(m)
<1>1. /\ begin # NULL /\ ret' = NULL
      /\ produced' = (produced + 1) % CounterMod /\ consumed' = consumed
  BY DEF AddMessage
<1>2. PICK r, k : Laid(r, k)
  BY <1>1, Facts
<1>3. TypeOK /\ TypeOK' /\ Len(Contents) = k
  BY <1>2, ContentsOf DEF IInv
<1>4. /\ k # size_queue /\ Laid(r, k + 1)'
      /\ message' = [message EXCEPT ![r[k]] = m]
      /\ \A i \in 0..(k - 1) : r[i] # r[k] /\ r[i] \in Live
      /\ r[k] \in Live /\ size_queue' = size_queue
  BY <1>2, <1>3, AddLays
<1>5. DOMAIN message = Live
  BY <1>3 DEF TypeOK
<1>6. /\ message'[r[k]] = m
      /\ \A i \in 0..(k - 1) : message'[r[i]] = message[r[i]]
  BY <1>4, <1>5
<1>7. Contents' = Append(Contents, m)
  BY <1>2, <1>3, <1>4, <1>6, OneMessageMore
<1>8. QED
  BY <1>1, <1>3, <1>4, <1>7 DEF MessageAdded

LEMMA ExtractEffect ==
    ASSUME IInv, IInv', ExtractMessage
    PROVE  MessageTaken
<1>1. /\ begin # NULL
      /\ consumed' = (consumed + 1) % CounterMod /\ produced' = produced
  BY DEF ExtractMessage
<1>2. PICK r, k : Laid(r, k)
  BY <1>1, Facts
<1>3. TypeOK /\ TypeOK'
  BY DEF IInv
<1>4. /\ k \in 1..size_queue /\ ret' = message[r[0]]
      /\ \E q : /\ Laid(q, k - 1)'
                /\ \A i \in 0..(k - 2) : q[i] = r[i + 1]
      /\ Live' = Live /\ size_queue' = size_queue /\ message' = message
  BY <1>2, <1>3, ExtractLays
<1>5. PICK q : Laid(q, k - 1)' /\ \A i \in 0..(k - 2) : q[i] = r[i + 1]
  BY <1>4
<1>6. \A i \in 0..(k - 2) : message'[q[i]] = message[r[i + 1]]
  BY <1>4, <1>5
<1>7. k # 0
  BY <1>4
<1>8. /\ Contents # <<>> /\ Contents' = Tail(Contents)
      /\ Head(Contents) = message[r[0]]
  BY <1>2, <1>3, <1>5, <1>6, <1>7, OneMessageLess
<1>9. QED
  BY <1>1, <1>4, <1>8 DEF MessageTaken

\* The ring is not touched.
LEMMA SameRing ==
    ASSUME IInv, IInv',
           UNCHANGED <<begin, tail, size_queue, produced, consumed, links,
                       content, boot>>
    PROVE  Contents' = Contents
<1>1. CASE begin = NULL
  BY <1>1, ContentsOf, ContentsAfter
<1>2. CASE begin # NULL
  <2>1. PICK r, k : Laid(r, k)
    BY <1>2, Facts
  <2>2. Laid(r, k)'
    BY <2>1 DEF Laid, Live, links, content
  <2>3. TypeOK /\ TypeOK'
    BY DEF IInv
  <2>4. message' = message
    BY DEF content
  <2>5. QED
    BY <2>1, <2>2, <2>3, <2>4, SameContents
<1>3. QED
  BY <1>1, <1>2

\* add_message refuses only when every place holds a message.
LEMMA AddRefusedEffect ==
    ASSUME IInv, IInv', AddMessageRefused
    PROVE  Refused
<1>1. /\ begin # NULL => flag_is_busy[tail]
      /\ ret' = NULL /\ Contents' = Contents
      /\ size_queue' = size_queue
      /\ produced' = produced /\ consumed' = consumed
  BY SameRing DEF AddMessageRefused
<1>2. CASE begin = NULL
  BY <1>1, <1>2, ContentsOf DEF Refused
<1>3. CASE begin # NULL
  <2>1. PICK r, k : Laid(r, k)
    BY <1>3, Facts
  <2>2. Len(Contents) = k /\ TypeOK
    BY <2>1, ContentsOf DEF IInv
  <2>3. k = size_queue
    <3>1. SUFFICES ASSUME k # size_queue PROVE FALSE
      OBVIOUS
    <3>2. k \in k..(size_queue - 1) /\ tail = r[k]
      BY <2>1, <3>1 DEF Laid, Circle
    <3>3. flag_is_busy[tail] = FALSE
      BY <2>1, <3>2 DEF Laid
    <3>4. QED
      BY <1>1, <1>3, <3>3
  <2>4. tail \in Live /\ flag_is_busy[tail] = TRUE
    <3>1. tail \in Live
      <4>1. NumberedBy(r, k, size_queue)
        BY <2>1, <2>2, LaidFacts
      <4>2. tail = r[0] /\ r[0] \in Live
        BY <2>3, <4>1 DEF NumberedBy
      <4>3. QED
        BY <4>2
    <3>2. flag_is_busy[tail] \in BOOLEAN
      BY <3>1, Facts
    <3>3. QED
      BY <1>1, <1>3, <3>1, <3>2
  <2>5. Message # {}
    BY <2>4, Facts
  <2>6. QED
    BY <1>1, <2>2, <2>3, <2>5 DEF Refused
<1>4. QED
  BY <1>2, <1>3

\* extract_message refuses only when there is no message.
LEMMA ExtractRefusedEffect ==
    ASSUME IInv, IInv', ExtractMessageRefused
    PROVE  Refused
<1>1. /\ begin # NULL => ~ flag_is_busy[begin]
      /\ ret' = NULL /\ Contents' = Contents
      /\ size_queue' = size_queue
      /\ produced' = produced /\ consumed' = consumed
  BY SameRing DEF ExtractMessageRefused
<1>2. CASE begin = NULL
  BY <1>1, <1>2, ContentsOf DEF Refused
<1>3. CASE begin # NULL
  <2>1. PICK r, k : Laid(r, k)
    BY <1>3, Facts
  <2>2. k = 0
    <3>1. SUFFICES ASSUME k # 0 PROVE FALSE
      OBVIOUS
    <3>2. 0 \in 0..(k - 1)
      BY <2>1, <3>1 DEF Laid, Circle
    <3>3. flag_is_busy[begin] = TRUE
      BY <2>1, <3>2 DEF Laid
    <3>4. QED
      BY <1>1, <1>3, <3>3
  <2>3. Contents = <<>>
    BY <2>1, <2>2, ContentsOf
  <2>4. QED
    BY <1>1, <2>3 DEF Refused
<1>4. QED
  BY <1>2, <1>3

LEMMA EveryStepIsAQueueStep == IInv /\ IInv' /\ [Next]_vars => QueueStep
<1>1. SUFFICES ASSUME IInv, IInv', [Next]_vars PROVE QueueStep
  OBVIOUS
<1>2. CASE BootAppend
  <2>1. boot > 0 /\ AppendPlace(FALSE)
    BY <1>2 DEF BootAppend
  <2>2. QED
    BY <1>1, <2>1, AppendEffect DEF QueueStep
<1>3. CASE Append_
  <2>1. AppendPlace(TRUE)
    BY <1>3 DEF Append_
  <2>2. QED
    BY <1>1, <2>1, AppendEffect DEF QueueStep
<1>4. CASE Erase
  BY <1>1, <1>4, EraseEffect DEF QueueStep
<1>5. CASE \E m \in Message : AddMessage(m)
  BY <1>1, <1>5, AddEffect DEF QueueStep
<1>6. CASE AddMessageRefused
  BY <1>1, <1>6, AddRefusedEffect DEF QueueStep
<1>7. CASE ExtractMessage
  BY <1>1, <1>7, ExtractEffect DEF QueueStep
<1>8. CASE ExtractMessageRefused
  BY <1>1, <1>8, ExtractRefusedEffect DEF QueueStep
<1>9. CASE UNCHANGED vars
  <2>1. UNCHANGED <<begin, tail, size_queue, produced, consumed, links,
                    content, boot>>
        /\ ret' = ret
    BY <1>9 DEF vars
  <2>2. Contents' = Contents
    BY <1>1, <2>1, SameRing
  <2>3. QED
    BY <2>1, <2>2 DEF QueueStep, Nothing
<1>10. QED
  BY <1>1, <1>2, <1>3, <1>4, <1>5, <1>6, <1>7, <1>8, <1>9 DEF Next

------------------------------------------------------------------------------
(***************************************************************************)
(* The theorems                                                            *)
(***************************************************************************)

\* The inductive invariant holds in every reachable state.
THEOREM Invariance == Spec => []IInv
BY InitIInv, InvariantStep, PTL DEF Spec

\* The fields of ring.h keep their types; no pointer leaves the live nodes.
THEOREM TypeCorrect == Spec => []TypeOK
<1>1. IInv => TypeOK
  BY DEF IInv
<1>2. QED
  BY <1>1, Invariance, PTL

\* Through every splice of append and erase the nodes are one closed ring,
\* and the stored messages lie in a run from begin to just before tail.
THEOREM RingKept == Spec => []RingShape
<1>1. ASSUME IInv, begin = NULL
      PROVE  RingShape
  <2>1. tail = NULL /\ Live = {} /\ size_queue = 0
    BY <1>1 DEF IInv, Numbered
  <2>2. Cardinality(Live) = 0
    BY <2>1, FS_EmptySet
  <2>3. 0..(size_queue - 1) = {}
    BY <2>1
  <2>4. QED
    BY <1>1, <2>1, <2>2, <2>3 DEF RingShape, ClosedRing, BusyRun
<1>2. ASSUME IInv, begin # NULL
      PROVE  RingShape
  <2>1. TypeOK /\ Numbered
    BY <1>2 DEF IInv
  <2>2. PICK r, k : Laid(r, k)
    BY <1>2, Facts
  <2>3. NumberedBy(r, k, size_queue)
    BY <2>1, <2>2, LaidFacts
  <2>4. begin \in Live /\ tail \in Live
    BY <2>3 DEF NumberedBy
  <2>5. tail # NULL /\ Live # {}
    BY <1>2, <2>4, Facts
  <2>6. ASSUME NEW n \in Live
        PROVE  prev[next[n]] = n /\ next[prev[n]] = n
    <3>1. Circle(r, size_queue, Live, next, prev)
      BY <2>2 DEF Laid
    <3>2. PICK i \in 0..(size_queue - 1) : r[i] = n
      BY <3>1 DEF Circle
    <3>3. next[n] = r[Up(i, size_queue)] /\ prev[n] = r[Down(i, size_queue)]
      BY <3>1, <3>2, CircleLinks
    <3>4. size_queue \in Nat \ {0}
      BY <3>1 DEF Circle
    <3>5. /\ Up(i, size_queue) \in 0..(size_queue - 1)
          /\ Down(i, size_queue) \in 0..(size_queue - 1)
          /\ Up(Down(i, size_queue), size_queue) = i
          /\ Down(Up(i, size_queue), size_queue) = i
      BY <3>4, UpDown
    <3>6. prev[r[Up(i, size_queue)]] = r[Down(Up(i, size_queue), size_queue)]
      BY <3>1, <3>5, CircleLinks
    <3>7. next[r[Down(i, size_queue)]] = r[Up(Down(i, size_queue), size_queue)]
      BY <3>1, <3>5, CircleLinks
    <3>8. QED
      BY <3>2, <3>3, <3>5, <3>6, <3>7
  <2>7. /\ Busy = {r[i] : i \in 0..(k - 1)} /\ Cardinality(Busy) = k
        /\ Live = {r[i] : i \in 0..(size_queue - 1)}
        /\ Cardinality(Live) = size_queue
    BY <2>1, <2>2, LaidCounts
  <2>8. (\A i \in 0..(size_queue - 1) : Nth[i] = r[i]) /\ Nth[k] = tail
    BY <2>1, <2>2, NthIsLaid
  <2>9. Live = {Nth[i] : i \in 0..(size_queue - 1)}
    BY <2>7, <2>8
  <2>10. \A i \in 0..(k - 1) : i \in 0..(size_queue - 1)
    BY <2>3 DEF NumberedBy
  <2>11. Busy = {Nth[i] : i \in 0..(k - 1)}
    BY <2>7, <2>8, <2>10
  <2>12. ClosedRing
    BY <1>2, <2>5, <2>6, <2>7, <2>9 DEF ClosedRing
  <2>13. BusyRun
    BY <2>7, <2>8, <2>11 DEF BusyRun
  <2>14. QED
    BY <2>12, <2>13 DEF RingShape
<1>3. IInv => RingShape
  BY <1>1, <1>2
<1>4. QED
  BY <1>3, Invariance, PTL

\* ring.c is a bounded first-in first-out queue: the initial states of the
\* pointer structure are those of BoundedFifo, and each of its steps is the
\* step of BoundedFifo it is named after, or changes nothing there.
THEOREM RingIsAFifo == Spec => ImplementsFifo
<1>1. Init => Fifo!Init
  <2>1. SUFFICES ASSUME Init PROVE Fifo!Init
    OBVIOUS
  <2>2. IInv
    BY <2>1, InitIInv
  <2>3. Contents = <<>> /\ size_queue = 0
    BY <2>1, <2>2, ContentsOf DEF Init
  <2>4. QED
    BY <2>1, <2>3 DEF Init, Fifo!Init
<1>2. ASSUME IInv, QueueStep
      PROVE  [Fifo!Next]_(Fifo!fifoVars)
  <2>1. CASE PlaceAdded
    <3>1. Fifo!AppendPlace
      BY <2>1 DEF PlaceAdded, Fifo!AppendPlace
    <3>2. QED
      BY <3>1 DEF Fifo!Next
  <2>2. CASE FreePlaceGone
    <3>1. ~ Fifo!Full(size_queue, Contents)
      BY <2>2 DEF FreePlaceGone, Fifo!Full
    <3>2. Fifo!Full(size_queue, Contents) = FALSE
      BY <3>1 DEF Fifo!Full
    <3>3. Fifo!ErasedMsgs(size_queue, Contents) = Contents
      BY <3>1 DEF Fifo!ErasedMsgs
    <3>4. Fifo!ErasePlace
      BY <2>2, <3>2, <3>3 DEF FreePlaceGone, Fifo!ErasePlace
    <3>5. QED
      BY <3>4 DEF Fifo!Next
  <2>3. CASE OldestGone
    <3>1. Fifo!Full(size_queue, Contents)
      BY <2>3 DEF OldestGone, Fifo!Full
    <3>2. Fifo!Full(size_queue, Contents) = TRUE
      BY <3>1 DEF Fifo!Full
    <3>3. Fifo!ErasedMsgs(size_queue, Contents) = Tail(Contents)
      BY <3>1 DEF Fifo!ErasedMsgs
    <3>4. Fifo!ErasePlace
      BY <2>3, <3>2, <3>3 DEF OldestGone, Fifo!ErasePlace
    <3>5. QED
      BY <3>4 DEF Fifo!Next
  <2>4. ASSUME NEW m \in Message, MessageAdded(m)
        PROVE  [Fifo!Next]_(Fifo!fifoVars)
    <3>1. Fifo!AddedMsgs(size_queue, Contents, m) = Append(Contents, m)
      BY <2>4 DEF MessageAdded, Fifo!AddedMsgs, Fifo!Full
    <3>2. Fifo!AddMessage(m)
      BY <2>4, <3>1 DEF MessageAdded, Fifo!AddMessage
    <3>3. QED
      BY <3>2 DEF Fifo!Next
  <2>5. CASE MessageTaken
    <3>1. Fifo!ExtractMessage
      BY <2>5 DEF MessageTaken, Fifo!ExtractMessage, Fifo!ExtractedMsgs,
                  Fifo!ExtractedRet
    <3>2. QED
      BY <3>1 DEF Fifo!Next
  <2>6. CASE Refused
    <3>1. CASE Contents = <<>>
      <4>1. Fifo!ExtractMessage
        BY <2>6, <3>1 DEF Refused, Fifo!ExtractMessage, Fifo!ExtractedMsgs,
                          Fifo!ExtractedRet
      <4>2. QED
        BY <4>1 DEF Fifo!Next
    <3>2. CASE Contents # <<>>
      <4>1. PICK m \in Message : TRUE
        BY <2>6, <3>2 DEF Refused
      <4>2. Fifo!AddedMsgs(size_queue, Contents, m) = Contents
        BY <2>6, <3>2 DEF Refused, Fifo!AddedMsgs, Fifo!Full
      <4>3. Fifo!AddMessage(m)
        BY <2>6, <4>2 DEF Refused, Fifo!AddMessage
      <4>4. QED
        BY <4>3 DEF Fifo!Next
    <3>3. QED
      BY <3>1, <3>2
  <2>7. CASE Nothing
    BY <2>7 DEF Nothing, Fifo!fifoVars
  <2>8. QED
    BY <1>2, <2>1, <2>2, <2>3, <2>4, <2>5, <2>6, <2>7 DEF QueueStep
<1>3. IInv /\ IInv' /\ [Next]_vars => [Fifo!Next]_(Fifo!fifoVars)
  BY <1>2, EveryStepIsAQueueStep
<1>4. QED
  BY <1>1, <1>3, Invariance, PTL DEF Spec, ImplementsFifo, Fifo!Spec

\* Counting around a modulus, as produced and consumed do.
LEMMA CountingUp ==
    ASSUME NEW m \in Nat \ {0}, NEW p \in 0..(m - 1)
    PROVE  /\ (((p + 1) % m) - p) % m = 1 % m
           /\ (0 - (((p + 1) % m) - p)) % m = (0 - 1) % m
<1>1. (p + 1) % m = IF p + 1 = m THEN 0 ELSE p + 1
  OBVIOUS
<1>2. CASE p + 1 = m
  <2>1. ((p + 1) % m) - p = 1 - m
    BY <1>1, <1>2
  <2>2. (1 - m) % m = 1 % m /\ (0 - (1 - m)) % m = (0 - 1) % m
    OBVIOUS
  <2>3. QED
    BY <2>1, <2>2
<1>3. CASE p + 1 # m
  <2>1. ((p + 1) % m) - p = 1
    BY <1>1, <1>3
  <2>2. QED
    BY <2>1
<1>4. QED
  BY <1>2, <1>3

\* The totals the workers print follow the stored messages, but for a message
\* that erase destroys, and whatever malloc left in them.
THEOREM TotalsFollowMessages == Spec => TotalsTrackContents
<1> DEFINE erased == IF size_queue' < size_queue /\ ret' = TRUE THEN 1 ELSE 0
           Tracks == (produced' - produced - (consumed' - consumed))
                       % CounterMod
                     = (Len(Contents') + erased - Len(Contents)) % CounterMod
<1>1. ASSUME IInv, IInv', QueueStep, begin # NULL, begin' # NULL
      PROVE  Tracks
  <2>1. /\ CounterMod \in Nat \ {0}
        /\ produced \in 0..(CounterMod - 1) /\ consumed \in 0..(CounterMod - 1)
        /\ size_queue \in Nat
    BY <1>1, Facts
  <2>2. PICK r, k : Laid(r, k)
    BY <1>1, Facts
  <2>3. /\ Len(Contents) \in Nat /\ Contents \in Seq(Message \cup {Zeroed})
    BY <1>1, <2>2, ContentsOf, LenProperties
  <2>4. CASE PlaceAdded \/ Refused \/ Nothing \/ FreePlaceGone
    <3>1. /\ produced' = produced /\ consumed' = consumed
          /\ Contents' = Contents
      BY <1>1, <2>4 DEF PlaceAdded, Refused, Nothing, FreePlaceGone
    <3>2. erased = 0
      <4>1. size_queue' < size_queue => ret' = FALSE
        BY <2>1, <2>4 DEF PlaceAdded, Refused, Nothing, FreePlaceGone
      <4>2. QED
        BY <4>1
    <3>3. produced' - produced - (consumed' - consumed) = 0
      BY <2>1, <3>1
    <3>4. Len(Contents') + erased - Len(Contents) = 0
      BY <2>3, <3>1, <3>2
    <3>5. QED
      BY <3>3, <3>4
  <2>5. CASE OldestGone
    <3>1. /\ produced' = produced /\ consumed' = consumed
          /\ Contents # <<>> /\ Contents' = Tail(Contents)
          /\ size_queue' < size_queue /\ ret' = TRUE
      BY <2>1, <2>5 DEF OldestGone
    <3>2. Len(Contents') = Len(Contents) - 1
      BY <2>3, <3>1, HeadTailProperties
    <3>3. erased = 1
      BY <3>1
    <3>4. produced' - produced - (consumed' - consumed) = 0
      BY <2>1, <3>1
    <3>5. Len(Contents') + erased - Len(Contents) = 0
      BY <2>3, <3>2, <3>3
    <3>6. QED
      BY <3>4, <3>5
  <2>6. ASSUME NEW m \in Message, MessageAdded(m)
        PROVE  Tracks
    <3>1. /\ produced' = (produced + 1) % CounterMod /\ consumed' = consumed
          /\ Contents' = Append(Contents, m) /\ size_queue' = size_queue
      BY <2>6 DEF MessageAdded
    <3>2. Len(Contents') = Len(Contents) + 1
      BY <2>3, <3>1, AppendProperties
    <3>3. erased = 0
      BY <2>1, <3>1
    <3>4. Len(Contents') + erased - Len(Contents) = 1
      BY <2>3, <3>2, <3>3
    <3>5. produced' \in Int /\ consumed \in Int /\ produced \in Int
      BY <2>1, <3>1
    <3>6. produced' - produced - (consumed' - consumed) = produced' - produced
      BY <3>1, <3>5
    <3>7. (produced' - produced) % CounterMod = 1 % CounterMod
      BY <2>1, <3>1, CountingUp
    <3>8. QED
      BY <3>4, <3>6, <3>7
  <2>7. CASE MessageTaken
    <3>1. /\ consumed' = (consumed + 1) % CounterMod /\ produced' = produced
          /\ Contents # <<>> /\ Contents' = Tail(Contents)
          /\ size_queue' = size_queue
      BY <2>7 DEF MessageTaken
    <3>2. Len(Contents') = Len(Contents) - 1
      BY <2>3, <3>1, HeadTailProperties
    <3>3. erased = 0
      BY <2>1, <3>1
    <3>4. Len(Contents') + erased - Len(Contents) = 0 - 1
      BY <2>3, <3>2, <3>3
    <3>5. consumed' \in Int /\ consumed \in Int /\ produced \in Int
      BY <2>1, <3>1
    <3>6. produced' - produced - (consumed' - consumed)
          = 0 - (consumed' - consumed)
      BY <3>1, <3>5
    <3>7. (0 - (consumed' - consumed)) % CounterMod = (0 - 1) % CounterMod
      BY <2>1, <3>1, CountingUp
    <3>8. QED
      BY <3>4, <3>6, <3>7
  <2> HIDE DEF Tracks
  <2>8. QED
    BY <1>1, <2>4, <2>5, <2>6, <2>7 DEF QueueStep
<1>2. IInv /\ IInv' /\ [Next]_vars =>
        [begin # NULL /\ begin' # NULL =>
           LET gone == IF size_queue' < size_queue /\ ret' = TRUE THEN 1 ELSE 0
           IN  (produced' - produced - (consumed' - consumed)) % CounterMod
               = (Len(Contents') + gone - Len(Contents)) % CounterMod]_vars
  BY <1>1, EveryStepIsAQueueStep
<1>3. QED
  BY <1>2, Invariance, PTL DEF Spec, TotalsTrackContents

==============================================================================
