-------------------------- MODULE Lab7RecordsProofs --------------------------
(***************************************************************************)
(* What the runs of Lab7Records check for two or three editors, proved for *)
(* any set of editors, any contents and any number of records.             *)
(*                                                                         *)
(* The argument: where an editor is decides which locks it can hold        *)
(* (LocksFollowPc), and an editor with something to put still has, unless  *)
(* it was overtaken, the record that is in the file: it remembers what it  *)
(* loaded (SavedIsCurrent), the number it would put to is the one it       *)
(* loaded from unless that number does not exist (NumberIsLoaded), and     *)
(* what put_record read again is in the file too (ReadIsCurrent).          *)
(***************************************************************************)
EXTENDS Lab7Records, TLAPS

\* Every lock of an editor is the one its place in the program asks for.
LocksFollowPc ==
    \A e \in Editor, r \in Numbers :
        /\ e \in readers[r] =>
             \/ pc[e] = "look" /\ r \in looking[e]
             \/ pc[e] = "loading" /\ r = NUM_REC[e]
        /\ writer[r] = e => pc[e] \in {"putting", "check"} /\ r = NUM_REC[e]

\* The records exist, and what an editor may put is a record.
RecordsExist ==
    /\ \A r \in Records : file[r] \in Value
    /\ \A e \in Editor : FLAG_EDIT[e] \/ pc[e] = "edit" => REC[e] \in Value
    /\ \A e \in Editor : pc[e] \in {"load", "loading"} => NUM_REC[e] \in Records

\* put_record is only called with something to put.
PutsAnEdit ==
    \A e \in Editor : pc[e] \in {"put", "putting", "check"} => FLAG_EDIT[e]

SavedIsCurrent ==
    \A e \in Editor :
        (FLAG_EDIT[e] \/ pc[e] = "edit") /\ e \notin overtaken =>
            loaded[e] \in Records /\ REC_SAVE[e] = file[loaded[e]]

NumberIsLoaded ==
    \A e \in Editor :
        NUM_REC[e] \in Records /\ pc[e] \notin {"load", "loading"} =>
            loaded[e] = NUM_REC[e]

ReadIsCurrent ==
    \A e \in Editor :
        pc[e] = "check" /\ NUM_REC[e] \in Records /\ e \notin overtaken =>
            REC_NEW[e] = file[NUM_REC[e]]

\* The inductive invariant.
IInv ==
    /\ TypeOK /\ LocksFollowPc /\ RecordsExist /\ PutsAnEdit
    /\ SavedIsCurrent /\ NumberIsLoaded /\ ReadIsCurrent


\* The numbers of records are numbers, 0 is none of them, and 1 is one.
LEMMA RecordNumbers ==
    /\ Records \subseteq Numbers \ {0} /\ 0 \in Numbers /\ 1 \in Records
BY RecordsAssumption DEF Records, Numbers

------------------------------------------------------------------------------
(***************************************************************************)
(* The invariant is inductive                                              *)
(***************************************************************************)

\* Nothing is locked, loaded or edited yet, and the records exist.
LEMMA InitIInv == Init => IInv
<1> SUFFICES ASSUME Init PROVE IInv
  OBVIOUS
<1>1. TypeOK
  BY RecordsAssumption DEF Init, TypeOK, Numbers
<1>2. LocksFollowPc
  BY RecordsAssumption DEF Init, LocksFollowPc
<1>3. RecordsExist
  BY RecordsAssumption DEF Init, RecordsExist, Records, Numbers
<1>4. PutsAnEdit /\ SavedIsCurrent /\ NumberIsLoaded /\ ReadIsCurrent
  BY DEF Init, PutsAnEdit, SavedIsCurrent, NumberIsLoaded, ReadIsCurrent,
         Records
<1>5. QED
  BY <1>1, <1>2, <1>3, <1>4 DEF IInv

\* Whatever they lock or unlock, the lock calls leave lock tables.
LEMMA LockTypes ==
    ASSUME TypeOK, NEW e \in Editor, NEW r \in Numbers, NEW S,
           SetReadLocks(e, S) \/ SetWriteLock(e, r) \/ Unlock(e, S)
    PROVE  /\ readers' \in [Numbers -> SUBSET Editor]
           /\ writer' \in [Numbers -> Editor \cup {NULL}]
<1> USE DEF TypeOK
<1>1. CASE SetReadLocks(e, S)
  BY <1>1 DEF SetReadLocks
<1>2. CASE SetWriteLock(e, r)
  <2>1. readers[r] \ {e} \in SUBSET Editor
    OBVIOUS
  <2>2. QED
    BY <1>2, <2>1 DEF SetWriteLock
<1>3. CASE Unlock(e, S)
  BY <1>3 DEF Unlock
<1>4. QED
  BY <1>1, <1>2, <1>3

\* A step of one editor: the body of Next.
Step(e) ==
    \/ Look(e) \/ LookAway(e) \/ Restart(e)
    \/ \E num \in Numbers : Choose(e, num)
    \/ LoadLock(e) \/ Load(e)
    \/ \E v \in Value : Edit(e, v)
    \/ EditEnd(e)
    \/ Put(e) \/ PutLock(e) \/ PutRead(e) \/ PutRefuse(e) \/ PutWrite(e)

\* Type correctness is kept by every step, given the invariant.
LEMMA TypeStep ==
    ASSUME IInv, NEW e \in Editor, Step(e)
    PROVE  TypeOK'
<1> USE RecordNumbers DEF IInv, RecordsExist, PutsAnEdit, Goto, locks, buffers,
            history, TypeOK
<1>1. CASE Look(e)
  BY <1>1, LockTypes DEF Look
<1>2. CASE LookAway(e)
  BY <1>2, LockTypes DEF LookAway
<1>3. CASE Restart(e)
  BY <1>3, LockTypes DEF Restart
<1>4. ASSUME NEW num \in Numbers, Choose(e, num)
      PROVE  TypeOK'
  BY <1>4 DEF Choose
<1>5. CASE LoadLock(e)
  BY <1>5, LockTypes DEF LoadLock
<1>6. CASE Load(e)
  BY <1>6, LockTypes DEF Load
<1>7. ASSUME NEW v \in Value, Edit(e, v)
      PROVE  TypeOK'
  BY <1>7 DEF Edit
<1>8. CASE EditEnd(e)
  BY <1>8 DEF EditEnd
<1>9. CASE Put(e)
  BY <1>9 DEF Put
<1>10. CASE PutLock(e)
  <2>1. CASE NUM_REC[e] = 0
    BY <1>10, <2>1 DEF PutLock
  <2>2. CASE NUM_REC[e] # 0
    BY <1>10, <2>2, LockTypes DEF PutLock
  <2>3. QED
    BY <2>1, <2>2
<1>11. CASE PutRead(e)
  <2>1. CASE NUM_REC[e] \in Records
    BY <1>11, <2>1, LockTypes DEF PutRead
  <2>2. CASE NUM_REC[e] \notin Records
    BY <1>11, <2>2 DEF PutRead
  <2>3. QED
    BY <2>1, <2>2
<1>12. CASE PutRefuse(e)
  BY <1>12, LockTypes DEF PutRefuse
<1>13. CASE PutWrite(e)
  BY <1>13, LockTypes DEF PutWrite, Target
<1>14. QED
  BY <1>1, <1>2, <1>3, <1>4, <1>5, <1>6, <1>7, <1>8, <1>9, <1>10, <1>11,
     <1>12, <1>13
     DEF Step

\* Every step sets and drops the locks its move asks for.
LEMMA LocksStep ==
    ASSUME IInv, NEW e \in Editor, Step(e)
    PROVE  LocksFollowPc'
<1> USE RecordsAssumption
    DEF IInv, LocksFollowPc, Goto, locks, buffers, history, TypeOK
<1>1. CASE Look(e)
  BY <1>1 DEF Look, SetReadLocks
<1>2. CASE LookAway(e)
  BY <1>2 DEF LookAway, Unlock
<1>3. CASE Restart(e)
  BY <1>3 DEF Restart, Unlock
<1>4. ASSUME NEW num \in Numbers, Choose(e, num)
      PROVE  LocksFollowPc'
  BY <1>4 DEF Choose
<1>5. CASE LoadLock(e)
  BY <1>5 DEF LoadLock, SetReadLocks
<1>6. CASE Load(e)
  BY <1>6 DEF Load, Unlock
<1>7. ASSUME NEW v \in Value, Edit(e, v)
      PROVE  LocksFollowPc'
  BY <1>7 DEF Edit
<1>8. CASE EditEnd(e)
  BY <1>8 DEF EditEnd
<1>9. CASE Put(e)
  BY <1>9 DEF Put
<1>10. CASE PutLock(e)
  BY <1>10 DEF PutLock, SetWriteLock
<1>11. CASE PutRead(e)
  BY <1>11 DEF PutRead, Unlock
<1>12. CASE PutRefuse(e)
  BY <1>12 DEF PutRefuse, Unlock
<1>13. CASE PutWrite(e)
  BY <1>13 DEF PutWrite, Unlock, Target
<1>14. QED
  BY <1>1, <1>2, <1>3, <1>4, <1>5, <1>6, <1>7, <1>8, <1>9, <1>10, <1>11,
     <1>12, <1>13
     DEF Step

\* No step writes what is not a record.
LEMMA ExistStep ==
    ASSUME IInv, NEW e \in Editor, Step(e)
    PROVE  RecordsExist'
<1> USE RecordsAssumption
    DEF IInv, RecordsExist, PutsAnEdit, Goto, locks, buffers, history, TypeOK
<1>1. CASE Look(e)
  BY <1>1 DEF Look
<1>2. CASE LookAway(e)
  BY <1>2 DEF LookAway
<1>3. CASE Restart(e)
  BY <1>3 DEF Restart
<1>4. ASSUME NEW num \in Numbers, Choose(e, num)
      PROVE  RecordsExist'
  BY <1>4 DEF Choose
<1>5. CASE LoadLock(e)
  BY <1>5 DEF LoadLock
<1>6. CASE Load(e)
  BY <1>6 DEF Load
<1>7. ASSUME NEW v \in Value, Edit(e, v)
      PROVE  RecordsExist'
  BY <1>7 DEF Edit
<1>8. CASE EditEnd(e)
  BY <1>8 DEF EditEnd
<1>9. CASE Put(e)
  BY <1>9 DEF Put
<1>10. CASE PutLock(e)
  BY <1>10 DEF PutLock
<1>11. CASE PutRead(e)
  BY <1>11 DEF PutRead
<1>12. CASE PutRefuse(e)
  BY <1>12 DEF PutRefuse
<1>13. CASE PutWrite(e)
  BY <1>13 DEF PutWrite, Target
<1>14. QED
  BY <1>1, <1>2, <1>3, <1>4, <1>5, <1>6, <1>7, <1>8, <1>9, <1>10, <1>11,
     <1>12, <1>13
     DEF Step

\* put_record is entered with FLAG_EDIT set, and nobody else resets it.
LEMMA PutsStep ==
    ASSUME IInv, NEW e \in Editor, Step(e)
    PROVE  PutsAnEdit'
<1> USE DEF IInv, PutsAnEdit, Goto, locks, buffers, history, TypeOK
<1>1. CASE Look(e)
  BY <1>1 DEF Look
<1>2. CASE LookAway(e)
  BY <1>2 DEF LookAway
<1>3. CASE Restart(e)
  BY <1>3 DEF Restart
<1>4. ASSUME NEW num \in Numbers, Choose(e, num)
      PROVE  PutsAnEdit'
  BY <1>4 DEF Choose
<1>5. CASE LoadLock(e)
  BY <1>5 DEF LoadLock
<1>6. CASE Load(e)
  BY <1>6 DEF Load
<1>7. ASSUME NEW v \in Value, Edit(e, v)
      PROVE  PutsAnEdit'
  BY <1>7 DEF Edit
<1>8. CASE EditEnd(e)
  BY <1>8 DEF EditEnd
<1>9. CASE Put(e)
  BY <1>9 DEF Put
<1>10. CASE PutLock(e)
  BY <1>10 DEF PutLock
<1>11. CASE PutRead(e)
  BY <1>11 DEF PutRead
<1>12. CASE PutRefuse(e)
  BY <1>12 DEF PutRefuse
<1>13. CASE PutWrite(e)
  BY <1>13 DEF PutWrite
<1>14. QED
  BY <1>1, <1>2, <1>3, <1>4, <1>5, <1>6, <1>7, <1>8, <1>9, <1>10, <1>11,
     <1>12, <1>13
     DEF Step

\* A put of the loaded record by somebody else is what overtakes an editor.
LEMMA SavedStep ==
    ASSUME IInv, NEW e \in Editor, Step(e)
    PROVE  SavedIsCurrent'
<1> USE DEF IInv, SavedIsCurrent, RecordsExist, Goto, locks, buffers,
            history, TypeOK
<1>1. CASE Look(e)
  BY <1>1 DEF Look
<1>2. CASE LookAway(e)
  BY <1>2 DEF LookAway
<1>3. CASE Restart(e)
  BY <1>3 DEF Restart
<1>4. ASSUME NEW num \in Numbers, Choose(e, num)
      PROVE  SavedIsCurrent'
  BY <1>4 DEF Choose
<1>5. CASE LoadLock(e)
  BY <1>5 DEF LoadLock
<1>6. CASE Load(e)
  BY <1>6 DEF Load
<1>7. ASSUME NEW v \in Value, Edit(e, v)
      PROVE  SavedIsCurrent'
  BY <1>7 DEF Edit
<1>8. CASE EditEnd(e)
  BY <1>8 DEF EditEnd
<1>9. CASE Put(e)
  BY <1>9 DEF Put
<1>10. CASE PutLock(e)
  BY <1>10 DEF PutLock
<1>11. CASE PutRead(e)
  BY <1>11 DEF PutRead
<1>12. CASE PutRefuse(e)
  BY <1>12 DEF PutRefuse
<1>13. CASE PutWrite(e)
  BY <1>13 DEF PutWrite, Target
<1>14. QED
  BY <1>1, <1>2, <1>3, <1>4, <1>5, <1>6, <1>7, <1>8, <1>9, <1>10, <1>11,
     <1>12, <1>13
     DEF Step

\* A number that exists is loaded before anything else happens.
LEMMA NumberStep ==
    ASSUME IInv, NEW e \in Editor, Step(e)
    PROVE  NumberIsLoaded'
<1> USE DEF IInv, NumberIsLoaded, Goto, locks, buffers, history, TypeOK
<1>1. CASE Look(e)
  BY <1>1 DEF Look
<1>2. CASE LookAway(e)
  BY <1>2 DEF LookAway
<1>3. CASE Restart(e)
  BY <1>3 DEF Restart, Records
<1>4. ASSUME NEW num \in Numbers, Choose(e, num)
      PROVE  NumberIsLoaded'
  BY <1>4 DEF Choose
<1>5. CASE LoadLock(e)
  BY <1>5 DEF LoadLock
<1>6. CASE Load(e)
  BY <1>6 DEF Load
<1>7. ASSUME NEW v \in Value, Edit(e, v)
      PROVE  NumberIsLoaded'
  BY <1>7 DEF Edit
<1>8. CASE EditEnd(e)
  BY <1>8 DEF EditEnd
<1>9. CASE Put(e)
  BY <1>9 DEF Put
<1>10. CASE PutLock(e)
  BY <1>10 DEF PutLock
<1>11. CASE PutRead(e)
  BY <1>11 DEF PutRead
<1>12. CASE PutRefuse(e)
  BY <1>12 DEF PutRefuse
<1>13. CASE PutWrite(e)
  BY <1>13 DEF PutWrite
<1>14. QED
  BY <1>1, <1>2, <1>3, <1>4, <1>5, <1>6, <1>7, <1>8, <1>9, <1>10, <1>11,
     <1>12, <1>13
     DEF Step

\* Between the check's read and the check only an overtaking put intervenes.
LEMMA ReadStep ==
    ASSUME IInv, NEW e \in Editor, Step(e)
    PROVE  ReadIsCurrent'
<1> USE DEF IInv, ReadIsCurrent, NumberIsLoaded, Goto, locks, buffers,
            history, TypeOK
<1>1. CASE Look(e)
  BY <1>1 DEF Look
<1>2. CASE LookAway(e)
  BY <1>2 DEF LookAway
<1>3. CASE Restart(e)
  BY <1>3 DEF Restart
<1>4. ASSUME NEW num \in Numbers, Choose(e, num)
      PROVE  ReadIsCurrent'
  BY <1>4 DEF Choose
<1>5. CASE LoadLock(e)
  BY <1>5 DEF LoadLock
<1>6. CASE Load(e)
  BY <1>6 DEF Load
<1>7. ASSUME NEW v \in Value, Edit(e, v)
      PROVE  ReadIsCurrent'
  BY <1>7 DEF Edit
<1>8. CASE EditEnd(e)
  BY <1>8 DEF EditEnd
<1>9. CASE Put(e)
  BY <1>9 DEF Put
<1>10. CASE PutLock(e)
  BY <1>10 DEF PutLock
<1>11. CASE PutRead(e)
  BY <1>11 DEF PutRead
<1>12. CASE PutRefuse(e)
  BY <1>12 DEF PutRefuse
<1>13. CASE PutWrite(e)
  BY <1>13 DEF PutWrite, Target
<1>14. QED
  BY <1>1, <1>2, <1>3, <1>4, <1>5, <1>6, <1>7, <1>8, <1>9, <1>10, <1>11,
     <1>12, <1>13
     DEF Step

\* The invariant is kept by every step.
LEMMA InvariantStep == IInv /\ [Next]_vars => IInv'
<1>1. ASSUME IInv, Next
      PROVE  IInv'
  <2>1. PICK e \in Editor : Step(e)
    BY <1>1 DEF Next, Step
  <2>2. QED
    BY <1>1, <2>1, TypeStep, LocksStep, ExistStep, PutsStep, SavedStep,
       NumberStep, ReadStep DEF IInv
<1>2. ASSUME IInv, UNCHANGED vars
      PROVE  IInv'
  BY <1>2 DEF IInv, TypeOK, LocksFollowPc, RecordsExist, PutsAnEdit,
              SavedIsCurrent, NumberIsLoaded, ReadIsCurrent, vars, locks,
              buffers, history
<1>3. QED
  BY <1>1, <1>2

------------------------------------------------------------------------------
(***************************************************************************)
(* The theorems                                                            *)
(***************************************************************************)

\* The inductive invariant holds in every reachable state.
THEOREM Invariance == Spec => []IInv
BY InitIInv, InvariantStep, PTL DEF Spec

\* Every variable of the editors stays in its type; in particular a file
\* never receives what an uninitialised record_t holds (put_record of main.c
\* writes REC only after an edit).
THEOREM TypeCorrect == Spec => []TypeOK
<1>1. IInv => TypeOK
  BY DEF IInv
<1>2. QED
  BY <1>1, Invariance, PTL

\* No editor waits for a lock, or for its user, while it holds one: every
\* path through get_record, all_records and put_record has unlocked.
THEOREM NoLockIsHeldWhileWaiting == Spec => []WaitsWithoutLocks
<1>1. IInv => WaitsWithoutLocks
  BY DEF IInv, LocksFollowPc, WaitsWithoutLocks
<1>2. QED
  BY <1>1, Invariance, PTL

\* put_record refuses an existing record only if somebody else has put it
\* since it was loaded.
THEOREM RefusedOnlyWhenOvertaken == Spec => RefusalIsJustified
<1>1. ASSUME IInv, NEW e \in Editor, PutRefuse(e), NUM_REC[e] \in Records
      PROVE  e \in overtaken
  <2>1. pc[e] = "check" /\ REC_SAVE[e] # REC_NEW[e]
    BY <1>1 DEF PutRefuse, Goto
  <2>2. FLAG_EDIT[e] /\ loaded[e] = NUM_REC[e]
    BY <1>1, <2>1 DEF IInv, PutsAnEdit, NumberIsLoaded
  <2>3. e \notin overtaken => REC_SAVE[e] = REC_NEW[e]
    BY <1>1, <2>1, <2>2 DEF IInv, SavedIsCurrent, ReadIsCurrent
  <2>4. QED
    BY <2>1, <2>3
<1>2. IInv =>
        [\A e \in Editor :
           PutRefuse(e) /\ NUM_REC[e] \in Records => e \in overtaken]_vars
  BY <1>1
<1>3. QED
  BY <1>2, Invariance, PTL DEF RefusalIsJustified

\* The promise NoLostUpdate breaks for an editor that was overtaken, and for
\* no other: a put of an existing record that nobody else has put since it
\* was loaded replaces just what its user saw.
THEOREM OnlyTheOvertakenLoseUpdates ==
    Spec => [][\A e \in Editor :
                 PutWrite(e) /\ NUM_REC[e] \in Records /\ e \notin overtaken =>
                     file[NUM_REC[e]] = REC_SAVE[e]]_vars
<1>1. ASSUME IInv, NEW e \in Editor, PutWrite(e), NUM_REC[e] \in Records,
             e \notin overtaken
      PROVE  file[NUM_REC[e]] = REC_SAVE[e]
  <2>1. pc[e] = "check" /\ REC_SAVE[e] = REC_NEW[e]
    BY <1>1 DEF PutWrite, Goto
  <2>2. QED
    BY <1>1, <2>1 DEF IInv, ReadIsCurrent
<1>2. IInv =>
        [\A e \in Editor :
           PutWrite(e) /\ NUM_REC[e] \in Records /\ e \notin overtaken =>
               file[NUM_REC[e]] = REC_SAVE[e]]_vars
  BY <1>1
<1>3. QED
  BY <1>2, Invariance, PTL

==============================================================================
