----------------------------- MODULE Lab7Records -----------------------------
(***************************************************************************)
(* lab7/part2/main.c: several copies of a menu program edit one file of    *)
(* records.  A record is read, edited in memory and put back later; on the *)
(* way back the program reads it again and refuses if it is no longer what *)
(* it was before the edit.  fcntl locks guard single reads and, it would   *)
(* seem, that check and the write behind it.                               *)
(*                                                                         *)
(* The editors are processes.  They interleave at every lock call that may *)
(* block and between the check of put_record and its write; a read and the *)
(* unlock that follows it are one step, since an unlock only lets others   *)
(* go on.  Record contents are values; the record number is whatever the   *)
(* user types, also one that does not exist.                               *)
(***************************************************************************)
EXTENDS Naturals, FiniteSets

CONSTANTS
    Editor,          \* the processes
    Value,           \* contents of a record
    Junk,            \* contents of an uninitialised record_t
    NULL,            \* no record: behind the end of the file
    COUNT_RECORDS    \* records in the file

ASSUME RecordsAssumption ==
    /\ COUNT_RECORDS \in Nat \ {0}
    /\ Value # {}
    /\ Junk \notin Value /\ NULL \notin Value /\ Junk # NULL
    /\ NULL \notin Editor

Records == 1..COUNT_RECORDS

\* Numbers the user may type: 0 and the one behind the last record stand for
\* those that do not exist (every greater one lands further behind the end).
Numbers == 0..(COUNT_RECORDS + 1)

VARIABLES
    file,            \* what the file holds, and behind its end NULL
    readers,         \* readers[r]: editors with F_RDLCK on record r
    writer,          \* writer[r]: the editor with F_WRLCK on r, or NULL
    pc,              \* where each editor is
    REC, REC_SAVE,   \* the record in the editor, and as it was read
    REC_NEW,         \* the record as put_record last read it
    NUM_REC,
    FLAG_EDIT,
    looking,         \* the records an editor displays ('1', '3')
    loaded,          \* history: the record REC was read from
    overtaken        \* history: others have put that record since

locks   == <<readers, writer>>
buffers == <<REC, REC_SAVE, REC_NEW, NUM_REC, FLAG_EDIT>>
history == <<loaded, overtaken>>
vars == <<file, locks, pc, buffers, looking, history>>

Init ==
    /\ file \in [Numbers \ {0} -> Value \cup {NULL}]
    /\ \A r \in Numbers \ {0} : file[r] = NULL <=> r \notin Records
    /\ readers = [r \in Numbers |-> {}]
    /\ writer = [r \in Numbers |-> NULL]
    /\ pc = [e \in Editor |-> "menu"]
    /\ REC = [e \in Editor |-> Junk]
    /\ REC_SAVE = [e \in Editor |-> Junk]
    /\ REC_NEW = [e \in Editor |-> Junk]
    /\ NUM_REC = [e \in Editor |-> 0]
    /\ FLAG_EDIT = [e \in Editor |-> FALSE]
    /\ looking = [e \in Editor |-> {}]
    /\ loaded = [e \in Editor |-> NULL]
    /\ overtaken = {}

Goto(e, from, to) == pc[e] = from /\ pc' = [pc EXCEPT ![e] = to]

\* What F_SETLKW waits for.
ReadLockFree(e, r)  == writer[r] \in {NULL, e}
WriteLockFree(e, r) == ReadLockFree(e, r) /\ readers[r] \subseteq {e}

\* F_SETLKW, F_UNLCK: a new lock replaces the one the process holds.
SetReadLocks(e, S) ==
    /\ readers' = [r \in Numbers |->
                     IF r \in S THEN readers[r] \cup {e} ELSE readers[r]]
    /\ writer' = [r \in Numbers |->
                    IF r \in S /\ writer[r] = e THEN NULL ELSE writer[r]]
SetWriteLock(e, r) ==
    /\ readers' = [readers EXCEPT ![r] = @ \ {e}]
    /\ writer' = [writer EXCEPT ![r] = e]
Unlock(e, S) ==
    /\ readers' = [r \in Numbers |->
                     IF r \in S THEN readers[r] \ {e} ELSE readers[r]]
    /\ writer' = [r \in Numbers |->
                    IF r \in S /\ writer[r] = e THEN NULL ELSE writer[r]]

------------------------------------------------------------------------------
(***************************************************************************)
(* '1' and '3': all_records locks the whole file, get_record one record.   *)
(***************************************************************************)

Look(e) ==
    /\ Goto(e, "menu", "look")
    /\ \E S \in {Numbers \ {0}} \cup {{r} : r \in Records} :
         /\ \A r \in S : ReadLockFree(e, r)
         /\ SetReadLocks(e, S)
         /\ looking' = [looking EXCEPT ![e] = S]
    /\ UNCHANGED <<file, buffers, history>>

\* After the sleep of all_records.
LookAway(e) ==
    /\ Goto(e, "look", "menu")
    /\ Unlock(e, looking[e])
    /\ looking' = [looking EXCEPT ![e] = {}]
    /\ UNCHANGED <<file, buffers, history>>

------------------------------------------------------------------------------
(***************************************************************************)
(* '2': modify                                                             *)
(***************************************************************************)

\* Mutant: modify refuses number 0 only.
ChooseBehindEnd(e, num) ==
    /\ Goto(e, "menu", IF num # 0 THEN "load" ELSE "menu")
    /\ NUM_REC' = [NUM_REC EXCEPT ![e] = num]
    /\ UNCHANGED <<file, locks, REC, REC_SAVE, REC_NEW, FLAG_EDIT, looking,
                   history>>

\* The number overwrites NUM_REC before modify finds it does not exist.
Choose(e, num) ==
    /\ Goto(e, "menu", IF num \in Records THEN "load" ELSE "menu")
    /\ NUM_REC' = [NUM_REC EXCEPT ![e] = num]
    /\ UNCHANGED <<file, locks, REC, REC_SAVE, REC_NEW, FLAG_EDIT, looking,
                   history>>

\* get_record's read lock.
LoadLock(e) ==
    /\ Goto(e, "load", "loading")
    /\ ReadLockFree(e, NUM_REC[e])
    /\ SetReadLocks(e, {NUM_REC[e]})
    /\ UNCHANGED <<file, buffers, looking, history>>

\* Mutant: no record_copy when something is still to be put.
LoadKeepsSave(e) ==
    /\ Goto(e, "loading", "edit")
    /\ REC' = [REC EXCEPT ![e] = file[NUM_REC[e]]]
    /\ REC_SAVE' = IF FLAG_EDIT[e] THEN REC_SAVE
                   ELSE [REC_SAVE EXCEPT ![e] = file[NUM_REC[e]]]
    /\ Unlock(e, {NUM_REC[e]})
    /\ loaded' = [loaded EXCEPT ![e] = NUM_REC[e]]
    /\ overtaken' = overtaken \ {e}
    /\ UNCHANGED <<file, REC_NEW, NUM_REC, FLAG_EDIT, looking>>

\* The read, the unlock and record_copy.
Load(e) ==
    /\ Goto(e, "loading", "edit")
    /\ REC' = [REC EXCEPT ![e] = file[NUM_REC[e]]]
    /\ REC_SAVE' = [REC_SAVE EXCEPT ![e] = file[NUM_REC[e]]]
    /\ Unlock(e, {NUM_REC[e]})
    /\ loaded' = [loaded EXCEPT ![e] = NUM_REC[e]]
    /\ overtaken' = overtaken \ {e}
    /\ UNCHANGED <<file, REC_NEW, NUM_REC, FLAG_EDIT, looking>>

\* A field is typed: the contents become something, perhaps the same.
Edit(e, v) ==
    /\ pc[e] = "edit"
    /\ REC' = [REC EXCEPT ![e] = v]
    /\ FLAG_EDIT' = [FLAG_EDIT EXCEPT ![e] = TRUE]
    /\ UNCHANGED <<file, locks, pc, REC_SAVE, REC_NEW, NUM_REC, looking,
                   history>>

\* Leaving the editor: an edit that changed nothing is none.
EditEnd(e) ==
    /\ Goto(e, "edit", "menu")
    /\ FLAG_EDIT' = [FLAG_EDIT EXCEPT ![e] = @ /\ REC[e] # REC_SAVE[e]]
    /\ UNCHANGED <<file, locks, REC, REC_SAVE, REC_NEW, NUM_REC, looking,
                   history>>

------------------------------------------------------------------------------
(***************************************************************************)
(* '4': put_record                                                         *)
(***************************************************************************)

Put(e) ==
    /\ FLAG_EDIT[e]
    /\ Goto(e, "menu", "put")
    /\ UNCHANGED <<file, locks, buffers, looking, history>>

\* The write lock.  For number 0 the offset is negative, fcntl fails with a
\* message, and the program goes on without a lock.
PutLock(e) ==
    /\ Goto(e, "put", "putting")
    /\ IF NUM_REC[e] = 0
       THEN UNCHANGED locks
       ELSE WriteLockFree(e, NUM_REC[e]) /\ SetWriteLock(e, NUM_REC[e])
    /\ UNCHANGED <<file, buffers, looking, history>>

\* get_record: its read lock replaces the write lock and its unlock releases
\* both.  For a number that does not exist it returns at once, and REC_NEW
\* and the lock stay what they were.
PutRead(e) ==
    /\ Goto(e, "putting", "check")
    /\ IF NUM_REC[e] \in Records
       THEN /\ REC_NEW' = [REC_NEW EXCEPT ![e] = file[NUM_REC[e]]]
            /\ Unlock(e, {NUM_REC[e]})
       ELSE UNCHANGED <<REC_NEW, locks>>
    /\ UNCHANGED <<file, REC, REC_SAVE, NUM_REC, FLAG_EDIT, looking, history>>

\* Mutant: the early return forgets its unlock.
PutRefuseKeepsLock(e) ==
    /\ Goto(e, "check", IF NUM_REC[e] \in Records THEN "load" ELSE "menu")
    /\ REC_SAVE[e] # REC_NEW[e]
    /\ UNCHANGED <<file, locks, buffers, looking, history>>

\* The record has changed: unlock, and main goes on to modify.
PutRefuse(e) ==
    /\ Goto(e, "check", IF NUM_REC[e] \in Records THEN "load" ELSE "menu")
    /\ REC_SAVE[e] # REC_NEW[e]
    /\ Unlock(e, {NUM_REC[e]})
    /\ UNCHANGED <<file, buffers, looking, history>>

\* Where the write lands: the seek for number 0 fails, and the position is
\* still at the first record.
Target(e) == IF NUM_REC[e] = 0 THEN 1 ELSE NUM_REC[e]

\* The write, the unlock, the seek back and the flag.
PutWrite(e) ==
    /\ Goto(e, "check", "menu")
    /\ REC_SAVE[e] = REC_NEW[e]
    /\ file' = [file EXCEPT ![Target(e)] = REC[e]]
    /\ Unlock(e, {NUM_REC[e]})
    /\ FLAG_EDIT' = [FLAG_EDIT EXCEPT ![e] = FALSE]
    /\ overtaken' = overtaken \cup {d \in Editor \ {e} : loaded[d] = Target(e)}
    /\ UNCHANGED <<REC, REC_SAVE, REC_NEW, NUM_REC, looking, loaded>>

(***************************************************************************)
(* Any other key, or a signal at any point, ends the process.  The kernel  *)
(* drops its locks, its buffers are gone, and the user starts it again.    *)
(***************************************************************************)
Restart(e) ==
    /\ pc' = [pc EXCEPT ![e] = "menu"]
    /\ Unlock(e, Numbers)
    /\ REC' = [REC EXCEPT ![e] = Junk]
    /\ REC_SAVE' = [REC_SAVE EXCEPT ![e] = Junk]
    /\ REC_NEW' = [REC_NEW EXCEPT ![e] = Junk]
    /\ NUM_REC' = [NUM_REC EXCEPT ![e] = 0]
    /\ FLAG_EDIT' = [FLAG_EDIT EXCEPT ![e] = FALSE]
    /\ looking' = [looking EXCEPT ![e] = {}]
    /\ loaded' = [loaded EXCEPT ![e] = NULL]
    /\ overtaken' = overtaken \ {e}
    /\ UNCHANGED file

Next ==
    \E e \in Editor :
        \/ Look(e) \/ LookAway(e) \/ Restart(e)
        \/ \E num \in Numbers : Choose(e, num)
        \/ LoadLock(e) \/ Load(e)
        \/ \E v \in Value : Edit(e, v)
        \/ EditEnd(e)
        \/ Put(e) \/ PutLock(e) \/ PutRead(e) \/ PutRefuse(e) \/ PutWrite(e)

Spec == Init /\ [][Next]_vars

------------------------------------------------------------------------------
(***************************************************************************)
(* Correctness                                                             *)
(***************************************************************************)

TypeOK ==
    /\ file \in [Numbers \ {0} -> Value \cup {NULL}]
    /\ readers \in [Numbers -> SUBSET Editor]
    /\ writer \in [Numbers -> Editor \cup {NULL}]
    /\ pc \in [Editor -> {"menu", "look", "load", "loading", "edit", "put",
                          "putting", "check"}]
    /\ REC \in [Editor -> Value \cup {Junk}]
    /\ REC_SAVE \in [Editor -> Value \cup {Junk}]
    /\ REC_NEW \in [Editor -> Value \cup {Junk}]
    /\ NUM_REC \in [Editor -> Numbers]
    /\ FLAG_EDIT \in [Editor -> BOOLEAN]
    /\ looking \in [Editor -> SUBSET Numbers]
    /\ loaded \in [Editor -> Records \cup {NULL}]
    /\ overtaken \subseteq Editor

\* An editor that waits in F_SETLKW, or that waits for its user, holds no
\* lock: every early return has unlocked, and editors cannot wait for each
\* other in a circle, which is what F_SETLKW would answer with EDEADLK.
WaitsWithoutLocks ==
    \A e \in Editor : pc[e] \in {"menu", "edit", "load", "put"} =>
        \A r \in Numbers : e \notin readers[r] /\ writer[r] # e

\* A put of an existing record is refused only when somebody else has put
\* that record since this editor read it.
RefusalIsJustified ==
    [][\A e \in Editor :
         PutRefuse(e) /\ NUM_REC[e] \in Records => e \in overtaken]_vars

\* "The data has been changed by someone, please repeat the editing
\* operation again." (main.c:77): a put that succeeds has replaced nothing
\* but the record its user saw.
NoLostUpdate ==
    [][\A e \in Editor :
         PutWrite(e) /\ NUM_REC[e] \in Records =>
             file[NUM_REC[e]] = REC_SAVE[e]]_vars

\* "4.Put last modified record." (main.c:49): what is written is written
\* to the record it was read from.
PutsLastModified ==
    [][\A e \in Editor : PutWrite(e) => Target(e) = loaded[e]]_vars

==============================================================================
