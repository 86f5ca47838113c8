---------------------------- MODULE Lab4Processes ----------------------------
(***************************************************************************)
(* lab4/main.c, list.c and ring.c: a parent forks producers and consumers  *)
(* that share a ring of System V segments and three semaphores.  'k' takes *)
(* a child off the parent's list and sends it SIGUSR1; 'q' sends SIGKILL   *)
(* to the children still listed and removes the segments.                  *)
(*                                                                         *)
(* Processes interleave at every semaphore operation.  What a child does   *)
(* to the ring between two of them is one step: nobody else looks at the   *)
(* busy flags, and a child killed half-way keeps SEMAPHORE_MUTEX for ever. *)
(* Left out, since no process can tell: the marks of IPC_RMID (the parent  *)
(* never detaches what append attached, and its children inherit that, so  *)
(* a marked segment stays usable), the names of the semaphores (nobody     *)
(* looks them up again), the totals (only printed), and the children's     *)
(* copies of the list.                                                     *)
(***************************************************************************)
EXTENDS Naturals, Sequences, FiniteSets

CONSTANTS
    Producers, Consumers,  \* the children the user may start
    BUFFER_SIZE,           \* places of the ring, tokens at start-up
    MaxFailures,           \* bound: calls of fork that fail
    NOPID                  \* -1, which a failed fork returns

Children == Producers \cup Consumers
Nodes    == 0..(BUFFER_SIZE - 1)

ASSUME Lab4Assumption ==
    /\ IsFiniteSet(Producers) /\ IsFiniteSet(Consumers)
    /\ Producers \cap Consumers = {} /\ NOPID \notin Children
    /\ BUFFER_SIZE \in Nat \ {0} /\ MaxFailures \in Nat

VARIABLES
    EMPTY, FILLED, MUTEX,    \* the values of the three semaphores
    begin, tail, busy,       \* the ring: two nodes and flag_is_busy
    pc,                      \* where each child is, or was when it died
    got,                     \* consumers: extract_message gave a message
    FLAG_CONTINUE,           \* of each child
    signalled, killed,       \* children with a pending SIGUSR1, SIGKILL
    dead,                    \* children SIGKILL has ended
    strangers,               \* history: pids told that were no child of ours
    list, failures,          \* list_child_process behind its head; its -1s
    main, cursor             \* the parent: its place and `buffer'

semVars   == <<EMPTY, FILLED, MUTEX>>
ringVars  == <<begin, tail, busy>>
childVars == <<pc, got, FLAG_CONTINUE>>
sigVars   == <<signalled, killed, dead, strangers>>
listVars  == <<list, failures>>
mainVars  == <<main, cursor>>
vars == <<semVars, ringVars, childVars, sigVars, listVars, mainVars>>

Init ==
    /\ EMPTY = BUFFER_SIZE /\ FILLED = 0 /\ MUTEX = 1
    /\ begin = 0 /\ tail = 0 /\ busy = [n \in Nodes |-> FALSE]
    /\ pc = [c \in Children |-> "absent"]
    /\ got = [c \in Consumers |-> FALSE]
    /\ FLAG_CONTINUE = [c \in Children |-> TRUE]
    /\ signalled = {} /\ killed = {} /\ dead = {} /\ strangers = {}
    /\ list = <<>> /\ failures = 0
    /\ main = "menu" /\ cursor = 0

\* shmid_next: BUFFER_SIZE calls of append put each node in front of begin.
Following(n) == (n + 1) % BUFFER_SIZE

Goto(c, from, to) == pc[c] = from /\ pc' = [pc EXCEPT ![c] = to]

\* The condition at the end of the loop, to which nothing is visible between
\* it and the last sem_post.  A child that leaves the loop runs through the
\* rest of main: the newline in its copy of the input, then the same flag.
LoopTest(c) == IF FLAG_CONTINUE[c] THEN "wait" ELSE "done"

\* Children that have not been forked or have left by themselves.
Gone  == {"absent", "done", "faulted"}
Alive == {c \in Children : pc[c] \notin Gone} \ dead

------------------------------------------------------------------------------
(***************************************************************************)
(* What both kinds of children do                                          *)
(***************************************************************************)

\* Mutant: the wait for the mutex is missing.
LockUnchecked(c) ==
    /\ Goto(c, "lock", "locked")
    /\ UNCHANGED <<semVars, ringVars, got, FLAG_CONTINUE, sigVars, listVars,
                   mainVars>>

Lock(c) ==
    /\ Goto(c, "lock", "locked")
    /\ MUTEX > 0 /\ MUTEX' = MUTEX - 1
    /\ UNCHANGED <<EMPTY, FILLED, ringVars, got, FLAG_CONTINUE, sigVars,
                   listVars, mainVars>>

\* Mutant: a child told to stop leaves before it gives the mutex back.
UnlockUnlessStopped(c) ==
    /\ Goto(c, "unlock", IF FLAG_CONTINUE[c] THEN "post" ELSE "done")
    /\ MUTEX' = IF FLAG_CONTINUE[c] THEN MUTEX + 1 ELSE MUTEX
    /\ UNCHANGED <<EMPTY, FILLED, ringVars, got, FLAG_CONTINUE, sigVars,
                   listVars, mainVars>>

Unlock(c) ==
    /\ Goto(c, "unlock", "post")
    /\ MUTEX' = MUTEX + 1
    /\ UNCHANGED <<EMPTY, FILLED, ringVars, got, FLAG_CONTINUE, sigVars,
                   listVars, mainVars>>

\* handler_stop_proc.  It was installed before any fork, and sem_wait is
\* restarted behind it.
Stop(c) ==
    /\ c \in signalled /\ c \in Alive
    /\ signalled' = signalled \ {c}
    /\ FLAG_CONTINUE' = [FLAG_CONTINUE EXCEPT ![c] = FALSE]
    /\ UNCHANGED <<semVars, ringVars, pc, got, killed, dead, strangers,
                   listVars, mainVars>>

\* SIGKILL takes effect, wherever the child is.
Die(c) ==
    /\ c \in killed /\ c \in Alive
    /\ dead' = dead \cup {c}
    /\ UNCHANGED <<semVars, ringVars, childVars, signalled, killed, strangers,
                   listVars, mainVars>>

------------------------------------------------------------------------------
(***************************************************************************)
(* producer and consumer                                                   *)
(***************************************************************************)

ProducerWait(p) ==
    /\ Goto(p, "wait", "lock")
    /\ EMPTY > 0 /\ EMPTY' = EMPTY - 1
    /\ UNCHANGED <<FILLED, MUTEX, ringVars, got, FLAG_CONTINUE, sigVars,
                   listVars, mainVars>>

\* add_message; on a busy node it drops the message.
ProducerAdd(p) ==
    /\ Goto(p, "locked", "unlock")
    /\ IF busy[tail] THEN UNCHANGED <<busy, tail>>
       ELSE busy' = [busy EXCEPT ![tail] = TRUE] /\ tail' = Following(tail)
    /\ UNCHANGED <<semVars, begin, got, FLAG_CONTINUE, sigVars, listVars,
                   mainVars>>

ProducerPost(p) ==
    /\ Goto(p, "post", LoopTest(p))
    /\ FILLED' = FILLED + 1
    /\ UNCHANGED <<EMPTY, MUTEX, ringVars, got, FLAG_CONTINUE, sigVars,
                   listVars, mainVars>>

ConsumerWait(c) ==
    /\ Goto(c, "wait", "lock")
    /\ FILLED > 0 /\ FILLED' = FILLED - 1
    /\ UNCHANGED <<EMPTY, MUTEX, ringVars, got, FLAG_CONTINUE, sigVars,
                   listVars, mainVars>>

\* Mutant: the node is not marked free.
ConsumerExtractKeepsBusy(c) ==
    /\ Goto(c, "locked", "unlock")
    /\ got' = [got EXCEPT ![c] = busy[begin]]
    /\ begin' = IF busy[begin] THEN Following(begin) ELSE begin
    /\ UNCHANGED <<semVars, tail, busy, FLAG_CONTINUE, sigVars, listVars,
                   mainVars>>

\* extract_message; a free node gives NULL.
ConsumerExtract(c) ==
    /\ Goto(c, "locked", "unlock")
    /\ got' = [got EXCEPT ![c] = busy[begin]]
    /\ IF busy[begin]
       THEN busy' = [busy EXCEPT ![begin] = FALSE] /\ begin' = Following(begin)
       ELSE UNCHANGED <<busy, begin>>
    /\ UNCHANGED <<semVars, tail, FLAG_CONTINUE, sigVars, listVars, mainVars>>

\* Mutant: the token goes back to the wrong semaphore.
ConsumerPostFilled(c) ==
    /\ Goto(c, "post", IF got[c] THEN LoopTest(c) ELSE "faulted")
    /\ FILLED' = FILLED + 1
    /\ UNCHANGED <<EMPTY, MUTEX, ringVars, got, FLAG_CONTINUE, sigVars,
                   listVars, mainVars>>

\* Mutant: the token of the free place is not given back.
ConsumerPostNothing(c) ==
    /\ Goto(c, "post", IF got[c] THEN LoopTest(c) ELSE "faulted")
    /\ UNCHANGED <<semVars, ringVars, got, FLAG_CONTINUE, sigVars, listVars,
                   mainVars>>

\* sem_post, and display_message, which reads through what it is given.
ConsumerPost(c) ==
    /\ Goto(c, "post", IF got[c] THEN LoopTest(c) ELSE "faulted")
    /\ EMPTY' = EMPTY + 1
    /\ UNCHANGED <<FILLED, MUTEX, ringVars, got, FLAG_CONTINUE, sigVars,
                   listVars, mainVars>>

Child(c) ==
    \/ Lock(c) \/ Unlock(c)
    \/ /\ c \in Producers
       /\ ProducerWait(c) \/ ProducerAdd(c) \/ ProducerPost(c)
    \/ /\ c \in Consumers
       /\ ConsumerWait(c) \/ ConsumerExtract(c) \/ ConsumerPost(c)

------------------------------------------------------------------------------
(***************************************************************************)
(* main: the menu                                                          *)
(***************************************************************************)

\* 'p' and 'c': fork and push_list.
Fork(c) ==
    /\ main = "menu"
    /\ Goto(c, "absent", "wait")
    /\ list' = Append(list, c)
    /\ UNCHANGED <<semVars, ringVars, got, FLAG_CONTINUE, sigVars, failures,
                   mainVars>>

\* The pid is not looked at: -1 is put on the list.
ForkFails ==
    /\ main = "menu"
    /\ failures < MaxFailures /\ failures' = failures + 1
    /\ list' = Append(list, NOPID)
    /\ UNCHANGED <<semVars, ringVars, childVars, sigVars, mainVars>>

\* kill(pid, ...) reaches a child of this parent only while its pid cannot
\* have gone to another process: it runs, or 'q' has killed it and waitpid
\* comes later.  kill(-1, ...) goes to every process of the user.
Stranger(pid) == pid \notin Alive \cup killed

\* Mutant: the child stays on the list.
KillKeepsListed(num) ==
    /\ main = "menu" /\ num \in 1..Len(list)
    /\ LET told == {list[num]} \ {NOPID}
       IN  /\ signalled' = signalled \cup told
           /\ strangers' = strangers \cup {pid \in told : Stranger(pid)}
    /\ UNCHANGED <<semVars, ringVars, childVars, killed, dead, listVars,
                   mainVars>>

\* 'k': erase_list, where 0 is main itself and a number behind the end is
\* refused, then SIGUSR1, unless the pid taken off the list is -1.
Kill(num) ==
    /\ main = "menu" /\ num \in 1..Len(list)
    /\ LET told == {list[num]} \ {NOPID}
       IN  /\ signalled' = signalled \cup told
           /\ strangers' = strangers \cup {pid \in told : Stranger(pid)}
    /\ list' = SubSeq(list, 1, num - 1) \o SubSeq(list, num + 1, Len(list))
    /\ UNCHANGED <<semVars, ringVars, childVars, killed, dead, failures,
                   mainVars>>

\* 'q'.
Quit ==
    /\ main = "menu" /\ main' = "delete"
    /\ UNCHANGED <<semVars, ringVars, childVars, sigVars, listVars, cursor>>

\* delete_all_child_proc: from the end of the list.  kill(-1, SIGKILL) ends
\* every process of the user but the caller.
DeleteNext ==
    /\ main = "delete" /\ list # <<>>
    /\ LET pid == list[Len(list)]
       IN  /\ killed' = killed \cup (IF pid = NOPID THEN Alive ELSE {pid})
           /\ strangers' = IF Stranger(pid) THEN strangers \cup {pid}
                                            ELSE strangers
    /\ list' = SubSeq(list, 1, Len(list) - 1)
    /\ UNCHANGED <<semVars, ringVars, childVars, signalled, dead, failures,
                   mainVars>>

\* "All child processes are deleted." and the start of clear_shared_memory.
DeleteEnd ==
    /\ main = "delete" /\ list = <<>>
    /\ main' = "clear" /\ cursor' = begin
    /\ UNCHANGED <<semVars, ringVars, childVars, sigVars, listVars>>

\* Mutant: begin is read again, so the loop stays where it is.
ClearNextFromBegin ==
    /\ main = "clear" /\ Following(cursor) # tail
    /\ cursor' = begin
    /\ UNCHANGED <<semVars, ringVars, childVars, sigVars, listVars, main>>

\* A turn of the loop of clear_shared_memory, which reads shmid_tail anew.
ClearNext ==
    /\ main = "clear" /\ Following(cursor) # tail
    /\ cursor' = Following(cursor)
    /\ UNCHANGED <<semVars, ringVars, childVars, sigVars, listVars, main>>

\* The segment the loop stopped at and the one of the queue; main returns.
ClearEnd ==
    /\ main = "clear" /\ Following(cursor) = tail
    /\ main' = "ended"
    /\ UNCHANGED <<semVars, ringVars, childVars, sigVars, listVars, cursor>>

Leaving == DeleteNext \/ DeleteEnd \/ ClearNext \/ ClearEnd

Main ==
    \/ \E c \in Children : Fork(c)
    \/ ForkFails
    \/ \E num \in 1..(Cardinality(Children) + MaxFailures) : Kill(num)
    \/ Quit
    \/ Leaving

\* The parent has returned; children it has not killed may wait for ever.
Ended == main = "ended" /\ UNCHANGED vars

Next ==
    \/ Main
    \/ \E c \in Alive : Child(c) \/ Stop(c) \/ Die(c)
    \/ Ended

Spec == Init /\ [][Next]_vars

------------------------------------------------------------------------------
(***************************************************************************)
(* Correctness                                                             *)
(***************************************************************************)

ChildPlaces == {"wait", "lock", "locked", "unlock", "post"}

TypeOK ==
    /\ EMPTY \in Nat /\ FILLED \in Nat /\ MUTEX \in {0, 1}
    /\ begin \in Nodes /\ tail \in Nodes /\ busy \in [Nodes -> BOOLEAN]
    /\ pc \in [Children -> ChildPlaces \cup Gone]
    /\ got \in [Consumers -> BOOLEAN]
    /\ FLAG_CONTINUE \in [Children -> BOOLEAN]
    /\ signalled \subseteq Children /\ killed \subseteq Children
    /\ dead \subseteq killed /\ strangers \subseteq Children \cup {NOPID}
    /\ list \in Seq(Children \cup {NOPID}) /\ failures \in Nat
    /\ main \in {"menu", "delete", "clear", "ended"}
    /\ cursor \in Nodes

Busy == {n \in Nodes : busy[n]}
At(W, places) == {c \in W : pc[c] \in places}

\* However children are stopped and killed, every token, in a semaphore or
\* with a child (a dead one keeps it), stands for a free place or a message.
TokenAccounting ==
    /\ EMPTY + Cardinality(At(Producers, {"lock", "locked"}))
             + Cardinality(At(Consumers, {"unlock", "post"}))
         = BUFFER_SIZE - Cardinality(Busy)
    /\ FILLED + Cardinality(At(Consumers, {"lock", "locked"}))
              + Cardinality(At(Producers, {"unlock", "post"}))
         = Cardinality(Busy)

\* With the mutex, a producer finds the node at tail free (else add_message
\* would drop its message) and a consumer finds a message at begin (else
\* display_message would be given NULL).
SafeAccess ==
    /\ \A p \in Producers : pc[p] = "locked" => ~busy[tail]
    /\ \A c \in Consumers : pc[c] = "locked" => busy[begin]
    /\ \A c \in Consumers : pc[c] # "faulted"

\* No signal of 'k' or 'q' goes to a process that is no child of this parent,
\* in whatever order children are forked, stopped and end by themselves,
\* except the kill(-1, SIGKILL) of 'q' on a -1 that a failed fork left on the
\* list and no 'k' has taken off it.
StrangersOnlyByMinusOne ==
    [][strangers' # strangers =>
         DeleteNext /\ list[Len(list)] = NOPID]_vars

\* 'k' never costs the others the mutex: it is free or with a child that is
\* alive, until 'q' kills one that has it.
MutexLostOnlyByQuit ==
    MUTEX = 0 /\ At(Alive, {"locked", "unlock"}) = {}
        => \E c \in dead : pc[c] \in {"locked", "unlock"}

------------------------------------------------------------------------------
(***************************************************************************)
(* Liveness: while some child can run the machine is not left idle,        *)
(* signals arrive, and the parent finishes the 'q' it has begun.  Nothing  *)
(* is assumed of which child runs, and semaphores promise no order.        *)
(***************************************************************************)

Fairness ==
    /\ WF_vars(\E c \in Alive : Child(c))
    /\ WF_vars(\E c \in Children : Stop(c) \/ Die(c))
    /\ WF_vars(Leaving)

FairSpec == Spec /\ Fairness

AtWork(c) == c \in Alive /\ FLAG_CONTINUE[c] /\ c \notin signalled

\* As long as a producer and a consumer are left, whoever else was stopped,
\* messages are extracted again and again.
MessagesFlow ==
    <>[](/\ main = "menu"
         /\ \E p \in Producers : AtWork(p)
         /\ \E c \in Consumers : AtWork(c))
    => []<><<\E c \in Consumers : ConsumerExtract(c)>>_vars

\* 'q' ends the parent: clear_shared_memory gets to the tail although
\* children that 'k' or 'q' has not ended yet still move it.
QuitEnds == main = "delete" ~> main = "ended"

\* lab4/main.c:118 "All child processes are deleted.", printed by 'q': soon
\* no child is left.  (Refuted: a child that 'k' took off the list is not
\* killed, and if it waits for a semaphore it never sees its cleared flag.)
AllChildrenDeleted == main = "clear" ~> Alive = {}

==============================================================================
