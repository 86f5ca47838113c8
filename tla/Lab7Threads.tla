----------------------------- MODULE Lab7Threads -----------------------------
(***************************************************************************)
(* lab7/part1/main.c: lab5's producers and consumers with a mutex and one  *)
(* condition variable instead of semaphores.  Two counters, kept under the *)
(* mutex, say how many places are free and how many are filled.  Consumers *)
(* wait on the condition until there is a message; producers never wait,   *)
(* they sleep and look again.  The condition is broadcast when a producer  *)
(* fills the last place and when the user leaves the menu, and only then.  *)
(*                                                                         *)
(* The queue is the one of BoundedFifo.  producer_passes is incremented    *)
(* and never read, and is left out.  A critical section is cut where       *)
(* something can happen inside it: at the waits and where a cancelled      *)
(* thread may die with the mutex (sleep, printf).                          *)
(***************************************************************************)
EXTENDS Naturals, Sequences, FiniteSets

CONSTANTS
    Producers, Consumers,  \* the threads the user may start
    Message, NULL,
    Main,                  \* the menu thread, as an owner of the mutex
    INITIAL_SIZE_BUFFER,
    MaxPlaces              \* bound: '+' is not typed beyond this size

Workers == Producers \cup Consumers

ASSUME Lab7Assumption ==
    /\ IsFiniteSet(Producers) /\ IsFiniteSet(Consumers)
    /\ Producers \cap Consumers = {}
    /\ Main \notin Workers \cup {NULL}
    /\ NULL \notin Message \cup Workers
    /\ INITIAL_SIZE_BUFFER \in Nat \ {0} /\ MaxPlaces \in Nat \ {0}

VARIABLES
    places, msgs,          \* the queue
    freed,                 \* main has called free(queue)
    CNT_FREE_PLACES, CNT_FILL_PLACES,
    mutex,                 \* its owner or NULL
    flag_break_process,
    pc,                    \* where each worker is
    FLAG_CONTINUE, signalled, cancelled, handler,   \* as in Lab5Threads
    list,                  \* list_of_ptreads
    main,                  \* where the menu thread is
    process                \* "running", or how the process ended

queueVars == <<places, msgs>>
cntVars   == <<CNT_FREE_PLACES, CNT_FILL_PLACES>>
stopVars  == <<FLAG_CONTINUE, signalled, cancelled, handler>>
mainVars  == <<flag_break_process, list, main, freed>>
vars == <<queueVars, cntVars, mutex, pc, stopVars, mainVars, process>>

Queue == INSTANCE BoundedFifo WITH ret <- NULL

Init ==
    /\ places = INITIAL_SIZE_BUFFER /\ msgs = <<>> /\ freed = FALSE
    /\ CNT_FREE_PLACES = INITIAL_SIZE_BUFFER /\ CNT_FILL_PLACES = 0
    /\ mutex = NULL
    /\ flag_break_process = FALSE
    /\ pc = [t \in Workers |-> "absent"]
    /\ FLAG_CONTINUE = [t \in Workers |-> TRUE]
    /\ signalled = {} /\ cancelled = {} /\ handler = FALSE
    /\ list = <<>> /\ main = "menu"
    /\ process = "running"

Goto(t, from, to) == pc[t] = from /\ pc' = [pc EXCEPT ![t] = to]

Gone == {"absent", "done", "dead", "dead_locked"}

Places == {"start", "lock", "locked", "waiting", "relock", "take", "print",
           "test"} \cup Gone

\* The queue pointer main has freed but not cleared: using it may fault.
Dangling == freed /\ places > 0
TouchQueue == process' \in IF Dangling THEN {process, "use_after_free"}
                                       ELSE {process}

\* pthread_cond_broadcast: every waiter goes for the mutex.
Woken(f) == [t \in Workers |-> IF f[t] = "waiting" THEN "relock" ELSE f[t]]

------------------------------------------------------------------------------
(***************************************************************************)
(* What both kinds of worker do                                            *)
(***************************************************************************)

\* signal(SIGUSR1, handler_stop_proc).
Start(t) ==
    /\ Goto(t, "start", "lock")
    /\ handler' = TRUE
    /\ UNCHANGED <<queueVars, cntVars, mutex, FLAG_CONTINUE, signalled,
                   cancelled, mainVars, process>>

Lock(t) ==
    /\ Goto(t, "lock", "locked")
    /\ mutex = NULL /\ mutex' = t
    /\ UNCHANGED <<queueVars, cntVars, stopVars, mainVars, process>>

\* The printfs at the end of the critical section, and the unlock.
Unlock(t) ==
    /\ Goto(t, "print", "test")
    /\ TouchQueue
    /\ mutex' = NULL
    /\ UNCHANGED <<queueVars, cntVars, stopVars, mainVars>>

\* usleep or sleep outside the mutex, and the condition of the loop.
LoopTest(t) ==
    /\ Goto(t, "test", IF FLAG_CONTINUE[t] THEN "lock" ELSE "done")
    /\ UNCHANGED <<queueVars, cntVars, mutex, stopVars, mainVars, process>>

\* SIGUSR1 interrupts nothing; without a handler it ends the process.
Deliver(t) ==
    /\ t \in signalled /\ pc[t] \notin Gone
    /\ signalled' = signalled \ {t}
    /\ IF handler
       THEN /\ FLAG_CONTINUE' = [FLAG_CONTINUE EXCEPT ![t] = FALSE]
            /\ UNCHANGED process
       ELSE /\ process' = "killed_by_SIGUSR1"
            /\ UNCHANGED FLAG_CONTINUE
    /\ UNCHANGED <<queueVars, cntVars, mutex, pc, cancelled, handler, mainVars>>

------------------------------------------------------------------------------
(***************************************************************************)
(* producer                                                                *)
(***************************************************************************)

\* Mutant: `continue' without the unlock.
ProducerPollLocked(p) ==
    /\ Goto(p, "locked", "test")
    /\ CNT_FREE_PLACES = 0
    /\ UNCHANGED <<queueVars, cntVars, mutex, stopVars, mainVars, process>>

\* No free place: unlock, sleep and `continue'.
ProducerPoll(p) ==
    /\ Goto(p, "locked", "test")
    /\ CNT_FREE_PLACES = 0
    /\ mutex' = NULL
    /\ UNCHANGED <<queueVars, cntVars, stopVars, mainVars, process>>

\* Mutant: the broadcast is forgotten.
ProducerAddSilently(p) ==
    /\ CNT_FREE_PLACES # 0
    /\ \E m \in Message : msgs' = Queue!AddedMsgs(places, msgs, m)
    /\ CNT_FILL_PLACES' = CNT_FILL_PLACES + 1
    /\ CNT_FREE_PLACES' = CNT_FREE_PLACES - 1
    /\ Goto(p, "locked", "print")
    /\ TouchQueue
    /\ UNCHANGED <<places, mutex, stopVars, mainVars>>

ProducerAdd(p) ==
    /\ pc[p] = "locked"
    /\ CNT_FREE_PLACES # 0
    /\ \E m \in Message : msgs' = Queue!AddedMsgs(places, msgs, m)
    /\ CNT_FILL_PLACES' = CNT_FILL_PLACES + 1
    /\ CNT_FREE_PLACES' = CNT_FREE_PLACES - 1
    /\ LET moved == [pc EXCEPT ![p] = "print"]
       IN  pc' = IF CNT_FREE_PLACES' = 0 THEN Woken(moved) ELSE moved
    /\ TouchQueue
    /\ UNCHANGED <<places, mutex, stopVars, mainVars>>

Producer(p) == ProducerPoll(p) \/ ProducerAdd(p)

------------------------------------------------------------------------------
(***************************************************************************)
(* consumer                                                                *)
(***************************************************************************)

\* pthread_cond_wait lets go of the mutex.
ConsumerWait(c) ==
    /\ Goto(c, "locked", "waiting")
    /\ CNT_FILL_PLACES = 0
    /\ mutex' = NULL
    /\ UNCHANGED <<queueVars, cntVars, stopVars, mainVars, process>>

\* It may also return without a broadcast.
SpuriousWakeup(c) ==
    /\ Goto(c, "waiting", "relock")
    /\ UNCHANGED <<queueVars, cntVars, mutex, stopVars, mainVars, process>>

\* Mutant: `if' instead of `while' around the wait.
ConsumerRelockOnce(c) ==
    /\ Goto(c, "relock", "take")
    /\ mutex = NULL /\ mutex' = c
    /\ UNCHANGED <<queueVars, cntVars, stopVars, mainVars, process>>

\* It returns with the mutex: on flag_break_process the loop is left
\* whatever the counter says, otherwise its condition is tested again.
ConsumerRelock(c) ==
    /\ Goto(c, "relock", IF flag_break_process THEN "take" ELSE "locked")
    /\ mutex = NULL /\ mutex' = c
    /\ UNCHANGED <<queueVars, cntVars, stopVars, mainVars, process>>

PastWait(c) == pc[c] = "take" \/ (pc[c] = "locked" /\ CNT_FILL_PLACES # 0)

\* extract_message, the counters, display_message.
ConsumerTake(c) ==
    /\ PastWait(c) /\ msgs # <<>>
    /\ msgs' = Queue!ExtractedMsgs(msgs)
    /\ CNT_FILL_PLACES' = CNT_FILL_PLACES - 1
    /\ CNT_FREE_PLACES' = CNT_FREE_PLACES + 1
    /\ pc' = [pc EXCEPT ![c] = "print"]
    /\ TouchQueue
    /\ UNCHANGED <<places, mutex, stopVars, mainVars>>

\* With no message or no queue extract_message returns NULL, and
\* display_message reads through it.
ConsumerTakeNull(c) ==
    /\ PastWait(c) /\ msgs = <<>>
    /\ process' = "fault_in_display"
    /\ UNCHANGED <<queueVars, cntVars, mutex, pc, stopVars, mainVars>>

Consumer(c) ==
    \/ ConsumerWait(c) \/ ConsumerRelock(c) \/ ConsumerTake(c)
    \/ ConsumerTakeNull(c)

\* Deferred cancellation acts outside the mutex in sleep and usleep, inside
\* it in sleep and printf, and in pthread_cond_wait, which takes the mutex
\* back first.  Nobody unlocks a mutex whose owner was cancelled.
Cancel(t) ==
    /\ t \in cancelled
    /\ \/ Goto(t, "test", "dead") /\ UNCHANGED mutex
       \/ Goto(t, "print", "dead_locked") /\ UNCHANGED mutex
       \/ /\ IF t \in Consumers
             THEN PastWait(t)
             ELSE pc[t] = "locked" /\ CNT_FREE_PLACES # 0
          /\ pc' = [pc EXCEPT ![t] = "dead_locked"]
          /\ UNCHANGED mutex
       \/ /\ Goto(t, "waiting", "dead_locked")
          /\ mutex = NULL /\ mutex' = t
    /\ UNCHANGED <<queueVars, cntVars, stopVars, mainVars, process>>

------------------------------------------------------------------------------
(***************************************************************************)
(* main: the menu                                                          *)
(***************************************************************************)

Create(t) ==
    /\ main = "menu"
    /\ Goto(t, "absent", "start")
    /\ list' = Append(list, t)
    /\ UNCHANGED <<queueVars, cntVars, mutex, stopVars, flag_break_process,
                   main, freed, process>>

\* 'k': erase_list counts from 0.
Kill(num) ==
    /\ main = "menu"
    /\ num < Len(list)
    /\ signalled' = signalled \cup {list[num + 1]}
    /\ list' = SubSeq(list, 1, num) \o SubSeq(list, num + 2, Len(list))
    /\ UNCHANGED <<queueVars, cntVars, mutex, pc, FLAG_CONTINUE, cancelled,
                   handler, flag_break_process, main, freed, process>>

\* '+' and '-' are typed; main then waits for the mutex.
ChooseResize ==
    /\ main = "menu"
    /\ \/ places < MaxPlaces /\ main' = "insert"
       \/ main' = "delete"
    /\ UNCHANGED <<queueVars, cntVars, mutex, pc, stopVars, flag_break_process,
                   list, freed, process>>

\* Mutant: '+' leaves without the unlock, as '-' does with no queue.
InsertWithoutUnlock ==
    /\ main = "insert" /\ mutex = NULL
    /\ mutex' = Main
    /\ places' = places + 1
    /\ CNT_FREE_PLACES' = CNT_FREE_PLACES + 1
    /\ main' = "menu"
    /\ UNCHANGED <<msgs, CNT_FILL_PLACES, pc, stopVars, flag_break_process,
                   list, freed, process>>

Insert ==
    /\ main = "insert" /\ mutex = NULL
    /\ places' = places + 1
    /\ CNT_FREE_PLACES' = CNT_FREE_PLACES + 1
    /\ main' = "menu"
    /\ UNCHANGED <<msgs, CNT_FILL_PLACES, mutex, pc, stopVars,
                   flag_break_process, list, freed, process>>

\* Mutant: the counters do not ask what erase has thrown away.
DeleteAlwaysFree ==
    /\ main = "delete" /\ mutex = NULL /\ places > 0
    /\ places' = places - 1
    /\ msgs' = Queue!ErasedMsgs(places, msgs)
    /\ CNT_FREE_PLACES' = CNT_FREE_PLACES - 1
    /\ main' = "menu"
    /\ UNCHANGED <<CNT_FILL_PLACES, mutex, pc, stopVars, flag_break_process,
                   list, freed, process>>

\* erase, and the counter of the kind of place that is gone.
Delete ==
    /\ main = "delete" /\ mutex = NULL /\ places > 0
    /\ places' = places - 1
    /\ msgs' = Queue!ErasedMsgs(places, msgs)
    /\ IF Queue!Full(places, msgs)
       THEN /\ CNT_FILL_PLACES' = CNT_FILL_PLACES - 1
            /\ UNCHANGED CNT_FREE_PLACES
       ELSE /\ CNT_FREE_PLACES' = CNT_FREE_PLACES - 1
            /\ UNCHANGED CNT_FILL_PLACES
    /\ main' = "menu"
    /\ UNCHANGED <<mutex, pc, stopVars, flag_break_process, list, freed,
                   process>>

\* With no queue `continue' skips both the unlock and the getchar: main is
\* back at the menu with the mutex, and whatever was typed behind the '-' is
\* its next command.  A newline leaves the menu; 'p', 'c', 'k' work as ever,
\* while every worker stands still; '+' and '-' wait for main itself.
DeleteNothing ==
    /\ main = "delete" /\ mutex = NULL /\ places = 0
    /\ mutex' = Main
    /\ main' = "menu"
    /\ UNCHANGED <<queueVars, cntVars, pc, stopVars, flag_break_process, list,
                   freed, process>>

\* Any other key leaves the menu: the flag, without the mutex ...
Quit ==
    /\ main = "menu"
    /\ flag_break_process' = TRUE
    /\ main' = "broadcast"
    /\ UNCHANGED <<queueVars, cntVars, mutex, pc, stopVars, list, freed,
                   process>>

\* ... and then the broadcast.
Broadcast ==
    /\ main = "broadcast"
    /\ pc' = Woken(pc)
    /\ main' = "cancel"
    /\ UNCHANGED <<queueVars, cntVars, mutex, stopVars, flag_break_process,
                   list, freed, process>>

CancelNext ==
    /\ main = "cancel" /\ list # <<>>
    /\ cancelled' = cancelled \cup {Head(list)}
    /\ list' = Tail(list)
    /\ UNCHANGED <<queueVars, cntVars, mutex, pc, FLAG_CONTINUE, signalled,
                   handler, flag_break_process, main, freed, process>>

FreeQueue ==
    /\ main = "cancel" /\ list = <<>>
    /\ freed' = TRUE
    /\ main' = "destroy"
    /\ UNCHANGED <<queueVars, cntVars, mutex, pc, stopVars, flag_break_process,
                   list, process>>

\* Who still waits on the condition; a cancelled waiter has left it.
Waiters == {t \in Workers : pc[t] = "waiting" /\ t \notin cancelled}

\* Mutant: main locks the mutex before it destroys the condition.
DestroyLocked ==
    /\ main = "destroy" /\ Waiters = {} /\ mutex = NULL
    /\ main' = "exit"
    /\ UNCHANGED <<queueVars, cntVars, mutex, pc, stopVars, flag_break_process,
                   list, freed, process>>

\* pthread_cond_destroy returns when nobody waits any more.
Destroy ==
    /\ main = "destroy" /\ Waiters = {}
    /\ main' = "exit"
    /\ UNCHANGED <<queueVars, cntVars, mutex, pc, stopVars, flag_break_process,
                   list, freed, process>>

Exit ==
    /\ main = "exit"
    /\ process' = "exited"
    /\ UNCHANGED <<queueVars, cntVars, mutex, pc, stopVars, mainVars>>

Menu ==
    \/ \E t \in Workers : Create(t)
    \/ \E num \in 0..Cardinality(Workers) : Kill(num)
    \/ ChooseResize \/ Quit

\* What main does without being asked.
MainRuns ==
    \/ Insert \/ Delete \/ DeleteNothing
    \/ Broadcast \/ CancelNext \/ FreeQueue \/ Destroy \/ Exit

Worker(t) ==
    \/ Start(t) \/ Lock(t) \/ Unlock(t) \/ LoopTest(t) \/ Cancel(t)
    \/ t \in Producers /\ Producer(t)
    \/ t \in Consumers /\ Consumer(t)

\* Nothing runs once the process has ended.  main may also wait for ever: in
\* pthread_cond_destroy (QuitEnds says when), or for the mutex it holds.
Hung ==
    \/ main = "destroy" /\ Waiters # {}
    \/ main \in {"insert", "delete"} /\ mutex = Main
Ended == (process # "running" \/ Hung) /\ UNCHANGED vars

Next ==
    \/ /\ process = "running"
       /\ \/ Menu \/ MainRuns
          \/ \E t \in Workers : Worker(t) \/ Deliver(t)
          \/ \E c \in Consumers : SpuriousWakeup(c)
    \/ Ended

Spec == Init /\ [][Next]_vars

------------------------------------------------------------------------------
(***************************************************************************)
(* Correctness                                                             *)
(***************************************************************************)

TypeOK ==
    /\ places \in Nat /\ msgs \in Seq(Message)
    /\ freed \in BOOLEAN /\ flag_break_process \in BOOLEAN
    /\ CNT_FREE_PLACES \in Nat /\ CNT_FILL_PLACES \in Nat
    /\ mutex \in Workers \cup {Main, NULL}
    /\ pc \in [Workers -> Places]
    /\ FLAG_CONTINUE \in [Workers -> BOOLEAN]
    /\ signalled \subseteq Workers /\ cancelled \subseteq Workers
    /\ handler \in BOOLEAN
    /\ list \in Seq(Workers)
    /\ main \in {"menu", "insert", "delete", "broadcast", "cancel",
                 "destroy", "exit"}
    /\ process \in {"running", "exited", "killed_by_SIGUSR1",
                    "fault_in_display", "use_after_free"}

\* The two counters are the queue seen from outside: nothing the workers or
\* '+' and '-' do to the one is missed by the other.
CountersMatchQueue ==
    /\ CNT_FILL_PLACES = Len(msgs)
    /\ CNT_FREE_PLACES + CNT_FILL_PLACES = places

\* A consumer reads through NULL only after the user has left the menu: up
\* to then no wakeup, broadcast or spurious, and no '-' in between lets it
\* past the wait without a message.  The counters are all it looks at.
NullOnlyAfterQuit ==
    /\ CountersMatchQueue
    /\ process = "fault_in_display" => flag_break_process

\* While the user works at the menu, a command that finds the mutex taken
\* waits for a worker that lives and will unlock it; cancelled owners come
\* only later.  The one exception is main itself, which keeps the mutex after
\* a '-' with no queue left, and then only '+' and '-' wait for ever.
MenuBlocksOnlyOnItself ==
    main \in {"menu", "insert", "delete"} =>
        \/ mutex = NULL
        \/ mutex \in Workers /\ pc[mutex] \notin Gone
        \/ mutex = Main /\ places = 0

\* Consumers asleep although the queue is full of messages.
Asleep == Waiters # {} /\ CNT_FREE_PLACES = 0 /\ CNT_FILL_PLACES > 0

\* The wakeup is lost in one place only: a '-' that takes the last free place
\* away makes the queue full without a broadcast.  No interleaving of
\* workers loses it.
WakeupLostOnlyByDelete == [][Asleep' /\ ~Asleep => Delete]_vars

------------------------------------------------------------------------------
(***************************************************************************)
(* Liveness.  Every thread that can run runs, and main carries a command   *)
(* through.  A thread that wants the mutex gets it if it is free again and *)
(* again: everyone sleeps outside the mutex between two critical sections. *)
(***************************************************************************)

Running(A) == process = "running" /\ A

Fairness ==
    /\ \A t \in Workers :
         /\ WF_vars(Running(Worker(t)))
         /\ SF_vars(Running(Lock(t)))
         /\ WF_vars(Running(Deliver(t)))
    /\ \A c \in Consumers : SF_vars(Running(ConsumerRelock(c)))
    /\ WF_vars(Running(MainRuns))

FairSpec == Spec /\ Fairness

AtWork(t) == pc[t] \notin Gone /\ t \notin signalled /\ FLAG_CONTINUE[t]

\* Messages keep flowing once the user stops typing, with a place, a producer
\* and a consumer left, unless a '-' has put the consumers to sleep.
MessagesFlow ==
    <>[](/\ process = "running" /\ main = "menu" /\ places > 0 /\ ~Asleep
         /\ \E p \in Producers : AtWork(p)
         /\ \E c \in Consumers : AtWork(c))
    => []<><<\E c \in Consumers : ConsumerTake(c)>>_vars

\* After the user leaves the menu the process ends, or main is stuck in
\* pthread_cond_destroy behind a consumer that 'k' had taken off the list,
\* so that it was never cancelled, and that waited after the broadcast.
QuitEnds ==
    main = "cancel" ~>
        \/ process # "running"
        \/ /\ main = "destroy"
           /\ \E c \in Waiters : ~FLAG_CONTINUE[c] \/ c \in signalled

==============================================================================
