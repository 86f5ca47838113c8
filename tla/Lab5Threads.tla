----------------------------- MODULE Lab5Threads -----------------------------
(***************************************************************************)
(* lab5/main.c: one menu thread, producers and consumers over the shared   *)
(* queue, two counting semaphores and a mutex.  '+' and '-' resize the     *)
(* queue while the workers run: '+' posts a token for the new place, and   *)
(* '-', which cannot take a token back, leaves a pass, on which the next   *)
(* worker that already holds a token goes home empty-handed.               *)
(*                                                                         *)
(* The queue is the one BoundedFifo promises and RingBuffer implements:    *)
(* `places' nodes (0: queue is NULL) holding `msgs'.                       *)
(*                                                                         *)
(* Workers interleave at every semaphore and mutex operation and at every  *)
(* access to the queue outside the mutex.  What a worker does between      *)
(* taking and releasing the mutex is one step: nobody else reads it.       *)
(***************************************************************************)
EXTENDS Naturals, Sequences, FiniteSets

CONSTANTS
    Producers, Consumers,  \* the threads the user may start
    Message, NULL,
    BUFFER_SIZE,           \* places and tokens at start-up
    MaxPlaces,             \* bound: '+' is not typed beyond this size
    MaxPasses              \* bound: '+' is not typed with this many open passes

Workers == Producers \cup Consumers

ASSUME Lab5Assumption ==
    /\ IsFiniteSet(Producers) /\ IsFiniteSet(Consumers)
    /\ Producers \cap Consumers = {}
    /\ NULL \notin Message /\ NULL \notin Workers
    /\ BUFFER_SIZE \in Nat \ {0} /\ MaxPlaces \in Nat \ {0}
    /\ MaxPasses \in Nat

VARIABLES
    places, msgs,        \* the queue
    freed,               \* main has called free(queue)
    EMPTY, FILLED,       \* SEMAPHORE_EMPTY, SEMAPHORE_FILLED
    mutex,               \* its owner: a worker or NULL
    producer_passes, consumer_passes,
    pc,                  \* where each worker is
    taken,               \* what a consumer's extract_message returned
    FLAG_CONTINUE,       \* thread-local: cleared by the SIGUSR1 handler
    signalled,           \* workers with a pending SIGUSR1
    cancelled,           \* workers main has called pthread_cancel on
    handler,             \* the SIGUSR1 handler is installed (process-wide)
    list,                \* list_of_ptreads
    main,                \* where the menu thread is
    process              \* "running", or how the process ended

queueVars == <<places, msgs>>
semVars   == <<EMPTY, FILLED>>
passVars  == <<producer_passes, consumer_passes>>
stopVars  == <<FLAG_CONTINUE, signalled, cancelled, handler>>
mainVars  == <<list, main, freed>>
vars == <<queueVars, semVars, mutex, passVars, pc, taken, stopVars, mainVars,
          process>>

Queue == INSTANCE BoundedFifo WITH ret <- NULL

Init ==
    /\ places = BUFFER_SIZE /\ msgs = <<>> /\ freed = FALSE
    /\ EMPTY = BUFFER_SIZE /\ FILLED = 0
    /\ mutex = NULL
    /\ producer_passes = 0 /\ consumer_passes = 0
    /\ pc = [t \in Workers |-> "absent"]
    /\ taken = [c \in Consumers |-> NULL]
    /\ FLAG_CONTINUE = [t \in Workers |-> TRUE]
    /\ signalled = {} /\ cancelled = {} /\ handler = FALSE
    /\ list = <<>> /\ main = "menu"
    /\ process = "running"

Goto(t, from, to) == pc[t] = from /\ pc' = [pc EXCEPT ![t] = to]

\* The queue pointer main has freed but not cleared.
Dangling == freed /\ places > 0

\* Workers that run no more, or not yet, and all the places of a worker.
Gone   == {"absent", "done", "dead", "dead_locked"}
Places == {"start", "wait", "lock", "locked", "post", "display", "report",
           "test"} \cup Gone

\* Where the menu thread can be, and how the process can end.
MenuPlaces == {"menu", "insert", "delete", "cancel", "exit"}
Outcomes   == {"running", "exited", "exit_in_erase", "killed_by_SIGUSR1",
               "fault_in_report", "fault_in_display",
               "use_after_free"}

------------------------------------------------------------------------------
(***************************************************************************)
(* What both kinds of worker do                                            *)
(***************************************************************************)

\* The first statement of a worker: signal(SIGUSR1, handler_stop_proc).
Start(t) ==
    /\ Goto(t, "start", "wait")
    /\ handler' = TRUE
    /\ UNCHANGED <<queueVars, semVars, mutex, passVars, taken, FLAG_CONTINUE,
                   signalled, cancelled, mainVars, process>>

Lock(t) ==
    /\ Goto(t, "lock", "locked")
    /\ mutex = NULL
    /\ mutex' = t
    /\ UNCHANGED <<queueVars, semVars, passVars, taken, stopVars, mainVars,
                   process>>

\* The condition of the do-while loop, where `continue' lands too.
LoopTest(t) ==
    /\ Goto(t, "test", IF FLAG_CONTINUE[t] THEN "wait" ELSE "done")
    /\ UNCHANGED <<queueVars, semVars, mutex, passVars, taken, stopVars,
                   mainVars, process>>

\* printf of queue->consumed or queue->produced, after the mutex and the
\* token are gone: the queue may be gone as well.  A NULL queue faults; a
\* freed one may fault or may still hold the old bytes.
Report(t) ==
    /\ \/ /\ places > 0
          /\ Goto(t, "report", "test")
          /\ UNCHANGED process
       \/ /\ places = 0 \/ Dangling
          /\ pc[t] = "report"
          /\ process' = "fault_in_report"
          /\ UNCHANGED pc
    /\ UNCHANGED <<queueVars, semVars, mutex, passVars, taken, stopVars,
                   mainVars>>

\* SIGUSR1 reaches the thread at any point.  Interrupted waits restart
\* (signal() asks for SA_RESTART), so the handler only clears the flag.
\* Before any worker has installed the handler, SIGUSR1 ends the process.
Deliver(t) ==
    /\ t \in signalled
    /\ pc[t] \notin Gone
    /\ signalled' = signalled \ {t}
    /\ IF handler
       THEN /\ FLAG_CONTINUE' = [FLAG_CONTINUE EXCEPT ![t] = FALSE]
            /\ UNCHANGED process
       ELSE /\ process' = "killed_by_SIGUSR1"
            /\ UNCHANGED FLAG_CONTINUE
    /\ UNCHANGED <<queueVars, semVars, mutex, passVars, pc, taken, cancelled,
                   handler, mainVars>>

\* Deferred cancellation acts in sem_wait, in sleep (under the mutex, which
\* then stays locked with the token spent) and in printf and usleep.
Cancel(t) ==
    /\ t \in cancelled
    /\ \/ /\ pc[t] \in {"wait", "display", "report"}
          /\ pc' = [pc EXCEPT ![t] = "dead"]
       \/ /\ t \in Producers => producer_passes = 0
          /\ t \in Consumers => consumer_passes = 0
          /\ Goto(t, "locked", "dead_locked")
    /\ UNCHANGED <<queueVars, semVars, mutex, passVars, taken, stopVars,
                   mainVars, process>>

------------------------------------------------------------------------------
(***************************************************************************)
(* producer                                                                *)
(***************************************************************************)

ProducerWait(p) ==
    /\ Goto(p, "wait", "lock")
    /\ EMPTY > 0
    /\ EMPTY' = EMPTY - 1
    /\ UNCHANGED <<queueVars, FILLED, mutex, passVars, taken, stopVars,
                   mainVars, process>>

\* The place behind this token was erased: keep the token, use up the pass.
ProducerPass(p) ==
    /\ Goto(p, "locked", "test")
    /\ producer_passes # 0
    /\ producer_passes' = producer_passes - 1
    /\ mutex' = NULL
    /\ UNCHANGED <<queueVars, semVars, consumer_passes, taken, stopVars,
                   mainVars, process>>

\* generate_message, add_message, unlock.
ProducerAdd(p) ==
    /\ Goto(p, "locked", "post")
    /\ producer_passes = 0
    /\ \E m \in Message : msgs' = Queue!AddedMsgs(places, msgs, m)
    /\ mutex' = NULL
    /\ process' \in IF Dangling THEN {process, "use_after_free"}
                                ELSE {process}
    /\ UNCHANGED <<places, semVars, passVars, taken, stopVars, mainVars>>

ProducerPost(p) ==
    /\ Goto(p, "post", "report")
    /\ FILLED' = FILLED + 1
    /\ UNCHANGED <<queueVars, EMPTY, mutex, passVars, taken, stopVars,
                   mainVars, process>>

Producer(p) ==
    ProducerWait(p) \/ ProducerPass(p) \/ ProducerAdd(p) \/ ProducerPost(p)

------------------------------------------------------------------------------
(***************************************************************************)
(* consumer                                                                *)
(***************************************************************************)

ConsumerWait(c) ==
    /\ Goto(c, "wait", "lock")
    /\ FILLED > 0
    /\ FILLED' = FILLED - 1
    /\ UNCHANGED <<queueVars, EMPTY, mutex, passVars, taken, stopVars,
                   mainVars, process>>

ConsumerPass(c) ==
    /\ Goto(c, "locked", "test")
    /\ consumer_passes # 0
    /\ consumer_passes' = consumer_passes - 1
    /\ mutex' = NULL
    /\ UNCHANGED <<queueVars, semVars, producer_passes, taken, stopVars,
                   mainVars, process>>

\* extract_message, unlock.
ConsumerExtract(c) ==
    /\ Goto(c, "locked", "post")
    /\ consumer_passes = 0
    /\ msgs' = Queue!ExtractedMsgs(msgs)
    /\ taken' = [taken EXCEPT ![c] = Queue!ExtractedRet(msgs)]
    /\ mutex' = NULL
    /\ process' \in IF Dangling THEN {process, "use_after_free"}
                                ELSE {process}
    /\ UNCHANGED <<places, semVars, passVars, stopVars, mainVars>>

ConsumerPost(c) ==
    /\ Goto(c, "post", "display")
    /\ EMPTY' = EMPTY + 1
    /\ UNCHANGED <<queueVars, FILLED, mutex, passVars, taken, stopVars,
                   mainVars, process>>

\* display_message reads the message: NULL faults.
ConsumerDisplay(c) ==
    /\ Goto(c, "display", "report")
    /\ taken' = [taken EXCEPT ![c] = NULL]
    /\ process' = IF taken[c] = NULL THEN "fault_in_display" ELSE process
    /\ UNCHANGED <<queueVars, semVars, mutex, passVars, stopVars, mainVars>>

Consumer(c) ==
    \/ ConsumerWait(c) \/ ConsumerPass(c) \/ ConsumerExtract(c)
    \/ ConsumerPost(c) \/ ConsumerDisplay(c)

------------------------------------------------------------------------------
(***************************************************************************)
(* main: the menu                                                          *)
(***************************************************************************)

\* 'p' and 'c': pthread_create and push_list.
Create(t) ==
    /\ main = "menu"
    /\ Goto(t, "absent", "start")
    /\ list' = Append(list, t)
    /\ UNCHANGED <<queueVars, semVars, mutex, passVars, taken, stopVars, main,
                   freed, process>>

\* 'k': erase_list takes the num-th element, counting from 0; with no such
\* element nothing happens.
Kill(num) ==
    /\ main = "menu"
    /\ num < Len(list)
    /\ signalled' = signalled \cup {list[num + 1]}
    /\ list' = SubSeq(list, 1, num) \o SubSeq(list, num + 2, Len(list))
    /\ UNCHANGED <<queueVars, semVars, mutex, passVars, pc, taken,
                   FLAG_CONTINUE, cancelled, handler, main, freed, process>>

\* '+' and '-' are typed; main then waits for the mutex.
ChooseResize ==
    /\ main = "menu"
    /\ \/ /\ places < MaxPlaces
          /\ producer_passes + consumer_passes < MaxPasses
          /\ main' = "insert"
       \/ main' = "delete"
    /\ UNCHANGED <<queueVars, semVars, mutex, passVars, pc, taken, stopVars,
                   list, freed, process>>

\* Mutant: '+' forgets the token of the new place.
InsertWithoutPost ==
    /\ main = "insert" /\ mutex = NULL
    /\ places' = places + 1
    /\ main' = "menu"
    /\ UNCHANGED <<msgs, semVars, mutex, passVars, pc, taken, stopVars, list,
                   freed, process>>

\* append, sem_post(EMPTY), unlock.
Insert ==
    /\ main = "insert" /\ mutex = NULL
    /\ places' = places + 1
    /\ EMPTY' = EMPTY + 1
    /\ main' = "menu"
    /\ UNCHANGED <<msgs, FILLED, mutex, passVars, pc, taken, stopVars, list,
                   freed, process>>

\* Mutant: the two passes swapped.
DeleteWrongPass ==
    /\ main = "delete" /\ mutex = NULL
    /\ places > 0
    /\ places' = places - 1
    /\ msgs' = Queue!ErasedMsgs(places, msgs)
    /\ IF Queue!Full(places, msgs)
       THEN producer_passes' = producer_passes + 1 /\ UNCHANGED consumer_passes
       ELSE consumer_passes' = consumer_passes + 1 /\ UNCHANGED producer_passes
    /\ main' = "menu"
    /\ UNCHANGED <<semVars, mutex, pc, taken, stopVars, list, freed, process>>

\* erase, and a pass for the side whose token has lost its place.  With no
\* queue left, erase ends the process.
Delete ==
    /\ main = "delete" /\ mutex = NULL
    /\ IF places = 0
       THEN /\ process' = "exit_in_erase"
            /\ UNCHANGED <<queueVars, passVars, main>>
       ELSE /\ places' = places - 1
            /\ msgs' = Queue!ErasedMsgs(places, msgs)
            /\ IF Queue!Full(places, msgs)
               THEN /\ consumer_passes' = consumer_passes + 1
                    /\ UNCHANGED producer_passes
               ELSE /\ producer_passes' = producer_passes + 1
                    /\ UNCHANGED consumer_passes
            /\ main' = "menu"
            /\ UNCHANGED process
    /\ UNCHANGED <<semVars, mutex, pc, taken, stopVars, list, freed>>

\* Any other key leaves the menu.
Quit ==
    /\ main = "menu"
    /\ main' = "cancel"
    /\ UNCHANGED <<queueVars, semVars, mutex, passVars, pc, taken, stopVars,
                   list, freed, process>>

\* break_all_pthreads, one pthread_cancel at a time.
CancelNext ==
    /\ main = "cancel" /\ list # <<>>
    /\ cancelled' = cancelled \cup {Head(list)}
    /\ list' = Tail(list)
    /\ UNCHANGED <<queueVars, semVars, mutex, passVars, pc, taken,
                   FLAG_CONTINUE, signalled, handler, main, freed, process>>

\* Mutant: main takes the mutex to free the queue.
FreeQueueLocked ==
    /\ main = "cancel" /\ list = <<>> /\ mutex = NULL
    /\ freed' = TRUE
    /\ main' = "exit"
    /\ UNCHANGED <<queueVars, semVars, mutex, passVars, pc, taken, stopVars,
                   list, process>>

\* free(queue): no thread has been joined.
FreeQueue ==
    /\ main = "cancel" /\ list = <<>>
    /\ freed' = TRUE
    /\ main' = "exit"
    /\ UNCHANGED <<queueVars, semVars, mutex, passVars, pc, taken, stopVars,
                   list, process>>

\* sem_unlink, sem_close, pthread_mutex_destroy, return from main.
Exit ==
    /\ main = "exit"
    /\ process' = "exited"
    /\ UNCHANGED <<queueVars, semVars, mutex, passVars, pc, taken, stopVars,
                   mainVars>>

Main ==
    \/ \E t \in Workers : Create(t)
    \/ \E num \in 0..Cardinality(Workers) : Kill(num)
    \/ ChooseResize \/ Insert \/ Delete
    \/ Quit \/ CancelNext \/ FreeQueue \/ Exit

Worker(t) ==
    \/ Start(t) \/ Lock(t) \/ LoopTest(t) \/ Report(t) \/ Cancel(t)
    \/ t \in Producers /\ Producer(t)
    \/ t \in Consumers /\ Consumer(t)

\* Nothing runs once the process has ended.
Ended == process # "running" /\ UNCHANGED vars

Next ==
    \/ /\ process = "running"
       /\ Main \/ \E t \in Workers : Worker(t) \/ Deliver(t)
    \/ Ended

Spec == Init /\ [][Next]_vars

------------------------------------------------------------------------------
(***************************************************************************)
(* Correctness                                                             *)
(***************************************************************************)

TypeOK ==
    /\ places \in Nat /\ msgs \in Seq(Message) /\ Len(msgs) <= places
    /\ freed \in BOOLEAN
    /\ EMPTY \in Nat /\ FILLED \in Nat
    /\ mutex \in Workers \cup {NULL}
    /\ producer_passes \in Nat /\ consumer_passes \in Nat
    /\ pc \in [Workers -> Places]
    /\ taken \in [Consumers -> Message \cup {NULL}]
    /\ FLAG_CONTINUE \in [Workers -> BOOLEAN]
    /\ signalled \subseteq Workers /\ cancelled \subseteq Workers
    /\ handler \in BOOLEAN
    /\ list \in Seq(Workers)
    /\ main \in MenuPlaces /\ process \in Outcomes

\* Workers that have taken a token and not yet used it, and workers that owe
\* the other semaphore a post.
HoldingPlaces == {"lock", "locked", "dead_locked"}
OwingPlaces   == {"post"}
Holding(W) == {t \in W : pc[t] \in HoldingPlaces}
Owing(W)   == {t \in W : pc[t] \in OwingPlaces}

\* The semaphores, the passes and the queue never drift apart, although they
\* are changed by different threads at different moments and '-' changes only
\* two of the three: every token, in the semaphore or in the hands of a
\* worker, stands for a place or for a pass.
TokenAccounting ==
    /\ EMPTY + Cardinality(Holding(Producers)) + Cardinality(Owing(Consumers))
         = (places - Len(msgs)) + producer_passes
    /\ FILLED + Cardinality(Holding(Consumers)) + Cardinality(Owing(Producers))
         = Len(msgs) + consumer_passes

\* The mutex belongs to the worker inside the critical section, also when
\* that worker was cancelled there.
MutexOwned ==
    \A t \in Workers : mutex = t <=> pc[t] \in {"locked", "dead_locked"}

\* A worker that gets past the pass check finds what it came for, however
\* main resized the queue while it waited: a producer a free place (else
\* add_message would silently drop the message), a consumer a message (else
\* display_message would read NULL).
SafeAccess ==
    /\ \A p \in Producers :
         pc[p] = "locked" /\ producer_passes = 0 => Len(msgs) < places
    /\ \A c \in Consumers :
         pc[c] = "locked" /\ consumer_passes = 0 => msgs # <<>>

\* What that means for the display outside the mutex.
NothingDisplaysNull ==
    /\ \A c \in Consumers : pc[c] \in {"post", "display"} => taken[c] # NULL
    /\ process # "fault_in_display"

\* The two sides never wait for each other for ever: with both semaphores at
\* zero and nobody between a wait and a post, the queue has no place at all.
NoStandstill ==
    /\ EMPTY = 0 /\ FILLED = 0
    /\ Holding(Workers) = {} /\ Owing(Workers) = {}
    => places = 0

------------------------------------------------------------------------------
(***************************************************************************)
(* Liveness: the machine is not left idle while some worker can run, and   *)
(* the menu thread finishes a command it has begun.  Nothing is assumed of *)
(* which worker runs, nor that a signal is ever delivered; the user need   *)
(* not type.                                                               *)
(***************************************************************************)

Running(A) == process = "running" /\ A

Fairness ==
    /\ WF_vars(Running(\E t \in Workers : Worker(t)))
    /\ WF_vars(Running(Insert \/ Delete \/ CancelNext \/ FreeQueue \/ Exit))

FairSpec == Spec /\ Fairness

AtWork(t) == pc[t] \notin Gone /\ t \notin signalled /\ FLAG_CONTINUE[t]

\* Messages keep flowing once the user stops typing, whatever was typed
\* before: with a place, a producer and a consumer left, consumers extract
\* again and again.  The passes '-' left behind swallow tokens on the way,
\* some of them while workers hold others, and must leave one per place.
MessagesFlow ==
    <>[](/\ process = "running" /\ main = "menu" /\ places > 0
         /\ \E p \in Producers : AtWork(p)
         /\ \E c \in Consumers : AtWork(c))
    => []<><<\E c \in Consumers : ConsumerExtract(c)>>_vars

\* After the user leaves the menu the process ends, even though no thread is
\* joined and one may have died holding the mutex.
QuitEnds == main = "cancel" ~> process # "running"

==============================================================================
