# A TLA+ verification of the OSiSP laboratory programs

The repository (`src/OSiSP/`) holds eight C programs about operating systems.
Each is a program of its own; they share ideas and copied files, not a build.
This directory models the six with threads, processes, locks, signals or sockets
in TLA+, checks the models with TLC and proves their safety properties with TLAPS,
for any number of threads, processes, places and records. The only documentation
of the programs is their source, the messages they print and a few text files
beside them (`lab8/server/serverinfo.txt`), so every definition here is translated
from the C code, and `PROJECT.json` names the lines.

- [Inventory](#inventory): the programs, their state, and what makes them correct
- [Modules](#modules): what models what, and how state and actions correspond
- [Runs](#runs): what TLC checks, with which bounds, and what it shows
- [Fairness](#fairness)
- [Proofs](#proofs): what is proved, and along which argument
- [Where code and message disagree](#where-code-and-message-disagree)
- [Not modelled](#not-modelled) and [Plan](#plan)

## Inventory

### lab5: producers and consumers, threads and semaphores

One menu thread (`main`) starts producer and consumer threads. They share

- `queue`, a circular doubly-linked list of places (`ring.c`), each with a message
  and a busy flag, and counters of produced and consumed messages;
- the semaphores `SEMAPHORE_EMPTY` and `SEMAPHORE_FILLED`, and `mutex`;
- `producer_passes` and `consumer_passes`, kept under the mutex.

`+` inserts a place (`append`, then a post of EMPTY), `-` removes one (`erase`) and
leaves a *pass* for the side whose token has lost its place; the next worker of
that side that gets the mutex uses the pass up and goes back to its semaphore.
`k` takes a thread off the list and sends it SIGUSR1, whose handler clears the
thread-local `FLAG_CONTINUE`. Any other key ends the menu: every listed thread is
cancelled, nobody is joined, the queue object is freed, the process returns.

Hard: a worker takes its token before the mutex, so the queue can be resized
between the two; threads die by deferred cancellation, perhaps with the mutex; the
printed totals are read after the mutex is released.
Correct means: the semaphores, the passes and the queue always agree; a worker
past the pass check finds its free place or its message; the two sides never wait
for each other for ever; messages flow; the process ends when asked.

### lab7 part 1: the same with a condition variable

The semaphores are replaced by the counters `CNT_FREE_PLACES` and
`CNT_FILL_PLACES` under the mutex, and a condition variable for consumers.
Producers poll: with no place they unlock, sleep and look again. The condition is
broadcast only when a producer fills the last place, and when the menu is left.
Hard: lost wakeups, a wakeup that comes too late to find a message, a `continue`
that keeps the mutex locked, `pthread_cond_destroy` with a waiter left over.
Correct means: the counters match the queue, no consumer passes its wait without a
message, wakeups are not lost, the menu waits for nobody but a thread that will
unlock, messages flow, the process ends.

### lab7 part 2: a record editor with fcntl locks

Any number of copies of a menu program work on one file of ten records. A
record is read under a read lock, edited in memory, and put back under a write
lock if the file still holds what was read (optimistic locking). State: the file,
the kernel's record locks, and per process `REC`, `REC_SAVE`, `REC_NEW`, `NUM_REC`,
`FLAG_EDIT`. Hard: fcntl locks belong to the process, so a nested read lock
replaces the write lock; a process can be killed at any time.
Correct means: no update is lost, a put goes to the record it was read from, a
refusal is somebody else's doing, no process waits while it holds a lock.

### lab4: producers and consumers, processes and shared memory

`main` forks workers that share a ring of six System V segments, whose links are
segment ids, and three named semaphores: the two of lab 5 and one used as the
mutex. The parent keeps a list of its children; `k` takes a child off the list and
sends it SIGUSR1, `q` sends SIGKILL to the children still listed and removes the
segments. Hard: a child can be killed anywhere, with the mutex too; a child
blocked in `sem_wait` never sees its cleared flag; a failed fork puts the pid -1 on
the list; the parent walks the ring without the mutex while children may live.
Correct means: tokens and ring agree whoever is stopped or killed; signals reach
children of this parent only, but for the `kill(-1)` of that failed fork; the mutex is not lost by stopping a child; messages
flow; the parent ends, and with it all its children.

### lab6: parallel sort of a mapped file

`threads` threads and main sort the blocks of a mapped piece of the file, claiming
blocks through `state_map` under a mutex, then merge pairs of blocks, halving the
number of blocks between two barriers, until one is left; then the next piece.
Hard: main resets `state_map` without the mutex while others may still look for
blocks to sort; every thread decides by itself how many barrier calls it makes;
`state_map` is reallocated; `qsort` compares truncated keys, `merge` exact ones.
Correct means: no two threads in one block, sizes change only while nobody uses
them, every piece leaves in order with all its records, and the program ends.

### lab3: a parent and its statistics children

The parent keeps a list of forked children and their number `cnt`. `s` and `g` tell
one or all of them by SIGUSR2 or SIGUSR1 not to show, or to show, what they count;
`p` silences all and arms an `alarm` whose handler lets all show again unless `g`
(which clears `flag_p`) has taken that over; `-`, `k` and `q` pop the list and send
SIGKILL. A child spins until the tick of a `ualarm` has taken one sample, 116
times, and then shows its statistics if `collect` is set.
Hard: the parent's SIGALRM walks the list that `pop_list` has half changed; signals
of one kind do not queue, and the handler of one kind may run inside the other's, which
then stores last; a tick may come before the loop that waits for it.
Correct means: `cnt` and the list lead to the children that run; no tick is lost and
none writes behind the statistics; everybody may show again after `p`; `q` leaves
nobody.

### lab8: a server and a client

One connection. The client writes 1024 bytes per query, whatever the line's length,
and takes one `recv` for the answer; the server takes one `recv` for a query and
answers with a text of its own length. State: the query buffers of both, never
cleared; the server's `CURRENT_DIR`, its open directory `d`, the cached listing
`LIST_DIR` and `is_new_dir`, which marks it as old; the bytes under way; and the file
system, which other processes change.
Hard: a stream cuts and joins messages; `opendir` and `chdir` look at a directory
at different times; the cache; the end of the input, where the client sends its
last answer as a query; either side may go first.
Correct means: the two stay in step as long as the stream does not cut; the
client knows where the server is; the listing belongs to the current
directory and is no older than the CD into it; nobody waits for ever; `QUIT` ends both.

### lab1, lab2, and the message format

`lab1` walks a directory tree and filters paths; `lab2` forks and executes a child
under a running name with three ways to find its path; labs 4, 5 and 7 share
`generate_message`, `control_sum` and `display_message`. All are sequential.

## Modules

| module | models | role |
|---|---|---|
| `BoundedFifo` | what `ring.c` promises | abstract specification; its operators are the queue of the two thread modules |
| `RingBuffer` | `lab5/ring.c` (and `lab7/part1/ring.c`, the same code) | the pointer structure; implements `BoundedFifo` |
| `Lab5Threads` | `lab5/main.c`, `lab5/list.c` | menu, workers, semaphores, passes |
| `Lab7Threads` | `lab7/part1/main.c`, `list.c` | menu, workers, condition variable |
| `Lab7Records` | `lab7/part2/main.c` | editors, file, record locks |
| `Lab4Processes` | `lab4/main.c`, `list.c`, `ring.c` | parent, children, signals, semaphores, ring |
| `Lab6IndexSort` | `lab6/index_sort.c` | threads, claims, barrier phases, the piece being sorted |
| `Lab3Signals` | `lab3/main.c`, `lab3/list.c` | parent, children, timers, signals |
| `Lab8Session` | `lab8/server/main.c`, `lab8/client/main.c` | client, server, stream, directories |
| `RingBufferProofs`, `Lab*Proofs` | | the theorems about the model of the same name, with their proofs |
| `MC*` | | instances and symmetry for TLC |

**BoundedFifo.** `places` is the number of nodes (0 means the queue pointer is
NULL), `msgs` the stored messages, oldest first. `ErasedMsgs` says what a resizing
costs: nothing while a free place exists, the oldest message otherwise.

**RingBuffer.** Nodes are addresses; `next`, `prev`, `message` and `flag_is_busy`
are functions whose domain is the set of live nodes, so `free` is a removal from
the domain and a use of a freed node would be a TLC error. A C statement sequence
that writes through aliasing pointers is a sequence of EXCEPT updates in the order
of the code. Callers hold the mutex around each call (`main` before the
first thread needs none), so a call is one step. `produced` and `consumed` start
from `Garbage`, since `constructor_buffer` does not set them, and wrap at
`CounterMod`. The refinement mapping to `BoundedFifo` reads the busy places from
`begin`.

**Lab5Threads.** `pc[t]` is the place of worker `t`: `start` (before `signal`),
`wait` (in `sem_wait`), `lock` (has its token, wants the mutex), `locked`, `post`,
`display`, `report` (outside the mutex), `test` (the loop condition), and the ways
of being gone: `absent` (not created), `done`, `dead` (cancelled), `dead_locked`
(cancelled with the mutex). A critical section is one step because nobody
else reads what it writes; cancellation inside it (at `sleep`) is an action of its
own. The faults the code can run into are outcomes of `process`: reading through a
NULL queue (`fault_in_report`), through a NULL message (`fault_in_display`), the
freed queue (`use_after_free`, a choice: freed memory may still hold the old
bytes), SIGUSR1 without a handler, and the `exit` inside `erase`.

**Lab7Threads.** As `Lab5Threads`; additionally `waiting` (on the condition) and
`relock` (woken, wants the mutex), `take` (left the wait by `flag_break_process`),
`print` (the printfs inside the mutex, where a cancelled thread dies holding it).
Spurious wakeups are allowed. `-` on a NULL queue (`DeleteNothing`) leads back to the
menu with the mutex in main's hands, since its `continue` skips both the unlock and
the `getchar`: what the user types next, the newline or anything else, is the next
command, and a `+` or `-` there waits for ever for the mutex main holds (`Hung`).

**Lab7Records.** `readers` and `writer` are the kernel's lock table by record
number; a new lock replaces the one the process holds, as fcntl does. Numbers
that do not exist are represented by 0 (its offset is negative: fcntl and lseek
fail and the program goes on) and by the one behind the last record. `Restart` is
both leaving the menu and being killed, followed by a new start. `loaded` and
`overtaken` are history variables: which record the buffers came from, and
whether somebody else has put it since; no guard reads them.

**Lab4Processes.** A child's `pc` stays where it is when SIGKILL ends it (`dead`), so
what it held stays counted. `Stop` is the arrival of SIGUSR1 and `Die` that of SIGKILL;
between `kill` and either the child may take steps. The ring is two
positions and the busy flags of nodes 0, 1, ..., which is what six calls of `append`
link; `got` says whether `extract_message` returned a message, and a child that
displays NULL is `faulted`. `list` holds what is behind the parent's own
entry; `NOPID` is the -1 of a failed fork, whose `kill` on `q` goes to everybody.
`strangers` is a history variable: the pids `kill` was called for that were not, at that
moment, children forked and not yet ended, -1 among them. The
end of a child's loop belongs to its last `sem_post`, since a flag cleared between
them could as well have been cleared before. Removing a segment changes nothing
for a process (all inherit the parent's attachments), so the loop of
`clear_shared_memory` is its cursor only.

**Lab6IndexSort.** Worker 0 is main. A record is the number of its first place,
`time_mark` gives its key in fractions of `UNIT`, and `part` says which record is at
which place. `Qsort` is any order that respects the truncated keys, `Merge` the
loop of `merge` as a recursive function. Sorting or merging a block is one step,
taken at its end; a worker at `work` is inside its block, and when a second one
is there the piece is `spoilt`: a data race, after which `part` says nothing. The
last worker to reach the barrier takes all of them through it. Arguments the
program needs but does not check are `IndexSortAssumption`: a block count that is a
power of two above 1, no more workers than blocks.

**Lab3Signals.** A signal handler is an action that may come between any two steps of
the process it interrupts. The parent is cut where a handler can tell the
difference: each step of a walk, and `pop_list` between `free` and the unlinking, where
the SIGALRM handler may read the freed node (`AlarmOverFreed`, which ends the parent;
`Alarm` at the same place is the lucky outcome). `task` says what a walk or a
removal returns to. `pending` is, per child, the set of the signals that were sent and
whose handler has not ended: a second signal of a kind adds nothing while the first is
there. `signal` blocks only the signal a handler is for, so with both kinds there either
handler may run inside the other and either may store `collect` last (`Deliver`); the
loop stands still meanwhile, so what the other one stored is seen by nobody. The walk of
the handler over the freed node sends SIGUSR1 to the children before it and then to
whatever `free` has left as a pid, in the model any children or none. Without an
`else`, `g` with a number sends both signals, and `s` has a step of its own for its
second one (`Allow`, `Disable`, `SendSecond`). A child's `continue_collect` is
read from memory in every round; the repository has no build files, and an
optimising compiler might do otherwise, as the variable is not `volatile`.

**Lab8Session.** A query and a reply are two pieces each, the text with its
terminator and what follows it, and a `recv` takes what it can get or, `MaxSplits`
times, less: one piece of a message, or a message and a part of the next. What a
buffer holds is the query it would be: the client's is overwritten by the reply,
which is no query, or, behind ECHO, the word echoed. The end of the input or of a file
sends it once more (`EndOfInput`, `FileEnd`). `belief` is a history variable: the
directory of the last CD the client saw succeed. `LIST_DIR` records the name in the
header, the directory whose entries were read (`d`), and its `version`, which counts the
changes and stands for what a listing contains; `sinceCD` is the version the last good
CD found. `argv[2]` may be any directory: it is opened, but the server stays where it
was started, so the list read at the connection has the entries of one and the name
of the other. `chdir` may fail behind the `opendir` that succeeded, because the directory
was removed or may be read but not searched; `Enter` then stays, and the history
variable `strayed` remembers it. A LIST after a CD that succeeded and one that failed
reads through NULL (`ListOfNothing`). Assumed: nobody removes the directory the server is
in.

Interleaving is modelled where another thread or process can tell the difference:
at every lock, semaphore, condition and fcntl call, and at every access to shared
data outside a lock. What `calloc` or `pthread_create` do on failure, the texts
printed, and the contents of messages and records (model values) are left out.

## Runs

| run | instance | checks |
|---|---|---|
| `ring` | up to 4 places, boot with 2, 2 messages, counters mod 3 | `TypeOK`, `RingShape`; refinement `ImplementsFifo`; `TotalsTrackContents` |
| `lab5` | 1 producer, 1 consumer, 2 places growing to 3, 2 passes | `TypeOK`, `TokenAccounting`, `SafeAccess`; `MessagesFlow`, `QuitEnds` |
| `lab7_safety` | 2 producers, 2 consumers, 1 place growing to 2 | `TypeOK`, `NullOnlyAfterQuit`, `MenuBlocksOnlyOnItself`; `WakeupLostOnlyByDelete` |
| `lab7_live` | 1 producer, 1 consumer, 2 places growing to 3 | `MessagesFlow`, `QuitEnds` |
| `records` | 2 editors, 2 records, 2 values | `TypeOK`, `WaitsWithoutLocks`, `RefusalIsJustified` |
| `lab4` | 2 producers, 1 consumer, 2 places, 1 failing fork | `TypeOK`, `TokenAccounting`, `SafeAccess`, `MutexLostOnlyByQuit`; `StrangersOnlyByMinusOne`, `MessagesFlow`, `QuitEnds` |
| `lab6_sort` | main and 2 threads, 2 pieces of 8 blocks of 2 records | `TypeOK`, `ResultOrdered`, `RaceOnlyThroughReset`; `ResizedAlone`, `Terminates` |
| `lab3` | 2 children, 2 ticks to a show, 1 entry | `TypeOK`, `EveryChildListed`; `ShowsAgain`, `AllowedAfterP`, `QuitDeletesAll` |
| `lab8` | 2 directories, 1 split, 1 change | `TypeOK`, `InStepUnlessSplit`, `CacheFollowsCd`; `EveryWaitEnds`, `QuitEnds` |
| `lab4_orphans` | 1 producer, 1 consumer, 2 places | `AllChildrenDeleted` is violated |
| `records_lost_update` | 2 editors, 2 records, 2 values | `NoLostUpdate` is violated |
| `records_last_modified` | 1 editor, 2 records, 2 values | `PutsLastModified` is violated |

What they show:

- *Ring.* Every splice of `append` and `erase`, rings of one and two nodes
  included, leaves one closed ring with its busy places in a run from `begin` to
  `tail`. That run is why comparing `tail` with `begin` and looking at one flag is
  enough to tell full from empty, and it is what makes the ring a first-in
  first-out queue that loses a message only when it has no free place to give up.
- *lab5.* The passes are the right idea: `TokenAccounting` holds under every
  interleaving of `+`, `-`, `k`, quit and cancellation; with it no worker misses the
  place or message it came for, and (proved below) NULL is never displayed and the two
  sides never come to a standstill. `MessagesFlow`: with passes of both kinds there while
  places are left and both workers are past their semaphores, messages go on.
- *lab7 part 1.* The only way to lose the wakeup is a `-` that takes away the last
  free place (`WakeupLostOnlyByDelete`): the queue is then full, no broadcast was
  sent, and consumers may sleep while producers poll. `MessagesFlow` is stated for
  the behaviours without that state (`~Asleep`), and `NullOnlyAfterQuit` without
  the quit, where `flag_break_process` sends consumers past the wait with nothing
  to take. The menu waits for nobody but a thread that will unlock, with one exception
  (`MenuBlocksOnlyOnItself`): main itself, after a `-` on a NULL queue. `QuitEnds` names
  the one way the program does not end once the menu is left.
- *lab7 part 2.* A refusal is always justified and no editor
  waits holding a lock, but the check and the write are not one step (see below).

- *lab4.* Stopping children with `k` and killing them with `q` never unbalances the
  tokens, and the mutex is lost only to a SIGKILL. A signal goes to a pid that is no
  living child of this parent in one case, the SIGKILL that `q` sends to the -1 of a
  failed fork (`StrangersOnlyByMinusOne`). The parent's last loop ends
  although it compares with a `tail` that living children still move, since each of
  them makes one more round at most. It does not follow that they end (see below).
- *lab6.* Claims never overlap and no merge is disturbed; the one way for two
  threads into one block is main's reset of `state_map` (lines 130-134), done before the
  barrier that would make it safe. `RaceOnlyThroughReset` says so, `spoilt`
  is reachable, and `ResultOrdered` speaks of the pieces where it did not happen.
  They are in order of the whole part of their keys; the exact order is not reached,
  because `qsort` sees no more than that part and may hand `merge` a half that `merge`
  does not find ordered. The marks of the run make it happen: two records of one block,
  and one of its neighbour, share their whole part.
- *lab3.* However signals and commands meet, a number up to `cnt` leads to a child that
  runs, no tick is lost (`ShowsAgain`) and none finds the statistics full (in
  `TypeOK`). When the SIGALRM of `p` comes everybody is allowed to show again, and for
  good, with one exception: a child still in, or before, the handler of an older
  SIGUSR2 may store the older word last and stay silent (the last disjunct of
  `AllowedAfterP`, which does not hold without it). `q` leaves nobody, except when the SIGALRM of
  an earlier `p` meets `pop_list` between `free` and the unlinking: that is the
  disjunct `faulted` of `QuitDeletesAll`.
- *lab8.* As long as every `recv` takes whole messages the two programs are in step, and
  client and server agree on the directory, whatever CDs are refused and whatever is
  removed, except between a CD whose `chdir` failed unnoticed and the next good one
  (`InStepUnlessSplit`). From the first good CD on the cached list has the entries of the
  current directory, under its name and no older than that CD (`CacheFollowsCd`); it
  may be older than the LIST that asks for it. Once a message has been cut the client
  reads answers to earlier queries, but the session goes on and ends: every wait is
  answered and `QUIT` ends both sides (`EveryWaitEnds`, `QuitEnds`). Both need the
  serverinfo file: without it the greeting is empty and both wait for ever.

**Bounds.** `MaxPlaces` and `MaxPasses` stop the user from typing `+`; the programs
have no such limit, and the counters are unbounded without it. Four places are enough for
the ring because `append` and `erase` look at no more than three neighbouring
nodes; with four there is a node that is none of `begin`, `tail` and their
neighbours. `CounterMod` 3 makes the counters wrap. In the thread runs two threads of a
kind suffice for one to act between the token and the mutex of the other; the
queue reaches the sizes 0 (NULL), 1 and more. `lab5` has one worker of each kind, which
is what liveness leaves room for: with up to three places and two passes several tokens
are under way at once, a pass meets a queue that still has places, both workers hold
tokens over a `-`, and a `-` reaches a NULL queue that a `+` brings back. A second
producer with two places (a million states) gives the same result, and the safety
theorems hold for every number of workers and places. One message value is enough
there, since no guard reads a message and the ring run checks their order with two. `records` needs two records so that
a put can land on another one, and two editors to overtake each other. In
`lab4` two producers compete for the last token; two places are
the least with `begin` and `tail` apart, and one failing fork puts a -1 anywhere on the
list, whose `kill(-1)` at `q` ends everybody. In
`lab6_sort` eight blocks give two rounds of merging besides main's last one, more
blocks than workers, and with three workers a block can be claimed twice after the reset; two pieces
show the state carried from one to the next, keys in halves, some of them with the same
whole part inside a block, the difference between the two comparisons. Threads
and children are interchangeable in `Init` and `Next` (not those of lab 6, whose numbers
matter), so `lab7_safety` uses symmetry over them; runs with liveness properties do not. In
`lab3` two children let a walk be interrupted half-way and leave somebody listed during
`pop_list`; two ticks tell a show from other turns, and with one entry the index is at
its limit at every tick. In `lab8` one split puts the programs out of step for the
rest of the session, and one change is enough to make the listing stale or
to remove a directory between `opendir` and `chdir`; `argv[2]` may be either directory,
and the word echoed is QUIT.

The program ends in several ways; `Ended` (a stutter when the process is over)
keeps TLC's deadlock check meaningful for every other state, and the editors of
`Lab7Records` never end, so deadlock is checked in every run but `lab8`, whose session stops when both
programs have ended, or wait for each other without a serverinfo file. In `Lab4Processes` it means
the parent has returned: children that wait for ever behind it are what `lab4_orphans` shows.

## Fairness

*lab5* (`FairSpec`): weak fairness of the workers taken together (while some worker can
run, some worker does), and of the menu thread finishing a command already typed or
leaving. Nothing is assumed of the user, nor of a signal's arrival. `sem_wait` and the
mutex promise no order among those who wait, so no strong fairness is assumed.

*lab7 part 1*: weak fairness of each worker, of the delivery of a signal that was sent
and of the menu thread, and strong fairness of taking the mutex. Everyone sleeps
outside the mutex between two critical sections (`sleep(5)` in the polling
producer, `usleep(50000)` at the end of each round), so the mutex is free again
and again while a thread waits for it; without the assumption a polling producer
could overtake a consumer for ever.

*lab4*: weak fairness of the children taken together, of the arrival of signals, and of
the parent finishing `q`. *lab6*: weak fairness of each thread; between two barriers a worker
takes the mutex a bounded number of times, so no stronger assumption about the mutex is needed.

*lab3*: weak fairness of each child's loop with its ticks and of the delivery of its
signals (the timer expires, the kernel delivers), and of the parent going on with the
walk or removal it has begun or taking the alarm it has armed. Nothing is assumed of the user: `AllowedAfterP` lets
the user stop typing, since every `p` starts the five seconds anew.
*lab8*: weak fairness of the client except for what the user types or ends, and of the
server; TCP delivers what was written, so pieces under way are taken by the next `recv`.

## Proofs

TLC checks each model for one small instance; the modules `*Proofs` prove, for
every value of the constants, every invariant and every action property that a
passing run checks, the refinement `ImplementsFifo`, and a few results no run lists.
Each holds `IInv`, its inductive invariant, the three facts `Init => IInv`,
`IInv /\ [Next]_vars => IInv'` (one lemma or step per action) and
`Invariance == Spec => []IInv`, from which the others follow. TLC has found each
`IInv` invariant on the instance of its run.

Nothing is assumed but what the modules of the models assume of their constants:

| model | assumed |
|---|---|
| `Lab5Threads`, `Lab7Threads`, `Lab4Processes` | finitely many workers, producers are not consumers, NULL (NOPID) is none of them; at least one place to begin with |
| `RingBuffer` | finitely many addresses, at least as many as places may be made; counters wrap somewhere |
| `Lab7Records` | there is a record and a value; what is uninitialised is no value |
| `Lab6IndexSort` | `blocks` is a power of two above 1 (said by what divides it), no more workers than blocks, every block has a record |
| `Lab3Signals` | a child, an entry of statistics and a turn of the loop |
| `Lab8Session` | the server starts in a directory that exists; NULL is neither a directory nor a number; the word echoed is a query without argument |

The bounds of the runs (`MaxPlaces`, `MaxPasses`, `MaxFailures`, `MaxChildren`,
`MaxSplits`, `MaxChanges`) are constants too, so the theorems hold for every bound.

| module | theorems |
|---|---|
| `RingBufferProofs` | `TypeCorrect`, `RingKept` (`RingShape`), `RingIsAFifo` (`ImplementsFifo`), `TotalsFollowMessages` (`TotalsTrackContents`) |
| `Lab5ThreadsProofs` | `TypeCorrectness`, `TokensAccounted`, `AccessIsSafe`, `NoNullDisplayed`, `NeverStandstill` |
| `Lab7ThreadsProofs` | `TypeCorrect`, `CountersRightAndNullOnlyAfterQuit`, `MenuWaitsForTheLiving` (`MenuBlocksOnlyOnItself`), `OnlyDeleteLosesTheWakeup` (`WakeupLostOnlyByDelete`) |
| `Lab7RecordsProofs` | `TypeCorrect`, `NoLockIsHeldWhileWaiting` (`WaitsWithoutLocks`), `RefusedOnlyWhenOvertaken` (`RefusalIsJustified`), `OnlyTheOvertakenLoseUpdates` |
| `Lab4ProcessesProofs` | `TypeCorrect`, `TokensAccounted`, `AccessIsSafe`, `SignalsGoToChildren` (`StrangersOnlyByMinusOne`), `MutexSurvivesStops` (`MutexLostOnlyByQuit`), `MutexIsHeldByTheLiving`, `MenuNeverStandsStill` |
| `Lab6IndexSortProofs` | `TypeCorrect`, `OnlyResetLetsTwoIn` (`RaceOnlyThroughReset`), `SizesChangeAlone` (`ResizedAlone`), `PiecesAreSorted` (`ResultOrdered`), `BarrierCallsPairUp`, `NoStandstill` |
| `Lab3SignalsProofs` | `TypeCorrect`, `ListKept` (`EveryChildListed`), `NoSignalToTheDead` |
| `Lab8SessionProofs` | `TypeCorrect`, `CacheIsOfTheCurrentDirectory` (`CacheFollowsCd`), `OneReceiveIsEnoughUnlessSplit` (`InStepUnlessSplit`) |

The arguments:

**RingBuffer.** `Nth` follows `next` from `begin`, and what a function computed
step by step along the pointers gives cannot be proved by itself. So the invariant
says that there *is* a numbering of the live nodes from 0 at `begin`, which `next`
steps up and `prev` steps down (`Circle`), whose first `k` nodes are busy and
whose next one is `tail` (`Laid`). Every splice of `append` and `erase` is a change of
the numbering: one node more at the end, all numbers moved on or back by one, one
node left out, the ring of a single node being closed on itself. `NthIsLaid` shows
that the numbering is what `Nth` computes, by the least number where the two would
differ; then `Contents` can be read off it before and after a step, and each call
is the step of `BoundedFifo` it should be. `BootEmpty` is needed because the appends at
start-up move the cursors otherwise than those of `+`: after a message they would
leave `tail` behind `begin`.

**Lab5Threads.** `IInv` is `TypeOK`, `TokenAccounting`, `MutexOwned` (the mutex belongs
to exactly the worker inside the critical section, also when it died there) and
`NothingDisplaysNull`. `SafeAccess` is not inductive, and needs no induction: a
worker at `locked` is itself one of the token holders its equation counts, so with
no pass left the equation leaves at least one free place (or message).
`NoStandstill` follows from the two equations alone. The equations are preserved
because each step moves one worker between the sets `Holding` and `Owing`, and
`CountMove` says by how much the cardinalities then differ; `-` is the
interesting step, where either a free place turns into a producer pass or a
message into a consumer pass. `NothingDisplaysNull` needs `AccountingGivesSafeAccess` at
the step of `ConsumerExtract`, and `MutexOwned` keeps two workers from being there
at once.

**Lab7Threads.** The place of a thread decides whether it has the mutex
(`MutexHeld`), so the counters change with the queue, one thread at a time. A
consumer leaves its wait for a message or for `flag_break_process`
(`TakeAfterQuit`); a thread that dies does so after the menu, and main keeps the mutex
only with no place left (`OwnersGiveBack`).

**Lab7Records.** The place of an editor decides which locks it can hold
(`LocksFollowPc`), which gives `WaitsWithoutLocks`. An editor nobody has
overtaken remembers what the file holds: `REC_SAVE` is the record it loaded
(`SavedIsCurrent`), `REC_NEW` the one `put_record` compares with
(`ReadIsCurrent`), and the number it puts to is the one it loaded unless that number
does not exist (`NumberIsLoaded`). `OnlyTheOvertakenLoseUpdates` is what remains
of `NoLostUpdate`, which a run refutes.

**Lab4Processes.** The counting of lab 5, with a ring of positions instead of a queue:
the busy nodes run from `begin` to `tail` (`BusyRun`), so a child with a token and
the mutex, for whom the equations leave a free node or a message, finds it at `tail` or
`begin`. Nobody is on the list twice or after he was told to stop (`ListFresh`),
and nobody is killed from the menu (`QuitKills`); so whoever a signal is sent to is on
the list and alive, unless the entry is the -1 of a failed fork, which only the loop of
`q` passes to `kill`.

**Lab6IndexSort.** The barrier keeps all workers in one of four phases, between two
pieces, sorting, halving and merging (`Phases`), though each worker decides by
itself how often it calls `pthread_barrier_wait`. `Sizes` says what halving and doubling
keep, and `Claims` that a worker is alone in its block while main has not set
`state_map` back. A second invariant, `OrderInv`, says of a piece that is not
spoilt that every record is in one place, and which blocks are in order wherever main
is; its step at `Merge` rests on `MergeOrders`: the loop of `merge` makes one ordered
block of two, again by the least place that would be wrong.

**Lab3Signals.** `VictimPlaced` says which child `pop_list` is removing at each place
between its steps, `ListedOnce` that nobody is listed twice: then a fork and a removal
change the list, `cnt` and the children that run alike. `CursorPlaced` keeps
the numbers and cursors of the walks inside the list, which is why SIGUSR1 and SIGUSR2
go to the living, with the one exception of the walk that meets a freed node
(`SignalsReachTheLiving`).

**Lab8Session.** While no `recv` has left a piece behind, client and server are in one
of seven phases (`InStep`), each of which says what is under way and what is in
the buffers, and, where that matters, that the client's belief is right or the last
`chdir` has failed (`Told`). From the first good CD on the cache is of the current
directory because `d` is, except between the `opendir` of a CD and its end, and because
only a good CD marks the list as old (`DirInStep`).

Only model-checked:

- liveness, which is out of the prover's reach: `MessagesFlow` and `QuitEnds` (labs 4,
  5, 7), `Terminates` (lab 6), `ShowsAgain`, `AllowedAfterP` and `QuitDeletesAll` (lab 3),
  `EveryWaitEnds` and `QuitEnds` (lab 8). `NeverStandstill` (lab 5), `MenuNeverStandsStill`
  (lab 4) and `NoStandstill` (lab 6) are the safety half of them: somebody has what he
  needs to go on.
- that no state but an ended one is a deadlock, which is `ENABLED`;
- the three properties that runs refute.

## Where code and message disagree

- `lab4_orphans`: `k` removes a child from the list and clears its flag by a signal,
  which a child waiting in `sem_wait` never looks at; `q` kills listed children
  only, prints "All child processes are deleted." (`lab4/main.c:118`) and ends. The run
  shows a consumer that waits for ever after the parent is gone.
- `records_lost_update`: `put_record` takes a write lock and calls `get_record` to
  compare. An fcntl lock belongs to the process: the read lock of `get_record`
  replaces the write lock and its unlock releases it, so the write runs unlocked.
  Two editors can both pass the comparison, and one update is lost, where
  `main.c:77` promises a refusal.
- `records_last_modified`: a number that does not exist overwrites `NUM_REC`
  before `modify` returns, so "4.Put last modified record." (`main.c:49`) writes the
  record elsewhere: to record 1 for number 0, behind the end for a large one.

All three are checked as properties TLC has to refute. Faults the models reach that no
text of the repository contradicts are kept in the models and named in the
hazards of `PROJECT.json`: the totals read through a NULL or freed queue, SIGUSR1
before the handler, the exit inside `erase`, NULL messages after quitting lab 7, the
-1 of a failed fork and the `kill(-1)` it leads to, the mutex main waits for although it
holds it (`--` on a NULL queue in lab 7), the double sort of lab 6, the number 0 behind
`p`, SIGALRM inside `pop_list`, SIGUSR1's handler inside SIGUSR2's, whose older word
then stays, `g` with a number that ends in SIGUSR2, `readdir(NULL)` in lab 8, a failing
`chdir` answered as good.

One disagreement is written into a property instead of refuted by a run of its own:
"Get a list of all files in the current server directory"
(`lab8/server/serverinfo.txt:6`) is not what LIST gives. Until the first good CD the list
is of `argv[2]`, under the name of the directory the server was started in; from then on
it is of the current directory as it was at the first LIST behind the CD, whatever
has changed since (`Change` in the model). `CacheFollowsCd` says how old it may be.

## Not modelled

- `clear_ring`, `pop_list` and `clear_list` of labs 5 and 7: nobody calls them.
- The display commands, except where they take locks (`Lab7Records`).
- Failures of `malloc`, `pthread_create`, `read` and `write`, which the code does not look at.
- lab 4: the segments `clear_shared_memory` leaves behind when messages are stored
  (it stops at `tail`), and the names of the semaphores.
- lab 6: other arguments than those of `IndexSortAssumption`, with which blocks are
  lost or the phases never end; the bytes of a block two threads sort at once; time
  marks that are negative or whose whole part exceeds an `int`.
- lab 3: what the statistics say, SIGINT, which only prints, a failing fork, and that
  children become zombies.
- lab 8: names, addresses and the connection itself, what a directory contains, how the
  texts are laid out, and texts longer than the 1024 bytes of a buffer; the entries of
  `argv[2]` that `lstat` does not find in the directory the server was started in.
- lab 1: one sequential recursion over the file system, whose result is decided by
  `lstat`, `strcoll` and the command line; it keeps no state but a growing array.
- lab 2: string handling around `fork` and `execve`. Parent and children share nothing
  after the exec and never wait for each other. A failing `execve` leaves a second
  process in the menu loop, where the two share the user's input and nothing else.
- The message format of labs 4, 5 and 7: it fills and prints one buffer, and nobody
  checks the sum it contains, so messages are model values.

## Plan

Modelled, checked and proved so far is what the sections above say. What is left:

1. The safety half of liveness for lab 7 part 1: who can go on when consumers sleep and
   no wakeup was lost.
2. For lab 3, that the alarm, a walk on its way or a pending SIGUSR1 accounts for every
   child `p` has silenced, the safety half of `AllowedAfterP`.
3. For lab 8, which of the two programs moves next in a session that was split, the
   safety half of `EveryWaitEnds`.
