---------------------------- MODULE Lab3Signals ----------------------------
(***************************************************************************)
(* lab3/main.c and list.c: a parent forks children that count ticks of an  *)
(* interval timer and show what they have counted.  The parent keeps their *)
(* pids in a list, tells them with SIGUSR1 and SIGUSR2 whether to show     *)
(* their statistics, and kills them.  'p' forbids all of them to show and  *)
(* lets a SIGALRM five seconds later allow all of them again.              *)
(*                                                                         *)
(* The handlers run between any two steps of the program they interrupt;   *)
(* the handler of the parent's SIGALRM walks the list that the commands    *)
(* walk and change.  Signals do not queue, and signal() blocks only the    *)
(* signal that is being handled: a handler that has begun may be           *)
(* interrupted by the other one, and then is the last to store.            *)
(*                                                                         *)
(* Left out: what the statistics say, SIGINT, which only prints, a fork    *)
(* that fails and a number behind 's' that is refused: both do nothing.    *)
(***************************************************************************)
EXTENDS Naturals, Sequences, FiniteSets

CONSTANTS
    MaxChildren,        \* bound: children forked
    COUNT_OF_REPEATS,   \* ticks between two shows
    ARR_SIZE            \* entries of the statistics

ASSUME SignalsAssumption ==
    /\ MaxChildren \in Nat \ {0}
    /\ COUNT_OF_REPEATS \in Nat \ {0} /\ ARR_SIZE \in Nat \ {0}

Children == 1..MaxChildren      \* their pids, in the order of the forks
NOPID    == 0

VARIABLES
    parent,             \* where the parent is
    task,               \* what a walk or a removal belongs to
    cursor, signal,     \* walks: the next child, the signal to send
    victim,             \* removals: the pid pop_list has read
    list, cnt,          \* the children behind the head of the list
    flag_p, alarm,      \* alarm: SIGALRM will come
    child,              \* where each child is
    i, size, ticking,   \* its loop, its next entry, a tick of ualarm to come
    continue_collect, collect,
    pending             \* of SIGUSR1 and SIGUSR2: sent, not handled to the end

walkVars   == <<task, cursor, signal>>
listVars   == <<list, cnt, victim>>
flagVars   == <<flag_p, alarm>>
parentVars == <<parent, walkVars, listVars, flagVars>>
loopVars   == <<i, size, ticking, continue_collect>>
childVars  == <<child, loopVars, collect>>
vars == <<parentVars, childVars, pending>>

Init ==
    /\ parent = "menu" /\ task = "menu" /\ cursor = 0 /\ signal = "USR1"
    /\ victim = NOPID /\ list = <<>> /\ cnt = 0
    /\ flag_p = FALSE /\ alarm = FALSE
    /\ child = [c \in Children |-> "absent"]
    /\ i = [c \in Children |-> 0] /\ size = [c \in Children |-> 0]
    /\ ticking = [c \in Children |-> FALSE]
    /\ continue_collect = [c \in Children |-> TRUE]
    /\ collect = [c \in Children |-> TRUE]
    /\ pending = [c \in Children |-> {}]

Alive == {c \in Children : child[c] \notin {"absent", "dead"}}

------------------------------------------------------------------------------
(***************************************************************************)
(* A child: make_statistic and its handlers                                *)
(***************************************************************************)

Goto(c, from, to) == child[c] = from /\ child' = [child EXCEPT ![c] = to]

\* Mutant: the alarm is set once for all turns.
TurnUnarmed(c) ==
    /\ Goto(c, "turn", "loop")
    /\ size' = [size EXCEPT ![c] = IF @ = ARR_SIZE THEN 0 ELSE @]
    /\ ticking' = [ticking EXCEPT ![c] = i[c] = 0]
    /\ UNCHANGED <<i, continue_collect, collect, parentVars, pending>>

\* Mutant: the index is taken back one entry too late.
TurnOffByOne(c) ==
    /\ Goto(c, "turn", "loop")
    /\ size' = [size EXCEPT ![c] = IF @ > ARR_SIZE THEN 0 ELSE @]
    /\ ticking' = [ticking EXCEPT ![c] = TRUE]
    /\ UNCHANGED <<i, continue_collect, collect, parentVars, pending>>

\* The head of the for loop, up to ualarm, whose alarm comes once.
Turn(c) ==
    /\ Goto(c, "turn", "loop")
    /\ size' = [size EXCEPT ![c] = IF @ = ARR_SIZE THEN 0 ELSE @]
    /\ ticking' = [ticking EXCEPT ![c] = TRUE]
    /\ UNCHANGED <<i, continue_collect, collect, parentVars, pending>>

\* take_statistic, on SIGALRM.
TakeStatistic(c) ==
    /\ c \in Alive /\ ticking[c]
    /\ ticking' = [ticking EXCEPT ![c] = FALSE]
    /\ size' = [size EXCEPT ![c] = @ + 1]
    /\ continue_collect' = [continue_collect EXCEPT ![c] = FALSE]
    /\ UNCHANGED <<child, i, collect, parentVars, pending>>

\* The condition of the inner loop is false; continue_collect = true.  Only
\* a tick could come between the two, and none is on its way now.
LoopEnd(c) ==
    /\ ~continue_collect[c] /\ Goto(c, "loop", "turn")
    /\ continue_collect' = [continue_collect EXCEPT ![c] = TRUE]
    /\ i' = [i EXCEPT ![c] = (@ + 1) % COUNT_OF_REPEATS]
    /\ UNCHANGED <<size, ticking, collect, parentVars, pending>>

LastTurn(c) == i[c] = COUNT_OF_REPEATS - 1

NextTurn(c) == ~LastTurn(c) /\ LoopEnd(c)
Show(c)     == LastTurn(c) /\ collect[c] /\ LoopEnd(c)
Silent(c)   == LastTurn(c) /\ ~collect[c] /\ LoopEnd(c)

\* allow_statistic_output and disable_statistic_output.  When both signals
\* are there, either handler may store last: SIGUSR2's also when it had begun
\* before SIGUSR1 came, whose handler then runs inside it.  Nobody sees what
\* the other one has stored, since the loop stands still.
Deliver(c) ==
    /\ c \in Alive
    /\ \E last \in pending[c] : collect' = [collect EXCEPT ![c] = last = "USR1"]
    /\ pending' = [pending EXCEPT ![c] = {}]
    /\ UNCHANGED <<child, loopVars, parentVars>>

Runs(c) == Turn(c) \/ NextTurn(c) \/ Show(c) \/ Silent(c)

Child(c) == Runs(c) \/ TakeStatistic(c) \/ Deliver(c)

------------------------------------------------------------------------------
(***************************************************************************)
(* The parent: forking, and walking the list                               *)
(***************************************************************************)

\* kill, to children that are listed.
Sent(sig, receivers) ==
    pending' = [c \in Children |-> IF c \in receivers 
                                   THEN pending[c] \cup {sig} ELSE pending[c]]

Listed == {list[k] : k \in 1..Len(list)}

\* '+': create_proc.  The child has the parent's flags, which no signal of
\* this program changes.
Create(c) ==
    /\ parent = "menu"
    /\ \A b \in 1..(c - 1) : child[b] # "absent"
    /\ Goto(c, "absent", "turn")
    /\ list' = Append(list, c) /\ cnt' = cnt + 1
    /\ UNCHANGED <<parent, walkVars, victim, flagVars, loopVars, collect,
                   pending>>

\* The locals of a walk or a removal are gone.
Idle == task' = "menu" /\ cursor' = 0 /\ signal' = "USR1"

\* command_to_show_stat_for_all_proc, at its start, with somebody listed.
Walk(cmd, sig) ==
    /\ parent = "menu" /\ list # <<>> /\ parent' = "walk"
    /\ task' = cmd /\ signal' = sig /\ cursor' = 1
    /\ UNCHANGED <<listVars, alarm, childVars, pending>>

\* 's' and 'g' with 0.
DisableAll == Walk("menu", "USR2") /\ UNCHANGED flag_p
AllowAll   == Walk("menu", "USR1") /\ flag_p' = FALSE

\* 'p', which asks for a number when the walk is over, or with nobody listed.
Prefer == Walk("ask", "USR2") /\ UNCHANGED flag_p

PreferNobody ==
    /\ parent = "menu" /\ list = <<>> /\ parent' = "ask"
    /\ UNCHANGED <<walkVars, listVars, flagVars, childVars, pending>>

WalkNext ==
    /\ parent = "walk" /\ Sent(signal, {list[cursor]})
    /\ \/ /\ cursor < Len(list) /\ cursor' = cursor + 1
          /\ UNCHANGED <<parent, task, signal>>
       \/ cursor = Len(list) /\ parent' = task /\ Idle
    /\ UNCHANGED <<listVars, flagVars, childVars>>

\* command_to_stat_for_n_proc, for 's' and 'g' with the number of a child:
\* 'g' sends SIGUSR1, and then, as there is no `else', SIGUSR2 as 's' does.
Second(n) ==
    /\ parent = "menu" /\ n \in 1..cnt
    /\ parent' = "second" /\ cursor' = n
    /\ UNCHANGED <<task, signal, listVars, alarm, childVars>>

Disable(n) == Second(n) /\ UNCHANGED <<flag_p, pending>>
Allow(n)   == Second(n) /\ flag_p' = FALSE /\ Sent("USR1", {list[n]})

\* With a number that is refused, and with nobody to walk to, 'g' still takes
\* over from 'p'.
AllowNobody ==
    /\ parent = "menu" /\ flag_p' = FALSE
    /\ UNCHANGED <<parent, walkVars, listVars, alarm, childVars, pending>>

SendSecond ==
    /\ parent = "second" /\ parent' = "menu" /\ Idle
    /\ Sent("USR2", {list[cursor]})
    /\ UNCHANGED <<listVars, flagVars, childVars>>

\* The number behind 'p'.  0 is not refused, and no count of steps along the
\* list gets to it: the walk runs off the end.
Number(n) ==
    /\ parent = "ask"
    /\ IF n = 0
       THEN parent' = "overrun" /\ UNCHANGED flagVars
       ELSE parent' = "menu" /\ flag_p' = TRUE /\ alarm' = TRUE
    /\ UNCHANGED <<walkVars, listVars, childVars, pending>>

------------------------------------------------------------------------------
(***************************************************************************)
(* The parent: removing children, SIGALRM, the end                         *)
(***************************************************************************)

\* 'k' and 'q': delete_all_child_proc.
DeleteAll ==
    /\ parent = "menu" /\ parent' \in {"k", "q"}
    /\ UNCHANGED <<walkVars, listVars, flagVars, childVars, pending>>

\* pop_list, at '-' and in the loop of 'k' and 'q', up to free: the last node
\* is no longer allocated, but still linked.
PopFree ==
    /\ parent \in {"menu", "k", "q"} /\ list # <<>>
    /\ parent' = "freed" /\ task' = parent
    /\ victim' = list[Len(list)]
    /\ UNCHANGED <<cursor, signal, list, cnt, flagVars, childVars, pending>>

\* The rest of pop_list.
PopUnlink ==
    /\ parent = "freed" /\ parent' = "kill"
    /\ list' = SubSeq(list, 1, Len(list) - 1)
    /\ UNCHANGED <<walkVars, victim, cnt, flagVars, childVars, pending>>

\* SIGKILL; what was in the child's memory is gone (and one value here).
Dies(c) ==
    /\ child' = [child EXCEPT ![c] = "dead"]
    /\ i' = [i EXCEPT ![c] = 0] /\ size' = [size EXCEPT ![c] = 0]
    /\ ticking' = [ticking EXCEPT ![c] = FALSE]
    /\ continue_collect' = [continue_collect EXCEPT ![c] = TRUE]
    /\ collect' = [collect EXCEPT ![c] = TRUE]
    /\ pending' = [pending EXCEPT ![c] = {}]

\* Mutant: the first child of the list is killed.
KillFirst ==
    /\ parent = "kill" /\ parent' = task /\ Idle
    /\ Dies(IF list = <<>> THEN victim ELSE list[1])
    /\ cnt' = cnt - 1 /\ victim' = NOPID
    /\ UNCHANGED <<list, flagVars>>

KillVictim ==
    /\ parent = "kill" /\ parent' = task /\ Idle
    /\ Dies(victim)
    /\ cnt' = cnt - 1 /\ victim' = NOPID
    /\ UNCHANGED <<list, flagVars>>

\* Mutant: the loop looks one node ahead, and one child stays.
DeletedButOne ==
    /\ parent \in {"k", "q"} /\ Len(list) <= 1
    /\ parent' = IF parent = "k" THEN "menu" ELSE "ended"
    /\ UNCHANGED <<walkVars, listVars, flagVars, childVars, pending>>

\* "All child processes are deleted."
Deleted ==
    /\ parent \in {"k", "q"} /\ list = <<>>
    /\ parent' = IF parent = "k" THEN "menu" ELSE "ended"
    /\ UNCHANGED <<walkVars, listVars, flagVars, childVars, pending>>

\* Any other key ends the parent and leaves the children alone.
Leave ==
    /\ parent = "menu" /\ parent' = "left"
    /\ UNCHANGED <<walkVars, listVars, flagVars, childVars, pending>>

ParentGone == {"ended", "left", "overrun", "faulted"}

\* Whether the SIGALRM meets a list with a node that is freed.
MeetsFreed == flag_p /\ parent = "freed"

\* Mutant: the handler forbids once more.
AlarmForbids ==
    /\ alarm /\ parent \notin ParentGone /\ ~MeetsFreed
    /\ alarm' = FALSE
    /\ IF flag_p THEN Sent("USR2", Listed) ELSE UNCHANGED pending
    /\ UNCHANGED <<parent, walkVars, listVars, flag_p, childVars>>

\* allow_all_after_p, on SIGALRM, whatever the parent is doing.
Alarm ==
    /\ alarm /\ parent \notin ParentGone /\ ~MeetsFreed
    /\ alarm' = FALSE
    /\ IF flag_p THEN Sent("USR1", Listed) ELSE UNCHANGED pending
    /\ UNCHANGED <<parent, walkVars, listVars, flag_p, childVars>>

\* The same walk over a node that is freed: behind the children before it, it
\* sends to what free has left in place of the pid (of one child, of a group,
\* of nobody here), and follows what is left in place of the pointer.
AlarmOverFreed ==
    /\ alarm /\ MeetsFreed
    /\ alarm' = FALSE /\ parent' \in {"freed", "faulted"}
    /\ \E others \in SUBSET {c \in Children : child[c] # "absent"} :
          Sent("USR1", (Listed \ {victim}) \cup others)
    /\ UNCHANGED <<walkVars, listVars, flag_p, childVars>>

Busy ==
    \/ WalkNext \/ SendSecond
    \/ parent # "menu" /\ PopFree
    \/ PopUnlink \/ KillVictim \/ Deleted

Parent ==
    \/ \E c \in Children : Create(c)
    \/ DisableAll \/ AllowAll \/ AllowNobody \/ Prefer \/ PreferNobody
    \/ \E n \in 1..Cardinality(Children) : Disable(n) \/ Allow(n)
    \/ \E n \in 0..Cardinality(Children) : Number(n)
    \/ DeleteAll \/ PopFree \/ Leave
    \/ Busy
    \/ Alarm \/ AlarmOverFreed

\* Children that are left go on, if there are any.
Ended == parent \in ParentGone /\ UNCHANGED vars

Next == Parent \/ (\E c \in Children : Child(c)) \/ Ended

Spec == Init /\ [][Next]_vars

------------------------------------------------------------------------------
(***************************************************************************)
(* Correctness                                                             *)
(***************************************************************************)

\* With the bounds of the statistics: whenever the tick comes (main.c:126),
\* its entry is one of the ARR_SIZE that are shown.
TypeOK ==
    /\ parent \in {"menu", "walk", "ask", "second", "k", "q", "freed", "kill"}
                  \cup ParentGone
    /\ task \in {"menu", "ask", "k", "q"} /\ cursor \in Nat
    /\ signal \in {"USR1", "USR2"} /\ victim \in Children \cup {NOPID}
    /\ list \in Seq(Children) /\ cnt \in 0..Cardinality(Children)
    /\ flag_p \in BOOLEAN /\ alarm \in BOOLEAN
    /\ child \in [Children ->
                     {"absent", "turn", "loop", "dead"}]
    /\ i \in [Children -> 0..(COUNT_OF_REPEATS - 1)]
    /\ size \in [Children -> 0..ARR_SIZE]
    /\ \A c \in Children : ticking[c] => size[c] < ARR_SIZE
    /\ ticking \in [Children -> BOOLEAN]
    /\ continue_collect \in [Children -> BOOLEAN]
    /\ collect \in [Children -> BOOLEAN]
    /\ pending \in [Children -> SUBSET {"USR1", "USR2"}]

\* main.c:94-107: a number up to cnt leads along the list to a child that
\* runs.  However '+', '-', 'k' and SIGALRM follow each other, cnt counts the
\* nodes, every child that runs is on the list once (or about to be killed),
\* and nobody on it has been killed.
EveryChildListed ==
    /\ cnt = Len(list) + (IF parent = "kill" THEN 1 ELSE 0)
    /\ Cardinality(Listed) = Len(list)
    /\ Alive = Listed \cup ({victim} \ {NOPID})

------------------------------------------------------------------------------
(***************************************************************************)
(* Liveness: processes run, timers expire, signals arrive.  The user need  *)
(* not type anything.                                                      *)
(***************************************************************************)

Fairness ==
    /\ \A c \in Children : /\ WF_vars(Runs(c) \/ TakeStatistic(c))
                           /\ WF_vars(Deliver(c))
    /\ WF_vars(Busy \/ Alarm)

FairSpec == Spec /\ Fairness

\* main.c:145-158: wherever the ticks fall, none is lost: a child that may
\* show its statistics shows them again and again.
ShowsAgain ==
    \A c \in Children :
        <>[](c \in Alive /\ collect[c]) => []<><<Show(c)>>_vars

\* main.c:79-81 and 196-199: the SIGALRM behind 'p' has the last word.  When
\* the user types no further command that sends signals, every child is then
\* allowed to show and stays so, unless 'g' has taken that over.  The exception
\* is a child that has not handled an older SIGUSR2 to the end when SIGUSR1
\* comes: there the older word may be stored last, and for good.
AllowedAfterP ==
    \A c \in Children :
        alarm /\ flag_p /\ [](parent = "menu" /\ c \in Listed)
        ~> []collect[c] \/ ~flag_p \/ pending[c] = {"USR1", "USR2"}

\* main.c:193 "All child processes are deleted.": 'q' leaves nobody, unless
\* SIGALRM meets pop_list between free and unlink (list.c:53-56) and ends the
\* parent half-way.
QuitDeletesAll == parent = "q" ~> Alive = {} \/ parent = "faulted"

==============================================================================
