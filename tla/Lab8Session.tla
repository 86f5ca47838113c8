---------------------------- MODULE Lab8Session ----------------------------
(***************************************************************************)
(* lab8/server/main.c and lab8/client/main.c: one connection between one   *)
(* client and one server.  The client sends a line as a query of 1024      *)
(* bytes and takes what a single recv gives for the reply; the server      *)
(* takes what a single recv gives for a query.  TCP keeps no such borders, *)
(* so a query and a reply travel in two pieces here: the first holds the   *)
(* text with its terminator, the second what follows it, and a recv may    *)
(* return after one of them, or take pieces of two messages.               *)
(*                                                                         *)
(* Both programs keep the query and the reply in one buffer that is never  *)
(* cleared: when the client has no line to read it sends what the buffer   *)
(* holds, the last reply.  Other processes may change and remove           *)
(* directories while the server runs; they leave alone the one it is in.   *)
(***************************************************************************)
EXTENDS Naturals, Sequences

CONSTANTS
    Dirs, Home,      \* the directories; the one the server is started in
    Echoed,          \* what the words echoed by ECHO are as queries
    NULL,
    MaxSplits,       \* bound: receives that leave pieces behind
    MaxChanges       \* bound: changes of directories by others

ASSUME SessionAssumption ==
    /\ Home \in Dirs /\ NULL \notin Dirs /\ NULL \notin Nat
    /\ Echoed \subseteq {"INFO", "LIST", "QUIT", "WRONG"}
    /\ MaxSplits \in Nat /\ MaxChanges \in Nat

VARIABLES
    client,          \* where the client is
    buffer,          \* its QUERY: what it asks, then the reply, as a query
    flag_end,        \* the client has sent QUIT
    after,           \* where it goes behind the reply: prompt or file
    eof,             \* its standard input has ended
    belief,          \* the directory the last CD it heard of has set
    toServer, toClient,          \* the pieces under way
    server,          \* where the server is
    QUERY,           \* what the server's buffer holds, as a query
    CURRENT_DIR, LIST_DIR, d, is_new_dir, serverinfo,
    there, version,  \* the directories that exist; changes of each
    sinceCD,         \* the version CD has found; NULL before the first CD
    strayed,         \* history: the last chdir has failed
    splits, changes

clientVars == <<client, buffer, flag_end, after, eof, belief>>
dirVars    == <<CURRENT_DIR, LIST_DIR, d, is_new_dir, sinceCD, strayed>>
serverVars == <<server, QUERY, dirVars>>
netVars    == <<toServer, toClient, splits>>
outsideVars == <<there, version, changes>>
vars == <<clientVars, serverVars, netVars, outsideVars, serverinfo>>

Plain(op) == [op |-> op, arg |-> NULL]
WRONG == Plain("WRONG")

\* The lines a user types or writes into a file.
Line == {Plain(op) : op \in {"INFO", "LIST", "QUIT", "WRONG"}}
        \cup [op : {"CD"}, arg : Dirs] \cup [op : {"ECHO"}, arg : Echoed]

\* What the client may send: also the name of a file, when that is empty.
Query == Line \cup {Plain("FILE")}

\* write of 1024 bytes by the client, and of a text by the server; the reply
\* to a CD that fails is a single byte.
Pieces(q) == <<[of |-> q, first |-> TRUE], [of |-> q, first |-> FALSE]>>
Reply(q)  == <<[to |-> q, first |-> TRUE, ok |-> TRUE],
               [to |-> q, first |-> FALSE, ok |-> TRUE]>>
Refusal(q) == <<[to |-> q, first |-> TRUE, ok |-> FALSE]>>

\* A recv that returns n of the pieces it could return.
Receive(n, all) ==
    /\ n \in 1..all
    /\ n < all => splits < MaxSplits
    /\ splits' = IF n < all THEN splits + 1 ELSE splits

Behind(s, n) == SubSeq(s, n + 1, Len(s))

\* argv[2] is opened, any directory, but never entered: CURRENT_DIR is where
\* the server has been started.
Init ==
    /\ client = "greet" /\ buffer = WRONG /\ flag_end = FALSE
    /\ after = "prompt" /\ eof = FALSE /\ belief = Home
    /\ toServer = <<>> /\ toClient = <<>> /\ splits = 0
    /\ server = "accept" /\ QUERY = WRONG
    /\ there \in {S \in SUBSET Dirs : Home \in S}
    /\ CURRENT_DIR = Home /\ d \in there
    /\ LIST_DIR = [name |-> Home, dir |-> Home, version |-> 0]
    /\ is_new_dir = FALSE /\ sinceCD = NULL /\ strayed = FALSE
    /\ serverinfo \in BOOLEAN
    /\ version = [x \in Dirs |-> 0] /\ changes = 0

ClientGone == {"closed", "dropped", "killed"}
ServerGone == {"ended", "crashed", "killed"}

------------------------------------------------------------------------------
(***************************************************************************)
(* The client                                                              *)
(***************************************************************************)

\* The one read before the loop.
Greet(n) ==
    /\ client = "greet" /\ toClient # <<>>
    /\ Receive(n, Len(toClient))
    /\ toClient' = Behind(toClient, n)
    /\ client' = "prompt"
    /\ UNCHANGED <<buffer, flag_end, after, eof, belief, toServer, serverVars,
                   outsideVars, serverinfo>>

\* The first half of proccesing_query.  Behind the end of the server, write
\* either raises SIGPIPE or is not answered.
Send(q, next) ==
    /\ buffer' = q /\ flag_end' = (q.op = "QUIT") /\ after' = next
    /\ IF server \in ServerGone
       THEN client' \in {"wait", "killed"} /\ UNCHANGED toServer
       ELSE client' = "wait" /\ toServer' = toServer \o Pieces(q)
    /\ UNCHANGED <<belief, toClient, splits, serverVars, outsideVars,
                   serverinfo>>

\* A line from the user.
Type(q) ==
    /\ client = "prompt" /\ ~eof
    /\ Send(q, "prompt")
    /\ UNCHANGED eof

\* The input has ended: fgets leaves the buffer as it is.  The name of a file
\* loses a character in every round, until nothing is left of it.
EndOfInput ==
    /\ client = "prompt" /\ eof' = TRUE
    /\ Send(IF buffer.op = "FILE" THEN WRONG ELSE buffer, "prompt")

\* '@' and a name, or behind the end of the input what is left of one; a file
\* that is not found leaves the client at the prompt.
OpenFile ==
    /\ client = "prompt"
    /\ eof' \in {eof, TRUE} /\ (eof' => buffer.op = "FILE")
    /\ client' \in {"file", "prompt"}
    /\ buffer' = Plain("FILE")
    /\ UNCHANGED <<flag_end, after, belief, netVars, serverVars, outsideVars,
                   serverinfo>>

\* A line of the file; feof is true behind a last line without a newline.
FileLine(q) ==
    /\ client = "file"
    /\ \E next \in {"file", "prompt"} : Send(q, next)
    /\ UNCHANGED eof

\* Behind a newline at the end of the file feof is not true yet: fgets fails,
\* and the buffer is sent as it is.
FileEnd ==
    /\ client = "file"
    /\ Send(buffer, "prompt")
    /\ UNCHANGED eof

\* What a reply is when the server gets it as a query.
AsQuery(piece) ==
    IF piece.first /\ piece.to.op = "ECHO" THEN Plain(piece.to.arg) ELSE WRONG

\* The second half of proccesing_query, then the test of flag_end.
ClientReceive(n) ==
    /\ client = "wait" /\ toClient # <<>>
    /\ Receive(n, Len(toClient))
    /\ LET reply == Head(toClient)
       IN  /\ buffer' = AsQuery(reply)
           /\ belief' = IF reply.to.op = "CD" /\ reply.first /\ reply.ok
                        THEN reply.to.arg ELSE belief
    /\ client' = IF flag_end THEN "closed" ELSE after
    /\ toClient' = IF flag_end THEN <<>> ELSE Behind(toClient, n)
    /\ UNCHANGED <<flag_end, after, eof, toServer, serverVars, outsideVars,
                   serverinfo>>

\* recv returns nothing: "The server dropped the connection".
Dropped ==
    /\ client = "wait" /\ toClient = <<>> /\ server \in ServerGone
    /\ client' = "dropped"
    /\ UNCHANGED <<buffer, flag_end, after, eof, belief, netVars, serverVars,
                   outsideVars, serverinfo>>

ClientRuns ==
    \/ \E n \in 1..Len(toClient) : Greet(n) \/ ClientReceive(n)
    \/ \E q \in Line : FileLine(q)
    \/ FileEnd
    \/ Dropped

Client ==
    \/ \E q \in Line : Type(q)
    \/ EndOfInput \/ OpenFile
    \/ ClientRuns

------------------------------------------------------------------------------
(***************************************************************************)
(* The server                                                              *)
(***************************************************************************)

\* execute_dir_args: the entries of the open directory as they are now,
\* under the name of the current one.
ReadDirectory ==
    LIST_DIR' = [name |-> CURRENT_DIR, dir |-> d, version |-> version[d]]

\* The greeting is the file with serverinfo; without that file (serverinfo
\* is FALSE) nothing is written.
Accept ==
    /\ server = "accept" /\ server' = "recv"
    /\ ReadDirectory
    /\ toClient' = IF serverinfo THEN Reply(Plain("INFO")) ELSE <<>>
    /\ UNCHANGED <<clientVars, toServer, splits, QUERY, CURRENT_DIR, d,
                   is_new_dir, sinceCD, strayed, outsideVars, serverinfo>>

\* recv of at most 1024 bytes.  The second piece of a query is what older
\* texts have left in the client's buffer, here no command.
ServerReceive(n) ==
    /\ server = "recv" /\ toServer # <<>>
    /\ Receive(n, IF Len(toServer) < 2 THEN Len(toServer) ELSE 2)
    /\ server' = "handle"
    /\ QUERY' = IF Head(toServer).first THEN Head(toServer).of ELSE WRONG
    /\ toServer' = Behind(toServer, n)
    /\ UNCHANGED <<clientVars, toClient, dirVars, outsideVars, serverinfo>>

\* write of a reply; behind the end of the client it may raise SIGPIPE.
Write(reply) ==
    /\ IF client \in ClientGone
       THEN server' \in {"recv", "killed"} /\ UNCHANGED toClient
       ELSE server' = "recv" /\ toClient' = toClient \o reply
    /\ UNCHANGED <<clientVars, toServer, splits, QUERY, outsideVars,
                   serverinfo>>

Handles(ops) == server = "handle" /\ QUERY.op \in ops

\* ECHO, QUIT (the server goes on until the client closes the connection)
\* and anything that is no command.
Answer ==
    /\ Handles({"ECHO", "QUIT", "WRONG", "FILE"})
    /\ Write(Reply(QUERY))
    /\ UNCHANGED dirVars

Info ==
    /\ Handles({"INFO"})
    /\ Write(IF serverinfo THEN Reply(QUERY) ELSE <<>>)
    /\ UNCHANGED dirVars

\* Mutant: a refused CD is not answered.
CdRefusedSilently ==
    /\ Handles({"CD"}) /\ QUERY.arg \notin there
    /\ d' = NULL
    /\ Write(<<>>)
    /\ UNCHANGED <<CURRENT_DIR, LIST_DIR, is_new_dir, sinceCD, strayed>>

\* Mutant: a refused CD is answered like a good one.
CdRefusedAsGood ==
    /\ Handles({"CD"}) /\ QUERY.arg \notin there
    /\ d' = NULL
    /\ Write(Reply(QUERY))
    /\ UNCHANGED <<CURRENT_DIR, LIST_DIR, is_new_dir, sinceCD, strayed>>

\* opendir fails; d is NULL from now on, whatever is_new_dir says.
CdRefused ==
    /\ Handles({"CD"}) /\ QUERY.arg \notin there
    /\ d' = NULL
    /\ Write(Refusal(QUERY))
    /\ UNCHANGED <<CURRENT_DIR, LIST_DIR, is_new_dir, sinceCD, strayed>>

\* opendir succeeds.
CdOpened ==
    /\ Handles({"CD"}) /\ QUERY.arg \in there
    /\ server' = "enter" /\ d' = QUERY.arg
    /\ UNCHANGED <<clientVars, netVars, QUERY, CURRENT_DIR, LIST_DIR,
                   is_new_dir, sinceCD, strayed, outsideVars, serverinfo>>

\* Mutant: without getcwd, the name is kept although chdir has failed.
CdEnterByName ==
    /\ server = "enter"
    /\ CURRENT_DIR' = QUERY.arg /\ d' = QUERY.arg
    /\ sinceCD' = version[QUERY.arg] /\ strayed' = FALSE
    /\ is_new_dir' = TRUE
    /\ Write(Reply(QUERY))
    /\ UNCHANGED LIST_DIR

\* chdir, getcwd and opendir.  If chdir fails, since the directory has gone
\* behind CdOpened or may be read but not searched, the server stays where it
\* is.
Enter ==
    \E now \in {CURRENT_DIR} \cup ({QUERY.arg} \cap there) :
        /\ CURRENT_DIR' = now /\ d' = now /\ sinceCD' = version[now]
        /\ strayed' = (now # QUERY.arg)

\* Mutant: the list is not marked as old.
CdEnterUnmarked ==
    /\ server = "enter" /\ Enter
    /\ Write(Reply(QUERY))
    /\ UNCHANGED <<LIST_DIR, is_new_dir>>

\* Whatever chdir has done, the answer is the same.
CdEnter ==
    /\ server = "enter" /\ Enter
    /\ is_new_dir' = TRUE
    /\ Write(Reply(QUERY))
    /\ UNCHANGED LIST_DIR

List ==
    /\ Handles({"LIST"})
    /\ IF is_new_dir THEN d # NULL /\ ReadDirectory ELSE UNCHANGED LIST_DIR
    /\ is_new_dir' = FALSE
    /\ Write(Reply(QUERY))
    /\ UNCHANGED <<CURRENT_DIR, d, sinceCD, strayed>>

\* readdir(NULL): a CD that succeeded and one that failed came before.
ListOfNothing ==
    /\ Handles({"LIST"}) /\ is_new_dir /\ d = NULL
    /\ server' = "crashed"
    /\ UNCHANGED <<clientVars, netVars, QUERY, dirVars, outsideVars,
                   serverinfo>>

\* Mutant: the end of the client is taken for an error and tried again.
HangUpIgnored ==
    /\ server = "recv" /\ toServer = <<>> /\ client \in ClientGone
    /\ UNCHANGED vars

\* recv returns nothing (after an error first, if the client has closed with
\* a reply unread), which ends the loop and the server.
HangUp ==
    /\ server = "recv" /\ toServer = <<>> /\ client \in ClientGone
    /\ server' = "ended"
    /\ UNCHANGED <<clientVars, netVars, QUERY, dirVars, outsideVars,
                   serverinfo>>

Server ==
    \/ Accept
    \/ \E n \in {1, 2} : ServerReceive(n)
    \/ Answer \/ Info \/ CdRefused \/ CdOpened \/ CdEnter
    \/ List \/ ListOfNothing
    \/ HangUp

------------------------------------------------------------------------------
(***************************************************************************)
(* Other processes                                                         *)
(***************************************************************************)

\* An entry of a directory comes, goes or is renamed.
Change(x) ==
    /\ changes < MaxChanges /\ changes' = changes + 1
    /\ x \in there /\ version' = [version EXCEPT ![x] = @ + 1]
    /\ UNCHANGED <<clientVars, serverVars, netVars, there, serverinfo>>

Remove(x) ==
    /\ changes < MaxChanges /\ changes' = changes + 1
    /\ x \in there \ {Home, CURRENT_DIR} /\ there' = there \ {x}
    /\ UNCHANGED <<clientVars, serverVars, netVars, version, serverinfo>>

Outside == \E x \in Dirs : Change(x) \/ Remove(x)

Next == Client \/ Server \/ Outside

Spec == Init /\ [][Next]_vars

------------------------------------------------------------------------------
(***************************************************************************)
(* Correctness                                                             *)
(***************************************************************************)

TypeOK ==
    /\ client \in {"greet", "prompt", "file", "wait"} \cup ClientGone
    /\ buffer \in Query /\ flag_end \in BOOLEAN /\ eof \in BOOLEAN
    /\ after \in {"prompt", "file"} /\ belief \in Dirs
    /\ toServer \in Seq([of : Query, first : BOOLEAN])
    /\ toClient \in Seq([to : Query, first : BOOLEAN, ok : BOOLEAN])
    /\ server \in {"accept", "recv", "handle", "enter"} \cup ServerGone
    /\ QUERY \in Query
    /\ CURRENT_DIR \in there /\ d \in Dirs \cup {NULL}
    /\ LIST_DIR \in [name : Dirs, dir : Dirs, version : Nat]
    /\ strayed \in BOOLEAN /\ is_new_dir \in BOOLEAN /\ serverinfo \in BOOLEAN
    /\ Home \in there /\ there \subseteq Dirs
    /\ version \in [Dirs -> Nat] /\ sinceCD \in Nat \cup {NULL}
    /\ splits \in 0..MaxSplits /\ changes \in 0..MaxChanges

\* client/main.c:28 takes one recv for the reply to its query.  As long as no
\* recv left a piece behind, that is right: at the prompt nothing is under
\* way, and the server waits and is in the directory CD has told the client,
\* whatever CDs have been refused and whatever directories removed; and what a
\* waiting client finds is the reply to what it asked, whole and alone.  They
\* disagree on the directory only between a CD that is answered as good
\* although its chdir has failed (server/main.c:213-217) and the next good CD.
InStepUnlessSplit ==
    splits = 0 =>
        /\ client \in {"prompt", "file"} =>
              /\ toServer = <<>> /\ toClient = <<>>
              /\ server = "recv"
              /\ strayed \/ belief = CURRENT_DIR
        /\ client = "wait" /\ toClient # <<>> =>
              /\ toServer = <<>> /\ server = "recv"
              /\ toClient \in {Reply(buffer), Refusal(buffer)}

\* LIST answers from a cache (server/main.c:222-226), so that what it gives
\* may be older than serverinfo.txt:6 promises ("Get a list of all files in
\* the current server directory").  What holds is this: from the first good CD
\* on, however good and bad CDs and LISTs follow each other and directories
\* change, a cache not marked as old has the entries of the current directory,
\* under its name, and as they were at the last good CD or later.
CacheFollowsCd ==
    ~is_new_dir /\ sinceCD # NULL =>
        /\ LIST_DIR.dir = CURRENT_DIR /\ LIST_DIR.name = CURRENT_DIR
        /\ LIST_DIR.version >= sinceCD

------------------------------------------------------------------------------
(***************************************************************************)
(* Liveness: both programs run, and TCP delivers what was written.  The    *)
(* user and the other processes need not do anything.                      *)
(***************************************************************************)

Fairness == WF_vars(ClientRuns) /\ WF_vars(Server)

FairSpec == Spec /\ Fairness

\* Whatever is split, neither program waits for the other for ever, provided
\* there is a serverinfo: the greeting and every query are answered, or the
\* client learns that the server has gone.
EveryWaitEnds ==
    serverinfo /\ client \in {"greet", "wait"}
        ~> client \notin {"greet", "wait"}

\* Once QUIT is sent the session ends on both sides, also out of step, when
\* the client leaves with the answer to something else.
QuitEnds ==
    serverinfo /\ flag_end
        ~> client \in ClientGone /\ server \in ServerGone

==============================================================================
