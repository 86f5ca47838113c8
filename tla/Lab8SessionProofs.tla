-------------------------- MODULE Lab8SessionProofs --------------------------
(***************************************************************************)
(* What the run of Lab8Session checks for two directories, proved for any  *)
(* set of directories, any number of changes to them and any number of     *)
(* receives that leave pieces behind.                                      *)
(*                                                                         *)
(* The argument for the conversation: as long as no recv has left a piece  *)
(* behind, client and server are together in one of seven phases (InStep), *)
(* and every step leads from one phase to the next.  The argument for the  *)
(* cache: from the first good CD on d is the current directory, except     *)
(* between the opendir of CD and its end, and the changes of a directory   *)
(* are only ever more (DirInStep).                                         *)
(***************************************************************************)
EXTENDS Lab8Session, SequenceTheorems, TLAPS

\* What the client believes about the directory, but for a CD that was
\* answered as good although its chdir had failed.
Told == strayed \/ belief = CURRENT_DIR

Quiet == toServer = <<>> /\ toClient = <<>>

(***************************************************************************)
(* The phases                                                              *)
(***************************************************************************)

Greeting ==
    /\ client = "greet" /\ Told /\ toServer = <<>>
    /\ \/ server = "accept" /\ toClient = <<>>
       \/ server = "recv" /\ toClient \in {<<>>, Reply(Plain("INFO"))}

AtPrompt == client \in {"prompt", "file"} /\ server = "recv" /\ Quiet /\ Told

Asked ==
    /\ client = "wait" /\ server = "recv" /\ Told
    /\ toServer = Pieces(buffer) /\ toClient = <<>>

Handled ==
    client = "wait" /\ server = "handle" /\ Quiet /\ QUERY = buffer /\ Told

Entering ==
    /\ client = "wait" /\ server = "enter" /\ Quiet
    /\ QUERY = buffer /\ buffer.op = "CD"

\* The reply is under way.  After a CD that has not failed the client has not
\* heard of the new directory yet.
Answered ==
    /\ client = "wait" /\ server = "recv" /\ toServer = <<>>
    /\ toClient \in {Reply(buffer), Refusal(buffer)}
    /\ IF toClient = Reply(buffer) /\ buffer.op = "CD"
       THEN strayed \/ buffer.arg = CURRENT_DIR
       ELSE Told

\* An INFO without a serverinfo, or a server that has crashed.
Unanswered == client = "wait" /\ server \in {"recv", "crashed"} /\ Quiet

InStep ==
    splits = 0 /\ client \notin ClientGone =>
        \/ Greeting \/ AtPrompt
        \/ Asked \/ Handled \/ Entering \/ Answered \/ Unanswered

\* From the first good CD on the open directory is the current one, and no
\* older than sinceCD; only a good CD marks the list as old.
DirInStep ==
    /\ sinceCD # NULL =>
         /\ d # NULL /\ server # "enter" => d = CURRENT_DIR
         /\ sinceCD <= version[CURRENT_DIR]
    /\ is_new_dir => sinceCD # NULL
    /\ server = "accept" => d # NULL

\* The inductive invariant.
IInv == TypeOK /\ InStep /\ DirInStep /\ CacheFollowsCd

------------------------------------------------------------------------------
(***************************************************************************)
(* Queries, pieces, receives                                               *)
(***************************************************************************)

\* What the queries carry, and which the programs make up themselves.
LEMMA QueryFacts ==
    /\ \A q \in Query :
         /\ q.op \in {"INFO", "LIST", "QUIT", "WRONG", "CD", "ECHO", "FILE"}
         /\ q.op = "CD" => q.arg \in Dirs
         /\ q.op = "ECHO" => q.arg \in Echoed
    /\ Line \subseteq Query
    /\ WRONG \in Query /\ Plain("FILE") \in Query /\ Plain("INFO") \in Query
    /\ \A word \in Echoed : Plain(word) \in Query
    /\ WRONG.op = "WRONG" /\ Plain("FILE").op = "FILE"
    /\ Plain("INFO").op = "INFO"
BY SessionAssumption DEF Query, Line, WRONG, Plain

\* The pieces of a query and of its replies.
LEMMA PieceFacts ==
    ASSUME NEW q \in Query
    PROVE  /\ Pieces(q) \in Seq([of : Query, first : BOOLEAN])
           /\ Pieces(q) # <<>> /\ Len(Pieces(q)) = 2
           /\ Head(Pieces(q)) = [of |-> q, first |-> TRUE]
           /\ Reply(q) \in Seq([to : Query, first : BOOLEAN, ok : BOOLEAN])
           /\ Head(Reply(q)) = [to |-> q, first |-> TRUE, ok |-> TRUE]
           /\ Refusal(q) \in Seq([to : Query, first : BOOLEAN, ok : BOOLEAN])
           /\ Head(Refusal(q)) = [to |-> q, first |-> TRUE, ok |-> FALSE]
           /\ Reply(q) # <<>> /\ Refusal(q) # <<>> /\ Reply(q) # Refusal(q)
BY DEF Pieces, Reply, Refusal

\* What a recv leaves; nothing, if it takes all there is.
LEMMA BehindFacts ==
    ASSUME NEW S, NEW s \in Seq(S), NEW n \in 1..Len(s)
    PROVE  /\ Len(s) \in Nat /\ Head(s) \in S
           /\ Behind(s, n) \in Seq(S)
           /\ n = Len(s) => Behind(s, n) = <<>>
<1>1. Len(s) \in Nat /\ n \in Nat /\ n + 1 \in Int
  BY LenProperties
<1>2. \A k \in (n + 1)..Len(s) : s[k] \in S
  BY <1>1, ElementOfSeq
<1>3. Behind(s, n) \in Seq(S)
  BY <1>1, <1>2, SubSeqProperties DEF Behind
<1>4. n = Len(s) => Behind(s, n) = <<>>
  BY <1>1, SubSeqEmpty DEF Behind
<1>5. s # <<>>
  BY <1>1, EmptySeq
<1>6. QED
  BY <1>1, <1>3, <1>4, <1>5, HeadTailProperties

\* A recv counts the pieces it leaves behind.
LEMMA ReceiveFacts ==
    ASSUME TypeOK, NEW n, NEW all \in Nat, Receive(n, all)
    PROVE  /\ splits' \in 0..MaxSplits
           /\ splits' = 0 => splits = 0 /\ n = all
BY SessionAssumption DEF TypeOK, Receive

\* Both queues of pieces stay queues of pieces behind a recv, and empty ones
\* if the recv takes all.
LEMMA QueueFacts ==
    ASSUME TypeOK
    PROVE  /\ Len(toServer) \in Nat /\ Len(toClient) \in Nat
           /\ \A n \in 1..Len(toServer) :
                /\ Behind(toServer, n) \in Seq([of : Query, first : BOOLEAN])
                /\ Head(toServer) \in [of : Query, first : BOOLEAN]
                /\ n = Len(toServer) => Behind(toServer, n) = <<>>
           /\ \A n \in 1..Len(toClient) :
                /\ Behind(toClient, n)
                     \in Seq([to : Query, first : BOOLEAN, ok : BOOLEAN])
                /\ Head(toClient)
                     \in [to : Query, first : BOOLEAN, ok : BOOLEAN]
                /\ n = Len(toClient) => Behind(toClient, n) = <<>>
<1>1. /\ toServer \in Seq([of : Query, first : BOOLEAN])
      /\ toClient \in Seq([to : Query, first : BOOLEAN, ok : BOOLEAN])
  BY DEF TypeOK
<1>2. Len(toServer) \in Nat /\ Len(toClient) \in Nat
  BY <1>1, LenProperties
<1>3. ASSUME NEW n \in 1..Len(toServer)
      PROVE  /\ Behind(toServer, n) \in Seq([of : Query, first : BOOLEAN])
             /\ Head(toServer) \in [of : Query, first : BOOLEAN]
             /\ n = Len(toServer) => Behind(toServer, n) = <<>>
  BY <1>1, BehindFacts
<1>4. ASSUME NEW n \in 1..Len(toClient)
      PROVE  /\ Behind(toClient, n)
                  \in Seq([to : Query, first : BOOLEAN, ok : BOOLEAN])
             /\ Head(toClient) \in [to : Query, first : BOOLEAN, ok : BOOLEAN]
             /\ n = Len(toClient) => Behind(toClient, n) = <<>>
  BY <1>1, BehindFacts
<1>5. QED
  BY <1>2, <1>3, <1>4

\* What Send does, in a word.
LEMMA SendFacts ==
    ASSUME TypeOK, NEW q \in Query, NEW next \in {"prompt", "file"},
           Send(q, next)
    PROVE  /\ client' \in {"wait", "killed"}
           /\ buffer' = q /\ after' = next /\ flag_end' \in BOOLEAN
           /\ toServer' \in Seq([of : Query, first : BOOLEAN])
           /\ server \notin ServerGone /\ toServer = <<>> =>
                client' = "wait" /\ toServer' = Pieces(q)
           /\ UNCHANGED <<belief, toClient, splits, serverVars, outsideVars,
                          serverinfo>>
<1> USE DEF Send, TypeOK
<1>1. toServer \o Pieces(q) \in Seq([of : Query, first : BOOLEAN])
  BY PieceFacts, ConcatProperties
<1>2. toServer = <<>> => toServer \o Pieces(q) = Pieces(q)
  BY PieceFacts, ConcatEmptySeq
<1>3. QED
  BY <1>1, <1>2

\* What Write does.
LEMMA WriteFacts ==
    ASSUME TypeOK,
           NEW reply \in Seq([to : Query, first : BOOLEAN, ok : BOOLEAN]),
           Write(reply)
    PROVE  /\ server' \in {"recv", "killed"}
           /\ toClient' \in Seq([to : Query, first : BOOLEAN, ok : BOOLEAN])
           /\ client \notin ClientGone /\ toClient = <<>> =>
                server' = "recv" /\ toClient' = reply
           /\ UNCHANGED <<clientVars, toServer, splits, QUERY, outsideVars,
                          serverinfo>>
<1> USE DEF Write, TypeOK
<1>1. toClient \o reply \in Seq([to : Query, first : BOOLEAN, ok : BOOLEAN])
  BY ConcatProperties
<1>2. toClient = <<>> => toClient \o reply = reply
  BY ConcatEmptySeq
<1>3. QED
  BY <1>1, <1>2

\* Sending a query keeps the types.
LEMMA SendTypes ==
    ASSUME TypeOK, NEW q \in Query, NEW next \in {"prompt", "file"},
           Send(q, next), eof' \in BOOLEAN
    PROVE  TypeOK'
<1>1. /\ client' \in {"wait", "killed"}
      /\ buffer' \in Query /\ after' \in {"prompt", "file"}
      /\ flag_end' \in BOOLEAN
      /\ toServer' \in Seq([of : Query, first : BOOLEAN])
      /\ UNCHANGED <<belief, toClient, splits, serverVars, outsideVars,
                     serverinfo>>
  BY SendFacts
<1>2. QED
  BY <1>1 DEF TypeOK, ClientGone, serverVars, dirVars, outsideVars

\* Writing a reply keeps the types, if the directories keep theirs.
LEMMA WriteTypes ==
    ASSUME TypeOK,
           NEW reply \in Seq([to : Query, first : BOOLEAN, ok : BOOLEAN]),
           Write(reply),
           CURRENT_DIR' \in there /\ d' \in Dirs \cup {NULL},
           LIST_DIR' \in [name : Dirs, dir : Dirs, version : Nat],
           is_new_dir' \in BOOLEAN /\ strayed' \in BOOLEAN,
           sinceCD' \in Nat \cup {NULL}
    PROVE  TypeOK'
<1>1. /\ server' \in {"recv", "killed"}
      /\ toClient' \in Seq([to : Query, first : BOOLEAN, ok : BOOLEAN])
      /\ UNCHANGED <<clientVars, toServer, splits, QUERY, outsideVars,
                     serverinfo>>
  BY WriteFacts
<1>2. QED
  BY <1>1 DEF TypeOK, ServerGone, clientVars, outsideVars

\* The pieces of replies are queries again, or none.
LEMMA AsQueryFacts ==
    \A piece \in [to : Query, first : BOOLEAN, ok : BOOLEAN] :
        AsQuery(piece) \in Query
BY QueryFacts DEF AsQuery

------------------------------------------------------------------------------
(***************************************************************************)
(* The invariant is inductive                                              *)
(***************************************************************************)

\* At the start the client waits for the greeting.
LEMMA InitIInv == Init => IInv
<1> SUFFICES ASSUME Init PROVE IInv
  OBVIOUS
<1>1. TypeOK
  <2>1. /\ toServer \in Seq([of : Query, first : BOOLEAN])
        /\ toClient \in Seq([to : Query, first : BOOLEAN, ok : BOOLEAN])
    BY EmptySeq DEF Init
  <2>2. /\ CURRENT_DIR \in there /\ Home \in there /\ there \subseteq Dirs
        /\ d \in Dirs \cup {NULL} /\ belief \in Dirs
        /\ LIST_DIR \in [name : Dirs, dir : Dirs, version : Nat]
        /\ version \in [Dirs -> Nat] /\ sinceCD \in Nat \cup {NULL}
        /\ splits \in 0..MaxSplits /\ changes \in 0..MaxChanges
    BY SessionAssumption DEF Init
  <2>3. buffer \in Query /\ QUERY \in Query
    BY QueryFacts DEF Init
  <2>4. QED
    BY <2>1, <2>2, <2>3 DEF Init, TypeOK
<1>2. InStep
  BY DEF Init, InStep, Greeting, Told
<1>3. DirInStep /\ CacheFollowsCd
  BY SessionAssumption DEF Init, DirInStep, CacheFollowsCd
<1>4. QED
  BY <1>1, <1>2, <1>3 DEF IInv

\* Type correctness is kept by every step, given the invariant.
LEMMA TypeStep ==
    ASSUME IInv, [Next]_vars
    PROVE  TypeOK'
<1> USE SessionAssumption
        DEF IInv, clientVars, dirVars, serverVars, netVars, outsideVars,
            TypeOK, ClientGone, ServerGone
<1>1. ASSUME NEW n \in 1..Len(toClient), Greet(n)
      PROVE  TypeOK'
  <2>1. splits' \in 0..MaxSplits
    BY <1>1, QueueFacts, ReceiveFacts DEF Greet
  <2>2. toClient' \in Seq([to : Query, first : BOOLEAN, ok : BOOLEAN])
    BY <1>1, QueueFacts DEF Greet
  <2>3. QED
    BY <1>1, <2>1, <2>2 DEF Greet
<1>2. ASSUME NEW q \in Line, Type(q)
      PROVE  TypeOK'
  BY <1>2, SendTypes, QueryFacts DEF Type
<1>3. CASE EndOfInput
  <2>1. (IF buffer.op = "FILE" THEN WRONG ELSE buffer) \in Query
    BY QueryFacts
  <2>2. QED
    BY <1>3, <2>1, SendTypes DEF EndOfInput
<1>4. CASE OpenFile
  <2>1. /\ buffer' \in Query /\ eof' \in BOOLEAN
        /\ client' \in {"file", "prompt"}
    BY <1>4, QueryFacts DEF OpenFile
  <2>2. UNCHANGED <<flag_end, after, belief, toServer, toClient, splits,
                    serverVars, outsideVars, serverinfo>>
    BY <1>4 DEF OpenFile
  <2>3. QED
    BY <2>1, <2>2
<1>5. ASSUME NEW q \in Line, FileLine(q)
      PROVE  TypeOK'
  <2>1. PICK next \in {"file", "prompt"} : Send(q, next)
    BY <1>5 DEF FileLine
  <2>2. eof' \in BOOLEAN /\ q \in Query
    BY <1>5, QueryFacts DEF FileLine
  <2>3. QED
    BY <2>1, <2>2, SendTypes
<1>6. CASE FileEnd
  BY <1>6, SendTypes, QueryFacts DEF FileEnd
<1>7. ASSUME NEW n \in 1..Len(toClient), ClientReceive(n)
      PROVE  TypeOK'
  <2>1. splits' \in 0..MaxSplits
    BY <1>7, QueueFacts, ReceiveFacts DEF ClientReceive
  <2>2. /\ Head(toClient) \in [to : Query, first : BOOLEAN, ok : BOOLEAN]
        /\ Behind(toClient, n)
             \in Seq([to : Query, first : BOOLEAN, ok : BOOLEAN])
    BY QueueFacts
  <2>3. buffer' \in Query /\ belief' \in Dirs
    BY <1>7, <2>2, AsQueryFacts, QueryFacts DEF ClientReceive
  <2>4. toClient' \in Seq([to : Query, first : BOOLEAN, ok : BOOLEAN])
    BY <1>7, <2>2, EmptySeq DEF ClientReceive
  <2>5. client' \in {"closed", "prompt", "file"}
    BY <1>7 DEF ClientReceive
  <2>6. QED
    BY <1>7, <2>1, <2>3, <2>4, <2>5 DEF ClientReceive
<1>8. CASE Dropped
  BY <1>8 DEF Dropped
<1>9. CASE Accept
  BY <1>9, PieceFacts, QueryFacts, EmptySeq
    DEF Accept, ReadDirectory, DirInStep
<1>10. ASSUME NEW n \in {1, 2}, ServerReceive(n)
       PROVE  TypeOK'
  <2>1. n \in 1..Len(toServer) /\ splits' \in 0..MaxSplits
    <3>1. (IF Len(toServer) < 2 THEN Len(toServer) ELSE 2) \in 0..Len(toServer)
      BY QueueFacts
    <3>2. QED
      BY <1>10, <3>1, QueueFacts, ReceiveFacts DEF ServerReceive, Receive
  <2>2. /\ Head(toServer) \in [of : Query, first : BOOLEAN]
        /\ Behind(toServer, n) \in Seq([of : Query, first : BOOLEAN])
    BY <2>1, QueueFacts
  <2>3. QUERY' \in Query
    BY <1>10, <2>2, QueryFacts DEF ServerReceive
  <2>4. QED
    BY <1>10, <2>1, <2>2, <2>3 DEF ServerReceive
<1>11. CASE Answer
  BY <1>11, WriteTypes, PieceFacts, QueryFacts DEF Answer, Handles
<1>12. CASE Info
  BY <1>12, WriteTypes, PieceFacts, QueryFacts, EmptySeq DEF Info, Handles
<1>13. CASE CdRefused
  BY <1>13, WriteTypes, PieceFacts, QueryFacts DEF CdRefused, Handles
<1>14. CASE CdOpened
  BY <1>14 DEF CdOpened, Handles
<1>15. CASE CdEnter
  <2>1. /\ CURRENT_DIR' \in there /\ d' \in Dirs \cup {NULL}
        /\ strayed' \in BOOLEAN /\ is_new_dir' \in BOOLEAN
        /\ sinceCD' \in Nat \cup {NULL} /\ UNCHANGED LIST_DIR
    BY <1>15 DEF CdEnter, Enter
  <2>2. QED
    BY <1>15, <2>1, WriteTypes, PieceFacts DEF CdEnter
<1>16. CASE List
  <2>1. LIST_DIR' \in [name : Dirs, dir : Dirs, version : Nat]
    BY <1>16 DEF List, ReadDirectory
  <2>2. Reply(QUERY) \in Seq([to : Query, first : BOOLEAN, ok : BOOLEAN])
    BY PieceFacts
  <2>3. QED
    BY <1>16, <2>1, <2>2, WriteTypes DEF List
<1>17. CASE ListOfNothing
  BY <1>17 DEF ListOfNothing, Handles
<1>18. CASE HangUp
  BY <1>18 DEF HangUp
<1>19. ASSUME NEW x \in Dirs, Change(x)
       PROVE  TypeOK'
  BY <1>19 DEF Change
<1>20. ASSUME NEW x \in Dirs, Remove(x)
       PROVE  TypeOK'
  BY <1>20 DEF Remove
<1>21. CASE UNCHANGED vars
  BY <1>21 DEF vars
<1>22. QED
  BY <1>1, <1>2, <1>3, <1>4, <1>5, <1>6, <1>7, <1>8, <1>9, <1>10, <1>11,
     <1>12, <1>13, <1>14, <1>15, <1>16, <1>17, <1>18, <1>19, <1>20, <1>21
    DEF Next, Client, ClientRuns, Server, Outside

\* Every step that leaves no piece behind leads from phase to phase.
LEMMA PhaseStep ==
    ASSUME IInv, [Next]_vars
    PROVE  InStep'
<1> USE DEF IInv, clientVars, dirVars, serverVars, netVars, outsideVars,
            TypeOK, InStep, Greeting, AtPrompt, Asked, Handled, Entering,
            Answered, Unanswered, Told, Quiet, ClientGone, ServerGone
<1>1. ASSUME NEW n \in 1..Len(toClient), Greet(n)
      PROVE  InStep'
  BY <1>1, ReceiveFacts, QueueFacts DEF Greet
<1>2. ASSUME NEW q \in Line, Type(q)
      PROVE  InStep'
  BY <1>2, SendFacts, QueryFacts DEF Type
<1>3. CASE EndOfInput
  BY <1>3, SendFacts, QueryFacts DEF EndOfInput
<1>4. CASE OpenFile
  BY <1>4, QueryFacts DEF OpenFile
<1>5. ASSUME NEW q \in Line, FileLine(q)
      PROVE  InStep'
  BY <1>5, SendFacts, QueryFacts DEF FileLine
<1>6. CASE FileEnd
  BY <1>6, SendFacts, QueryFacts DEF FileEnd
<1>7. ASSUME NEW n \in 1..Len(toClient), ClientReceive(n)
      PROVE  InStep'
  <2>1. client' \notin ClientGone => client = "wait" /\ ~flag_end
    BY <1>7 DEF ClientReceive
  <2> SUFFICES ASSUME splits' = 0, ~flag_end
               PROVE  AtPrompt'
    BY <1>7, <2>1
  <2>2. splits = 0 /\ n = Len(toClient) /\ toClient # <<>>
    BY <1>7, QueueFacts, ReceiveFacts DEF ClientReceive
  <2>3. Answered
    BY <1>7, <2>2 DEF ClientReceive
  <2>4. toClient' = <<>>
    BY <1>7, <2>2, QueueFacts DEF ClientReceive
  <2>5. Head(toClient) = [to |-> buffer, first |-> TRUE,
                          ok |-> toClient = Reply(buffer)]
    BY <2>3, PieceFacts
  <2>6. Told'
    BY <1>7, <2>3, <2>5 DEF ClientReceive
  <2>7. QED
    BY <1>7, <2>3, <2>4, <2>6 DEF ClientReceive
<1>8. CASE Dropped
  BY <1>8 DEF Dropped
<1>9. CASE Accept
  BY <1>9, PieceFacts, QueryFacts, EmptySeq DEF Accept, ReadDirectory
<1>10. ASSUME NEW n \in {1, 2}, ServerReceive(n)
       PROVE  InStep'
  <2> SUFFICES ASSUME splits' = 0, client \notin ClientGone
               PROVE  Handled'
    BY <1>10 DEF ServerReceive
  <2>1. (IF Len(toServer) < 2 THEN Len(toServer) ELSE 2) \in Nat
    BY QueueFacts
  <2>2. /\ splits = 0 /\ toServer # <<>>
        /\ n = IF Len(toServer) < 2 THEN Len(toServer) ELSE 2
    BY <1>10, <2>1, ReceiveFacts DEF ServerReceive
  <2>3. Asked
    BY <1>10, <2>2 DEF ServerReceive
  <2>4. /\ n = Len(toServer) /\ n \in 1..Len(toServer)
        /\ Head(toServer) = [of |-> buffer, first |-> TRUE]
    <3>1. /\ Len(toServer) = 2
          /\ Head(toServer) = [of |-> buffer, first |-> TRUE]
      BY <2>3, PieceFacts
    <3>2. QED
      BY <2>2, <3>1
  <2>5. toServer' = <<>> /\ QUERY' = buffer
    <3>1. /\ toServer' = Behind(toServer, n)
          /\ QUERY' = IF Head(toServer).first THEN Head(toServer).of
                                             ELSE WRONG
      BY <1>10 DEF ServerReceive
    <3>2. Behind(toServer, n) = <<>>
      BY <2>4, QueueFacts
    <3>3. QED
      BY <2>4, <3>1, <3>2
  <2>6. QED
    BY <1>10, <2>3, <2>5 DEF ServerReceive
<1>11. CASE Answer
  BY <1>11, WriteFacts, PieceFacts, QueryFacts DEF Answer, Handles
<1>12. CASE Info
  BY <1>12, WriteFacts, PieceFacts, QueryFacts, EmptySeq DEF Info, Handles
<1>13. CASE CdRefused
  <2> SUFFICES ASSUME splits = 0, client \notin ClientGone
               PROVE  Answered'
    BY <1>13, WriteFacts, PieceFacts DEF CdRefused
  <2>1. Handled
    BY <1>13 DEF CdRefused, Handles
  <2>2. /\ Refusal(buffer)
             \in Seq([to : Query, first : BOOLEAN, ok : BOOLEAN])
        /\ Write(Refusal(buffer)) /\ UNCHANGED <<CURRENT_DIR, strayed>>
    BY <1>13, <2>1, PieceFacts DEF CdRefused
  <2>3. /\ UNCHANGED <<clientVars, toServer>>
        /\ server' = "recv" /\ toClient' = Refusal(buffer)
    BY <2>1, <2>2, WriteFacts
  <2>4. Refusal(buffer) # Reply(buffer)
    BY PieceFacts
  <2>5. QED
    BY <2>1, <2>2, <2>3, <2>4
<1>14. CASE CdOpened
  BY <1>14 DEF CdOpened, Handles
<1>15. CASE CdEnter
  <2>1. /\ UNCHANGED <<clientVars, toServer, splits>>
        /\ client \notin ClientGone /\ toClient = <<>> =>
             server' = "recv" /\ toClient' = Reply(QUERY)
    BY <1>15, WriteFacts, PieceFacts DEF CdEnter
  <2>2. server = "enter" /\ (strayed' \/ QUERY.arg = CURRENT_DIR')
    BY <1>15 DEF CdEnter, Enter
  <2>3. ASSUME splits' = 0, client' \notin ClientGone
        PROVE  Answered'
    BY <2>1, <2>2, <2>3
  <2>4. QED
    BY <2>3
<1>16. CASE List
  BY <1>16, WriteFacts, PieceFacts, QueryFacts
    DEF List, Handles, ReadDirectory
<1>17. CASE ListOfNothing
  BY <1>17 DEF ListOfNothing, Handles
<1>18. CASE HangUp
  BY <1>18 DEF HangUp
<1>19. ASSUME NEW x \in Dirs, Change(x)
       PROVE  InStep'
  BY <1>19 DEF Change
<1>20. ASSUME NEW x \in Dirs, Remove(x)
       PROVE  InStep'
  BY <1>20 DEF Remove
<1>21. CASE UNCHANGED vars
  BY <1>21 DEF vars
<1>22. QED
  BY <1>1, <1>2, <1>3, <1>4, <1>5, <1>6, <1>7, <1>8, <1>9, <1>10, <1>11,
     <1>12, <1>13, <1>14, <1>15, <1>16, <1>17, <1>18, <1>19, <1>20, <1>21
    DEF Next, Client, ClientRuns, Server, Outside

\* CD ends in the current directory, and changes are only ever more.
LEMMA DirStep ==
    ASSUME IInv, [Next]_vars
    PROVE  DirInStep'
<1> USE DEF IInv, clientVars, dirVars, serverVars, netVars, outsideVars,
            DirInStep, TypeOK
<1>1. ASSUME NEW n \in 1..Len(toClient), Greet(n)
      PROVE  DirInStep'
  BY <1>1 DEF Greet
<1>2. ASSUME NEW q \in Line, Type(q)
      PROVE  DirInStep'
  BY <1>2, SendFacts, QueryFacts DEF Type
<1>3. CASE EndOfInput
  BY <1>3, SendFacts, QueryFacts DEF EndOfInput
<1>4. CASE OpenFile
  BY <1>4 DEF OpenFile
<1>5. ASSUME NEW q \in Line, FileLine(q)
      PROVE  DirInStep'
  BY <1>5, SendFacts, QueryFacts DEF FileLine
<1>6. CASE FileEnd
  BY <1>6, SendFacts, QueryFacts DEF FileEnd
<1>7. ASSUME NEW n \in 1..Len(toClient), ClientReceive(n)
      PROVE  DirInStep'
  BY <1>7 DEF ClientReceive
<1>8. CASE Dropped
  BY <1>8 DEF Dropped
<1>9. CASE Accept
  BY <1>9 DEF Accept, ReadDirectory
<1>10. ASSUME NEW n \in {1, 2}, ServerReceive(n)
       PROVE  DirInStep'
  BY <1>10 DEF ServerReceive
<1>11. CASE Answer
  BY <1>11, WriteFacts, PieceFacts, QueryFacts DEF Answer, Handles
<1>12. CASE Info
  BY <1>12, WriteFacts, PieceFacts, QueryFacts, EmptySeq DEF Info, Handles
<1>13. CASE CdRefused
  BY <1>13, WriteFacts, PieceFacts, QueryFacts DEF CdRefused, Handles
<1>14. CASE CdOpened
  BY <1>14 DEF CdOpened, Handles
<1>15. CASE CdEnter
  <2>1. UNCHANGED <<there, version>> /\ server' # "enter" /\ server' # "accept"
    BY <1>15, WriteFacts, PieceFacts DEF CdEnter
  <2>2. /\ CURRENT_DIR' \in Dirs /\ d' = CURRENT_DIR'
        /\ sinceCD' = version[CURRENT_DIR'] /\ sinceCD' \in Nat
    BY <1>15 DEF CdEnter, Enter
  <2>3. QED
    BY <2>1, <2>2, SessionAssumption
<1>16. CASE List
  BY <1>16, WriteFacts, PieceFacts, QueryFacts
    DEF List, Handles, ReadDirectory
<1>17. CASE ListOfNothing
  BY <1>17 DEF ListOfNothing, Handles
<1>18. CASE HangUp
  BY <1>18 DEF HangUp
<1>19. ASSUME NEW x \in Dirs, Change(x)
       PROVE  DirInStep'
  BY <1>19 DEF Change
<1>20. ASSUME NEW x \in Dirs, Remove(x)
       PROVE  DirInStep'
  BY <1>20 DEF Remove
<1>21. CASE UNCHANGED vars
  BY <1>21 DEF vars
<1>22. QED
  BY <1>1, <1>2, <1>3, <1>4, <1>5, <1>6, <1>7, <1>8, <1>9, <1>10, <1>11,
     <1>12, <1>13, <1>14, <1>15, <1>16, <1>17, <1>18, <1>19, <1>20, <1>21
    DEF Next, Client, ClientRuns, Server, Outside

\* The cache is marked as old by CD, and read from the current directory.
LEMMA CacheStep ==
    ASSUME IInv, [Next]_vars
    PROVE  CacheFollowsCd'
<1> USE DEF IInv, clientVars, dirVars, serverVars, netVars, outsideVars,
            CacheFollowsCd, DirInStep, TypeOK
<1>1. ASSUME NEW n \in 1..Len(toClient), Greet(n)
      PROVE  CacheFollowsCd'
  BY <1>1 DEF Greet
<1>2. ASSUME NEW q \in Line, Type(q)
      PROVE  CacheFollowsCd'
  BY <1>2, SendFacts, QueryFacts DEF Type
<1>3. CASE EndOfInput
  BY <1>3, SendFacts, QueryFacts DEF EndOfInput
<1>4. CASE OpenFile
  BY <1>4 DEF OpenFile
<1>5. ASSUME NEW q \in Line, FileLine(q)
      PROVE  CacheFollowsCd'
  BY <1>5, SendFacts, QueryFacts DEF FileLine
<1>6. CASE FileEnd
  BY <1>6, SendFacts, QueryFacts DEF FileEnd
<1>7. ASSUME NEW n \in 1..Len(toClient), ClientReceive(n)
      PROVE  CacheFollowsCd'
  BY <1>7 DEF ClientReceive
<1>8. CASE Dropped
  BY <1>8 DEF Dropped
<1>9. CASE Accept
  BY <1>9 DEF Accept, ReadDirectory
<1>10. ASSUME NEW n \in {1, 2}, ServerReceive(n)
       PROVE  CacheFollowsCd'
  BY <1>10 DEF ServerReceive
<1>11. CASE Answer
  BY <1>11, WriteFacts, PieceFacts, QueryFacts DEF Answer, Handles
<1>12. CASE Info
  BY <1>12, WriteFacts, PieceFacts, QueryFacts, EmptySeq DEF Info, Handles
<1>13. CASE CdRefused
  BY <1>13, WriteFacts, PieceFacts, QueryFacts DEF CdRefused, Handles
<1>14. CASE CdOpened
  BY <1>14 DEF CdOpened, Handles
<1>15. CASE CdEnter
  BY <1>15, WriteFacts, PieceFacts, QueryFacts DEF CdEnter
<1>16. CASE List
  <2>1. server = "handle" /\ UNCHANGED <<CURRENT_DIR, sinceCD>>
    BY <1>16 DEF List, Handles
  <2>2. CASE is_new_dir
    <3>1. d = CURRENT_DIR
      BY <1>16, <2>1, <2>2 DEF List
    <3>2. LIST_DIR' = [name |-> CURRENT_DIR, dir |-> CURRENT_DIR,
                       version |-> version[CURRENT_DIR]]
      BY <1>16, <2>2, <3>1 DEF List, ReadDirectory
    <3>3. QED
      BY <2>1, <3>2
  <2>3. CASE ~is_new_dir
    BY <1>16, <2>1, <2>3 DEF List
  <2>4. QED
    BY <2>2, <2>3
<1>17. CASE ListOfNothing
  BY <1>17 DEF ListOfNothing, Handles
<1>18. CASE HangUp
  BY <1>18 DEF HangUp
<1>19. ASSUME NEW x \in Dirs, Change(x)
       PROVE  CacheFollowsCd'
  BY <1>19 DEF Change
<1>20. ASSUME NEW x \in Dirs, Remove(x)
       PROVE  CacheFollowsCd'
  BY <1>20 DEF Remove
<1>21. CASE UNCHANGED vars
  BY <1>21 DEF vars
<1>22. QED
  BY <1>1, <1>2, <1>3, <1>4, <1>5, <1>6, <1>7, <1>8, <1>9, <1>10, <1>11,
     <1>12, <1>13, <1>14, <1>15, <1>16, <1>17, <1>18, <1>19, <1>20, <1>21
    DEF Next, Client, ClientRuns, Server, Outside

\* The invariant is kept by every step.
LEMMA InvariantStep == IInv /\ [Next]_vars => IInv'
BY TypeStep, PhaseStep, DirStep, CacheStep DEF IInv

------------------------------------------------------------------------------
(***************************************************************************)
(* The theorems                                                            *)
(***************************************************************************)

\* The inductive invariant holds in every reachable state.
THEOREM Invariance == Spec => []IInv
BY InitIInv, InvariantStep, PTL DEF Spec

\* Every variable of both programs stays in its type.
THEOREM TypeCorrect == Spec => []TypeOK
<1>1. IInv => TypeOK
  BY DEF IInv
<1>2. QED
  BY <1>1, Invariance, PTL

\* From the first good CD on, a cache that LIST does not take for old has the
\* entries of the directory the server is in, under its name, and was read
\* after the CD that led there.
THEOREM CacheIsOfTheCurrentDirectory == Spec => []CacheFollowsCd
<1>1. IInv => CacheFollowsCd
  BY DEF IInv
<1>2. QED
  BY <1>1, Invariance, PTL

\* As long as no recv has left a piece behind, one recv per reply keeps the
\* client in step: the reply it finds is the whole reply to what it asked,
\* and the directory it shows is the one the server is in, unless the last CD
\* answered as good has failed in its chdir.
THEOREM OneReceiveIsEnoughUnlessSplit == Spec => []InStepUnlessSplit
<1>1. ASSUME IInv, splits = 0, client \notin ClientGone
      PROVE  \/ Greeting \/ AtPrompt
             \/ Asked \/ Handled \/ Entering \/ Answered \/ Unanswered
  BY <1>1 DEF IInv, InStep
<1>2. ASSUME IInv, splits = 0, client \in {"prompt", "file"}
      PROVE  /\ toServer = <<>> /\ toClient = <<>> /\ server = "recv"
             /\ strayed \/ belief = CURRENT_DIR
  BY <1>1, <1>2 DEF ClientGone, Greeting, AtPrompt, Asked, Handled, Entering,
                    Answered, Unanswered, Quiet, Told
<1>3. ASSUME IInv, splits = 0, client = "wait", toClient # <<>>
      PROVE  /\ toServer = <<>> /\ server = "recv"
             /\ toClient \in {Reply(buffer), Refusal(buffer)}
  BY <1>1, <1>3 DEF ClientGone, Greeting, AtPrompt, Asked, Handled, Entering,
                    Answered, Unanswered, Quiet
<1>4. IInv => InStepUnlessSplit
  BY <1>2, <1>3 DEF InStepUnlessSplit
<1>5. QED
  BY <1>4, Invariance, PTL

==============================================================================
