-------------------------- MODULE HttpSystemProofs --------------------------
(***************************************************************************)
(* httpserver and its clients: types, connections, and the names that the  *)
(* server chooses.                                                         *)
(*                                                                         *)
(* A client is in the queue once, is served once, and may be forgotten     *)
(* then; before it is answered the server has not ended its stream, so it  *)
(* has read nothing.  A client whose side has ended has left; that is what *)
(* makes a forgotten one a client that has sent nothing.                   *)
(***************************************************************************)
EXTENDS HttpSystem, TLAPS, SequenceTheorems

\* The client's connection has not been accepted.
Queued(c) == \E i \in 1 .. Len(backlog) : backlog[i] = c
QueueInv == \A i, j \in 1 .. Len(backlog) : backlog[i] = backlog[j] => i = j

\* Queued, served, forgotten: one after the other, and no way back.  Until the
\* response has been sent the stream to the client is open; until it has ended
\* the client has read nothing; a client that has ended its own has left.
SessionInv(c) ==
  /\ cpc[c] = "off" => ~ Queued(c) /\ cur # c /\ c \notin leaked
  /\ Queued(c) => cur # c /\ c \notin leaked
  /\ cur = c => c \notin leaked
  /\ Queued(c) \/ (cur = c /\ spc # "linger") \/ c \in leaked => ~ conn[c].downEof
  /\ c \in leaked => conn[c].upEof
  /\ conn[c].upEof => cpc[c] \in {"linger", "done", "dead"}
  /\ cpc[c] = "done" => conn[c].downEof
  /\ ~ conn[c].downEof \/ cpc[c] \in {"off", "prompt", "wait"} => got[c] = Nothing

\* A server that does not run serves nobody.
ProcessInv ==
  /\ up <=> spc \notin Down
  /\ spc \in {"accept"} \cup Down => cur = NoClient

IInv ==
  /\ TypeOK
  /\ ProcessInv
  /\ QueueInv
  /\ \A c \in Client : SessionInv(c)

----------------------------------------------------------------------------
(* What the operators yield.                                               *)

LEMMA BodyTypes ==
  /\ NoBody \in Body
  /\ \A t \in Text : TextBody(t) \in Body
  /\ \A ns \in SUBSET Name : ListBody(ns) \in Body
<1>1. <<>> \in Text
  BY DEF Text
<1> QED
  BY <1>1 DEF Body, NoBody, TextBody, ListBody

LEMMA ResponseType ==
  ASSUME NEW code \in Nat, NEW located \in BOOLEAN, NEW b \in Body
  PROVE  Response(code, located, b) \in Seq(Piece)
<1>1. /\ Status(code) \in Piece /\ Header \in Piece /\ Blank \in Piece
      /\ BodyPiece(b) \in Piece
  BY BodyTypes DEF Piece, Status, Header, Blank, BodyPiece
<1>2. <<Status(code), Header, Header>> \in Seq(Piece)
  BY <1>1
<1>3. (IF located THEN <<Header, Blank, Blank>> ELSE <<Blank>>) \in Seq(Piece)
  <2>1. <<Header, Blank, Blank>> \in Seq(Piece) /\ <<Blank>> \in Seq(Piece)
    BY <1>1
  <2> QED
    BY <2>1
<1>4. (IF b = NoBody THEN <<>> ELSE <<BodyPiece(b)>>) \in Seq(Piece)
  <2>1. <<>> \in Seq(Piece) /\ <<BodyPiece(b)>> \in Seq(Piece)
    BY <1>1
  <2> QED
    BY <2>1
<1> QED
  BY <1>2, <1>3, <1>4, ConcatProperties DEF Response

LEMMA PlainResponseType ==
  \A code \in Nat : \A b \in Body : Response(code, FALSE, b) \in Seq(Piece)
<1> SUFFICES ASSUME NEW code \in Nat, NEW b \in Body
             PROVE  Response(code, FALSE, b) \in Seq(Piece)
  OBVIOUS
<1>1. FALSE \in BOOLEAN
  OBVIOUS
<1> QED
  BY <1>1, ResponseType

LEMMA ChildrenType ==
  ASSUME TreeTypeOK
  PROVE  /\ \A l : Children(l) \subseteq Name
         /\ \A l, w : Found(l, w) \subseteq Name
<1>1. ASSUME NEW l, NEW n \in Children(l)
      PROVE  n \in Name
  <2>1. PICK x \in dirs \cup DOMAIN files : x # <<>> /\ n = x[Len(x)]
    BY DEF Children
  <2>2. x \in Seq(Name)
    BY DEF TreeTypeOK, Loc
  <2> QED
    BY <2>1, <2>2, LenProperties, EmptySeq
<1> QED
  BY <1>1 DEF Found

LEMMA PutType ==
  ASSUME TreeTypeOK, NEW l \in Loc, NEW t \in Text, UNCHANGED dirs, files' = Put(l, t)
  PROVE  TreeTypeOK'
<1>1. DOMAIN Put(l, t) = DOMAIN files \cup {l}
  BY DEF Put
<1>2. \A x \in DOMAIN files \cup {l} : Put(l, t)[x] \in Text
  BY DEF Put, TreeTypeOK
<1> QED
  BY <1>1, <1>2 DEF TreeTypeOK

LEMMA MkdirType ==
  ASSUME dirs \subseteq Loc, NEW l \in Loc
  PROVE  MkdirP(l) \subseteq Loc
<1>1. ASSUME NEW k \in 1 .. Len(l)
      PROVE  SubSeq(l, 1, k) \in Loc
  BY SubSeqProperties, LenProperties DEF Loc
<1> QED
  BY <1>1 DEF MkdirP, Prefixes

\* What can be handled is a request.
LEMMA JobType ==
  ASSUME NetTypeOK, cur \in Client, conn[cur].up # <<>>
  PROVE  /\ Job \in Segment
         /\ Job.op \in Methods => Job \in Req
         /\ Tail(conn[cur].up) \in Seq(Segment)
<1>1. conn[cur].up \in Seq(Segment)
  BY DEF NetTypeOK, Duplex
<1>2. Job \in Segment /\ Tail(conn[cur].up) \in Seq(Segment)
  BY <1>1, HeadTailProperties DEF Job
<1>3. /\ Torn.op = "torn" /\ Ending.op = "ending" /\ Coming.op = "coming"
  BY DEF Torn, Ending, Coming, Mark, NoReq
<1> QED
  BY <1>2, <1>3 DEF Segment, Methods

LEMMA LoweredType ==
  ASSUME NEW r \in Request
  PROVE  Lowered(r) \in Req
<1>1. r \in Req /\ r.at \in Seq(Name)
  BY RequestAssumption DEF Req, Loc
<1>2. \A i \in 1 .. Len(r.at) : r.at[i] \in Name /\ Lower[r.at[i]] \in Name
  BY <1>1, LenProperties, LowerAssumption, ElementOfSeq
<1>3. [i \in 1 .. Len(r.at) |-> Lower[r.at[i]]] \in Seq(Name)
  BY <1>1, <1>2, LenProperties, IsASeq
<1> QED
  BY <1>1, <1>3 DEF Lowered, Req, Loc

\* A request that has been cut is a request.
LEMMA HeadsType ==
  ASSUME NEW r \in Req, NEW h \in Heads(r)
  PROVE  h \in Req
<1>1. r.body \in Seq(Word) /\ <<CR>> \in Seq(Word)
  BY CutAssumption DEF Req, Text
<1>2. \A b \in CutBodies(r) : b \in Text
  <2>1. r.body \o <<CR>> \in Seq(Word) /\ Len(r.body \o <<CR>>) = Len(r.body) + 1
        /\ Len(r.body) \in Nat
    <3>1. Len(<<CR>>) = 1
      OBVIOUS
    <3> QED
      BY <1>1, <3>1, ConcatProperties, LenProperties
  <2>2. \A k \in 0 .. Len(r.body) + 1 : SubSeq(r.body \o <<CR>>, 1, k) \in Seq(Word)
    <3> SUFFICES ASSUME NEW k \in 0 .. Len(r.body) + 1
                 PROVE  SubSeq(r.body \o <<CR>>, 1, k) \in Seq(Word)
      OBVIOUS
    <3> DEFINE t == r.body \o <<CR>>
    <3>1. t \in Seq(Word) /\ k \in 0 .. Len(t)
      BY <2>1
    <3> HIDE DEF t
    <3>2. \A i \in 1 .. k : t[i] \in Word
      BY <3>1, LenProperties, ElementOfSeq
    <3>3. SubSeq(t, 1, k) \in Seq(Word)
      BY <3>1, <3>2, LenProperties, SubSeqProperties
    <3> QED
      BY <3>3 DEF t
  <2> QED
    BY <2>2 DEF CutBodies, Text
<1>3. \A b \in CutBodies(r) : [r EXCEPT !.body = b] \in Req
  BY <1>2 DEF Req
<1>4. [r EXCEPT !.op = "FORM", !.body = <<>>] \in Req
  <2>1. "FORM" \in Methods /\ <<>> \in Text
    BY DEF Methods, Text
  <2> QED
    BY <2>1 DEF Req
<1> QED
  BY <1>3, <1>4 DEF Heads

\* What is sent arrives as segments.
LEMMA ArrivalType ==
  ASSUME NEW r \in Req, NEW s \in Arrivals(r)
  PROVE  s \in Seq(Segment)
<1>1. NoReq \in Req
  BY DEF NoReq, Req, Methods, Loc, Text
<1>2. Torn \in Segment /\ Coming \in Segment /\ r \in Segment
  BY DEF Segment
<1>3. \A h \in Heads(r) : h \in Req
  BY HeadsType
<1>4. \A h \in Heads(r) \cup {Torn} : h \in Segment
  BY <1>2, <1>3 DEF Segment
<1>5. s = <<r>> \/ \E h \in Heads(r) \cup {Torn} : s = <<h, Coming>>
  BY DEF Arrivals
<1> QED
  BY <1>2, <1>4, <1>5

----------------------------------------------------------------------------
(* Types: the server's steps.                                              *)

LEMMA RecvType ==
  ASSUME NetTypeOK, cur \in Client, conn[cur].up # <<>>, Recv, UNCHANGED <<backlog, up>>
  PROVE  NetTypeOK'
<1>1. Tail(conn[cur].up) \in Seq(Segment)
  BY JobType
<1> QED
  BY <1>1 DEF NetTypeOK, Recv, Duplex

LEMMA CrashType ==
  ASSUME NetTypeOK, TreeTypeOK, SrvTypeOK, NEW why \in Down, Crash(why)
  PROVE  NetTypeOK' /\ TreeTypeOK' /\ SrvTypeOK'
<1>1. NetTypeOK'
  <2>1. <<>> \in Seq(Segment) /\ <<>> \in Seq(Client)
    OBVIOUS
  <2>2. conn' \in [Client -> Duplex(Segment, Piece)]
    BY <2>1 DEF Crash, NetTypeOK, Duplex
  <2> QED
    BY <2>1, <2>2 DEF Crash, NetTypeOK
<1>2. TreeTypeOK'
  BY DEF Crash, TreeTypeOK, treeVars
<1>3. SrvTypeOK'
  BY DEF Crash, SrvTypeOK, ServerPc, Down
<1> QED
  BY <1>1, <1>2, <1>3

\* The handlers: what is received is a request, and a response is one.
LEMMA HandleType ==
  ASSUME NetTypeOK, TreeTypeOK, SrvTypeOK,
         \/ Get \/ Search \/ Form \/ Post \/ PostBelow \/ PutFile \/ PutDir \/ Delete
         \/ RefusePost \/ RefusePut
  PROVE  NetTypeOK' /\ TreeTypeOK' /\ SrvTypeOK'
<1>1. /\ cur \in Client /\ conn[cur].up # <<>> /\ spc = "recv"
      /\ Job.op \in Methods /\ UNCHANGED <<cur, leaked, starts>>
  BY DEF SrvTypeOK, Methods, Handling, Get, Search, Form, Post, PostBelow, PutFile, PutDir,
         Delete, RefusePost, RefusePut
<1>2. Job \in Req /\ Job.at \in Loc /\ Job.body \in Text
  BY <1>1, JobType DEF Req
<1>3. NoBody \in Body /\ \A b \in Text : TextBody(b) \in Body
  BY BodyTypes
<1>code. 200 \in Nat /\ 201 \in Nat /\ 400 \in Nat /\ 404 \in Nat /\ 405 \in Nat
  OBVIOUS
<1>4. ASSUME Recv, UNCHANGED <<backlog, up>>
      PROVE  NetTypeOK'
  BY <1>1, <1>4, RecvType
<1>5. ASSUME NEW code \in Nat, NEW b \in Body,
             Respond(Response(code, FALSE, b)), UNCHANGED draws
      PROVE  NetTypeOK' /\ SrvTypeOK'
  BY <1>1, <1>4, <1>5, PlainResponseType DEF Respond, SrvTypeOK, ServerPc
<1>6. ASSUME NEW l \in Loc, NEW keep \in Text, NEW code \in Nat, NEW located \in BOOLEAN,
             Open(l, keep, code, located), draws' \in 0 .. Len(Random)
      PROVE  NetTypeOK' /\ TreeTypeOK' /\ SrvTypeOK'
  <2>1. keep \o Job.body \in Text
    BY <1>2 DEF Text
  <2>2. Response(code, located, TextBody(Job.body)) \in Seq(Piece)
    BY <1>2, <1>3, ResponseType
  <2>3. NetTypeOK' /\ TreeTypeOK'
    BY <1>4, <1>6, PutType DEF Open
  <2> QED
    BY <1>1, <1>6, <2>1, <2>2, <2>3 DEF Open, SrvTypeOK, ServerPc
<1>7. UNCHANGED treeVars => TreeTypeOK'
  BY DEF treeVars, TreeTypeOK
<1>8. draws \in 0 .. Len(Random) /\ Len(Random) \in Nat
  BY ServerAssumption, LenProperties DEF SrvTypeOK
<1>9. CASE Get
  <2>1. IsFile(Job.at) => TextBody(files[Job.at]) \in Body
    BY <1>3 DEF IsFile, TreeTypeOK
  <2>2. ListBody(Children(Job.at)) \in Body
    BY ChildrenType, BodyTypes
  <2>3. /\ UNCHANGED <<dirs, files, draws>>
        /\ \/ Respond(Response(200, FALSE, ListBody(Children(Job.at))))
           \/ IsFile(Job.at) /\ Respond(Response(200, FALSE, TextBody(files[Job.at])))
           \/ Respond(Response(404, FALSE, NoBody))
    BY <1>9 DEF Get, treeVars
  <2>4. ASSUME NEW code \in Nat, NEW b \in Body, Respond(Response(code, FALSE, b))
        PROVE  NetTypeOK' /\ SrvTypeOK'
    BY <1>5, <2>3, <2>4
  <2>5. NetTypeOK' /\ SrvTypeOK'
    BY <1>3, <1>code, <2>1, <2>2, <2>3, <2>4
  <2> QED
    BY <1>7, <2>3, <2>5 DEF treeVars
<1>10. CASE Search
  <2>1. ListBody(Found(Job.at, Job.body)) \in Body
    BY ChildrenType, BodyTypes
  <2>2. (IF Sealed(Job.at) THEN NoBody ELSE ListBody(Found(Job.at, Job.body))) \in Body
    BY <1>3, <2>1
  <2> DEFINE b == IF Sealed(Job.at) THEN NoBody ELSE ListBody(Found(Job.at, Job.body))
  <2>3. b \in Body /\ Respond(Response(200, FALSE, b)) /\ UNCHANGED <<dirs, files, draws>>
    BY <1>10, <2>2 DEF Search, treeVars
  <2> HIDE DEF b
  <2>4. NetTypeOK' /\ SrvTypeOK'
    BY <1>5, <1>code, <2>3
  <2>5. TreeTypeOK'
    BY <2>3 DEF TreeTypeOK
  <2> QED
    BY <2>4, <2>5
<1>11. CASE Form \/ RefusePost
  BY <1>3, <1>5, <1>7, <1>code, <1>11 DEF Form, RefusePost
<1>12. CASE Post
  <2>1. IsFile(Job.at) => files[Job.at] \in Text
    BY DEF IsFile, TreeTypeOK
  <2>2. <<>> \in Text
    BY DEF Text
  <2> QED
    BY <1>2, <1>6, <1>8, <1>12, <2>1, <2>2 DEF Post
<1>13. CASE PostBelow
  <2>1. Random[draws + 1] \in Name /\ draws + 1 \in 0 .. Len(Random)
    BY <1>8, <1>13, ServerAssumption, ElementOfSeq DEF PostBelow
  <2>2. PostName \in Loc
    BY <1>2, <2>1, AppendProperties DEF PostName, Loc
  <2>3. <<>> \in Text
    BY DEF Text
  <2> QED
    BY <1>6, <1>13, <2>1, <2>2, <2>3 DEF PostBelow
<1>14. CASE PutFile
  <2>1. <<>> \in Text
    BY DEF Text
  <2>2. PICK code \in Nat : Open(Job.at, <<>>, code, FALSE) /\ UNCHANGED draws
    BY <1>14 DEF PutFile
  <2>3. Job.at \in Loc /\ draws' \in 0 .. Len(Random)
    BY <1>2, <1>8, <2>2
  <2> QED
    BY <1>6, <2>1, <2>2, <2>3
<1>15. CASE PutDir
  <2>1. PICK code \in Nat :
          Respond(Response(code, FALSE, NoBody)) /\ UNCHANGED draws
    <3>1. \/ Respond(Response(405, FALSE, NoBody)) \/ Respond(Response(400, FALSE, NoBody))
          \/ Respond(Response(201, FALSE, NoBody))
      BY <1>15 DEF PutDir
    <3> QED
      BY <1>15, <1>code, <3>1 DEF PutDir
  <2>2. MkdirP(Job.at) \subseteq Loc
    BY <1>2, MkdirType DEF TreeTypeOK
  <2>3. TreeTypeOK'
    BY <1>15, <2>2 DEF PutDir, TreeTypeOK
  <2>4. NetTypeOK' /\ SrvTypeOK'
    BY <1>3, <1>5, <2>1
  <2> QED
    BY <2>3, <2>4
<1>16. CASE Delete
  <2>1. PICK code \in Nat :
          Respond(Response(code, FALSE, NoBody)) /\ UNCHANGED draws
    <3>1. \/ Respond(Response(404, FALSE, NoBody)) \/ Respond(Response(400, FALSE, NoBody))
          \/ Respond(Response(200, FALSE, NoBody))
      BY <1>16 DEF Delete
    <3> QED
      BY <1>16, <1>code, <3>1 DEF Delete
  <2>2. TreeTypeOK'
    BY <1>16 DEF Delete, TreeTypeOK
  <2>3. NetTypeOK' /\ SrvTypeOK'
    BY <1>3, <1>5, <2>1
  <2> QED
    BY <2>2, <2>3
<1>17. CASE RefusePut
  <2>1. Response(400, FALSE, NoBody) \in Seq(Piece)
    BY <1>3, <1>code, PlainResponseType
  <2>2. SrvTypeOK'
    BY <1>1, <1>17, <2>1 DEF RefusePut, SrvTypeOK, ServerPc
  <2>3. NetTypeOK' /\ TreeTypeOK'
    BY <1>4, <1>7, <1>17 DEF RefusePut
  <2> QED
    BY <2>2, <2>3
<1> QED
  BY <1>9, <1>10, <1>11, <1>12, <1>13, <1>14, <1>15, <1>16, <1>17

\* What surrounds a request.
LEMMA ServeType ==
  ASSUME NetTypeOK, TreeTypeOK, SrvTypeOK,
         \/ Accept \/ RecvNothing \/ CrashHandling \/ RefuseCrash
         \/ Written \/ Send \/ Shut \/ Close
  PROVE  NetTypeOK' /\ TreeTypeOK' /\ SrvTypeOK'
<1> USE DEF treeVars
<1>1. CASE Accept
  <2>1. Head(backlog) \in Client /\ Tail(backlog) \in Seq(Client)
    BY <1>1, HeadTailProperties DEF Accept, NetTypeOK
  <2> QED
    BY <1>1, <2>1 DEF Accept, NetTypeOK, TreeTypeOK, SrvTypeOK, ServerPc
<1>2. CASE RecvNothing
  BY <1>2 DEF RecvNothing, netVars, NetTypeOK, TreeTypeOK, SrvTypeOK, ServerPc
<1>3. CASE CrashHandling \/ RefuseCrash
  BY <1>3, CrashType DEF CrashHandling, RefuseCrash, Down
<1>4. CASE Written
  <2>1. TreeTypeOK'
    BY <1>4, PutType DEF Written, SrvTypeOK
  <2> QED
    BY <1>4, <2>1 DEF Written, netVars, NetTypeOK, SrvTypeOK, ServerPc
<1>5. CASE Send
  <2>1. CASE Crash("broken")
    BY <2>1, CrashType DEF Down
  <2>2. CASE /\ conn' = [conn EXCEPT ![cur].down = Append(@, Head(out))]
             /\ out' = Tail(out)
             /\ UNCHANGED <<backlog, up, treeVars, spc, cur, todo, draws, leaked, starts>>
    <3>1. Head(out) \in Piece /\ Tail(out) \in Seq(Piece)
      BY <1>5, HeadTailProperties DEF Send, SrvTypeOK
    <3>2. cur \in Client
      BY <1>5 DEF Send, SrvTypeOK
    <3>3. NetTypeOK'
      <4>1. Append(conn[cur].down, Head(out)) \in Seq(Piece)
        BY <3>1, <3>2, AppendProperties DEF NetTypeOK, Duplex
      <4> QED
        BY <2>2, <3>2, <4>1 DEF NetTypeOK, Duplex
    <3> QED
      BY <2>2, <3>1, <3>3 DEF TreeTypeOK, SrvTypeOK
  <2> QED
    BY <1>5, <2>1, <2>2 DEF Send
<1>6. CASE Shut
  <2>1. NetTypeOK'
    BY <1>6 DEF Shut, SrvTypeOK, NetTypeOK, Duplex
  <2> QED
    BY <1>6, <2>1 DEF Shut, TreeTypeOK, SrvTypeOK, ServerPc
<1>7. CASE Close
  BY <1>7 DEF Close, netVars, NetTypeOK, TreeTypeOK, SrvTypeOK, ServerPc
<1> QED
  BY <1>1, <1>2, <1>3, <1>4, <1>5, <1>6, <1>7

LEMMA OperatorType ==
  ASSUME NetTypeOK, TreeTypeOK, SrvTypeOK, KillServer \/ StartServer
  PROVE  NetTypeOK' /\ TreeTypeOK' /\ SrvTypeOK'
<1>1. CASE KillServer
  BY <1>1, CrashType DEF KillServer, Down
<1>2. CASE StartServer
  <2>1. MaxStarts \in Nat /\ Len(Random) \in Nat
    BY ServerAssumption, LenProperties
  <2>2. starts + 1 \in 0 .. MaxStarts /\ 0 \in 0 .. Len(Random)
    BY <1>2, <2>1 DEF StartServer, SrvTypeOK
  <2> QED
    BY <1>2, <2>2 DEF StartServer, treeVars, NetTypeOK, TreeTypeOK, SrvTypeOK, ServerPc
<1> QED
  BY <1>1, <1>2

----------------------------------------------------------------------------
(* Types: the clients' steps.                                              *)

LEMMA LeaveType ==
  ASSUME NetTypeOK, CliTypeOK, NEW c \in Client, NEW pc \in ClientPc, Leave(c, pc)
  PROVE  /\ conn' \in [Client -> Duplex(Segment, Piece)]
         /\ cpc' \in [Client -> ClientPc]
  BY DEF NetTypeOK, CliTypeOK, Leave, Goto, Duplex

LEMMA UserType ==
  ASSUME NetTypeOK, CliTypeOK, NEW c \in Client, UserStep(c)
  PROVE  NetTypeOK' /\ CliTypeOK'
<1>1. CASE Connect(c)
  <2>1. Fresh \in Duplex(Segment, Piece)
    <3>1. <<>> \in Seq(Segment) /\ <<>> \in Seq(Piece)
      OBVIOUS
    <3> QED
      BY <3>1 DEF Fresh, Duplex
  <2>2. conn' \in [Client -> Duplex(Segment, Piece)]
    BY <1>1, <2>1 DEF Connect, NetTypeOK
  <2> QED
    BY <1>1, <2>2 DEF Connect, NetTypeOK, CliTypeOK, Goto, ClientPc
<1>2. CASE Type(c)
  <2>1. PICK r \in Request :
          /\ last' = [last EXCEPT ![c] = Lowered(r)]
          /\ \/ /\ IF conn[c].downEof THEN conn' = conn
                   ELSE \E s \in Arrivals(Lowered(r)) : conn' = [conn EXCEPT ![c].up = s]
                /\ Goto(c, "wait")
             \/ Leave(c, "dead")
    BY <1>2 DEF Type
  <2>2. Lowered(r) \in Req
    BY LoweredType
  <2>3. last' \in [Client -> Req]
    BY <2>1, <2>2 DEF CliTypeOK
  <2>4. /\ conn' \in [Client -> Duplex(Segment, Piece)]
        /\ cpc' \in [Client -> ClientPc]
    <3>1. CASE Leave(c, "dead")
      BY <3>1, LeaveType DEF ClientPc
    <3>2. CASE conn' = conn /\ Goto(c, "wait")
      BY <3>2 DEF NetTypeOK, CliTypeOK, Goto, ClientPc
    <3>3. ASSUME NEW s \in Arrivals(Lowered(r)), conn' = [conn EXCEPT ![c].up = s],
                 Goto(c, "wait")
          PROVE  /\ conn' \in [Client -> Duplex(Segment, Piece)]
                 /\ cpc' \in [Client -> ClientPc]
      <4>1. s \in Seq(Segment)
        BY <2>2, ArrivalType
      <4> QED
        BY <3>3, <4>1 DEF NetTypeOK, CliTypeOK, Goto, ClientPc, Duplex
    <3> QED
      BY <2>1, <3>1, <3>2, <3>3
  <2> QED
    BY <1>2, <2>3, <2>4 DEF Type, NetTypeOK, CliTypeOK
<1>3. CASE TypeUnknown(c)
  BY <1>3, LeaveType DEF TypeUnknown, NetTypeOK, CliTypeOK, ClientPc
<1>4. CASE Kill(c)
  <2>1. kills' \in 0 .. MaxKills
    BY <1>4, KillAssumption DEF Kill, CliTypeOK
  <2> QED
    BY <1>4, <2>1, LeaveType DEF Kill, NetTypeOK, CliTypeOK, ClientPc
<1> QED
  BY <1>1, <1>2, <1>3, <1>4 DEF UserStep

LEMMA ReadType ==
  ASSUME NetTypeOK, CliTypeOK, NEW c \in Client, ReadResponse(c)
  PROVE  NetTypeOK' /\ CliTypeOK'
<1> DEFINE s == conn[c].down
<1>1. s \in Seq(Piece)
  BY DEF NetTypeOK, Duplex
<1>2. conn' \in [Client -> Duplex(Segment, Piece)]
  <2>1. <<>> \in Seq(Piece)
    OBVIOUS
  <2> QED
    BY <2>1 DEF ReadResponse, NetTypeOK, Duplex
<1>3. cpc' \in [Client -> ClientPc]
  BY DEF ReadResponse, CliTypeOK, Goto, ClientPc
<1>4. ASSUME NEW i \in 1 .. Len(s)
      PROVE  [code |-> s[1].code, rest |-> SubSeq(s, i + 1, Len(s))]
               \in [code : Nat, rest : Seq(Piece)]
  <2>1. Len(s) \in Nat /\ 1 \in 1 .. Len(s) /\ \A j \in 1 .. Len(s) : s[j] \in Piece
    BY <1>1, LenProperties, ElementOfSeq
  <2>2. s[1].code \in Nat
    BY <2>1 DEF Piece
  <2>3. SubSeq(s, i + 1, Len(s)) \in Seq(Piece)
    BY <2>1, SubSeqProperties
  <2> QED
    BY <2>2, <2>3
<1>5. got' \in [Client -> [code : Nat, rest : Seq(Piece)]]
  BY <1>4 DEF ReadResponse, CliTypeOK
<1> QED
  BY <1>2, <1>3, <1>5 DEF ReadResponse, NetTypeOK, CliTypeOK

LEMMA ArriveType ==
  ASSUME NetTypeOK, CliTypeOK, NEW c \in Client, Arrive(c)
  PROVE  NetTypeOK' /\ CliTypeOK'
<1>1. <<Ending>> \in Seq(Segment) /\ <<last[c]>> \in Seq(Segment)
  <2>1. Ending \in Segment /\ last[c] \in Segment
    BY DEF Segment, CliTypeOK
  <2> QED
    BY <2>1
<1>2. conn' \in [Client -> Duplex(Segment, Piece)]
  BY <1>1 DEF Arrive, NetTypeOK, Duplex
<1> QED
  BY <1>2 DEF Arrive, NetTypeOK, CliTypeOK, cliVars

LEMMA LingerType ==
  ASSUME NetTypeOK, CliTypeOK, NEW c \in Client, Linger(c)
  PROVE  NetTypeOK' /\ CliTypeOK'
  BY DEF Linger, netVars, NetTypeOK, CliTypeOK, Goto, ClientPc

LEMMA InitType == Init => TypeOK
<1> SUFFICES ASSUME Init PROVE TypeOK
  OBVIOUS
<1> USE DEF Init
<1>1. NetTypeOK
  <2>1. <<>> \in Seq(Segment) /\ <<>> \in Seq(Piece) /\ <<>> \in Seq(Client)
    OBVIOUS
  <2>2. Fresh \in Duplex(Segment, Piece)
    BY <2>1 DEF Fresh, Duplex
  <2> QED
    BY <2>1, <2>2 DEF NetInit, NetTypeOK
<1>2. TreeTypeOK
  BY TreeAssumption DEF TreeInit, TreeTypeOK
<1>3. SrvTypeOK
  <2>1. <<>> \in Seq(Piece) /\ <<>> \in Loc /\ <<>> \in Text
    BY DEF Loc, Text
  <2>2. 0 \in 0 .. Len(Random) /\ 0 \in 0 .. MaxStarts
    BY ServerAssumption, LenProperties
  <2> QED
    BY <2>1, <2>2 DEF SrvInit, SrvTypeOK, ServerPc
<1>4. CliTypeOK
  <2>1. NoReq \in Req
    BY DEF NoReq, Req, Methods, Loc, Text
  <2>2. Nothing \in [code : Nat, rest : Seq(Piece)]
    <3>1. <<>> \in Seq(Piece) /\ 0 \in Nat
      OBVIOUS
    <3> QED
      BY <3>1 DEF Nothing
  <2> QED
    BY <2>1, <2>2, KillAssumption DEF CliInit, CliTypeOK, ClientPc
<1> QED
  BY <1>1, <1>2, <1>3, <1>4 DEF TypeOK

LEMMA NextType == TypeOK /\ [Next]_vars => TypeOK'
<1> SUFFICES ASSUME TypeOK, [Next]_vars PROVE TypeOK'
  OBVIOUS
<1> USE DEF TypeOK
<1>1. UNCHANGED cliVars => CliTypeOK'
  BY DEF cliVars, CliTypeOK
<1>2. UNCHANGED <<treeVars, srvVars>> => TreeTypeOK' /\ SrvTypeOK'
  BY DEF treeVars, srvVars, TreeTypeOK, SrvTypeOK
<1>3. CASE ServerStep
  BY <1>1, <1>3, HandleType, ServeType DEF ServerStep, ServerNext
<1>4. CASE Operator
  BY <1>1, <1>4, OperatorType DEF Operator
<1>5. ASSUME NEW c \in Client, ClientStep(c) \/ Typing(c) \/ Network(c)
      PROVE  TypeOK'
  BY <1>2, <1>5, UserType, ReadType, LingerType, ArriveType
  DEF ClientStep, Typing, Network, ProgramStep
<1>6. CASE UNCHANGED vars
  BY <1>1, <1>2, <1>6 DEF vars, netVars, NetTypeOK
<1> QED
  BY <1>3, <1>4, <1>5, <1>6 DEF Next

----------------------------------------------------------------------------
(* The queue, and what a step that does not concern a client preserves.    *)

LEMMA QueueGrows ==
  ASSUME NEW c \in Client, backlog \in Seq(Client), backlog' = Append(backlog, c),
         QueueInv, ~ Queued(c)
  PROVE  /\ QueueInv'
         /\ \A d \in Client : Queued(d)' => Queued(d) \/ d = c
<1>1. /\ Len(backlog') = Len(backlog) + 1 /\ Len(backlog) \in Nat
      /\ \A i \in 1 .. Len(backlog) : backlog'[i] = backlog[i]
      /\ backlog'[Len(backlog) + 1] = c
  BY AppendProperties, LenProperties
<1>2. \A i \in 1 .. Len(backlog') : i \in 1 .. Len(backlog) \/ i = Len(backlog) + 1
  BY <1>1
<1> QED
  BY <1>1, <1>2 DEF QueueInv, Queued

LEMMA QueueShrinks ==
  ASSUME backlog \in Seq(Client), backlog # <<>>, backlog' = Tail(backlog), QueueInv
  PROVE  /\ QueueInv'
         /\ Head(backlog) \in Client /\ Queued(Head(backlog))
         /\ \A d : Queued(d)' => Queued(d) /\ d # Head(backlog)
<1>1. /\ Len(backlog') = Len(backlog) - 1 /\ Len(backlog) \in Nat \ {0}
      /\ \A i \in 1 .. Len(backlog') : backlog'[i] = backlog[i + 1]
      /\ Head(backlog) = backlog[1] /\ Head(backlog) \in Client
  BY HeadTailProperties, EmptySeq
<1>2. \A i \in 1 .. Len(backlog') : i + 1 \in 1 .. Len(backlog) /\ i + 1 # 1 /\ i \in Nat
  BY <1>1
<1>3. 1 \in 1 .. Len(backlog)
  BY <1>1
<1>4. QueueInv'
  <2> SUFFICES ASSUME NEW i \in 1 .. Len(backlog'), NEW j \in 1 .. Len(backlog'),
                      backlog'[i] = backlog'[j]
               PROVE  i = j
    BY DEF QueueInv
  <2>1. i + 1 = j + 1
    BY <1>1, <1>2 DEF QueueInv
  <2> QED
    BY <1>2, <2>1
<1>5. Queued(Head(backlog))
  BY <1>1, <1>3 DEF Queued
<1>6. ASSUME NEW d, Queued(d)'
      PROVE  Queued(d) /\ d # Head(backlog)
  BY <1>1, <1>2, <1>3, <1>6 DEF Queued, QueueInv
<1> QED
  BY <1>1, <1>4, <1>5, <1>6

\* A client whose stream from the server goes on or ends for good.
LEMMA FrameSession ==
  ASSUME NEW c \in Client, SessionInv(c),
         conn'[c].upEof = conn[c].upEof, conn'[c].downEof = conn[c].downEof,
         cpc'[c] = cpc[c], got'[c] = got[c],
         Queued(c)' => Queued(c), c \in leaked' => c \in leaked,
         cur' = c => cur = c /\ (spc' = "linger" <=> spc = "linger")
  PROVE  SessionInv(c)'
  BY DEF SessionInv

----------------------------------------------------------------------------
(* Sessions: the server's steps.                                           *)

LEMMA CrashSession ==
  ASSUME IInv, NEW why \in Down, Crash(why), UNCHANGED cliVars
  PROVE  ProcessInv' /\ QueueInv' /\ \A c \in Client : SessionInv(c)'
<1>1. ASSUME NEW c \in Client
      PROVE  conn'[c].downEof = TRUE /\ conn'[c].upEof = conn[c].upEof
  <2>1. conn[c] \in Duplex(Segment, Piece)
    BY DEF IInv, TypeOK, NetTypeOK
  <2>2. conn'[c] = [conn[c] EXCEPT !.up = <<>>, !.downEof = TRUE]
    BY DEF Crash
  <2>3. conn'[c].downEof = TRUE
    BY <2>1, <2>2 DEF Duplex
  <2>4. conn'[c].upEof = conn[c].upEof
    BY <2>1, <2>2 DEF Duplex
  <2> QED
    BY <2>3, <2>4
<1>2. QueueInv' /\ \A c \in Client : ~ Queued(c)'
  <2>1. backlog' = <<>>
    BY DEF Crash
  <2>2. 1 .. Len(<<>>) = {}
    OBVIOUS
  <2> QED
    BY <2>1, <2>2 DEF QueueInv, Queued
<1>3. leaked' = {} /\ cur' = NoClient /\ UNCHANGED <<cpc, got>>
  BY DEF Crash, cliVars
<1>4. ASSUME NEW c \in Client
      PROVE  SessionInv(c)'
  <2>1. SessionInv(c) /\ c # NoClient
    BY ClientAssumption DEF IInv
  <2> QED
    BY <1>1, <1>2, <1>3, <2>1 DEF SessionInv
<1>5. ProcessInv'
  BY DEF Crash, ProcessInv, Down
<1> QED
  BY <1>2, <1>4, <1>5

\* The steps that change nobody's place.
LEMMA HandleSession ==
  ASSUME IInv, UNCHANGED cliVars,
         \/ Get \/ Search \/ Form \/ Post \/ PostBelow \/ PutFile \/ PutDir \/ Delete
         \/ RefusePost \/ RefusePut \/ Written
         \/ (Send /\ spc' # "broken")
  PROVE  ProcessInv' /\ QueueInv' /\ \A c \in Client : SessionInv(c)'
<1>1. /\ UNCHANGED <<backlog, up, cur, leaked, cpc, got>>
      /\ spc \in {"recv", "write", "respond", "refuse"}
      /\ spc' \in {"write", "respond", "refuse"}
      /\ \/ conn' = conn \/ Recv
         \/ conn' = [conn EXCEPT ![cur].down = Append(@, Head(out))]
  BY DEF Handling, Get, Search, Form, Post, PostBelow, PutFile, PutDir, Delete, RefusePost,
         RefusePut, Written, Send, Crash, Respond, Open, netVars, cliVars
<1>2. \A c \in Client :
        conn'[c].upEof = conn[c].upEof /\ conn'[c].downEof = conn[c].downEof
  <2>1. conn \in [Client -> Duplex(Segment, Piece)]
    BY DEF IInv, TypeOK, NetTypeOK
  <2>2. CASE conn' = conn
    BY <2>2
  <2>3. CASE Recv
    BY <2>1, <2>3 DEF Recv, Duplex
  <2>4. CASE conn' = [conn EXCEPT ![cur].down = Append(@, Head(out))]
    BY <2>1, <2>4 DEF Duplex
  <2> QED
    BY <1>1, <2>2, <2>3, <2>4
<1>3. ProcessInv' /\ QueueInv'
  BY <1>1 DEF IInv, ProcessInv, QueueInv, Down
<1>4. ASSUME NEW c \in Client
      PROVE  SessionInv(c)'
  <2>1. SessionInv(c) /\ (Queued(c)' => Queued(c))
    BY <1>1 DEF IInv, Queued
  <2> QED
    BY <1>1, <1>2, <2>1, FrameSession
<1> QED
  BY <1>3, <1>4

LEMMA ServeSession ==
  ASSUME IInv, UNCHANGED cliVars, Accept \/ RecvNothing \/ Shut \/ Close
  PROVE  ProcessInv' /\ QueueInv' /\ \A c \in Client : SessionInv(c)'
<1>1. /\ UNCHANGED <<up, cpc, got>>
      /\ backlog \in Seq(Client) /\ conn \in [Client -> Duplex(Segment, Piece)]
      /\ \A c \in Client : SessionInv(c) /\ c # NoClient
  BY ClientAssumption DEF IInv, TypeOK, NetTypeOK, cliVars, netVars, Accept, RecvNothing,
                          Shut, Close
<1>2. ProcessInv'
  BY DEF IInv, ProcessInv, Down, Accept, RecvNothing, Shut, Close, netVars
<1>3. CASE Accept
  <2>1. /\ QueueInv' /\ Head(backlog) \in Client /\ Queued(Head(backlog))
        /\ \A d : Queued(d)' => Queued(d) /\ d # Head(backlog)
    BY <1>1, <1>3, QueueShrinks DEF IInv, Accept
  <2>2. UNCHANGED <<conn, leaked>> /\ cur' = Head(backlog) /\ spc' = "recv"
    BY <1>3 DEF Accept
  <2> QED
    BY <1>1, <1>2, <2>1, <2>2 DEF SessionInv
<1>4. CASE RecvNothing
  <2>1. UNCHANGED <<conn, backlog>> /\ cur' = NoClient /\ leaked' = leaked \cup {cur}
        /\ spc = "recv" /\ conn[cur].upEof
    BY <1>4 DEF RecvNothing, netVars
  <2>2. QueueInv' /\ \A c : Queued(c)' = Queued(c)
    BY <2>1 DEF IInv, QueueInv, Queued
  <2> QED
    BY <1>1, <1>2, <2>1, <2>2 DEF SessionInv
<1>5. CASE Shut
  <2>1. /\ UNCHANGED <<backlog, leaked, cur>> /\ spc = "respond" /\ spc' = "linger"
        /\ cur \in Client
        /\ conn' = [conn EXCEPT ![cur].downEof = TRUE]
    BY <1>5 DEF Shut, IInv, TypeOK, SrvTypeOK
  <2>2. /\ conn'[cur].downEof
        /\ \A c \in Client : /\ conn'[c].upEof = conn[c].upEof
                             /\ c # cur => conn'[c].downEof = conn[c].downEof
                             /\ ~ conn'[c].downEof => ~ conn[c].downEof
    BY <1>1, <2>1 DEF Duplex
  <2>3. QueueInv' /\ \A c : Queued(c)' = Queued(c)
    BY <2>1 DEF IInv, QueueInv, Queued
  <2> QED
    BY <1>1, <1>2, <2>1, <2>2, <2>3 DEF SessionInv
<1>6. CASE Close
  <2>1. UNCHANGED <<conn, backlog, leaked>> /\ cur' = NoClient
    BY <1>6 DEF Close, netVars
  <2>2. QueueInv' /\ \A c : Queued(c)' = Queued(c)
    BY <2>1 DEF IInv, QueueInv, Queued
  <2> QED
    BY <1>1, <1>2, <2>1, <2>2 DEF SessionInv
<1> QED
  BY <1>3, <1>4, <1>5, <1>6

LEMMA StartSession ==
  ASSUME IInv, UNCHANGED cliVars, StartServer
  PROVE  ProcessInv' /\ QueueInv' /\ \A c \in Client : SessionInv(c)'
<1>1. /\ UNCHANGED <<conn, backlog, leaked, cur, cpc, got>>
      /\ spc \in Down /\ spc' = "accept" /\ up'
  BY DEF StartServer, cliVars
<1>2. cur = NoClient
  BY <1>1 DEF IInv, ProcessInv
<1>3. ProcessInv' /\ QueueInv'
  BY <1>1, <1>2 DEF IInv, ProcessInv, QueueInv, Down
<1>4. ASSUME NEW c \in Client
      PROVE  SessionInv(c)'
  <2>1. SessionInv(c) /\ Queued(c)' = Queued(c) /\ cur # c
    BY <1>1, <1>2, ClientAssumption DEF IInv, Queued
  <2> QED
    BY <1>1, <2>1, FrameSession
<1> QED
  BY <1>3, <1>4

LEMMA ServerSession ==
  ASSUME IInv, ServerStep \/ Operator
  PROVE  ProcessInv' /\ QueueInv' /\ \A c \in Client : SessionInv(c)'
<1>1. UNCHANGED cliVars
  BY DEF ServerStep, Operator
<1>2. CASE CrashHandling \/ RefuseCrash \/ KillServer \/ Crash("broken")
  BY <1>1, <1>2, CrashSession DEF CrashHandling, RefuseCrash, KillServer, Down
<1>3. CASE Send
  <2>1. Crash("broken") \/ (Send /\ spc' # "broken")
    BY <1>3 DEF Send
  <2> QED
    BY <1>1, <1>2, <2>1, HandleSession
<1> QED
  BY <1>1, <1>2, <1>3, HandleSession, ServeSession, StartSession
  DEF ServerStep, ServerNext, Operator

----------------------------------------------------------------------------
(* Sessions: the clients' steps.                                           *)

\* Whoever takes a step, the others' sessions go on as they were.
LEMMA OthersSession ==
  ASSUME IInv, NEW c \in Client, UNCHANGED <<srvVars, up>>,
         QueueInv', \A d \in Client : d # c /\ Queued(d)' => Queued(d),
         \A d \in Client : d # c =>
           conn'[d] = conn[d] /\ cpc'[d] = cpc[d] /\ got'[d] = got[d],
         SessionInv(c)'
  PROVE  ProcessInv' /\ QueueInv' /\ \A d \in Client : SessionInv(d)'
<1>1. ProcessInv'
  BY DEF IInv, ProcessInv, srvVars
<1>2. ASSUME NEW d \in Client, d # c
      PROVE  SessionInv(d)'
  BY <1>2, FrameSession DEF IInv, srvVars
<1> QED
  BY <1>1, <1>2

\* A step of c that is not its first.
LEMMA ClientSession ==
  ASSUME IInv, NEW c \in Client, UNCHANGED <<srvVars, up, backlog>>,
         \A d \in Client : d # c =>
           conn'[d] = conn[d] /\ cpc'[d] = cpc[d] /\ got'[d] = got[d],
         SessionInv(c) /\ QueueInv /\ Queued(c)' = Queued(c) => SessionInv(c)'
  PROVE  ProcessInv' /\ QueueInv' /\ \A d \in Client : SessionInv(d)'
<1>1. QueueInv' /\ \A d \in Client : Queued(d)' = Queued(d)
  BY DEF IInv, QueueInv, Queued
<1>2. SessionInv(c)'
  BY <1>1 DEF IInv
<1> QED
  BY <1>1, <1>2, OthersSession

LEMMA LeaveSession ==
  ASSUME IInv, NEW c \in Client, NEW pc \in {"linger", "dead"}, Leave(c, pc),
         cpc[c] \in {"prompt", "wait", "linger"},
         UNCHANGED <<srvVars, up, backlog, got>>
  PROVE  ProcessInv' /\ QueueInv' /\ \A d \in Client : SessionInv(d)'
<1>1. /\ conn \in [Client -> Duplex(Segment, Piece)] /\ cpc \in [Client -> ClientPc]
  BY DEF IInv, TypeOK, NetTypeOK, CliTypeOK
<1>2. /\ cpc'[c] = pc /\ conn'[c].downEof = conn[c].downEof /\ conn'[c].upEof = TRUE
      /\ \A d \in Client : d # c => conn'[d] = conn[d] /\ cpc'[d] = cpc[d]
  BY <1>1 DEF Leave, Goto, Duplex
<1>3. SessionInv(c) /\ Queued(c)' = Queued(c) => SessionInv(c)'
  BY <1>2 DEF SessionInv, srvVars
<1> QED
  BY <1>2, <1>3, ClientSession

LEMMA UserSession ==
  ASSUME IInv, NEW c \in Client, UserStep(c), UNCHANGED srvVars
  PROVE  ProcessInv' /\ QueueInv' /\ \A d \in Client : SessionInv(d)'
<1>1. /\ conn \in [Client -> Duplex(Segment, Piece)] /\ cpc \in [Client -> ClientPc]
      /\ backlog \in Seq(Client) /\ SessionInv(c)
  BY DEF IInv, TypeOK, NetTypeOK, CliTypeOK
<1>2. CASE Connect(c)
  <2>1. /\ cpc[c] = "off" /\ cpc'[c] = "prompt" /\ conn'[c] = Fresh
        /\ backlog' = Append(backlog, c) /\ UNCHANGED <<got, up>>
        /\ \A d \in Client : d # c => conn'[d] = conn[d] /\ cpc'[d] = cpc[d]
    BY <1>1, <1>2 DEF Connect, Goto
  <2>2. ~ Queued(c) /\ cur # c /\ c \notin leaked
    BY <1>1, <2>1 DEF SessionInv
  <2>3. QueueInv' /\ \A d \in Client : d # c /\ Queued(d)' => Queued(d)
    BY <1>1, <2>1, <2>2, QueueGrows DEF IInv
  <2>4. SessionInv(c)'
    BY <1>1, <2>1, <2>2 DEF SessionInv, Fresh, srvVars
  <2> QED
    BY <2>1, <2>3, <2>4, OthersSession
<1>3. CASE Type(c)
  <2>1. UNCHANGED <<backlog, up, got>> /\ cpc[c] = "prompt"
    BY <1>3 DEF Type
  <2>2. CASE Leave(c, "dead")
    BY <2>1, <2>2, LeaveSession
  <2>3. ASSUME conn' = conn \/ \E s : conn' = [conn EXCEPT ![c].up = s], Goto(c, "wait")
        PROVE  ProcessInv' /\ QueueInv' /\ \A d \in Client : SessionInv(d)'
    <3>1. /\ conn'[c].downEof = conn[c].downEof /\ conn'[c].upEof = conn[c].upEof
          /\ \A d \in Client : d # c => conn'[d] = conn[d]
      <4>1. CASE conn' = conn
        BY <4>1
      <4>2. ASSUME NEW s, conn' = [conn EXCEPT ![c].up = s]
            PROVE  /\ conn'[c].downEof = conn[c].downEof
                   /\ conn'[c].upEof = conn[c].upEof
                   /\ \A d \in Client : d # c => conn'[d] = conn[d]
        BY <1>1, <4>2 DEF Duplex
      <4> QED
        BY <2>3, <4>1, <4>2
    <3>2. cpc'[c] = "wait" /\ \A d \in Client : d # c => cpc'[d] = cpc[d]
      BY <1>1, <2>3 DEF Goto
    <3>3. SessionInv(c) /\ Queued(c)' = Queued(c) => SessionInv(c)'
      BY <2>1, <3>1, <3>2 DEF SessionInv, srvVars
    <3> QED
      BY <2>1, <3>1, <3>2, <3>3, ClientSession
  <2> QED
    BY <1>3, <2>2, <2>3 DEF Type
<1>4. CASE TypeUnknown(c)
  BY <1>4, LeaveSession DEF TypeUnknown
<1>5. CASE Kill(c)
  BY <1>5, LeaveSession DEF Kill
<1> QED
  BY <1>2, <1>3, <1>4, <1>5 DEF UserStep

LEMMA ProgramSession ==
  ASSUME IInv, NEW c \in Client, UNCHANGED srvVars, ProgramStep(c) \/ Arrive(c)
  PROVE  ProcessInv' /\ QueueInv' /\ \A d \in Client : SessionInv(d)'
<1>1. /\ conn \in [Client -> Duplex(Segment, Piece)] /\ cpc \in [Client -> ClientPc]
      /\ got \in [Client -> [code : Nat, rest : Seq(Piece)]]
  BY DEF IInv, TypeOK, NetTypeOK, CliTypeOK
<1>2. CASE ReadResponse(c)
  <2>1. /\ UNCHANGED <<backlog, up>> /\ conn[c].downEof
        /\ cpc'[c] \in {"linger", "dead"}
        /\ conn'[c].downEof = conn[c].downEof /\ conn'[c].upEof = TRUE
        /\ \A d \in Client : d # c =>
             conn'[d] = conn[d] /\ cpc'[d] = cpc[d] /\ got'[d] = got[d]
    <3>1. cpc'[c] \in {"linger", "dead"} /\ \A d \in Client : d # c => cpc'[d] = cpc[d]
      BY <1>1, <1>2 DEF ReadResponse, Goto
    <3>2. \A d \in Client : d # c => got'[d] = got[d]
      BY <1>1, <1>2 DEF ReadResponse
    <3>3. /\ conn'[c].downEof = conn[c].downEof /\ conn'[c].upEof = TRUE
          /\ \A d \in Client : d # c => conn'[d] = conn[d]
      BY <1>1, <1>2 DEF ReadResponse, Duplex
    <3> QED
      BY <1>2, <3>1, <3>2, <3>3 DEF ReadResponse
  <2>2. SessionInv(c) /\ Queued(c)' = Queued(c) => SessionInv(c)'
    BY <2>1 DEF SessionInv, srvVars
  <2> QED
    BY <2>1, <2>2, ClientSession
<1>3. CASE Linger(c)
  <2>1. /\ UNCHANGED <<backlog, up, conn, got>> /\ cpc[c] = "linger" /\ conn[c].downEof
        /\ cpc'[c] = "done" /\ \A d \in Client : d # c => cpc'[d] = cpc[d]
    BY <1>1, <1>3 DEF Linger, Goto, netVars
  <2>2. SessionInv(c) /\ Queued(c)' = Queued(c) => SessionInv(c)'
    BY <2>1 DEF SessionInv, srvVars
  <2> QED
    BY <2>1, <2>2, ClientSession
<1>4. CASE Arrive(c)
  <2>1. /\ UNCHANGED <<backlog, up, cpc, got>>
        /\ conn'[c].downEof = conn[c].downEof /\ conn'[c].upEof = conn[c].upEof
        /\ \A d \in Client : d # c => conn'[d] = conn[d]
    BY <1>1, <1>4 DEF Arrive, Duplex, cliVars
  <2>2. SessionInv(c) /\ Queued(c)' = Queued(c) => SessionInv(c)'
    BY <2>1 DEF SessionInv, srvVars
  <2> QED
    BY <2>1, <2>2, ClientSession
<1> QED
  BY <1>2, <1>3, <1>4 DEF ProgramStep

----------------------------------------------------------------------------
(* The invariant.                                                          *)

LEMMA InitIInv == Init => IInv
<1> SUFFICES ASSUME Init PROVE IInv
  OBVIOUS
<1>1. TypeOK
  BY InitType
<1>2. /\ spc = "accept" /\ up /\ cur = NoClient /\ backlog = <<>> /\ leaked = {}
      /\ \A c \in Client : cpc[c] = "off" /\ got[c] = Nothing /\ conn[c] = Fresh
  BY DEF Init, NetInit, SrvInit, CliInit
<1>3. ProcessInv /\ QueueInv /\ \A c \in Client : ~ Queued(c)
  BY <1>2 DEF ProcessInv, Down, QueueInv, Queued
<1>4. \A c \in Client : SessionInv(c)
  BY <1>2, <1>3, ClientAssumption DEF SessionInv, Fresh
<1> QED
  BY <1>1, <1>3, <1>4 DEF IInv

LEMMA NextIInv == IInv /\ [Next]_vars => IInv'
<1> SUFFICES ASSUME IInv, [Next]_vars PROVE IInv'
  OBVIOUS
<1>1. TypeOK'
  BY NextType DEF IInv
<1>2. CASE ServerStep \/ Operator
  BY <1>1, <1>2, ServerSession DEF IInv
<1>3. ASSUME NEW c \in Client, ClientStep(c) \/ Typing(c) \/ Network(c)
      PROVE  IInv'
  BY <1>1, <1>3, ProgramSession, UserSession DEF ClientStep, Typing, Network, IInv
<1>4. CASE UNCHANGED vars
  BY <1>1, <1>4 DEF vars, netVars, srvVars, cliVars, IInv, ProcessInv, QueueInv, Queued,
                    SessionInv
<1> QED
  BY <1>2, <1>3, <1>4 DEF Next

\* Every variable keeps its type.
THEOREM TypeCorrect == Spec => []TypeOK
<1>1. IInv => TypeOK
  BY DEF IInv
<1> QED
  BY <1>1, InitIInv, NextIInv, PTL DEF Spec

----------------------------------------------------------------------------
(* Connections that are forgotten.                                         *)

\* Until the server has read a request, a connection on which nothing waits to
\* be read is one on which nothing has been sent.
SilentInv(c) ==
  /\ cpc[c] \in {"off", "prompt"} => last[c] = NoReq
  /\ Queued(c) \/ (cur = c /\ spc = "recv") =>
       (conn[c].up = <<>> => last[c] = NoReq)
  /\ c \in leaked => last[c] = NoReq

\* A step of the server that takes nothing from the client's stream, and at most
\* takes up a connection.
LEMMA FrameSilent ==
  ASSUME NEW c \in Client, SilentInv(c),
         conn'[c].up = conn[c].up, cpc'[c] = cpc[c], last'[c] = last[c],
         Queued(c)' => Queued(c), c \in leaked' => c \in leaked,
         cur' = c /\ spc' = "recv" => Queued(c) \/ (cur = c /\ spc = "recv")
  PROVE  SilentInv(c)'
  BY DEF SilentInv

LEMMA ServerSilent ==
  ASSUME IInv, ServerStep \/ Operator, NEW c \in Client, SilentInv(c)
  PROVE  SilentInv(c)'
<1>1. /\ UNCHANGED <<cpc, last>> /\ c # NoClient
      /\ conn \in [Client -> Duplex(Segment, Piece)] /\ backlog \in Seq(Client)
      /\ TypeOK /\ QueueInv /\ ProcessInv
  BY ClientAssumption DEF IInv, TypeOK, NetTypeOK, ServerStep, Operator, cliVars
<1>2. CASE Accept
  <2>1. /\ Queued(Head(backlog)) /\ \A d : Queued(d)' => Queued(d) /\ d # Head(backlog)
        /\ UNCHANGED <<conn, leaked>> /\ cur' = Head(backlog)
    BY <1>1, <1>2, QueueShrinks DEF Accept
  <2> QED
    BY <1>1, <2>1, FrameSilent
<1>3. CASE RecvNothing
  <2>1. UNCHANGED <<conn, backlog>> /\ cur' = NoClient /\ leaked' = leaked \cup {cur}
        /\ spc = "recv" /\ conn[cur].up = <<>>
    BY <1>3 DEF RecvNothing, netVars
  <2>2. Queued(c)' = Queued(c)
    BY <2>1 DEF Queued
  <2> QED
    BY <1>1, <2>1, <2>2 DEF SilentInv
<1>4. ASSUME NEW why, Crash(why)
      PROVE  SilentInv(c)'
  <2>1. backlog' = <<>> /\ cur' = NoClient /\ leaked' = {}
    BY <1>4 DEF Crash
  <2>2. ~ Queued(c)'
    <3>1. 1 .. Len(<<>>) = {}
      OBVIOUS
    <3> QED
      BY <2>1, <3>1 DEF Queued
  <2> QED
    BY <1>1, <2>1, <2>2 DEF SilentInv
<1>5. CASE \/ Get \/ Search \/ Form \/ Post \/ PostBelow \/ PutFile \/ PutDir \/ Delete
           \/ RefusePost \/ RefusePut
  <2>1. UNCHANGED <<backlog, cur, leaked>> /\ spc' # "recv" /\ spc = "recv" /\ Recv
    BY <1>5 DEF Handling, Get, Search, Form, Post, PostBelow, PutFile, PutDir, Delete,
                RefusePost, RefusePut, Respond, Open
  <2>2. c # cur => conn'[c].up = conn[c].up
    BY <1>1, <2>1 DEF Recv
  <2>3. Queued(c)' = Queued(c)
    BY <2>1 DEF Queued
  <2>4. CASE c = cur
    <3>1. ~ Queued(c)
      BY <2>4 DEF IInv, SessionInv
    <3> QED
      BY <1>1, <2>1, <2>3, <3>1 DEF SilentInv
  <2> QED
    BY <1>1, <2>1, <2>2, <2>3, <2>4, FrameSilent
<1>6. CASE Written \/ Shut \/ Close \/ StartServer \/ (Send /\ ~ Crash("broken"))
  <2>1. UNCHANGED <<backlog, leaked>> /\ spc' # "recv"
    BY <1>6 DEF Written, Shut, Close, StartServer, Send, netVars
  <2>2. \/ conn' = conn
        \/ conn' = [conn EXCEPT ![cur].down = Append(@, Head(out))]
        \/ conn' = [conn EXCEPT ![cur].downEof = TRUE]
    BY <1>6 DEF Written, Shut, Close, StartServer, Send, netVars
  <2>3. conn'[c].up = conn[c].up
    <3>1. conn[c] \in Duplex(Segment, Piece)
      BY <1>1
    <3>2. CASE conn' = [conn EXCEPT ![cur].down = Append(@, Head(out))]
      BY <1>1, <3>1, <3>2 DEF Duplex
    <3>3. CASE conn' = [conn EXCEPT ![cur].downEof = TRUE]
      BY <1>1, <3>1, <3>3 DEF Duplex
    <3> QED
      BY <2>2, <3>2, <3>3
  <2>4. Queued(c)' = Queued(c)
    BY <2>1 DEF Queued
  <2> QED
    BY <1>1, <2>1, <2>3, <2>4, FrameSilent
<1> QED
  BY <1>2, <1>3, <1>4, <1>5, <1>6
  DEF ServerStep, ServerNext, Operator, CrashHandling, RefuseCrash, KillServer

\* What a client sends waits in the stream of a connection still to be served.
LEMMA ClientSilent ==
  ASSUME IInv, NEW c \in Client, UNCHANGED srvVars,
         UserStep(c) \/ ProgramStep(c) \/ Arrive(c), NEW d \in Client, SilentInv(d)
  PROVE  SilentInv(d)'
<1>1. /\ conn \in [Client -> Duplex(Segment, Piece)] /\ cpc \in [Client -> ClientPc]
      /\ last \in [Client -> Req] /\ backlog \in Seq(Client) /\ QueueInv
      /\ SessionInv(d) /\ SessionInv(c) /\ UNCHANGED <<cur, spc, leaked>>
  BY DEF IInv, TypeOK, NetTypeOK, CliTypeOK, srvVars
<1>2. CASE Connect(c)
  <2>1. /\ cpc[c] = "off" /\ backlog' = Append(backlog, c) /\ last' = last
        /\ d # c => conn'[d] = conn[d] /\ cpc'[d] = cpc[d]
    BY <1>1, <1>2 DEF Connect, Goto
  <2>2. ~ Queued(c) /\ cur # c /\ c \notin leaked
    BY <1>1, <2>1 DEF SessionInv
  <2>3. d # c /\ Queued(d)' => Queued(d)
    BY <1>1, <2>1, <2>2, QueueGrows
  <2>4. CASE d = c
    BY <1>1, <2>1, <2>4 DEF SilentInv
  <2>5. CASE d # c
    BY <1>1, <2>1, <2>3, <2>5, FrameSilent
  <2> QED
    BY <2>4, <2>5
<1>3. CASE Type(c)
  <2>1. backlog' = backlog /\ Queued(d)' = Queued(d) /\ cpc[c] = "prompt"
    BY <1>3 DEF Type, Queued
  <2>2. CASE d # c
    <3>1. conn'[d] = conn[d] /\ cpc'[d] = cpc[d] /\ last'[d] = last[d]
      BY <1>1, <1>3, <2>2 DEF Type, Leave, Goto
    <3> QED
      BY <1>1, <2>1, <3>1, FrameSilent
  <2>3. CASE d = c /\ conn[c].downEof
    <3>1. ~ Queued(c) /\ ~ (cur = c /\ spc = "recv") /\ c \notin leaked
      BY <1>1, <2>3 DEF SessionInv
    <3>2. cpc'[c] \in {"wait", "dead"}
      BY <1>1, <1>3 DEF Type, Leave, Goto
    <3> QED
      BY <1>1, <2>1, <2>3, <3>1, <3>2 DEF SilentInv
  <2>4. CASE d = c /\ ~ conn[c].downEof
    <3>1. /\ cpc'[c] = "wait"
          /\ \E r \in Request : \E s \in Arrivals(Lowered(r)) :
               conn' = [conn EXCEPT ![c].up = s]
      BY <1>1, <1>3, <2>4 DEF Type, Goto
    <3>2. \A r : \A s \in Arrivals(r) : s # <<>>
      BY DEF Arrivals
    <3>3. conn'[c].up # <<>>
      BY <1>1, <3>1, <3>2 DEF Duplex
    <3>4. c \notin leaked
      BY <1>1, <2>1 DEF SessionInv
    <3> QED
      BY <1>1, <2>4, <3>1, <3>3, <3>4 DEF SilentInv
  <2> QED
    BY <2>2, <2>3, <2>4
<1>4. CASE TypeUnknown(c) \/ Kill(c) \/ ReadResponse(c) \/ Linger(c)
  <2>1. /\ UNCHANGED <<backlog, last>> /\ conn'[d].up = conn[d].up
        /\ cpc'[d] \in {"off", "prompt"} => cpc[d] \in {"off", "prompt"}
    <3>1. UNCHANGED <<backlog, last>>
      BY <1>4 DEF TypeUnknown, Kill, ReadResponse, Linger, netVars
    <3>2. conn'[d].up = conn[d].up
      <4>1. CASE Leave(c, "linger") \/ Leave(c, "dead")
        BY <1>1, <4>1 DEF Leave, Duplex
      <4>2. CASE ReadResponse(c)
        BY <1>1, <4>2 DEF ReadResponse, Duplex
      <4> QED
        BY <1>4, <4>1, <4>2 DEF TypeUnknown, Kill, Linger, netVars
    <3>3. \A pc : pc \notin {"off", "prompt"} /\ Goto(c, pc) =>
                    (cpc'[d] \in {"off", "prompt"} => cpc[d] \in {"off", "prompt"})
      BY <1>1 DEF Goto
    <3>4. \E pc \in {"linger", "dead", "done"} : Goto(c, pc)
      BY <1>4 DEF TypeUnknown, Kill, Leave, ReadResponse, Linger, Goto
    <3> QED
      BY <3>1, <3>2, <3>3, <3>4
  <2>2. Queued(d)' = Queued(d)
    BY <2>1 DEF Queued
  <2> QED
    BY <1>1, <2>1, <2>2 DEF SilentInv
<1>5. CASE Arrive(c)
  <2>1. /\ UNCHANGED <<backlog, cpc, last>> /\ Queued(d)' = Queued(d)
        /\ d # c => conn'[d] = conn[d] /\ conn[c].up # <<>>
        /\ conn[c].up # <<>> /\ conn'[c].up # <<>>
    BY <1>1, <1>5 DEF Arrive, Queued, cliVars, Duplex
  <2> QED
    BY <1>1, <2>1 DEF SilentInv
<1> QED
  BY <1>2, <1>3, <1>4, <1>5 DEF UserStep, ProgramStep

\* A connection that the server has forgotten without closing it belongs to a
\* client that has never sent anything, has been told nothing, and waits or is
\* dead.
THEOREM LeakedCorrect == Spec => []LeakedHaveSentNothing
<1> DEFINE Silent == \A c \in Client : SilentInv(c)
<1>1. Init => Silent
  <2> SUFFICES ASSUME Init, NEW c \in Client PROVE SilentInv(c)
    OBVIOUS
  <2>1. /\ backlog = <<>> /\ leaked = {} /\ cur = NoClient /\ c # NoClient
        /\ last[c] = NoReq
    BY ClientAssumption DEF Init, NetInit, SrvInit, CliInit
  <2> QED
    BY <2>1 DEF SilentInv
<1>2. IInv /\ Silent /\ [Next]_vars => Silent'
  <2> SUFFICES ASSUME IInv, Silent, [Next]_vars, NEW d \in Client PROVE SilentInv(d)'
    OBVIOUS
  <2>1. CASE ServerStep \/ Operator
    BY <2>1, ServerSilent
  <2>2. ASSUME NEW c \in Client, ClientStep(c) \/ Typing(c) \/ Network(c)
        PROVE  SilentInv(d)'
    BY <2>2, ClientSilent DEF ClientStep, Typing, Network
  <2>3. CASE UNCHANGED vars
    BY <2>3, FrameSilent DEF vars, netVars, srvVars, cliVars, Queued
  <2> QED
    BY <2>1, <2>2, <2>3 DEF Next
<1>3. IInv /\ Silent => LeakedHaveSentNothing
  BY DEF IInv, TypeOK, SrvTypeOK, SessionInv, SilentInv, LeakedHaveSentNothing
<1> HIDE DEF Silent
<1> QED
  BY <1>1, <1>2, <1>3, InitIInv, NextIInv, PTL DEF Spec

----------------------------------------------------------------------------
(* The names that the server chooses.                                      *)

\* What rand() is trusted for: one process draws no name twice, no client can
\* reach what is drawn (it may be typed, as in httpclient/test.in:11, but a url
\* is lowered, and what is drawn has a capital), and the first server finds no
\* file of such a name.
DrawnIsNew ==
  /\ \A i, j \in 1 .. Len(Random) : Random[i] = Random[j] => i = j
  /\ \A i \in 1 .. Len(Random) :
       /\ \A r \in Request : \A k \in 1 .. Len(r.at) : Lower[r.at[k]] # Random[i]
       /\ \A l \in DOMAIN InitFiles : l # <<>> => l[Len(l)] # Random[i]

\* A place whose name is none of those from the k-th on.
NotFrom(k, l) ==
  l # <<>> => \A i \in 1 .. Len(Random) : k <= i => l[Len(l)] # Random[i]

\* No request has a name that is drawn.
AskedInv ==
  \A c \in Client :
    /\ NotFrom(1, last[c].at)
    /\ \A i \in 1 .. Len(conn[c].up) : NotFrom(1, conn[c].up[i].at)

\* As long as the first server runs, no file has a name not drawn yet.
FilesInv ==
  starts = 0 =>
    /\ \A l \in DOMAIN files : NotFrom(draws + 1, l)
    /\ spc = "write" => NotFrom(draws + 1, todo.at)

NameInv == AskedInv /\ FilesInv

LEMMA NotFromEmpty == \A k : NotFrom(k, <<>>)
  BY DEF NotFrom

\* What arrives of a request has its place, or none.
LEMMA ArrivalNames ==
  ASSUME NEW r \in Req, NotFrom(1, r.at), NEW s \in Arrivals(r)
  PROVE  \A i \in 1 .. Len(s) : NotFrom(1, s[i].at)
<1>1. Torn.at = <<>> /\ Coming.at = <<>>
  BY DEF Torn, Coming, Mark, NoReq
<1>2. ASSUME NEW h \in Heads(r)
      PROVE  h.at = r.at
  BY <1>2 DEF Heads, Req
<1>3. s = <<r>> \/ \E h \in Heads(r) \cup {Torn} : s = <<h, Coming>>
  BY DEF Arrivals
<1>4. CASE s = <<r>>
  BY <1>4
<1>5. ASSUME NEW h \in Heads(r) \cup {Torn}, s = <<h, Coming>>
      PROVE  \A i \in 1 .. Len(s) : NotFrom(1, s[i].at)
  <2>1. NotFrom(1, h.at) /\ NotFrom(1, Coming.at)
    BY <1>1, <1>2, NotFromEmpty
  <2>2. Len(s) = 2 /\ s[1] = h /\ s[2] = Coming
    BY <1>5
  <2> QED
    BY <2>1, <2>2
<1> QED
  BY <1>3, <1>4, <1>5

LEMMA LoweredNames ==
  ASSUME DrawnIsNew, NEW r \in Request
  PROVE  NotFrom(1, Lowered(r).at)
<1>1. r \in Req /\ r.at \in Seq(Name) /\ Len(r.at) \in Nat
  BY RequestAssumption, LenProperties DEF Req, Loc
<1> DEFINE l == [i \in 1 .. Len(r.at) |-> Lower[r.at[i]]]
<1>2. Lowered(r).at = l
  BY <1>1 DEF Lowered, Req
<1>3. \A i \in 1 .. Len(r.at) : r.at[i] \in Name /\ Lower[r.at[i]] \in Name
  BY <1>1, LowerAssumption, ElementOfSeq
<1>4. l \in Seq(Name) /\ Len(l) = Len(r.at)
  BY <1>1, <1>3, IsASeq, LenProperties
<1>5. l # <<>> => Len(l) \in 1 .. Len(r.at)
  BY <1>1, <1>4, EmptySeq
<1> QED
  BY <1>2, <1>4, <1>5 DEF NotFrom, DrawnIsNew

\* The server reads one segment, or nothing, or ends and drops what is there.
LEMMA ServerReads ==
  ASSUME IInv, ServerStep \/ Operator, NEW c \in Client
  PROVE  \/ conn'[c].up = conn[c].up \/ conn'[c].up = <<>>
         \/ conn[c].up # <<>> /\ conn'[c].up = Tail(conn[c].up)
<1>1. conn \in [Client -> Duplex(Segment, Piece)]
  BY DEF IInv, TypeOK, NetTypeOK
<1>2. \/ conn' = conn
      \/ \E why : Crash(why)
      \/ cur \in Client /\ conn[cur].up # <<>> /\ Recv
      \/ Send \/ Shut
  BY DEF ServerStep, ServerNext, Operator, Accept, RecvNothing, Get, Search, Form, Post,
         PostBelow, PutFile, PutDir, Delete, RefusePost, RefusePut, CrashHandling, RefuseCrash,
         Written, Close, KillServer, StartServer, Handling, Respond, Open, netVars,
         IInv, TypeOK, SrvTypeOK
<1>3. ASSUME NEW why, Crash(why)
      PROVE  conn'[c].up = <<>>
  BY <1>1, <1>3 DEF Crash, Duplex
<1>4. CASE cur \in Client /\ conn[cur].up # <<>> /\ Recv
  BY <1>1, <1>4 DEF Recv, Duplex
<1>5. CASE Send
  <2>1. Crash("broken") \/ conn' = [conn EXCEPT ![cur].down = Append(@, Head(out))]
    BY <1>5 DEF Send
  <2>2. CASE conn' = [conn EXCEPT ![cur].down = Append(@, Head(out))]
    BY <1>1, <2>2 DEF Duplex
  <2> QED
    BY <1>3, <2>1, <2>2
<1>6. CASE Shut
  BY <1>1, <1>6 DEF Shut, Duplex
<1> QED
  BY <1>2, <1>3, <1>4, <1>5, <1>6

LEMMA TailElements ==
  ASSUME NEW S, NEW s \in Seq(S), s # <<>>
  PROVE  \A i \in 1 .. Len(Tail(s)) : i + 1 \in 1 .. Len(s) /\ Tail(s)[i] = s[i + 1]
<1>1. /\ Len(Tail(s)) = Len(s) - 1 /\ Len(s) \in Nat
      /\ \A i \in 1 .. Len(Tail(s)) : Tail(s)[i] = s[i + 1]
  BY HeadTailProperties, LenProperties
<1> QED
  BY <1>1

LEMMA ServerAsked ==
  ASSUME IInv, AskedInv, ServerStep \/ Operator
  PROVE  AskedInv'
<1>1. last' = last
  BY DEF ServerStep, Operator, cliVars
<1>2. ASSUME NEW c \in Client
      PROVE  \A i \in 1 .. Len(conn'[c].up) : NotFrom(1, conn'[c].up[i].at)
  <2>1. CASE conn'[c].up = conn[c].up
    BY <2>1 DEF AskedInv
  <2>2. CASE conn'[c].up = <<>>
    <3>1. 1 .. Len(<<>>) = {}
      OBVIOUS
    <3> QED
      BY <2>2, <3>1
  <2>3. CASE conn[c].up # <<>> /\ conn'[c].up = Tail(conn[c].up)
    <3>1. conn[c].up \in Seq(Segment)
      BY DEF IInv, TypeOK, NetTypeOK, Duplex
    <3>2. \A i \in 1 .. Len(Tail(conn[c].up)) :
            i + 1 \in 1 .. Len(conn[c].up) /\ Tail(conn[c].up)[i] = conn[c].up[i + 1]
      BY <2>3, <3>1, TailElements
    <3> QED
      BY <2>3, <3>2 DEF AskedInv
  <2> QED
    BY <2>1, <2>2, <2>3, ServerReads
<1> QED
  BY <1>1, <1>2 DEF AskedInv

LEMMA ClientAsked ==
  ASSUME DrawnIsNew, IInv, AskedInv, NEW c \in Client,
         ClientStep(c) \/ Typing(c) \/ Network(c)
  PROVE  AskedInv'
<1>1. /\ conn \in [Client -> Duplex(Segment, Piece)]
      /\ last \in [Client -> Req]
  BY DEF IInv, TypeOK, NetTypeOK, CliTypeOK
<1>2. ASSUME \A d \in Client : d # c => conn'[d].up = conn[d].up /\ last'[d] = last[d],
             NotFrom(1, last'[c].at),
             \A i \in 1 .. Len(conn'[c].up) : NotFrom(1, conn'[c].up[i].at)
      PROVE  AskedInv'
  BY <1>2 DEF AskedInv
<1>3. ASSUME last' = last, \A d \in Client : conn'[d].up = conn[d].up
      PROVE  AskedInv'
  BY <1>3 DEF AskedInv
<1>4. ASSUME NEW pc, Leave(c, pc)
      PROVE  \A d \in Client : conn'[d].up = conn[d].up
  BY <1>1, <1>4 DEF Leave, Duplex
<1>5. CASE Connect(c)
  <2>1. last' = last /\ conn' = [conn EXCEPT ![c] = Fresh]
    BY <1>5 DEF Connect
  <2>2. conn'[c].up = <<>> /\ 1 .. Len(<<>>) = {}
    BY <1>1, <2>1 DEF Fresh
  <2> QED
    BY <1>1, <1>2, <2>1, <2>2 DEF AskedInv
<1>6. CASE Type(c)
  <2>1. PICK r \in Request :
          /\ last' = [last EXCEPT ![c] = Lowered(r)]
          /\ \/ IF conn[c].downEof THEN conn' = conn
                ELSE \E s \in Arrivals(Lowered(r)) : conn' = [conn EXCEPT ![c].up = s]
             \/ Leave(c, "dead")
    BY <1>6 DEF Type
  <2>2. NotFrom(1, Lowered(r).at) /\ Lowered(r) \in Req
    BY LoweredNames, LoweredType
  <2>3. last'[c] = Lowered(r) /\ \A d \in Client : d # c => last'[d] = last[d]
    BY <1>1, <2>1
  <2>4. CASE conn' = conn \/ Leave(c, "dead")
    <3>1. \A d \in Client : conn'[d].up = conn[d].up
      BY <1>4, <2>4
    <3>2. \A i \in 1 .. Len(conn'[c].up) : NotFrom(1, conn'[c].up[i].at)
      BY <3>1 DEF AskedInv
    <3> QED
      BY <1>2, <2>2, <2>3, <3>1, <3>2
  <2>5. ASSUME NEW s \in Arrivals(Lowered(r)), conn' = [conn EXCEPT ![c].up = s]
        PROVE  AskedInv'
    <3>1. conn'[c].up = s /\ \A d \in Client : d # c => conn'[d].up = conn[d].up
      BY <1>1, <2>5 DEF Duplex
    <3>2. \A i \in 1 .. Len(s) : NotFrom(1, s[i].at)
      BY <2>2, ArrivalNames
    <3> QED
      BY <1>2, <2>2, <2>3, <3>1, <3>2
  <2> QED
    BY <2>1, <2>4, <2>5
<1>7. CASE TypeUnknown(c) \/ Kill(c)
  BY <1>3, <1>4, <1>7 DEF TypeUnknown, Kill
<1>8. CASE ReadResponse(c) \/ Linger(c)
  <2>1. last' = last /\ \A d \in Client : conn'[d].up = conn[d].up
    <3>1. CASE Linger(c)
      BY <3>1 DEF Linger, netVars
    <3>2. CASE ReadResponse(c)
      BY <1>1, <3>2 DEF ReadResponse, Duplex
    <3> QED
      BY <1>8, <3>1, <3>2
  <2> QED
    BY <1>3, <2>1
<1>9. CASE Arrive(c)
  <2>1. last' = last /\ \A d \in Client : d # c => conn'[d].up = conn[d].up
    BY <1>1, <1>9 DEF Arrive, cliVars
  <2>2. conn'[c].up = <<Ending>> \/ conn'[c].up = <<last[c]>>
    BY <1>1, <1>9 DEF Arrive, Duplex
  <2>3. NotFrom(1, Ending.at) /\ NotFrom(1, last[c].at)
    BY NotFromEmpty DEF Ending, Mark, NoReq, AskedInv
  <2>4. \A x : Len(<<x>>) = 1 /\ <<x>>[1] = x
    OBVIOUS
  <2>5. \A i \in 1 .. Len(conn'[c].up) : NotFrom(1, conn'[c].up[i].at)
    BY <2>2, <2>3, <2>4
  <2> QED
    BY <1>2, <2>1, <2>3, <2>5
<1> QED
  BY <1>5, <1>6, <1>7, <1>8, <1>9
  DEF ClientStep, Typing, Network, ProgramStep, UserStep

\* Opening a file draws its name, or takes that of a request.
LEMMA OpenFiles ==
  ASSUME IInv, FilesInv, NEW l, NotFrom(draws' + 1, l), NEW keep, NEW code, NEW located,
         Open(l, keep, code, located), draws' \in {draws, draws + 1}, starts' = starts
  PROVE  FilesInv'
<1>1. DOMAIN files' = DOMAIN files \cup {l} /\ todo'.at = l
  BY DEF Open, Put
<1>2. draws \in Nat /\ Len(Random) \in Nat
  BY ServerAssumption, LenProperties DEF IInv, TypeOK, SrvTypeOK
<1>3. \A i \in 1 .. Len(Random) : draws' + 1 <= i => draws + 1 <= i
  <2>1. CASE draws' = draws
    BY <1>2, <2>1
  <2>2. CASE draws' = draws + 1
    BY <1>2, <2>2
  <2> QED
    BY <2>1, <2>2
<1>4. \A x : NotFrom(draws + 1, x) => NotFrom(draws' + 1, x)
  BY <1>3 DEF NotFrom
<1> QED
  BY <1>1, <1>4 DEF FilesInv

LEMMA JobNames ==
  ASSUME IInv, AskedInv, spc = "recv", conn[cur].up # <<>>
  PROVE  \A k \in Nat : NotFrom(k + 1, Job.at)
<1>1. cur \in Client /\ conn[cur].up \in Seq(Segment)
  BY DEF IInv, TypeOK, SrvTypeOK, NetTypeOK, Duplex
<1>2. 1 \in 1 .. Len(conn[cur].up) /\ Job = conn[cur].up[1]
  BY <1>1, HeadTailProperties, EmptySeq, LenProperties DEF Job
<1>3. NotFrom(1, Job.at)
  BY <1>1, <1>2 DEF AskedInv
<1> QED
  BY <1>3, ServerAssumption, LenProperties DEF NotFrom

LEMMA NextNames ==
  ASSUME DrawnIsNew, IInv, NameInv, [Next]_vars
  PROVE  NameInv'
<1>1. draws \in Nat /\ Len(Random) \in Nat /\ starts \in Nat
  BY ServerAssumption, LenProperties DEF IInv, TypeOK, SrvTypeOK
<1>2. ASSUME starts' = starts, draws' = draws, DOMAIN files' \subseteq DOMAIN files,
             spc' = "write" => spc = "write" /\ todo' = todo
      PROVE  FilesInv'
  BY <1>2 DEF NameInv, FilesInv
<1>3. CASE ServerStep \/ Operator
  <2>1. AskedInv'
    BY <1>3, ServerAsked DEF NameInv
  <2> SUFFICES FilesInv'
    BY <2>1 DEF NameInv
  <2>2. CASE Accept \/ RecvNothing \/ Get \/ Search \/ Form \/ PutDir \/ Delete
             \/ RefusePost \/ RefusePut \/ Shut \/ Close
    BY <1>2, <2>2 DEF Accept, RecvNothing, Get, Search, Form, PutDir, Delete, RefusePost,
                      RefusePut, Shut, Close, Handling, Respond, treeVars
  <2>3. CASE CrashHandling \/ RefuseCrash \/ KillServer \/ Crash("broken")
    BY <1>2, <2>3 DEF CrashHandling, RefuseCrash, KillServer, Crash, Down, treeVars
  <2>4. CASE Send
    <3>1. Crash("broken") \/ UNCHANGED <<dirs, files, spc, todo, draws, starts>>
      BY <2>4 DEF Send, treeVars
    <3> QED
      BY <1>2, <2>3, <3>1
  <2>5. CASE StartServer
    BY <1>1, <2>5 DEF StartServer, FilesInv
  <2>6. CASE Written
    <3>1. DOMAIN files' = DOMAIN files \cup {todo.at} /\ spc = "write" /\ spc' # "write"
          /\ UNCHANGED <<draws, starts>>
      BY <2>6 DEF Written, Put
    <3> QED
      BY <3>1 DEF NameInv, FilesInv
  <2>7. CASE Post \/ PutFile
    <3>1. PICK keep, code, located : Open(Job.at, keep, code, located)
      BY <2>7 DEF Post, PutFile
    <3>2. NotFrom(draws + 1, Job.at) /\ UNCHANGED <<draws, starts>>
      BY <1>1, <2>7, JobNames DEF NameInv, Post, PutFile, Handling
    <3> QED
      BY <3>1, <3>2, OpenFiles DEF NameInv
  <2>8. CASE PostBelow
    <3>1. /\ Open(PostName, <<>>, 201, TRUE) /\ draws' = draws + 1 /\ starts' = starts
          /\ draws < Len(Random)
      BY <2>8 DEF PostBelow, Handling
    <3>2. Job.at \in Seq(Name)
      BY <2>8, JobType DEF IInv, TypeOK, SrvTypeOK, PostBelow, Handling, Methods, Req, Loc
    <3>3. Random[draws + 1] \in Name /\ draws + 1 \in 1 .. Len(Random)
      BY <1>1, <3>1, ServerAssumption, ElementOfSeq
    <3>4. PostName[Len(PostName)] = Random[draws + 1]
      BY <3>2, <3>3, AppendProperties DEF PostName
    <3>5. NotFrom(draws' + 1, PostName)
      BY <1>1, <3>1, <3>3, <3>4 DEF NotFrom, DrawnIsNew
    <3> QED
      BY <3>1, <3>5, OpenFiles DEF NameInv
  <2> QED
    BY <1>3, <2>1, <2>2, <2>3, <2>4, <2>5, <2>6, <2>7, <2>8
    DEF ServerStep, ServerNext, Operator, NameInv
<1>4. ASSUME NEW c \in Client, ClientStep(c) \/ Typing(c) \/ Network(c)
      PROVE  NameInv'
  <2>1. AskedInv'
    BY <1>4, ClientAsked DEF NameInv
  <2>2. UNCHANGED <<files, spc, todo, draws, starts>>
    BY <1>4 DEF ClientStep, Typing, Network, treeVars, srvVars
  <2> QED
    BY <1>2, <2>1, <2>2 DEF NameInv
<1>5. CASE UNCHANGED vars
  BY <1>5 DEF vars, netVars, treeVars, srvVars, cliVars, NameInv, AskedInv, FilesInv, NotFrom
<1> QED
  BY <1>3, <1>4, <1>5 DEF Next

\* A POST to a directory that opens a file which is there already is that of a
\* server started again, whose names begin from the beginning: as far as
\* rand() can be trusted within one process.
THEOREM NamesCorrect == DrawnIsNew => (Spec => ClobberOnlyAfterRestart)
<1> SUFFICES ASSUME DrawnIsNew PROVE Spec => ClobberOnlyAfterRestart
  OBVIOUS
<1> DEFINE Draw == /\ spc = "recv" /\ spc' = "write"
                   /\ Job.op = "POST" /\ todo'.at # Job.at
                   /\ todo'.at \in DOMAIN files
<1>1. Init => NameInv
  <2> SUFFICES ASSUME Init PROVE NameInv
    OBVIOUS
  <2>1. /\ \A c \in Client : last[c] = NoReq /\ conn[c].up = <<>>
        /\ files = InitFiles /\ spc = "accept" /\ draws = 0
    BY DEF Init, NetInit, TreeInit, SrvInit, CliInit, Fresh
  <2>2. NoReq.at = <<>> /\ 1 .. Len(<<>>) = {} /\ \A k : NotFrom(k, <<>>)
    BY NotFromEmpty DEF NoReq
  <2>3. \A l \in DOMAIN InitFiles : NotFrom(1, l)
    BY DEF DrawnIsNew, NotFrom
  <2> QED
    BY <2>1, <2>2, <2>3 DEF NameInv, AskedInv, FilesInv
<1>2. ASSUME IInv, NameInv, Next, Draw
      PROVE  starts > 0
  <2>1. ServerNext
    BY <1>2 DEF Next, ServerStep, Operator, ClientStep, Typing, Network, KillServer,
                StartServer, Crash, Down, srvVars
  <2>2. PostBelow
    <3>1. ~ (Post \/ PutFile)
      <4>1. \A keep, code, located : Open(Job.at, keep, code, located) => todo'.at = Job.at
        BY DEF Open
      <4> QED
        BY <1>2, <4>1 DEF Post, PutFile
    <3>2. ~ (Accept \/ RecvNothing \/ Get \/ Search \/ Form \/ PutDir \/ Delete
             \/ RefusePost \/ RefusePut \/ CrashHandling)
      BY <1>2 DEF Accept, RecvNothing, Get, Search, Form, PutDir, Delete, RefusePost,
                  RefusePut, CrashHandling, Handling, Respond, Crash
    <3>3. ~ (RefuseCrash \/ Written \/ Send \/ Shut \/ Close)
      BY <1>2 DEF RefuseCrash, Written, Send, Shut, Close
    <3> QED
      BY <2>1, <3>1, <3>2, <3>3 DEF ServerNext
  <2>3. todo'.at = PostName /\ draws < Len(Random) /\ draws \in Nat /\ starts \in Nat
        /\ Len(Random) \in Nat
    BY <1>2, <2>2, ServerAssumption, LenProperties
    DEF PostBelow, Open, IInv, TypeOK, SrvTypeOK
  <2>4. Job.at \in Seq(Name) /\ Random[draws + 1] \in Name /\ draws + 1 \in 1 .. Len(Random)
    BY <1>2, <2>2, <2>3, JobType, ServerAssumption, ElementOfSeq
    DEF IInv, TypeOK, SrvTypeOK, PostBelow, Handling, Methods, Req, Loc
  <2>5. PostName[Len(PostName)] = Random[draws + 1] /\ PostName # <<>>
    BY <2>4, AppendProperties DEF PostName
  <2>6. ~ NotFrom(draws + 1, PostName)
    BY <2>3, <2>4, <2>5 DEF NotFrom
  <2> QED
    BY <1>2, <2>3, <2>6 DEF NameInv, FilesInv
<1>3. IInv /\ NameInv /\ [Next]_vars => [Draw => starts > 0]_vars
  BY <1>2
<1>4. IInv /\ NameInv /\ [Next]_vars => NameInv'
  BY NextNames
<1> QED
  BY <1>1, <1>3, <1>4, InitIInv, NextIInv, PTL DEF Spec, ClobberOnlyAfterRestart
=============================================================================
