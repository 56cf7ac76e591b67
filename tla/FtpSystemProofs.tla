-------------------------- MODULE FtpSystemProofs --------------------------
(***************************************************************************)
(* Proofs about FtpSystem, for any clients, names, tree, requests and      *)
(* bounds: types, the working directory, the data port.                    *)
(*                                                                         *)
(* Type correctness is not inductive by itself: Store appends to the file  *)
(* that StorOpen has made, so the inductive invariant says that it exists. *)
(***************************************************************************)
EXTENDS FtpSystem, SequenceTheorems, TLAPS

\* The file a STOR is writing is in the tree.
OpenFileExists == spc = "store" => At(Target) \in DOMAIN files

IInv == TypeOK /\ OpenFileExists

----------------------------------------------------------------------------
(* Operators.                                                              *)

\* A name put behind the working directory is a path.
LEMMA UnderType ==
  ASSUME wd \in Path, NEW t \in Path
  PROVE  Under(t) \in Path
  BY ConcatProperties DEF Under, Path, Loc

\* A path names a place.
LEMMA AtType ==
  ASSUME FsTypeOK, NEW p \in Path
  PROVE  At(p) \in Loc
  BY ConcatProperties DEF At, FsTypeOK, Path, Loc

\* The place a STOR or RETR is about.
LEMMA TargetType ==
  ASSUME FsTypeOK, SrvTypeOK
  PROVE  Target \in Path /\ At(Target) \in Loc
<1>1. wd \in Path /\ job.arg \in Path
  BY DEF SrvTypeOK, Line
<1>2. Target \in Path
  BY <1>1, UnderType DEF Target
<1> QED
  BY <1>2, AtType

\* The request the server is looking at is a request.
LEMMA AskedType ==
  ASSUME NetTypeOK, SrvTypeOK, spc = "command", conn[cur].up # <<>>
  PROVE  /\ cur \in Client
         /\ Asked \in Line
         /\ Asked.arg \in Path
         /\ Asked.n \in Nat
         /\ Tail(conn[cur].up) \in Seq(Line)
<1>1. cur \in Client
  BY DEF SrvTypeOK
<1>2. conn[cur].up \in Seq(Line)
  BY <1>1 DEF NetTypeOK, Duplex
<1>3. Tail(conn[cur].up) \in Seq(Line) /\ Asked \in Line
  BY <1>2, HeadTailProperties DEF Asked
<1> QED
  BY <1>1, <1>3 DEF Line

\* Reading a request and writing a reply keeps the network and the server's
\* program counter within their types.
LEMMA AnswerType ==
  ASSUME NetTypeOK, SrvTypeOK, spc = "command", conn[cur].up # <<>>,
         NEW pieces \in Seq(Piece),
         NEW pc \in {"command", "dataAccept"},
         Answer(pieces, pc)
  PROVE  /\ NetTypeOK'
         /\ spc' \in {pc, "exited"}
         /\ cur' = cur /\ cur \in Client /\ peer' = peer /\ left' = left
<1>1. cur \in Client /\ Tail(conn[cur].up) \in Seq(Line)
  BY AskedType
<1>2. /\ conn[cur] \in Duplex(Line, Piece)
      /\ conn[cur].down \in Seq(Piece)
  BY <1>1 DEF NetTypeOK, Duplex
<1>3. conn[cur].down \o pieces \in Seq(Piece)
  BY <1>2, ConcatProperties
<1>4. conn' \in [Client -> Duplex(Line, Piece)]
  BY <1>1, <1>2, <1>3 DEF Answer, NetTypeOK, Duplex
<1> QED
  BY <1>1, <1>4 DEF Answer, ContinueOrBroken, NetTypeOK

\* A reply is a piece of text.
LEMMA ReplyType ==
  ASSUME NetTypeOK, SrvTypeOK, spc = "command", conn[cur].up # <<>>,
         NEW st \in {"text", "success", "fail", "OK", "noopen", "bye"}
  PROVE  Reply(st) \in Seq(Piece)
  BY AskedType DEF Reply, Piece

\* So are the replies that depend on how a system call ended.
LEMMA ReplyTypes ==
  ASSUME NetTypeOK, SrvTypeOK, spc = "command", conn[cur].up # <<>>
  PROVE  /\ ListReply \in Seq(Piece)
         /\ \A e : MkdReply(e) \in Seq(Piece) /\ RmdReply(e) \in Seq(Piece)
  BY ReplyType DEF ListReply, MkdReply, RmdReply

\* What read_line hands over, and what it leaves in the stream, are bytes.
LEMMA LineTypes ==
  ASSUME NEW s \in Seq(Block), NEW k \in 1 .. Len(s)
  PROVE  Handed(s, k) \in Content /\ SubSeq(s, k + 1, Len(s)) \in Seq(Block)
<1>1. Len(s) \in Nat /\ k \in Nat
  BY LenProperties
<1>2. \A m \in 0 .. Len(s) : SubSeq(s, 1, m) \in Seq(Block)
  BY <1>1, SubSeqProperties
<1>3. (IF k < MAX_LENGTH THEN k ELSE MAX_LENGTH - 1) \in 0 .. Len(s)
  BY <1>1, LengthAssumption
<1>4. SubSeq(s, k + 1, Len(s)) \in Seq(Block)
  BY <1>1, SubSeqProperties
<1> QED
  BY <1>2, <1>3, <1>4 DEF Handed, Content

\* The calls that change the tree.
LEMMA TreeTypes ==
  ASSUME FsTypeOK, NEW l \in Loc
  PROVE  /\ MakeDir(l) => FsTypeOK'
         /\ RemoveEntry(l) => FsTypeOK'
         /\ \A v \in Content :
              WriteFile(l, v) => FsTypeOK' /\ l \in DOMAIN files'
<1>1. MakeDir(l) => FsTypeOK'
  BY DEF FsTypeOK, MakeDir
<1>2. RemoveEntry(l) => FsTypeOK'
  BY DEF FsTypeOK, RemoveEntry
<1>3. ASSUME NEW v \in Content, WriteFile(l, v)
      PROVE  FsTypeOK' /\ l \in DOMAIN files'
  BY <1>3 DEF FsTypeOK, WriteFile
<1> QED
  BY <1>1, <1>2, <1>3

----------------------------------------------------------------------------
(* The server's steps.                                                     *)

LEMMA CommandType ==
  ASSUME NetTypeOK, FsTypeOK, SrvTypeOK,
         \/ Pwd \/ Nlst \/ List \/ Cwd \/ Mkd \/ Rmd \/ Dele
         \/ Stor \/ Retr
  PROVE  NetTypeOK' /\ FsTypeOK' /\ SrvTypeOK' /\ spc' # "store"
<1> USE DEF Serving
<1>1. ASSUME NEW pieces \in Seq(Piece), Answer(pieces, "command"),
             spc = "command", conn[cur].up # <<>>,
             wd' \in Path, job' = job
      PROVE  NetTypeOK' /\ SrvTypeOK' /\ spc' # "store"
  BY <1>1, AnswerType DEF SrvTypeOK, ServerPc
<1>2. CASE Pwd \/ Nlst \/ List
  <2>1. FsTypeOK'
    BY <1>2 DEF Pwd, Nlst, List, fsVars, FsTypeOK
  <2>2. wd' = wd /\ job' = job /\ wd \in Path
    BY <1>2 DEF Pwd, Nlst, List, SrvTypeOK
  <2> QED
    BY <1>1, <1>2, <2>1, <2>2, ReplyType, ReplyTypes DEF Pwd, Nlst, List
<1>3. CASE Cwd
  <2>1. Asked.arg \in Path /\ At(Asked.arg) \in Loc
    BY <1>3, AskedType, AtType DEF Cwd
  <2>2. FsTypeOK'
    <3>1. dirs' = dirs /\ files' = files
      BY <1>3 DEF Cwd
    <3>2. cwd' = [live |-> TRUE, at |-> At(Asked.arg)] \/ cwd' = cwd
      BY <1>3 DEF Cwd
    <3>3. cwd' \in [live : BOOLEAN, at : Loc]
      <4>1. CASE cwd' = [live |-> TRUE, at |-> At(Asked.arg)]
        BY <2>1, <4>1
      <4>2. CASE cwd' = cwd
        BY <4>2 DEF FsTypeOK
      <4> QED
        BY <3>2, <4>1, <4>2
    <3> QED
      BY <3>1, <3>3 DEF FsTypeOK
  <2>3. wd' \in Path
    BY <1>3, <2>1 DEF Cwd, SrvTypeOK
  <2> QED
    BY <1>1, <1>3, <2>2, <2>3, ReplyType DEF Cwd
<1>4. CASE Mkd
  <2>1. Under(Asked.arg) \in Path /\ At(Under(Asked.arg)) \in Loc
    BY <1>4, AskedType, UnderType, AtType DEF Mkd, SrvTypeOK
  <2>2. FsTypeOK'
    BY <1>4, <2>1, TreeTypes DEF Mkd, fsVars, FsTypeOK
  <2> QED
    BY <1>1, <1>4, <2>2, ReplyType, ReplyTypes DEF Mkd, SrvTypeOK
<1>5. CASE Rmd
  <2>1. At(Asked.arg) \in Loc
    BY <1>5, AskedType, AtType DEF Rmd
  <2>2. FsTypeOK'
    BY <1>5, <2>1, TreeTypes DEF Rmd, fsVars, FsTypeOK
  <2> QED
    BY <1>1, <1>5, <2>2, ReplyType, ReplyTypes DEF Rmd, SrvTypeOK
<1>6. CASE Dele
  <2>1. Under(Asked.arg) \in Path /\ At(Under(Asked.arg)) \in Loc
    BY <1>6, AskedType, UnderType, AtType DEF Dele, SrvTypeOK
  <2>2. FsTypeOK'
    BY <1>6, <2>1, TreeTypes DEF Dele, fsVars, FsTypeOK
  <2> QED
    BY <1>1, <1>6, <2>2, ReplyType, ReplyTypes DEF Dele, SrvTypeOK
<1>7. CASE Stor \/ Retr
  <2>1. /\ spc = "command" /\ conn[cur].up # <<>>
        /\ Reply("OK") \in Seq(Piece) /\ Asked \in Line
    BY <1>7, ReplyType, AskedType DEF Stor, Retr
  <2>2. Promise
    BY <1>7 DEF Stor, Retr
  <2> QED
    BY <2>1, <2>2, AnswerType
    DEF Promise, SrvTypeOK, ServerPc, fsVars, FsTypeOK
<1> QED
  BY <1>2, <1>3, <1>4, <1>5, <1>6, <1>7

LEMMA SessionType ==
  ASSUME NetTypeOK, FsTypeOK, SrvTypeOK, Accept \/ Hangup \/ Quit \/ QuitClose
  PROVE  NetTypeOK' /\ FsTypeOK' /\ SrvTypeOK' /\ spc' # "store"
<1>1. CASE Accept
  <2>1. Head(backlog) \in Client /\ Tail(backlog) \in Seq(Client)
    BY <1>1, HeadTailProperties DEF Accept, NetTypeOK
  <2>2. SessionWd \in Path
    BY DEF SessionWd, SrvTypeOK, FsTypeOK, Absolute, Path
  <2>3. FsTypeOK'
    BY <1>1 DEF Accept, fsVars, FsTypeOK
  <2> QED
    BY <1>1, <2>1, <2>2, <2>3 DEF Accept, NetTypeOK, SrvTypeOK, ServerPc
<1>2. CASE Hangup
  BY <1>2 DEF Hangup, NetTypeOK, SrvTypeOK, FsTypeOK, fsVars, ServerPc
<1>3. CASE Quit
  <2>1. spc = "command" /\ conn[cur].up # <<>>
    BY <1>3 DEF Quit, Serving
  <2>2. /\ cur \in Client
        /\ conn[cur] \in Duplex(Line, Piece)
        /\ conn[cur].down \in Seq(Piece)
        /\ Tail(conn[cur].up) \in Seq(Line)
    BY <2>1, AskedType DEF NetTypeOK, Duplex
  <2>3. conn[cur].down \o Reply("bye") \in Seq(Piece)
    BY <2>1, <2>2, ReplyType, ConcatProperties
  <2>4. conn' \in [Client -> Duplex(Line, Piece)]
    BY <1>3, <2>2, <2>3 DEF Quit, NetTypeOK, Duplex
  <2>5. FsTypeOK'
    BY <1>3 DEF Quit, fsVars, FsTypeOK
  <2> QED
    BY <1>3, <2>2, <2>4, <2>5
    DEF Quit, ContinueOrBroken, NetTypeOK, SrvTypeOK, ServerPc
<1>4. CASE QuitClose
  BY <1>4 DEF QuitClose, NetTypeOK, SrvTypeOK, FsTypeOK, netVars, fsVars, ServerPc
<1> QED
  BY <1>1, <1>2, <1>3, <1>4

LEMMA OpenType ==
  ASSUME NetTypeOK, FsTypeOK, SrvTypeOK, StorOpen \/ RetrOpen
  PROVE  NetTypeOK' /\ FsTypeOK' /\ SrvTypeOK' /\ OpenFileExists'
<1>1. /\ TakeData
      /\ cur \in Client
      /\ Target \in Path /\ At(Target) \in Loc
  BY TargetType DEF StorOpen, RetrOpen, TakeData, SrvTypeOK
<1>2. /\ peer' \in Client
      /\ dataBacklog' \in Seq(Client \X Nat)
      /\ data' = data /\ backlog' = backlog /\ cur' = cur
      /\ wd' = wd /\ job' = job
  <2>1. Head(dataBacklog) \in Client \X Nat
    BY <1>1, HeadTailProperties DEF TakeData, NetTypeOK
  <2>2. Tail(dataBacklog) \in Seq(Client \X Nat)
    BY <1>1, HeadTailProperties DEF TakeData, NetTypeOK
  <2> QED
    BY <1>1, <2>1, <2>2 DEF TakeData
<1>3. ASSUME Notice
      PROVE  /\ conn' \in [Client -> Duplex(Line, Piece)]
             /\ alive' \in BOOLEAN /\ spc' \in {"noOpen", "exited"}
  <2>1. /\ conn[cur] \in Duplex(Line, Piece)
        /\ conn[cur].down \in Seq(Piece)
        /\ [n |-> job.n, st |-> "noopen"] \in Piece
    BY <1>1 DEF NetTypeOK, Duplex, SrvTypeOK, Line, Piece
  <2>2. Append(conn[cur].down, [n |-> job.n, st |-> "noopen"]) \in Seq(Piece)
    BY <2>1, AppendProperties
  <2>3. conn' \in [Client -> Duplex(Line, Piece)]
    BY <1>1, <1>3, <2>1, <2>2 DEF Notice, NetTypeOK, Duplex
  <2> QED
    BY <1>3, <2>3 DEF Notice, ContinueOrBroken, NetTypeOK
<1>4. CASE StorOpen
  <2>1. left' = left
    BY <1>4 DEF StorOpen
  <2>2. CASE WriteFile(At(Target), <<>>) /\ spc' = "store" /\ UNCHANGED <<conn, alive>>
    <3>1. FsTypeOK' /\ At(Target) \in DOMAIN files'
      <4>1. <<>> \in Content
        BY DEF Content
      <4> QED
        BY <1>1, <2>2, <4>1, TreeTypes
    <3>2. At(Target)' = At(Target)
      BY <1>2, <2>2 DEF WriteFile, At, Target, Under
    <3> QED
      BY <1>1, <1>2, <2>1, <2>2, <3>1, <3>2
      DEF NetTypeOK, SrvTypeOK, ServerPc, OpenFileExists
  <2>3. CASE Notice /\ UNCHANGED fsVars
    BY <1>1, <1>2, <1>3, <2>1, <2>3
    DEF NetTypeOK, FsTypeOK, fsVars, SrvTypeOK, ServerPc, OpenFileExists
  <2> QED
    BY <1>4, <2>2, <2>3 DEF StorOpen
<1>5. CASE RetrOpen
  <2>1. FsTypeOK'
    BY <1>5 DEF RetrOpen, fsVars, FsTypeOK
  <2>2. CASE IsFile(Target) /\ left' = files[At(Target)] /\ spc' = "send"
             /\ UNCHANGED <<conn, alive>>
    BY <1>1, <1>2, <2>1, <2>2
    DEF NetTypeOK, FsTypeOK, SrvTypeOK, ServerPc, OpenFileExists, IsFile
  <2>3. CASE spc' = "spin" /\ UNCHANGED <<conn, alive, left>>
    BY <1>1, <1>2, <2>1, <2>3
    DEF NetTypeOK, SrvTypeOK, ServerPc, OpenFileExists
  <2>4. CASE Notice /\ left' = left
    BY <1>1, <1>2, <1>3, <2>1, <2>4
    DEF NetTypeOK, SrvTypeOK, ServerPc, OpenFileExists
  <2> QED
    BY <1>5, <2>2, <2>3, <2>4 DEF RetrOpen
<1> QED
  BY <1>4, <1>5

LEMMA TransferType ==
  ASSUME NetTypeOK, FsTypeOK, SrvTypeOK, OpenFileExists,
         NoOpen \/ Store \/ StoreDone \/ Send \/ SendDone
  PROVE  NetTypeOK' /\ FsTypeOK' /\ SrvTypeOK' /\ OpenFileExists'
<1>1. /\ peer \in Client
      /\ data[peer] \in Duplex(Block, Block)
      /\ data[peer].up \in Seq(Block) /\ data[peer].down \in Seq(Block)
  BY DEF NoOpen, Store, StoreDone, Send, SendDone, NetTypeOK, SrvTypeOK, Duplex
<1>2. CASE NoOpen
  <2>1. CASE data' = data
    BY <1>2, <2>1 DEF NoOpen, NetTypeOK, FsTypeOK, fsVars, SrvTypeOK, ServerPc,
                      OpenFileExists
  <2>2. CASE data' = [data EXCEPT ![peer].up = <<>>, ![peer].downEof = TRUE]
    <3>1. data' \in [Client -> Duplex(Block, Block)]
      <4>1. <<>> \in Seq(Block)
        OBVIOUS
      <4> QED
        BY <1>1, <2>2, <4>1 DEF NetTypeOK, Duplex
    <3> QED
      BY <1>2, <3>1 DEF NoOpen, NetTypeOK, FsTypeOK, fsVars, SrvTypeOK, ServerPc,
                      OpenFileExists
  <2> QED
    BY <1>2, <2>1, <2>2 DEF NoOpen
<1>3. CASE Store
  <2>0. PICK k \in 1 .. Len(data[peer].up) :
          /\ WriteFile(At(Target), files[At(Target)] \o Handed(data[peer].up, k))
          /\ data' = [data EXCEPT
                        ![peer].up = SubSeq(@, k + 1, Len(data[peer].up))]
    BY <1>1, <1>3 DEF Store
  <2>1. /\ Handed(data[peer].up, k) \in Content
        /\ SubSeq(data[peer].up, k + 1, Len(data[peer].up)) \in Seq(Block)
    BY <1>1, LineTypes
  <2>2. data' \in [Client -> Duplex(Block, Block)]
    BY <1>1, <2>0, <2>1 DEF NetTypeOK, Duplex
  <2>3. At(Target) \in Loc /\ files[At(Target)] \in Content
    BY <1>3, TargetType DEF Store, OpenFileExists, FsTypeOK
  <2>4. files[At(Target)] \o Handed(data[peer].up, k) \in Content
    BY <2>1, <2>3, ConcatProperties DEF Content
  <2>5. FsTypeOK' /\ At(Target) \in DOMAIN files'
    BY <2>0, <2>3, <2>4, TreeTypes
  <2>6. At(Target)' = At(Target)
    BY <1>3 DEF Store, srvVars, WriteFile, At, Target, Under
  <2> QED
    BY <1>3, <2>2, <2>5, <2>6
    DEF Store, srvVars, NetTypeOK, SrvTypeOK, OpenFileExists
<1>4. CASE StoreDone \/ SendDone
  <2>1. data' \in [Client -> Duplex(Block, Block)]
    BY <1>1, <1>4 DEF StoreDone, SendDone, NetTypeOK, Duplex
  <2> QED
    BY <1>4, <2>1 DEF StoreDone, SendDone, NetTypeOK, FsTypeOK, fsVars, SrvTypeOK,
                      ServerPc, OpenFileExists
<1>5. CASE Send
  <2>1. Head(left) \in Block /\ Tail(left) \in Content
    BY <1>5, HeadTailProperties DEF Send, SrvTypeOK, Content
  <2>2. Append(data[peer].down, Head(left)) \in Seq(Block)
    BY <1>1, <2>1, AppendProperties
  <2>3. data' \in [Client -> Duplex(Block, Block)]
    BY <1>1, <1>5, <2>2 DEF Send, NetTypeOK, Duplex
  <2> QED
    BY <1>1, <1>5, <2>1, <2>3
    DEF Send, ContinueOrBroken, NetTypeOK, FsTypeOK, fsVars, SrvTypeOK, ServerPc,
        OpenFileExists
<1> QED
  BY <1>2, <1>3, <1>4, <1>5

----------------------------------------------------------------------------
(* The clients' steps.                                                     *)

\* What a user types is a request, and so is what the client makes of it.
LEMMA NextLineType ==
  ASSUME CliTypeOK, NEW c \in Client
  PROVE  /\ \A r \in Request : NextLine(c, r.op, r.arg, r.src) \in Line
         /\ NextLine(c, "QUIT", NoPath, NoSource) \in Line
<1>1. last[c].n + 1 \in Nat
  <2>1. last[c] \in Line
    BY DEF CliTypeOK
  <2>2. last[c].n \in Nat
    BY <2>1 DEF Line
  <2> QED
    BY <2>2
<1>2. NoPath \in Path
  <2>1. <<>> \in Loc
    BY DEF Loc
  <2> QED
    BY <2>1 DEF NoPath, Path
<1>3. ASSUME NEW r \in Request
      PROVE  NextLine(c, r.op, r.arg, r.src) \in Line
  <2>1. r.op \in Verbs /\ r.arg \in Path /\ r.src \in Source \cup {NoSource}
    BY RequestAssumption
  <2> QED
    BY <1>1, <2>1 DEF NextLine, Line
<1> QED
  BY <1>1, <1>2, <1>3 DEF NextLine, Line

LEMMA DieType ==
  ASSUME NetTypeOK, CliTypeOK, NEW c \in Client, Die(c)
  PROVE  NetTypeOK' /\ cpc' \in [Client -> ClientPc]
<1>1. conn' \in [Client -> Duplex(Line, Piece)]
  BY DEF Die, NetTypeOK, Duplex
<1>2. data' \in [Client -> Duplex(Block, Block)]
  BY DEF Die, NetTypeOK, Duplex
<1> QED
  BY <1>1, <1>2 DEF Die, Goto, NetTypeOK, CliTypeOK, ClientPc

\* A fresh connection is a connection.
LEMMA FreshType ==
  /\ \A S, T : Fresh \in Duplex(S, T)
  /\ \A S, T : [Fresh EXCEPT !.upEof = TRUE] \in Duplex(S, T)
<1>1. \A S : <<>> \in Seq(S)
  OBVIOUS
<1> QED
  BY <1>1 DEF Fresh, Duplex

LEMMA UserType ==
  ASSUME NetTypeOK, CliTypeOK, NEW c \in Client, UserStep(c)
  PROVE  NetTypeOK' /\ CliTypeOK'
<1>1. CASE Connect(c)
  <2>1. UNCHANGED <<last, line, buf, kills>>
    BY <1>1 DEF Connect
  <2>2. CASE Die(c)
    BY <2>1, <2>2, DieType DEF CliTypeOK
  <2>3. CASE /\ conn' = [conn EXCEPT ![c] = Fresh]
             /\ backlog' = Append(backlog, c)
             /\ Goto(c, "idle")
             /\ UNCHANGED <<data, dataBacklog, alive>>
    BY <2>1, <2>3, FreshType, AppendProperties
    DEF Goto, NetTypeOK, CliTypeOK, ClientPc
  <2> QED
    BY <1>1, <2>2, <2>3 DEF Connect
<1>2. ASSUME NEW l \in Line, Submit(c, l)
      PROVE  NetTypeOK' /\ CliTypeOK'
  <2>1. /\ last' \in [Client -> Line]
        /\ line' \in [Client -> Seq(Piece)]
        /\ UNCHANGED <<buf, kills>>
        /\ Write(c, l)
    BY <1>2 DEF Submit, CliTypeOK
  <2>2. CASE Die(c)
    BY <2>1, <2>2, DieType DEF CliTypeOK
  <2>3. CASE /\ conn' = IF alive THEN [conn EXCEPT ![c].up = Append(@, l)] ELSE conn
             /\ Goto(c, "wait")
             /\ UNCHANGED <<data, backlog, dataBacklog, alive>>
    <3>1. /\ conn[c] \in Duplex(Line, Piece)
          /\ Append(conn[c].up, l) \in Seq(Line)
      BY AppendProperties DEF NetTypeOK, Duplex
    <3>2. conn' \in [Client -> Duplex(Line, Piece)]
      BY <2>3, <3>1 DEF NetTypeOK, Duplex
    <3> QED
      BY <2>1, <2>3, <3>2 DEF Goto, NetTypeOK, CliTypeOK, ClientPc
  <2> QED
    BY <2>1, <2>2, <2>3 DEF Write
<1>3. CASE Type(c) \/ TypeQuit(c)
  BY <1>2, <1>3, NextLineType DEF Type, TypeQuit
<1>4. CASE Kill(c)
  <2>1. kills' \in 0 .. MaxKills
    BY <1>4, BoundAssumption DEF Kill, CliTypeOK
  <2> QED
    BY <1>4, <2>1, DieType DEF Kill, CliTypeOK
<1> QED
  BY <1>1, <1>3, <1>4 DEF UserStep

LEMMA ReadReplyType ==
  ASSUME NetTypeOK, CliTypeOK, NEW c \in Client, ReadReply(c)
  PROVE  NetTypeOK' /\ CliTypeOK'
<1> DEFINE s == conn[c].down
<1>1. /\ conn[c] \in Duplex(Line, Piece)
      /\ s \in Seq(Piece)
  BY DEF NetTypeOK, Duplex
<1>2. PICK k \in 0 .. Len(s) :
        /\ line' = [line EXCEPT ![c] = SubSeq(s, 1, k)]
        /\ \/ /\ \E pc \in {"dial", "bye", "idle"} : Goto(c, pc)
              /\ conn' = [conn EXCEPT ![c].down = SubSeq(s, k + 1, Len(s))]
              /\ UNCHANGED <<data, backlog, dataBacklog, alive>>
           \/ Die(c)
  BY DEF ReadReply
<1>3. SubSeq(s, 1, k) \in Seq(Piece) /\ SubSeq(s, k + 1, Len(s)) \in Seq(Piece)
  BY <1>1, SubSeqProperties, LenProperties
<1>4. /\ line' \in [Client -> Seq(Piece)]
      /\ UNCHANGED <<last, buf, kills>>
  BY <1>2, <1>3 DEF CliTypeOK, ReadReply
<1>5. CASE Die(c)
  BY <1>4, <1>5, DieType DEF CliTypeOK
<1>6. CASE /\ \E pc \in {"dial", "bye", "idle"} : Goto(c, pc)
           /\ conn' = [conn EXCEPT ![c].down = SubSeq(s, k + 1, Len(s))]
           /\ UNCHANGED <<data, backlog, dataBacklog, alive>>
  <2>1. conn' \in [Client -> Duplex(Line, Piece)]
    BY <1>1, <1>3, <1>6 DEF NetTypeOK, Duplex
  <2> QED
    BY <1>4, <1>6, <2>1 DEF Goto, NetTypeOK, CliTypeOK, ClientPc
<1> QED
  BY <1>2, <1>5, <1>6

LEMMA DialType ==
  ASSUME NetTypeOK, CliTypeOK, NEW c \in Client, DialPut(c) \/ DialGet(c)
  PROVE  NetTypeOK' /\ CliTypeOK'
<1>1. /\ <<c, last[c].n>> \in Client \X Nat
      /\ UNCHANGED <<backlog, alive, last, line, kills>>
  <2>1. last[c] \in Line
    BY DEF CliTypeOK
  <2> QED
    BY <2>1 DEF DialPut, DialGet, Dial, Line
<1>2. dataBacklog' \in Seq(Client \X Nat)
  <2>1. dataBacklog' = Append(dataBacklog, <<c, last[c].n>>)
    BY DEF DialPut, DialGet, Dial
  <2>2. dataBacklog \in Seq(Client \X Nat)
    BY DEF NetTypeOK
  <2> QED
    BY <1>1, <2>1, <2>2, AppendProperties
<1>3. ASSUME NEW pc \in {"put", "spin", "get"}, NEW v \in Content, Opened(c, pc, v)
      PROVE  NetTypeOK' /\ CliTypeOK'
  <2>1. data' \in [Client -> Duplex(Block, Block)]
    BY <1>3, FreshType DEF Opened, NetTypeOK
  <2> QED
    BY <1>1, <1>2, <1>3, <2>1 DEF Opened, Goto, NetTypeOK, CliTypeOK, ClientPc
<1>4. ASSUME NotOpened(c)
      PROVE  NetTypeOK' /\ CliTypeOK'
  <2>1. data' \in [Client -> Duplex(Block, Block)]
    BY <1>4, FreshType DEF NotOpened, NetTypeOK
  <2>2. conn' \in [Client -> Duplex(Line, Piece)]
    BY <1>4 DEF NotOpened, NetTypeOK, Duplex
  <2> QED
    BY <1>1, <1>2, <1>4, <2>1, <2>2
    DEF NotOpened, Goto, NetTypeOK, CliTypeOK, ClientPc
<1>5. <<>> \in Content
  BY DEF Content
<1> QED
  BY <1>3, <1>4, <1>5, LocalFilesAssumption DEF DialPut, DialGet

LEMMA MoveType ==
  ASSUME NetTypeOK, CliTypeOK, NEW c \in Client,
         Put(c) \/ PutDone(c) \/ Get(c) \/ GetDone(c) \/ Bye(c)
  PROVE  NetTypeOK' /\ CliTypeOK'
<1>1. /\ data[c] \in Duplex(Block, Block)
      /\ data[c].up \in Seq(Block) /\ data[c].down \in Seq(Block)
      /\ buf[c] \in Seq(Block)
  BY DEF NetTypeOK, CliTypeOK, Duplex, Content
<1>2. CASE Put(c)
  <2>1. Head(buf[c]) \in Block /\ Tail(buf[c]) \in Content
    BY <1>1, <1>2, HeadTailProperties DEF Put, Content
  <2>2. Append(data[c].up, Head(buf[c])) \in Seq(Block)
    BY <1>1, <2>1, AppendProperties
  <2>3. CASE Die(c) /\ buf' = buf
    BY <1>2, <2>3, DieType DEF Put, CliTypeOK
  <2>4. CASE /\ data' = IF DataClosed(c) THEN data
                         ELSE [data EXCEPT ![c].up = Append(@, Head(buf[c]))]
             /\ buf' = [buf EXCEPT ![c] = Tail(@)]
             /\ UNCHANGED <<conn, backlog, dataBacklog, alive, cpc>>
    <3>1. data' \in [Client -> Duplex(Block, Block)]
      BY <1>1, <2>2, <2>4 DEF NetTypeOK, Duplex
    <3> QED
      BY <1>2, <2>1, <2>4, <3>1 DEF Put, NetTypeOK, CliTypeOK
  <2> QED
    BY <1>2, <2>3, <2>4 DEF Put
<1>3. CASE PutDone(c) \/ GetDone(c)
  <2>1. data' \in [Client -> Duplex(Block, Block)]
    BY <1>1, <1>3 DEF PutDone, GetDone, NetTypeOK, Duplex
  <2> QED
    BY <1>3, <2>1 DEF PutDone, GetDone, Goto, NetTypeOK, CliTypeOK, ClientPc
<1>4. CASE Get(c)
  <2>1. PICK k \in 1 .. Len(data[c].down) :
          /\ buf' = [buf EXCEPT ![c] = @ \o Handed(data[c].down, k)]
          /\ data' = [data EXCEPT
                        ![c].down = SubSeq(@, k + 1, Len(data[c].down))]
    BY <1>1, <1>4 DEF Get
  <2>2. /\ Handed(data[c].down, k) \in Content
        /\ SubSeq(data[c].down, k + 1, Len(data[c].down)) \in Seq(Block)
    BY <1>1, LineTypes
  <2>3. buf[c] \o Handed(data[c].down, k) \in Content
    BY <1>1, <2>2, ConcatProperties DEF Content
  <2>4. data' \in [Client -> Duplex(Block, Block)]
    BY <1>1, <2>1, <2>2 DEF NetTypeOK, Duplex
  <2> QED
    BY <1>4, <2>1, <2>3, <2>4 DEF Get, NetTypeOK, CliTypeOK
<1>5. CASE Bye(c)
  <2>1. conn' \in [Client -> Duplex(Line, Piece)]
    BY <1>5 DEF Bye, NetTypeOK, Duplex
  <2> QED
    BY <1>5, <2>1 DEF Bye, Goto, NetTypeOK, CliTypeOK, ClientPc
<1> QED
  BY <1>2, <1>3, <1>4, <1>5

----------------------------------------------------------------------------
(* Type correctness.                                                       *)

LEMMA InitIInv == Init => IInv
<1> SUFFICES ASSUME Init PROVE IInv
  OBVIOUS
<1>1. NoPath \in Path /\ NoLine \in Line /\ <<>> \in Content
  <2>1. <<>> \in Loc /\ <<>> \in Content
    BY DEF Loc, Content
  <2>2. NoPath \in Path
    BY <2>1 DEF NoPath, Path
  <2> QED
    BY <2>1, <2>2 DEF NoLine, Line
<1>2. NetTypeOK
  <2>1. <<>> \in Seq(Client) /\ <<>> \in Seq(Client \X Nat)
    OBVIOUS
  <2> QED
    BY <2>1, FreshType DEF Init, NetInit, NetTypeOK
<1>3. FsTypeOK
  BY TreeAssumption DEF Init, FsInit, FsTypeOK
<1>4. SrvTypeOK /\ OpenFileExists
  BY <1>1 DEF Init, SrvInit, SrvTypeOK, ServerPc, OpenFileExists
<1>5. CliTypeOK
  BY <1>1, BoundAssumption DEF Init, CliInit, CliTypeOK, ClientPc, Content
<1> QED
  BY <1>2, <1>3, <1>4, <1>5 DEF IInv, TypeOK

LEMMA NextIInv == IInv /\ [Next]_vars => IInv'
<1> SUFFICES ASSUME IInv, [Next]_vars PROVE IInv'
  OBVIOUS
<1>1. NetTypeOK /\ FsTypeOK /\ SrvTypeOK /\ CliTypeOK /\ OpenFileExists
  BY DEF IInv, TypeOK
<1>2. CASE ServerStep
  <2>1. CliTypeOK'
    BY <1>1, <1>2 DEF ServerStep, cliVars, CliTypeOK
  <2>2. NetTypeOK' /\ FsTypeOK' /\ SrvTypeOK' /\ OpenFileExists'
    BY <1>1, <1>2, CommandType, SessionType, OpenType, TransferType
    DEF ServerStep, ServerNext, OpenFileExists
  <2> QED
    BY <2>1, <2>2 DEF IInv, TypeOK
<1>3. ASSUME UNCHANGED <<fsVars, srvVars>>
      PROVE  FsTypeOK' /\ SrvTypeOK' /\ OpenFileExists'
  <2>1. FsTypeOK' /\ SrvTypeOK'
    BY <1>1, <1>3 DEF fsVars, srvVars, FsTypeOK, SrvTypeOK
  <2> QED
    BY <1>1, <1>3, <2>1 DEF fsVars, srvVars, OpenFileExists, At, Target, Under
<1>4. ASSUME NEW c \in Client, ClientStep(c)
      PROVE  IInv'
  BY <1>1, <1>3, <1>4, ReadReplyType, DialType, MoveType
  DEF ClientStep, ProgramStep, IInv, TypeOK
<1>5. ASSUME NEW c \in Client, Typing(c)
      PROVE  IInv'
  BY <1>1, <1>3, <1>5, UserType DEF Typing, IInv, TypeOK
<1>6. CASE UNCHANGED vars
  <2>1. NetTypeOK' /\ CliTypeOK'
    BY <1>1, <1>6 DEF vars, netVars, cliVars, NetTypeOK, CliTypeOK
  <2> QED
    BY <1>3, <1>6, <2>1 DEF vars, IInv, TypeOK
<1> QED
  BY <1>2, <1>4, <1>5, <1>6 DEF Next

\* Every variable of server, clients, tree and network keeps its type.
THEOREM TypeCorrect == Spec => []TypeOK
<1>1. IInv => TypeOK
  BY DEF IInv
<1> QED
  BY <1>1, InitIInv, NextIInv, PTL DEF Spec

----------------------------------------------------------------------------
(* The working directory.                                                  *)

\* RMD and DELE leave the process where it is.
LEMMA RemoveStays ==
  ASSUME FsTypeOK, NEW l, RemoveEntry(l)
  PROVE  cwd'.at = cwd.at
  BY DEF FsTypeOK, RemoveEntry

\* Only a new session and CWD change either name of the working directory.
LEMMA WdStays ==
  ASSUME FsTypeOK, [Next]_vars, ~ Accept, ~ Cwd
  PROVE  wd' = wd /\ cwd'.at = cwd.at
<1>1. CASE Pwd \/ Nlst \/ List \/ Stor \/ Retr \/ Hangup \/ Quit \/ QuitClose
  BY <1>1 DEF Pwd, Nlst, List, Stor, Retr, Promise, Hangup, Quit, QuitClose, fsVars
<1>2. CASE Mkd \/ Rmd \/ Dele
  BY <1>2, RemoveStays DEF Mkd, Rmd, Dele, MakeDir, fsVars
<1>3. CASE StorOpen \/ RetrOpen \/ NoOpen \/ Store \/ StoreDone \/ Send \/ SendDone
  BY <1>3 DEF StorOpen, RetrOpen, TakeData, NoOpen, Store, StoreDone, Send, SendDone,
              WriteFile, fsVars, srvVars
<1>4. CASE UNCHANGED vars \/ \E c \in Client : ClientStep(c) \/ Typing(c)
  BY <1>4 DEF ClientStep, Typing, vars, fsVars, srvVars
<1> QED
  BY <1>1, <1>2, <1>3, <1>4 DEF Next, ServerStep, ServerNext

\* What a name is extended by is the last part of the result.
LEMMA LastPart ==
  ASSUME NEW S, NEW s \in Seq(S), NEW t \in Seq(S)
  PROVE  /\ Len(s) \in 0 .. Len(s \o t)
         /\ SubSeq(s \o t, Len(s) + 1, Len(s \o t)) = t
<1>1. Len(s) \in Nat /\ Len(t) \in Nat /\ Len(s \o t) = Len(s) + Len(t)
  BY LenProperties, ConcatProperties
<1>2. CASE t = <<>>
  <2>1. Len(s) + 1 > Len(s \o t)
    BY <1>1, <1>2, EmptySeq
  <2> QED
    BY <1>1, <1>2, <2>1, SubSeqEmpty
<1>3. CASE t # <<>>
  <2>1. Len(t) > 0
    BY <1>1, <1>3, EmptySeq
  <2> DEFINE m == Len(s) + 1
             n == Len(s) + Len(t)
  <2>2. m \in Len(s) + 1 .. Len(s) + Len(t) /\ n \in Len(s) + 1 .. Len(s) + Len(t)
    BY <1>1, <2>1
  <2>3. SubSeq(s \o t, m, n) = SubSeq(t, m - Len(s), n - Len(s))
    BY <2>2, SubSeqOfConcat2
  <2>4. m - Len(s) = 1 /\ n - Len(s) = Len(t)
    BY <1>1
  <2>5. SubSeq(t, 1, Len(t)) = t
    BY SubSeqFull
  <2> QED
    BY <1>1, <2>3, <2>4, <2>5
<1> QED
  BY <1>2, <1>3

\* An absolute WORKING_DIRECTORY names the directory the process is in; another
\* is the last part of that directory's name.
THEOREM WdCorrect == Spec => []WdDenotesCwd
<1>0. \A l : l \in Loc => Len(l) \in Nat /\ SubSeq(l, Len(l) + 1, Len(l)) = <<>>
  <2> SUFFICES ASSUME NEW l \in Loc
               PROVE  Len(l) \in Nat /\ SubSeq(l, Len(l) + 1, Len(l)) = <<>>
    OBVIOUS
  <2>1. l \in Seq(Name) /\ Len(l) \in Nat
    BY LenProperties DEF Loc
  <2>2. Len(l) + 1 > Len(l)
    BY <2>1
  <2> QED
    BY <2>1, <2>2, SubSeqEmpty
<1>1. Init => WdDenotesCwd
  <2> SUFFICES ASSUME Init PROVE WdDenotesCwd
    OBVIOUS
  <2>1. wd = NoPath /\ cwd.at \in Loc
    BY TreeAssumption DEF Init, SrvInit, FsInit
  <2>2. Len(cwd.at) \in 0 .. Len(cwd.at)
    BY <1>0, <2>1
  <2> QED
    BY <1>0, <2>1, <2>2 DEF NoPath, WdDenotesCwd
<1>2. IInv /\ WdDenotesCwd /\ [Next]_vars => WdDenotesCwd'
  <2> SUFFICES ASSUME IInv, WdDenotesCwd, [Next]_vars PROVE WdDenotesCwd'
    OBVIOUS
  <2>1. FsTypeOK
    BY DEF IInv, TypeOK
  <2>2. CASE Accept
    BY <2>2 DEF Accept, SessionWd, Absolute, fsVars, WdDenotesCwd
  <2>3. CASE Cwd
    <3>1. CASE cwd' = [live |-> TRUE, at |-> At(Asked.arg)] /\ wd' = Asked.arg
      <4>1. CASE Asked.arg.abs
        BY <3>1, <4>1 DEF At, WdDenotesCwd
      <4>2. CASE ~ Asked.arg.abs
        <5>1. cwd.at \in Loc /\ Asked.arg.at \in Loc
          <6>1. NetTypeOK /\ SrvTypeOK /\ spc = "command" /\ conn[cur].up # <<>>
            BY <2>3 DEF Cwd, Serving, IInv, TypeOK
          <6> QED
            BY <2>1, <6>1, AskedType DEF FsTypeOK, Path
        <5> DEFINE n == Len(cwd.at)
                   l == cwd.at \o Asked.arg.at
        <5>2. n \in 0 .. Len(l) /\ SubSeq(l, n + 1, Len(l)) = Asked.arg.at
          BY <5>1, LastPart DEF Loc
        <5> HIDE DEF n, l
        <5>3. cwd'.at = l /\ wd'.at = Asked.arg.at /\ ~ wd'.abs
          BY <3>1, <4>2 DEF At, l
        <5> QED
          BY <5>2, <5>3 DEF WdDenotesCwd
      <4> QED
        BY <4>1, <4>2
    <3>2. CASE UNCHANGED <<cwd, wd>>
      BY <3>2 DEF WdDenotesCwd
    <3> QED
      BY <2>3, <3>1, <3>2 DEF Cwd
  <2>4. CASE ~ Accept /\ ~ Cwd
    BY <2>1, <2>4, WdStays DEF WdDenotesCwd
  <2> QED
    BY <2>2, <2>3, <2>4
<1>3. Init => IInv
  BY InitIInv
<1>4. IInv /\ [Next]_vars => IInv'
  BY NextIInv
<1> QED
  BY <1>1, <1>2, <1>3, <1>4, PTL DEF Spec

\* What makes the string absolute from one session to the next: no request on
\* its way has a relative CWD in it, and between two sessions either the string
\* is absolute or getcwd() will succeed.
AbsoluteInv ==
  (\A r \in Request : r.op = "CWD" => r.arg.abs) =>
    /\ cur # NoClient => wd.abs
    /\ cur = NoClient => wd.abs \/ cwd.live
    /\ \A c \in Client : \A i \in 1 .. Len(conn[c].up) :
         conn[c].up[i].op = "CWD" => conn[c].up[i].arg.abs

\* What a step does to the requests on their way to the server.
LEMMA UpChanges ==
  ASSUME TypeOK, [Next]_vars, NEW c \in Client
  PROVE  \/ conn'[c].up = conn[c].up
         \/ conn'[c].up = <<>>
         \/ conn[c].up # <<>> /\ conn'[c].up = Tail(conn[c].up)
         \/ \E r \in Request :
              conn'[c].up = Append(conn[c].up, NextLine(c, r.op, r.arg, r.src))
         \/ conn'[c].up =
              Append(conn[c].up, NextLine(c, "QUIT", NoPath, NoSource))
<1>1. /\ conn \in [Client -> Duplex(Line, Piece)]
      /\ \A d \in Client : conn[d] \in Duplex(Line, Piece)
  BY DEF TypeOK, NetTypeOK
<1>0. ASSUME NEW d, NEW x,
             \/ conn' = [conn EXCEPT ![d].down = x]
             \/ conn' = [conn EXCEPT ![d].upEof = TRUE]
      PROVE  conn'[c].up = conn[c].up
  <2>1. CASE conn' = [conn EXCEPT ![d].down = x]
    BY <1>1, <2>1 DEF Duplex
  <2>2. CASE conn' = [conn EXCEPT ![d].upEof = TRUE]
    BY <1>1, <2>2 DEF Duplex
  <2> QED
    BY <1>0, <2>1, <2>2
<1>2. CASE UNCHANGED conn
  BY <1>2
<1>3. ASSUME NEW pieces, NEW pc, Answer(pieces, pc), conn[cur].up # <<>>
      PROVE  \/ conn'[c].up = conn[c].up
             \/ conn[c].up # <<>> /\ conn'[c].up = Tail(conn[c].up)
  BY <1>1, <1>3 DEF Answer, Duplex
<1>4. CASE Pwd \/ Nlst \/ List \/ Cwd \/ Mkd \/ Rmd \/ Dele \/ Stor \/ Retr
  BY <1>3, <1>4 DEF Pwd, Nlst, List, Cwd, Mkd, Rmd, Dele, Stor, Retr, Promise,
                    Serving
<1>5. CASE Quit
  BY <1>1, <1>5 DEF Quit, Serving, Duplex
<1>6. CASE StorOpen \/ RetrOpen
  <2>1. CASE UNCHANGED conn
    BY <2>1
  <2>2. CASE Notice
    BY <1>0, <2>2 DEF Notice
  <2> QED
    BY <1>6, <2>1, <2>2 DEF StorOpen, RetrOpen
<1>7. CASE Accept \/ Hangup \/ QuitClose \/ NoOpen \/ Store \/ StoreDone
           \/ Send \/ SendDone \/ UNCHANGED vars
  BY <1>2, <1>7 DEF Accept, Hangup, QuitClose, NoOpen, Store, StoreDone, Send,
                    SendDone, netVars, vars
<1>8. ASSUME NEW d \in Client, Die(d)
      PROVE  conn'[c].up = conn[c].up
  BY <1>0, <1>8 DEF Die
<1>9. ASSUME NEW d \in Client, ProgramStep(d)
      PROVE  conn'[c].up = conn[c].up
  <2>1. CASE ReadReply(d)
    <3>1. \/ Die(d)
          \/ \E x : conn' = [conn EXCEPT ![d].down = x]
      BY <2>1 DEF ReadReply
    <3> QED
      BY <1>0, <1>8, <3>1
  <2>2. CASE DialPut(d) \/ DialGet(d)
    BY <1>0, <2>2 DEF DialPut, DialGet, Opened, NotOpened
  <2>3. CASE Put(d) \/ PutDone(d) \/ Get(d) \/ GetDone(d)
    BY <1>8, <2>3 DEF Put, PutDone, Get, GetDone
  <2>4. CASE Bye(d)
    BY <1>0, <2>4 DEF Bye
  <2> QED
    BY <1>9, <2>1, <2>2, <2>3, <2>4 DEF ProgramStep
<1>10. ASSUME NEW d \in Client, UserStep(d)
       PROVE  \/ conn'[c].up = conn[c].up
              \/ conn'[c].up = <<>>
              \/ \E r \in Request :
                   conn'[c].up = Append(conn[c].up, NextLine(c, r.op, r.arg, r.src))
              \/ conn'[c].up =
                   Append(conn[c].up, NextLine(c, "QUIT", NoPath, NoSource))
  <2>1. CASE Connect(d)
    <3>1. CASE Die(d)
      BY <1>8, <3>1
    <3>2. CASE conn' = [conn EXCEPT ![d] = Fresh]
      BY <1>1, <3>2 DEF Fresh
    <3> QED
      BY <2>1, <3>1, <3>2 DEF Connect
  <2>2. ASSUME NEW l, Submit(d, l)
        PROVE  \/ conn'[c].up = conn[c].up
               \/ d = c /\ conn'[c].up = Append(conn[c].up, l)
    BY <1>1, <1>8, <2>2 DEF Submit, Write, Duplex
  <2>3. CASE Type(d)
    BY <2>2, <2>3 DEF Type
  <2>4. CASE TypeQuit(d)
    BY <2>2, <2>4 DEF TypeQuit
  <2>5. CASE Kill(d)
    BY <1>8, <2>5 DEF Kill
  <2> QED
    BY <1>10, <2>1, <2>3, <2>4, <2>5 DEF UserStep
<1> QED
  BY <1>4, <1>5, <1>6, <1>7, <1>9, <1>10
  DEF Next, ServerStep, ServerNext, ClientStep, Typing

\* Without relative CWD requests WORKING_DIRECTORY is absolute in every session.
THEOREM WdAbsolute == Spec => []AbsoluteWd
<1>1. Init => AbsoluteInv
  BY DEF Init, SrvInit, FsInit, NetInit, Fresh, AbsoluteInv
<1>2. IInv /\ AbsoluteInv /\ [Next]_vars => AbsoluteInv'
  <2> SUFFICES ASSUME IInv, AbsoluteInv, [Next]_vars,
                      \A r \in Request : r.op = "CWD" => r.arg.abs
               PROVE  /\ (cur # NoClient => wd.abs)'
                      /\ (cur = NoClient => wd.abs \/ cwd.live)'
                      /\ \A c \in Client : \A i \in 1 .. Len(conn'[c].up) :
                           conn'[c].up[i].op = "CWD" => conn'[c].up[i].arg.abs
    BY DEF AbsoluteInv
  <2>1. TypeOK /\ NetTypeOK /\ FsTypeOK /\ SrvTypeOK /\ CliTypeOK
    BY DEF IInv, TypeOK
  <2>2. /\ cur # NoClient => wd.abs
        /\ cur = NoClient => wd.abs \/ cwd.live
        /\ \A c \in Client : \A i \in 1 .. Len(conn[c].up) :
             conn[c].up[i].op = "CWD" => conn[c].up[i].arg.abs
    BY DEF AbsoluteInv
  <2>3. ASSUME NEW c \in Client, NEW i \in 1 .. Len(conn'[c].up),
               conn'[c].up[i].op = "CWD"
        PROVE  conn'[c].up[i].arg.abs
    <3>1. conn[c].up \in Seq(Line)
      BY <2>1 DEF NetTypeOK, Duplex
    <3>2. CASE conn'[c].up = conn[c].up \/ conn'[c].up = <<>>
      BY <2>2, <2>3, <3>2
    <3>3. CASE conn[c].up # <<>> /\ conn'[c].up = Tail(conn[c].up)
      BY <2>2, <2>3, <3>1, <3>3, HeadTailProperties
    <3>4. ASSUME NEW l, conn'[c].up = Append(conn[c].up, l), l.op = "CWD" => l.arg.abs
          PROVE  conn'[c].up[i].arg.abs
      BY <2>2, <2>3, <3>1, <3>4, AppendProperties
    <3>5. /\ \A r \in Request :
                LET l == NextLine(c, r.op, r.arg, r.src)
                IN  l.op = "CWD" => l.arg.abs
          /\ NextLine(c, "QUIT", NoPath, NoSource).op # "CWD"
      BY DEF NextLine
    <3> QED
      BY <2>1, <3>2, <3>3, <3>4, <3>5, UpChanges
  <2>4. CASE Accept
    BY <2>2, <2>4, <2>3 DEF Accept, SessionWd, Absolute, fsVars
  <2>5. CASE Cwd
    <3>1. cur' = cur /\ cur # NoClient /\ conn[cur].up # <<>>
      BY <2>1, <2>5, ClientAssumption DEF Cwd, Serving, Answer, SrvTypeOK
    <3>2. Asked.op = "CWD" => Asked.arg.abs
      BY <2>1, <2>2, <3>1, HeadTailProperties DEF Asked, NetTypeOK, SrvTypeOK, Duplex
    <3> QED
      BY <2>2, <2>3, <2>5, <3>1, <3>2 DEF Cwd, Serving, Asked
  <2>6. CASE ~ Accept /\ ~ Cwd
    <3>1. wd' = wd
      BY <2>1, <2>6, WdStays
    <3>2. CASE cur # NoClient
      BY <2>2, <2>3, <3>1, <3>2
    <3>3. CASE cur = NoClient
      <4>1. spc \in {"accept", "exited", "crashed"}
        BY <2>1, <3>3, ClientAssumption DEF SrvTypeOK
      <4>2. ~ ServerStep
        BY <2>6, <4>1
        DEF ServerStep, ServerNext, Hangup, Pwd, Nlst, List, Cwd, Mkd, Rmd, Dele,
            Stor, Retr, StorOpen, RetrOpen, TakeData, NoOpen, Store, StoreDone, Send,
            SendDone, Quit, QuitClose, Serving
      <4>3. cur' = cur /\ cwd' = cwd
        BY <4>2 DEF Next, ClientStep, Typing, vars, fsVars, srvVars
      <4> QED
        BY <2>2, <2>3, <3>1, <3>3, <4>3
    <3> QED
      BY <3>2, <3>3
  <2> QED
    BY <2>4, <2>5, <2>6
<1>3. AbsoluteInv => AbsoluteWd
  BY DEF AbsoluteInv, AbsoluteWd
<1>4. Init => IInv
  BY InitIInv
<1>5. IInv /\ [Next]_vars => IInv'
  BY NextIInv
<1> QED
  BY <1>1, <1>2, <1>3, <1>4, <1>5, PTL DEF Spec

----------------------------------------------------------------------------
(* The data port: every connection that reaches it is the one that the     *)
(* request being served asked for.                                         *)
(*                                                                         *)
(* Nothing in the protocol ties a data connection to a request.  What does *)
(* is that an "OK" is answered by one dial and the server serves nothing   *)
(* else until it has taken it; and that a client which has an "OK" to read *)
(* has no other reply to read, because it never sends a request before the *)
(* reply to the previous one.  Both halves need each other.                *)

Ends(s) == {i \in 1 .. Len(s) : EndsLine(s[i])}
HasOk(s) == \E i \in 1 .. Len(s) : s[i].st = "OK"

\* A client has at most one request unanswered, and at most one reply unread,
\* and not both; the stream ends only for a client that has asked for it.
OneAtATime(c) ==
  /\ conn[c].upEof => cpc[c] \in {"done", "dead"}
  /\ alive /\ cpc[c] \notin {"wait", "dead"} => conn[c].up = <<>>
  /\ alive /\ cpc[c] = "wait" => conn[c].up \in {<<>>, <<last[c]>>}
  /\ cpc[c] \notin {"wait", "dead"} => Ends(conn[c].down) = {}
  /\ alive /\ cpc[c] = "wait" /\ conn[c].up # <<>> => Ends(conn[c].down) = {}
  /\ cpc[c] = "wait" => \A i, j \in Ends(conn[c].down) : i = j
  /\ alive /\ conn[c].downEof =>
       \/ cpc[c] \in {"bye", "done", "dead"}
       \/ cpc[c] = "wait" /\ last[c].op = "QUIT" /\ conn[c].up = <<>>

\* The dial that the server waits for is still to be made.
Expected(c) ==
  /\ spc = "dataAccept"
  /\ cur = c
  /\ job = last[c]
  /\ dataBacklog = <<>>

\* An "OK" not yet read, or read and not yet acted upon, means just that.
OkMeansExpected(c) ==
  /\ cpc[c] = "dial" => Expected(c)
  /\ cpc[c] = "wait" /\ HasOk(conn[c].down) => Expected(c)

OnlyExpectedDial ==
  dataBacklog # <<>> => spc = "dataAccept" /\ dataBacklog = <<<<cur, job.n>>>>

AliveInv == alive <=> spc \notin {"exited", "crashed"}

PortInv ==
  /\ IInv
  /\ AliveInv
  /\ OnlyExpectedDial
  /\ \A c \in Client : OneAtATime(c) /\ OkMeansExpected(c)

----------------------------------------------------------------------------
(* Sequences of pieces of reply.                                           *)

\* A notice is not the end of a line, and not an "OK".
LEMMA AppendEnds ==
  ASSUME NEW s \in Seq(Piece), NEW p \in Piece, ~ EndsLine(p)
  PROVE  /\ Ends(Append(s, p)) = Ends(s)
         /\ HasOk(Append(s, p)) => HasOk(s)
<1>1. /\ Len(Append(s, p)) = Len(s) + 1
      /\ \A i \in 1 .. Len(s) : Append(s, p)[i] = s[i]
      /\ Append(s, p)[Len(s) + 1] = p
      /\ Len(s) \in Nat
  BY AppendProperties, LenProperties
<1>2. \A i \in 1 .. Len(s) + 1 : i \in 1 .. Len(s) \/ i = Len(s) + 1
  BY <1>1
<1>3. p.st # "OK"
  BY DEF EndsLine
<1> QED
  BY <1>1, <1>2, <1>3 DEF Ends, HasOk

\* A reply put behind notices makes one line end at most.
LEMMA ConcatEnds ==
  ASSUME NEW s \in Seq(Piece), Ends(s) = {}, NEW t \in Seq(Piece), Len(t) <= 1
  PROVE  /\ \A i, j \in Ends(s \o t) : i = j
         /\ HasOk(s \o t) => HasOk(t)
         /\ Ends(t) = {} => Ends(s \o t) = {}
<1>1. /\ Len(s \o t) = Len(s) + Len(t)
      /\ \A i \in 1 .. Len(s) + Len(t) :
           (s \o t)[i] = IF i <= Len(s) THEN s[i] ELSE t[i - Len(s)]
      /\ Len(s) \in Nat /\ Len(t) \in Nat
  BY ConcatProperties, LenProperties
<1>2. \A i \in 1 .. Len(s) : ~ EndsLine(s[i]) /\ s[i].st # "OK"
  BY DEF Ends, EndsLine
<1>3. ASSUME NEW i \in 1 .. Len(s) + Len(t),
             EndsLine((s \o t)[i]) \/ (s \o t)[i].st = "OK"
      PROVE  i = Len(s) + 1 /\ Len(t) = 1 /\ (s \o t)[i] = t[1]
  <2>1. ~ (i <= Len(s))
    <3>1. ASSUME i <= Len(s)
          PROVE  i \in 1 .. Len(s) /\ (s \o t)[i] = s[i]
      BY <1>1, <3>1
    <3> QED
      BY <1>2, <1>3, <3>1
  <2>2. i = Len(s) + 1 /\ Len(t) = 1 /\ i - Len(s) = 1
    <3>1. \A n, m \in Nat : \A k \in 1 .. n + m :
            m <= 1 /\ ~ (k <= n) => k = n + 1 /\ m = 1 /\ k - n = 1
      OBVIOUS
    <3>2. Len(s) \in Nat /\ Len(t) \in Nat
      BY <1>1
    <3> QED
      BY <2>1, <3>1, <3>2
  <2> QED
    BY <1>1, <2>1, <2>2
<1>4. \A i, j \in Ends(s \o t) : i = j
  BY <1>1, <1>3 DEF Ends
<1>5. HasOk(s \o t) => HasOk(t)
  BY <1>1, <1>3 DEF HasOk
<1>6. Ends(t) = {} => Ends(s \o t) = {}
  BY <1>1, <1>3 DEF Ends
<1> QED
  BY <1>4, <1>5, <1>6

\* When the only line has been read, no line is left.
LEMMA SuffixEnds ==
  ASSUME NEW s \in Seq(Piece), \A i, j \in Ends(s) : i = j,
         NEW k \in 0 .. Len(s), k \in Ends(s) \/ k = Len(s)
  PROVE  Ends(SubSeq(s, k + 1, Len(s))) = {}
<1> DEFINE t == SubSeq(s, k + 1, Len(s))
<1>1. /\ Len(t) = Len(s) - k
      /\ \A i \in 1 .. Len(s) - k : t[i] = s[k + i]
      /\ Len(s) \in Nat
  BY SubSeqProperties, LenProperties
<1>2. ASSUME NEW i \in 1 .. Len(t), EndsLine(t[i])
      PROVE  FALSE
  <2>1. k + i \in 1 .. Len(s) /\ k + i # k /\ k # Len(s) /\ EndsLine(s[k + i])
    BY <1>1, <1>2
  <2> QED
    BY <2>1 DEF Ends
<1> QED
  BY <1>2 DEF Ends

----------------------------------------------------------------------------
(* What a step that does not concern a client preserves.                   *)

LEMMA FrameOne ==
  ASSUME NEW c \in Client, OneAtATime(c),
         conn'[c] = conn[c], cpc'[c] = cpc[c], last'[c] = last[c], alive' => alive
  PROVE  OneAtATime(c)'
  BY DEF OneAtATime

LEMMA FrameExpected ==
  ASSUME NEW c \in Client, OkMeansExpected(c),
         conn'[c].down = conn[c].down, cpc'[c] = cpc[c], last'[c] = last[c],
         UNCHANGED <<spc, cur, job, dataBacklog>>
  PROVE  OkMeansExpected(c)'
  BY DEF OkMeansExpected, Expected

LEMMA FrameNotExpected ==
  ASSUME NEW c \in Client, OkMeansExpected(c), ~ Expected(c),
         HasOk(conn'[c].down) => HasOk(conn[c].down), cpc'[c] = cpc[c]
  PROVE  OkMeansExpected(c)'
  BY DEF OkMeansExpected

----------------------------------------------------------------------------
(* The server's steps.                                                     *)

\* Between two requests no dial is expected, and what the server is about to
\* read is the only request of a client that waits for its reply, or left.
LEMMA AtCommand ==
  ASSUME PortInv, spc = "command", conn[cur].up # <<>>
  PROVE  /\ cur \in Client /\ alive /\ dataBacklog = <<>>
         /\ \A c \in Client : ~ Expected(c)
         /\ ~ HasOk(conn[cur].down) \/ cpc[cur] = "dead"
         /\ \/ cpc[cur] = "dead"
            \/ /\ cpc[cur] = "wait" /\ ~ conn[cur].upEof /\ ~ conn[cur].downEof
               /\ Asked = last[cur] /\ Tail(conn[cur].up) = <<>>
               /\ Ends(conn[cur].down) = {}
<1>1. cur \in Client
  BY DEF PortInv, IInv, TypeOK, SrvTypeOK
<1>2. alive /\ dataBacklog = <<>>
  BY DEF PortInv, AliveInv, OnlyExpectedDial
<1>3. \A c \in Client : ~ Expected(c)
  BY DEF Expected
<1>4. OneAtATime(cur) /\ OkMeansExpected(cur)
  BY <1>1 DEF PortInv
<1>5. cpc[cur] = "dead" \/ (cpc[cur] = "wait" /\ conn[cur].up = <<last[cur]>>)
  BY <1>2, <1>4 DEF OneAtATime
<1>6. CASE cpc[cur] = "dead"
  BY <1>1, <1>2, <1>3, <1>6
<1>7. CASE cpc[cur] = "wait" /\ conn[cur].up = <<last[cur]>>
  <2>1. Asked = last[cur] /\ Tail(conn[cur].up) = <<>>
    BY <1>7 DEF Asked
  <2> QED
    BY <1>1, <1>2, <1>3, <1>4, <1>7, <2>1 DEF OneAtATime, OkMeansExpected
<1> QED
  BY <1>5, <1>6, <1>7

\* A step of the server that answers a request with at most one piece keeps
\* every client to one thing at a time.
LEMMA AnswerOne ==
  ASSUME PortInv, spc = "command", conn[cur].up # <<>>,
         UNCHANGED <<cpc, last, cur>>, alive' => alive,
         NEW pieces \in Seq(Piece), Len(pieces) <= 1,
         NEW e \in BOOLEAN,
         e => Asked.op = "QUIT" /\ Ends(pieces) = {},
         conn' = [conn EXCEPT ![cur].up = Tail(@), ![cur].down = @ \o pieces,
                              ![cur].downEof = IF e THEN TRUE ELSE @]
  PROVE  /\ \A c \in Client : OneAtATime(c)'
         /\ \A c \in Client : c # cur => conn'[c] = conn[c]
         /\ cpc[cur] = "wait" /\ HasOk(conn'[cur].down) => HasOk(pieces)
<1>1. /\ conn \in [Client -> Duplex(Line, Piece)]
      /\ \A c \in Client : OneAtATime(c)
      /\ cur \in Client
  BY AtCommand DEF PortInv, IInv, TypeOK, NetTypeOK
<1>2. \A c \in Client : c # cur => conn'[c] = conn[c]
  BY <1>1
<1>3. /\ conn'[cur].up = Tail(conn[cur].up)
      /\ conn'[cur].upEof = conn[cur].upEof
      /\ conn'[cur].down = conn[cur].down \o pieces
      /\ conn'[cur].downEof => e \/ conn[cur].downEof
      /\ conn[cur].down \in Seq(Piece)
  BY <1>1 DEF Duplex
<1>4. ASSUME NEW c \in Client, c # cur
      PROVE  OneAtATime(c)'
  BY <1>1, <1>2, <1>4, FrameOne
<1>5. CASE cpc[cur] = "dead"
  <2>1. OneAtATime(cur)'
    BY <1>1, <1>3, <1>5 DEF OneAtATime
  <2> QED
    BY <1>2, <1>4, <1>5, <2>1
<1>6. CASE cpc[cur] = "wait"
  <2>1. /\ ~ conn[cur].upEof /\ ~ conn[cur].downEof
        /\ Asked = last[cur] /\ Tail(conn[cur].up) = <<>>
        /\ Ends(conn[cur].down) = {}
    BY <1>6, AtCommand
  <2>2. /\ \A i, j \in Ends(conn'[cur].down) : i = j
        /\ HasOk(conn'[cur].down) => HasOk(pieces)
    <3>1. /\ \A i, j \in Ends(conn[cur].down \o pieces) : i = j
          /\ HasOk(conn[cur].down \o pieces) => HasOk(pieces)
      BY <1>3, <2>1, ConcatEnds
    <3> QED
      BY <1>3, <3>1
  <2>3. OneAtATime(cur)'
    BY <1>1, <1>3, <1>6, <2>1, <2>2 DEF OneAtATime
  <2> QED
    BY <1>2, <1>4, <2>2, <2>3
<1> QED
  BY <1>5, <1>6, AtCommand

\* A reply is one piece, and an "OK" only if it says so.
LEMMA ReplyOne ==
  ASSUME NEW st
  PROVE  /\ Len(Reply(st)) = 1
         /\ HasOk(Reply(st)) => st = "OK"
         /\ st = "bye" => Ends(Reply(st)) = {}
  BY DEF Reply, HasOk, Ends, EndsLine

LEMMA RepliesOne ==
  /\ Len(ListReply) = 1 /\ ~ HasOk(ListReply)
  /\ \A e : /\ Len(MkdReply(e)) <= 1 /\ ~ HasOk(MkdReply(e))
            /\ Len(RmdReply(e)) <= 1 /\ ~ HasOk(RmdReply(e))
<1>1. Len(<<>>) = 0 /\ ~ HasOk(<<>>)
  BY DEF HasOk
<1> QED
  BY <1>1, ReplyOne DEF ListReply, MkdReply, RmdReply

\* Clients to whom nothing is due keep the rest of the invariant.
LEMMA AnswerPort ==
  ASSUME PortInv, spc = "command", conn[cur].up # <<>>, UNCHANGED <<cpc, last>>,
         NEW pieces \in Seq(Piece), Len(pieces) <= 1,
         NEW pc \in {"command", "dataAccept"}, Answer(pieces, pc),
         \/ pc = "command" /\ ~ HasOk(pieces)
         \/ pc = "dataAccept" /\ job' = Asked
  PROVE  /\ AliveInv' /\ OnlyExpectedDial'
         /\ \A c \in Client : OneAtATime(c)' /\ OkMeansExpected(c)'
<1>1. /\ cur \in Client /\ alive /\ dataBacklog = <<>>
      /\ \A c \in Client : ~ Expected(c) /\ OkMeansExpected(c)
      /\ ~ (cpc[cur] = "wait" /\ conn[cur].upEof)
  BY AtCommand DEF PortInv
<1>2. /\ UNCHANGED <<dataBacklog, cur>>
      /\ ContinueOrBroken(pc, conn[cur].upEof)
      /\ conn' = [conn EXCEPT ![cur].up = Tail(@), ![cur].down = @ \o pieces]
  BY DEF Answer
<1>3. AliveInv' /\ OnlyExpectedDial'
  BY <1>1, <1>2 DEF ContinueOrBroken, AliveInv, OnlyExpectedDial
<1>4. conn' = [conn EXCEPT ![cur].up = Tail(@), ![cur].down = @ \o pieces,
                           ![cur].downEof = IF FALSE THEN TRUE ELSE @]
  BY <1>1, <1>2 DEF PortInv, IInv, TypeOK, NetTypeOK, Duplex
<1>5. /\ \A c \in Client : OneAtATime(c)'
      /\ \A c \in Client : c # cur => conn'[c] = conn[c]
      /\ cpc[cur] = "wait" /\ HasOk(conn'[cur].down) => HasOk(pieces)
  <2>1. FALSE \in BOOLEAN
    OBVIOUS
  <2>2. alive' => alive
    BY <1>1
  <2> QED
    BY <1>2, <1>4, <2>1, <2>2, AnswerOne
<1>6. ASSUME NEW c \in Client, c # cur
      PROVE  OkMeansExpected(c)'
  BY <1>1, <1>5, <1>6, FrameNotExpected
<1>7. OkMeansExpected(cur)'
  <2>1. cpc[cur] # "dial"
    BY AtCommand
  <2>2. ASSUME cpc[cur] = "wait", HasOk(conn'[cur].down)
        PROVE  Expected(cur)'
    BY <1>1, <1>2, <1>5, <2>2, AtCommand DEF ContinueOrBroken, Expected
  <2> QED
    BY <1>2, <2>1, <2>2 DEF OkMeansExpected
<1> QED
  BY <1>1, <1>2, <1>3, <1>5, <1>6, <1>7

\* The handlers that read a request.
LEMMA CommandPort ==
  ASSUME PortInv, UNCHANGED <<cpc, last>>,
         \/ Pwd \/ Nlst \/ List \/ Cwd \/ Mkd \/ Rmd \/ Dele
         \/ Stor \/ Retr \/ Quit
  PROVE  /\ AliveInv' /\ OnlyExpectedDial'
         /\ \A c \in Client : OneAtATime(c)' /\ OkMeansExpected(c)'
<1>1. spc = "command" /\ conn[cur].up # <<>> /\ NetTypeOK /\ SrvTypeOK
  BY DEF PortInv, IInv, TypeOK, Pwd, Nlst, List, Cwd, Mkd, Rmd, Dele, Stor, Retr,
         Quit, Serving
<1>2. ASSUME NEW pieces \in Seq(Piece), Len(pieces) <= 1, ~ HasOk(pieces),
             Answer(pieces, "command")
      PROVE  /\ AliveInv' /\ OnlyExpectedDial'
             /\ \A c \in Client : OneAtATime(c)' /\ OkMeansExpected(c)'
  BY <1>1, <1>2, AnswerPort
<1>3. /\ \A st \in {"text", "success", "fail"} :
           Reply(st) \in Seq(Piece) /\ Len(Reply(st)) <= 1 /\ ~ HasOk(Reply(st))
      /\ Reply("OK") \in Seq(Piece) /\ Len(Reply("OK")) <= 1
      /\ Reply("bye") \in Seq(Piece) /\ Len(Reply("bye")) <= 1
      /\ Ends(Reply("bye")) = {} /\ ~ HasOk(Reply("bye"))
  <2>1. \A st \in {"text", "success", "fail", "OK", "bye"} :
          Reply(st) \in Seq(Piece)
    BY <1>1, ReplyType
  <2>2. \A st : /\ Len(Reply(st)) <= 1
                /\ HasOk(Reply(st)) => st = "OK"
                /\ st = "bye" => Ends(Reply(st)) = {}
    <3>1. \A n : n = 1 => n <= 1
      OBVIOUS
    <3> QED
      BY <3>1, ReplyOne
  <2> QED
    BY <2>1, <2>2
<1>4. CASE Pwd \/ Nlst \/ List \/ Cwd \/ Mkd \/ Rmd \/ Dele
  <2>1. /\ ListReply \in Seq(Piece) /\ Len(ListReply) <= 1
        /\ \A e : /\ MkdReply(e) \in Seq(Piece) /\ Len(MkdReply(e)) <= 1
                  /\ RmdReply(e) \in Seq(Piece) /\ Len(RmdReply(e)) <= 1
    BY <1>1, ReplyTypes, RepliesOne
  <2>2. CASE Pwd \/ Nlst \/ List
    BY <1>2, <1>3, <2>1, <2>2, RepliesOne DEF Pwd, Nlst, List
  <2>3. CASE Cwd \/ Dele
    BY <1>2, <1>3, <2>3 DEF Cwd, Dele
  <2>4. CASE Mkd \/ Rmd
    BY <1>2, <1>3, <2>1, <2>4, RepliesOne DEF Mkd, Rmd
  <2> QED
    BY <1>4, <2>2, <2>3, <2>4
<1>5. CASE Stor \/ Retr
  <2>1. Answer(Reply("OK"), "dataAccept") /\ job' = Asked
    BY <1>5 DEF Stor, Retr, Promise
  <2> QED
    BY <1>1, <1>3, <2>1, AnswerPort
<1>6. CASE Quit
  <2>1. /\ cur \in Client /\ alive /\ dataBacklog = <<>>
        /\ \A c \in Client : ~ Expected(c) /\ OkMeansExpected(c)
        /\ Asked.op = "QUIT"
    BY <1>1, <1>6, AtCommand DEF PortInv, Quit, Serving, Asked
  <2>2. /\ conn' = [conn EXCEPT ![cur].up = Tail(@),
                                ![cur].down = @ \o Reply("bye"),
                                ![cur].downEof = TRUE]
        /\ UNCHANGED <<cur, dataBacklog>>
        /\ ContinueOrBroken("quit", conn[cur].upEof)
    BY <1>6 DEF Quit
  <2>3. conn' = [conn EXCEPT ![cur].up = Tail(@),
                             ![cur].down = @ \o Reply("bye"),
                             ![cur].downEof = IF TRUE THEN TRUE ELSE @]
    BY <2>2
  <2>4. /\ \A c \in Client : OneAtATime(c)'
        /\ \A c \in Client : c # cur => conn'[c] = conn[c]
        /\ cpc[cur] = "wait" => ~ HasOk(conn'[cur].down)
    <3>1. TRUE \in BOOLEAN /\ (alive' => alive)
      BY <2>1
    <3>2. UNCHANGED <<cpc, last, cur>>
      BY <2>2
    <3> QED
      BY <1>1, <1>3, <2>1, <2>3, <3>1, <3>2, AnswerOne
  <2>5. AliveInv' /\ OnlyExpectedDial'
    BY <2>1, <2>2 DEF ContinueOrBroken, AliveInv, OnlyExpectedDial
  <2>6. ASSUME NEW c \in Client
        PROVE  OkMeansExpected(c)'
    <3>1. cpc[c] # "dial" /\ ~ (cpc[c] = "wait" /\ HasOk(conn[c].down))
      BY <2>1 DEF OkMeansExpected
    <3>2. ~ (cpc[c] = "wait" /\ HasOk(conn'[c].down))
      BY <2>4, <3>1
    <3> QED
      BY <3>1, <3>2 DEF OkMeansExpected
  <2> QED
    BY <2>4, <2>5, <2>6
<1> QED
  BY <1>4, <1>5, <1>6

\* The steps in which the server does not touch a command connection.
LEMMA QuietPort ==
  ASSUME PortInv, UNCHANGED <<cpc, last, conn, dataBacklog>>, alive' => alive,
         AliveInv', spc # "dataAccept"
  PROVE  /\ OnlyExpectedDial'
         /\ \A c \in Client : OneAtATime(c)' /\ OkMeansExpected(c)'
<1>1. OnlyExpectedDial'
  BY DEF PortInv, OnlyExpectedDial
<1>2. ASSUME NEW c \in Client
      PROVE  OneAtATime(c)' /\ OkMeansExpected(c)'
  <2>1. OneAtATime(c) /\ OkMeansExpected(c) /\ ~ Expected(c)
    BY DEF PortInv, Expected
  <2>2. OneAtATime(c)'
    BY <2>1, FrameOne
  <2>3. OkMeansExpected(c)'
    BY <2>1, FrameNotExpected
  <2> QED
    BY <2>2, <2>3
<1> QED
  BY <1>1, <1>2

\* The server takes the connection it waits for: nobody is to dial any more.
LEMMA OpenPort ==
  ASSUME PortInv, UNCHANGED <<cpc, last>>, StorOpen \/ RetrOpen
  PROVE  /\ AliveInv' /\ OnlyExpectedDial'
         /\ \A c \in Client : OneAtATime(c)' /\ OkMeansExpected(c)'
<1>1. /\ TakeData /\ spc = "dataAccept" /\ dataBacklog # <<>>
      /\ NetTypeOK /\ SrvTypeOK /\ cur \in Client /\ alive
      /\ conn \in [Client -> Duplex(Line, Piece)]
  BY DEF PortInv, IInv, TypeOK, SrvTypeOK, NetTypeOK, AliveInv, StorOpen, RetrOpen,
         TakeData
<1>2. dataBacklog = <<<<cur, job.n>>>> /\ dataBacklog' = <<>>
  BY <1>1 DEF PortInv, OnlyExpectedDial, TakeData
<1>3. \/ conn' = conn /\ alive' = alive /\ spc' \in {"store", "send", "spin"}
      \/ Notice
  BY DEF StorOpen, RetrOpen
<1>4. AliveInv' /\ OnlyExpectedDial'
  BY <1>1, <1>2, <1>3 DEF Notice, ContinueOrBroken, AliveInv, OnlyExpectedDial
<1>5. alive' => alive
  BY <1>1
<1>6. ASSUME NEW c \in Client
      PROVE  OneAtATime(c)' /\ OkMeansExpected(c)'
  <2>1. OneAtATime(c) /\ OkMeansExpected(c) /\ ~ Expected(c)
    BY <1>1 DEF PortInv, Expected
  <2>2. CASE conn'[c] = conn[c]
    BY <1>5, <2>1, <2>2, FrameOne, FrameNotExpected
  <2>3. CASE conn'[c] # conn[c]
    <3> DEFINE p == [n |-> job.n, st |-> "noopen"]
    <3>1. c = cur /\ conn' = [conn EXCEPT ![cur].down = Append(@, p)]
      BY <1>1, <1>3, <2>3 DEF Notice
    <3>2. /\ conn'[c].up = conn[c].up
          /\ conn'[c].upEof = conn[c].upEof
          /\ conn'[c].downEof = conn[c].downEof
          /\ conn'[c].down = Append(conn[c].down, p)
          /\ conn[c].down \in Seq(Piece)
      BY <1>1, <3>1 DEF Duplex
    <3>3. p \in Piece /\ ~ EndsLine(p)
      BY <1>1 DEF SrvTypeOK, Line, Piece, EndsLine
    <3>4. /\ Ends(conn'[c].down) = Ends(conn[c].down)
          /\ HasOk(conn'[c].down) => HasOk(conn[c].down)
      <4> HIDE DEF p
      <4>1. /\ Ends(Append(conn[c].down, p)) = Ends(conn[c].down)
            /\ HasOk(Append(conn[c].down, p)) => HasOk(conn[c].down)
        BY <3>2, <3>3, AppendEnds
      <4> QED
        BY <3>2, <4>1
    <3>5. OneAtATime(c)'
      BY <1>5, <2>1, <3>2, <3>4 DEF OneAtATime
    <3>6. OkMeansExpected(c)'
      BY <2>1, <3>4, FrameNotExpected
    <3> QED
      BY <3>5, <3>6
  <2> QED
    BY <2>2, <2>3
<1> QED
  BY <1>4, <1>6

LEMMA ServerPort ==
  ASSUME PortInv, ServerStep
  PROVE  /\ AliveInv' /\ OnlyExpectedDial'
         /\ \A c \in Client : OneAtATime(c)' /\ OkMeansExpected(c)'
<1>1. UNCHANGED <<cpc, last>>
  BY DEF ServerStep, cliVars
<1>2. CASE Accept \/ Hangup \/ QuitClose
  <2>1. /\ AliveInv' /\ (alive' => alive) /\ spc # "dataAccept"
        /\ UNCHANGED <<conn, dataBacklog>>
    BY <1>2 DEF PortInv, AliveInv, Accept, Hangup, QuitClose, netVars
  <2> QED
    BY <1>1, <2>1, QuietPort
<1>3. CASE NoOpen \/ Store \/ StoreDone \/ Send \/ SendDone
  <2>1. /\ AliveInv' /\ (alive' => alive) /\ spc # "dataAccept"
        /\ UNCHANGED <<conn, dataBacklog>>
    BY <1>3 DEF PortInv, AliveInv, NoOpen, Store, StoreDone, Send, SendDone,
                ContinueOrBroken, srvVars
  <2> QED
    BY <1>1, <2>1, QuietPort
<1> QED
  BY <1>1, <1>2, <1>3, CommandPort, OpenPort DEF ServerStep, ServerNext

----------------------------------------------------------------------------
(* The clients' steps.                                                     *)

\* Whoever takes a step, what it does not touch stays as it was.
LEMMA OthersPort ==
  ASSUME PortInv, NEW c \in Client, NEW d \in Client, d # c,
         conn'[d] = conn[d], cpc'[d] = cpc[d], last'[d] = last[d],
         UNCHANGED <<srvVars, alive>>,
         dataBacklog' = dataBacklog \/ Expected(c)
  PROVE  OneAtATime(d)' /\ OkMeansExpected(d)'
<1>1. OneAtATime(d) /\ OkMeansExpected(d)
  BY DEF PortInv
<1>2. OneAtATime(d)'
  BY <1>1, FrameOne
<1>3. CASE dataBacklog' = dataBacklog
  BY <1>1, <1>2, <1>3, FrameExpected DEF srvVars
<1>4. CASE Expected(c)
  <2>1. ~ Expected(d)
    BY <1>4 DEF Expected
  <2> QED
    BY <1>1, <1>2, <2>1, FrameNotExpected
<1> QED
  BY <1>3, <1>4

\* A step of client c that leaves the data port alone.
LEMMA ClientPort ==
  ASSUME PortInv, NEW c \in Client,
         UNCHANGED <<srvVars, alive, dataBacklog>>,
         \A d \in Client : d # c =>
           conn'[d] = conn[d] /\ cpc'[d] = cpc[d] /\ last'[d] = last[d],
         OneAtATime(c)', OkMeansExpected(c)'
  PROVE  /\ AliveInv' /\ OnlyExpectedDial'
         /\ \A d \in Client : OneAtATime(d)' /\ OkMeansExpected(d)'
<1>1. AliveInv' /\ OnlyExpectedDial'
  BY DEF PortInv, srvVars, AliveInv, OnlyExpectedDial
<1>2. ASSUME NEW d \in Client, d # c
      PROVE  OneAtATime(d)' /\ OkMeansExpected(d)'
  BY <1>2, OthersPort
<1> QED
  BY <1>1, <1>2

LEMMA DiePort ==
  ASSUME PortInv, NEW c \in Client, Die(c), UNCHANGED <<srvVars>>,
         \A d \in Client : d # c => last'[d] = last[d]
  PROVE  /\ AliveInv' /\ OnlyExpectedDial'
         /\ \A d \in Client : OneAtATime(d)' /\ OkMeansExpected(d)'
<1>1. /\ conn \in [Client -> Duplex(Line, Piece)] /\ cpc \in [Client -> ClientPc]
      /\ UNCHANGED <<alive, dataBacklog>>
  BY DEF PortInv, IInv, TypeOK, NetTypeOK, CliTypeOK, Die
<1>2. /\ cpc'[c] = "dead"
      /\ \A d \in Client : d # c => conn'[d] = conn[d] /\ cpc'[d] = cpc[d]
  BY <1>1 DEF Die, Goto
<1>3. OneAtATime(c)' /\ OkMeansExpected(c)'
  BY <1>2 DEF OneAtATime, OkMeansExpected
<1> QED
  BY <1>1, <1>2, <1>3, ClientPort

LEMMA SubmitPort ==
  ASSUME PortInv, NEW c \in Client, NEW l \in Line, Submit(c, l),
         UNCHANGED srvVars
  PROVE  /\ AliveInv' /\ OnlyExpectedDial'
         /\ \A d \in Client : OneAtATime(d)' /\ OkMeansExpected(d)'
<1>1. /\ conn \in [Client -> Duplex(Line, Piece)] /\ cpc \in [Client -> ClientPc]
      /\ last \in [Client -> Line]
      /\ OneAtATime(c) /\ OkMeansExpected(c) /\ cpc[c] = "idle"
      /\ UNCHANGED <<alive, dataBacklog>>
  BY DEF PortInv, IInv, TypeOK, NetTypeOK, CliTypeOK, Submit, Write, Die
<1>2. last'[c] = l /\ \A d \in Client : d # c => last'[d] = last[d]
  BY <1>1 DEF Submit
<1>3. CASE Die(c)
  BY <1>2, <1>3, DiePort
<1>4. CASE /\ conn' = IF alive THEN [conn EXCEPT ![c].up = Append(@, l)] ELSE conn
           /\ Goto(c, "wait")
  <2>1. /\ cpc'[c] = "wait"
        /\ \A d \in Client : d # c => conn'[d] = conn[d] /\ cpc'[d] = cpc[d]
    BY <1>1, <1>4 DEF Goto
  <2>2. /\ conn'[c].upEof = conn[c].upEof
        /\ conn'[c].down = conn[c].down
        /\ conn'[c].downEof = conn[c].downEof
        /\ alive => conn'[c].up = Append(conn[c].up, l)
    BY <1>1, <1>4 DEF Duplex
  <2>3. Ends(conn[c].down) = {} /\ ~ HasOk(conn[c].down)
    BY <1>1 DEF OneAtATime, Ends, HasOk, EndsLine
  <2>4. alive => conn'[c].up = <<l>>
    <3>1. alive => conn[c].up = <<>>
      BY <1>1 DEF OneAtATime
    <3>2. Append(<<>>, l) = <<l>>
      OBVIOUS
    <3> QED
      BY <2>2, <3>1, <3>2
  <2>5. OneAtATime(c)'
    BY <1>1, <1>2, <2>1, <2>2, <2>3, <2>4 DEF OneAtATime
  <2>6. OkMeansExpected(c)'
    BY <2>1, <2>2, <2>3 DEF OkMeansExpected
  <2> QED
    BY <1>1, <1>2, <2>1, <2>5, <2>6, ClientPort
<1> QED
  BY <1>3, <1>4 DEF Submit, Write

LEMMA ReadReplyPort ==
  ASSUME PortInv, NEW c \in Client, ReadReply(c), UNCHANGED srvVars
  PROVE  /\ AliveInv' /\ OnlyExpectedDial'
         /\ \A d \in Client : OneAtATime(d)' /\ OkMeansExpected(d)'
<1> DEFINE s == conn[c].down
<1>1. /\ conn \in [Client -> Duplex(Line, Piece)] /\ cpc \in [Client -> ClientPc]
      /\ s \in Seq(Piece)
      /\ OneAtATime(c) /\ OkMeansExpected(c) /\ cpc[c] = "wait"
      /\ UNCHANGED <<alive, dataBacklog, last>>
  BY DEF PortInv, IInv, TypeOK, NetTypeOK, CliTypeOK, Duplex, ReadReply, Die
<1>2. CASE Die(c)
  BY <1>1, <1>2, DiePort
<1>3. ASSUME NEW k \in 0 .. Len(s), TakesLine(c, k), NEW pc \in {"dial", "bye", "idle"},
             Goto(c, pc), conn' = [conn EXCEPT ![c].down = SubSeq(s, k + 1, Len(s))],
             pc = "dial" => Accepted(SubSeq(s, 1, k)),
             last[c].op = "QUIT" => pc = "bye"
      PROVE  /\ AliveInv' /\ OnlyExpectedDial'
             /\ \A d \in Client : OneAtATime(d)' /\ OkMeansExpected(d)'
  <2>1. /\ cpc'[c] = pc
        /\ \A d \in Client : d # c => conn'[d] = conn[d] /\ cpc'[d] = cpc[d]
        /\ conn'[c].up = conn[c].up /\ conn'[c].upEof = conn[c].upEof
        /\ conn'[c].down = SubSeq(s, k + 1, Len(s))
        /\ conn'[c].downEof = conn[c].downEof
    BY <1>1, <1>3 DEF Goto, Duplex
  <2>2. k \in Ends(s) \/ (k = Len(s) /\ (conn[c].downEof \/ ~ alive))
    <3>1. k > 0 => k \in 1 .. Len(s)
      BY <1>1, LenProperties
    <3>2. \/ k > 0 /\ EndsLine(s[k])
          \/ k = Len(s) /\ (conn[c].downEof \/ ~ alive)
      BY <1>3 DEF TakesLine
    <3>3. k > 0 /\ EndsLine(s[k]) => k \in Ends(s)
      <4> HIDE DEF s
      <4> QED
        BY <3>1 DEF Ends
    <3> QED
      BY <3>2, <3>3
  <2>3. Ends(conn'[c].down) = {}
    <3>1. /\ \A i, j \in Ends(s) : i = j
          /\ k \in Ends(s) \/ k = Len(s)
      BY <1>1, <2>2 DEF OneAtATime
    <3> QED
      BY <1>1, <1>3, <2>1, <3>1, SuffixEnds
  <2>4. alive => conn[c].up = <<>>
    BY <1>1, <2>2 DEF OneAtATime
  <2>5. alive /\ conn[c].downEof => pc = "bye"
    BY <1>1, <1>3 DEF OneAtATime
  <2>6. OneAtATime(c)'
    BY <1>1, <2>1, <2>3, <2>4, <2>5 DEF OneAtATime
  <2>7. OkMeansExpected(c)'
    <3>1. ASSUME pc = "dial"
          PROVE  Expected(c)
      <4>1. /\ SubSeq(s, 1, k) # <<>> /\ SubSeq(s, 1, k)[1].st = "OK"
        BY <1>3, <3>1 DEF Accepted
      <4>2. k # 0 /\ 1 \in 1 .. Len(s) /\ SubSeq(s, 1, k)[1] = s[1]
        BY <1>1, <1>3, <4>1, SubSeqProperties, LenProperties
      <4> QED
        BY <1>1, <4>1, <4>2 DEF HasOk, OkMeansExpected
    <3>2. cpc'[c] = "dial" => Expected(c)'
      BY <1>1, <2>1, <3>1 DEF Expected, srvVars
    <3> QED
      BY <2>1, <3>2 DEF OkMeansExpected
  <2> QED
    BY <1>1, <2>1, <2>6, <2>7, ClientPort
<1>4. PICK k \in 0 .. Len(s) :
        /\ TakesLine(c, k)
        /\ \/ Die(c)
           \/ /\ last[c].op \notin {"STOR", "RETR"} \/ Accepted(SubSeq(s, 1, k))
              /\ Goto(c, IF last[c].op \in {"STOR", "RETR"} THEN "dial"
                         ELSE IF last[c].op = "QUIT" THEN "bye" ELSE "idle")
              /\ conn' = [conn EXCEPT ![c].down = SubSeq(s, k + 1, Len(s))]
  BY DEF ReadReply
<1>5. ASSUME ~ Die(c)
      PROVE  \E pc \in {"dial", "bye", "idle"} :
               /\ Goto(c, pc)
               /\ conn' = [conn EXCEPT ![c].down = SubSeq(s, k + 1, Len(s))]
               /\ pc = "dial" => Accepted(SubSeq(s, 1, k))
               /\ last[c].op = "QUIT" => pc = "bye"
  BY <1>4, <1>5
<1> QED
  BY <1>2, <1>3, <1>4, <1>5

LEMMA DialPort ==
  ASSUME PortInv, NEW c \in Client, DialPut(c) \/ DialGet(c), UNCHANGED srvVars
  PROVE  /\ AliveInv' /\ OnlyExpectedDial'
         /\ \A d \in Client : OneAtATime(d)' /\ OkMeansExpected(d)'
<1>1. /\ conn \in [Client -> Duplex(Line, Piece)] /\ cpc \in [Client -> ClientPc]
      /\ cpc[c] = "dial"
      /\ UNCHANGED <<alive, last>>
      /\ dataBacklog' = Append(dataBacklog, <<c, last[c].n>>)
      /\ \E pc \in {"put", "spin", "get", "dead"} :
           /\ Goto(c, pc)
           /\ \/ conn' = conn
              \/ pc = "dead" /\ conn' = [conn EXCEPT ![c].upEof = TRUE]
  BY DEF PortInv, IInv, TypeOK, NetTypeOK, CliTypeOK, DialPut, DialGet, Dial, Opened,
         NotOpened
<1>2. OneAtATime(c) /\ Expected(c) /\ AliveInv
  BY <1>1 DEF PortInv, OkMeansExpected
<1>3. dataBacklog' = <<<<cur, job.n>>>>
  <2>1. Append(<<>>, <<c, last[c].n>>) = <<<<c, last[c].n>>>>
    OBVIOUS
  <2> QED
    BY <1>1, <1>2, <2>1 DEF Expected
<1>4. AliveInv' /\ OnlyExpectedDial'
  BY <1>1, <1>2, <1>3 DEF Expected, AliveInv, OnlyExpectedDial, srvVars
<1>5. /\ cpc'[c] \in {"put", "spin", "get", "dead"}
      /\ cpc'[c] # "dead" => conn'[c] = conn[c]
      /\ \A d \in Client : d # c => conn'[d] = conn[d] /\ cpc'[d] = cpc[d]
  BY <1>1 DEF Goto
<1>6. OneAtATime(c)' /\ OkMeansExpected(c)'
  BY <1>1, <1>2, <1>5 DEF OneAtATime, OkMeansExpected
<1>7. ASSUME NEW d \in Client, d # c
      PROVE  OneAtATime(d)' /\ OkMeansExpected(d)'
  BY <1>1, <1>2, <1>5, <1>7, OthersPort
<1> QED
  BY <1>4, <1>6, <1>7

\* Moving a file, and the farewell, do not concern requests and replies.
LEMMA MovePort ==
  ASSUME PortInv, NEW c \in Client, UNCHANGED srvVars,
         Put(c) \/ PutDone(c) \/ Get(c) \/ GetDone(c) \/ Bye(c)
  PROVE  /\ AliveInv' /\ OnlyExpectedDial'
         /\ \A d \in Client : OneAtATime(d)' /\ OkMeansExpected(d)'
<1>1. /\ conn \in [Client -> Duplex(Line, Piece)] /\ cpc \in [Client -> ClientPc]
      /\ OneAtATime(c) /\ OkMeansExpected(c)
      /\ cpc[c] \in {"put", "spin", "get", "bye"}
      /\ UNCHANGED last
  BY DEF PortInv, IInv, TypeOK, NetTypeOK, CliTypeOK, Put, PutDone, Get, GetDone, Bye
<1>2. CASE Die(c)
  BY <1>1, <1>2, DiePort
<1>3. CASE /\ cpc' = cpc \/ Goto(c, "idle")
           /\ UNCHANGED <<conn, dataBacklog, alive>>
           /\ cpc[c] # "bye"
  <2>1. /\ cpc'[c] \in {cpc[c], "idle"}
        /\ \A d \in Client : d # c => cpc'[d] = cpc[d]
    BY <1>1, <1>3 DEF Goto
  <2>2. OneAtATime(c)' /\ OkMeansExpected(c)'
    BY <1>1, <1>3, <2>1 DEF OneAtATime, OkMeansExpected
  <2> QED
    BY <1>1, <1>3, <2>1, <2>2, ClientPort
<1>4. CASE Bye(c)
  <2>1. /\ cpc'[c] = "done" /\ cpc[c] = "bye"
        /\ UNCHANGED <<dataBacklog, alive>>
        /\ \A d \in Client : d # c => conn'[d] = conn[d] /\ cpc'[d] = cpc[d]
        /\ conn'[c].up = conn[c].up /\ conn'[c].down = conn[c].down
    BY <1>1, <1>4 DEF Bye, Goto, Duplex
  <2>2. OneAtATime(c)' /\ OkMeansExpected(c)'
    BY <1>1, <2>1 DEF OneAtATime, OkMeansExpected
  <2> QED
    BY <1>1, <2>1, <2>2, ClientPort
<1> QED
  BY <1>2, <1>3, <1>4 DEF Put, PutDone, Get, GetDone

LEMMA UserPort ==
  ASSUME PortInv, NEW c \in Client, UserStep(c), UNCHANGED srvVars
  PROVE  /\ AliveInv' /\ OnlyExpectedDial'
         /\ \A d \in Client : OneAtATime(d)' /\ OkMeansExpected(d)'
<1>1. /\ conn \in [Client -> Duplex(Line, Piece)] /\ cpc \in [Client -> ClientPc]
      /\ CliTypeOK
  BY DEF PortInv, IInv, TypeOK, NetTypeOK, CliTypeOK
<1>2. CASE Connect(c)
  <2>1. UNCHANGED last
    BY <1>2 DEF Connect
  <2>2. CASE Die(c)
    BY <2>1, <2>2, DiePort
  <2>3. CASE /\ conn' = [conn EXCEPT ![c] = Fresh]
             /\ Goto(c, "idle")
             /\ UNCHANGED <<data, dataBacklog, alive>>
    <3>1. /\ conn'[c] = Fresh /\ cpc'[c] = "idle"
          /\ \A d \in Client : d # c => conn'[d] = conn[d] /\ cpc'[d] = cpc[d]
      BY <1>1, <2>3 DEF Goto
    <3>2. Ends(<<>>) = {}
      BY DEF Ends
    <3>3. OneAtATime(c)' /\ OkMeansExpected(c)'
      BY <3>1, <3>2 DEF Fresh, OneAtATime, OkMeansExpected
    <3> QED
      BY <2>1, <2>3, <3>1, <3>3, ClientPort
  <2> QED
    BY <1>2, <2>2, <2>3 DEF Connect
<1>3. CASE Type(c) \/ TypeQuit(c)
  BY <1>1, <1>3, NextLineType, SubmitPort DEF Type, TypeQuit
<1>4. CASE Kill(c)
  BY <1>4, DiePort DEF Kill
<1> QED
  BY <1>2, <1>3, <1>4 DEF UserStep

----------------------------------------------------------------------------
(* The theorem.                                                            *)

LEMMA InitPort == Init => PortInv
<1> SUFFICES ASSUME Init PROVE PortInv
  OBVIOUS
<1>1. IInv
  BY InitIInv
<1>2. AliveInv /\ OnlyExpectedDial
  BY DEF Init, NetInit, SrvInit, AliveInv, OnlyExpectedDial
<1>3. Ends(<<>>) = {} /\ ~ HasOk(<<>>)
  BY DEF Ends, HasOk
<1>4. ASSUME NEW c \in Client
      PROVE  OneAtATime(c) /\ OkMeansExpected(c)
  <2>1. conn[c] = Fresh /\ cpc[c] = "off"
    BY DEF Init, NetInit, CliInit
  <2> QED
    BY <1>3, <2>1 DEF Fresh, OneAtATime, OkMeansExpected
<1> QED
  BY <1>1, <1>2, <1>4 DEF PortInv

LEMMA NextPort == PortInv /\ [Next]_vars => PortInv'
<1> SUFFICES ASSUME PortInv, [Next]_vars PROVE PortInv'
  OBVIOUS
<1>1. IInv'
  BY NextIInv DEF PortInv
<1>2. CASE ServerStep
  BY <1>1, <1>2, ServerPort DEF PortInv
<1>3. ASSUME NEW c \in Client, ClientStep(c)
      PROVE  PortInv'
  BY <1>1, <1>3, ReadReplyPort, DialPort, MovePort
  DEF ClientStep, ProgramStep, PortInv
<1>4. ASSUME NEW c \in Client, Typing(c)
      PROVE  PortInv'
  BY <1>1, <1>4, UserPort DEF Typing, PortInv
<1>5. CASE UNCHANGED vars
  <2>1. AliveInv' /\ OnlyExpectedDial'
    BY <1>5 DEF PortInv, AliveInv, OnlyExpectedDial, vars, netVars, srvVars
  <2>2. ASSUME NEW c \in Client
        PROVE  OneAtATime(c)' /\ OkMeansExpected(c)'
    <3>1. OneAtATime(c) /\ OkMeansExpected(c)
      BY DEF PortInv
    <3>2. UNCHANGED <<conn, cpc, last, alive, spc, cur, job, dataBacklog>>
      BY <1>5 DEF vars, netVars, srvVars, cliVars
    <3> QED
      BY <3>1, <3>2, FrameOne, FrameExpected
  <2> QED
    BY <1>1, <2>1, <2>2 DEF PortInv
<1> QED
  BY <1>2, <1>3, <1>4, <1>5 DEF Next

\* The server always takes the data connection that the request being served
\* asked for, and a client dials only when the server waits for it.
THEOREM PortCorrect == Spec => []DataPortMatches
<1>1. PortInv => DataPortMatches
  <2> SUFFICES ASSUME PortInv PROVE DataPortMatches
    OBVIOUS
  <2>1. /\ \A i \in 1 .. Len(dataBacklog) :
             spc = "dataAccept" /\ dataBacklog[i] = <<cur, job.n>>
        /\ Len(dataBacklog) <= 1
    <3>1. CASE dataBacklog = <<>>
      BY <3>1
    <3>2. CASE spc = "dataAccept" /\ dataBacklog = <<<<cur, job.n>>>>
      BY <3>2
    <3> QED
      BY <3>1, <3>2 DEF PortInv, OnlyExpectedDial
  <2>2. \A c \in Client :
          cpc[c] = "dial" => spc = "dataAccept" /\ cur = c /\ job = last[c]
    BY DEF PortInv, OkMeansExpected, Expected
  <2> QED
    BY <2>1, <2>2 DEF DataPortMatches
<1> QED
  BY <1>1, InitPort, NextPort, PTL DEF Spec
============================================================================
