-------------------------- MODULE FtpSessionProofs ---------------------------
(***************************************************************************)
(* Sessions: replies, whose they are, when there is none, and who is to    *)
(* blame when the server ends; and transfers, what a STOR stores and what  *)
(* a RETR retrieves.                                                       *)
(*                                                                         *)
(* The first rest on what a session and a transfer are.  No client is      *)
(* queued twice, and the server ends the stream of nobody who is queued or *)
(* being served, so that a client that waits for a reply has a request on  *)
(* its way to the server or is the one the server is serving.  While a     *)
(* file is being retrieved its client cannot get to anything else.         *)
(***************************************************************************)
EXTENDS FtpSystemProofs, FiniteSetTheorems, FunctionTheorems

\* The client's connection has not been accepted.
Queued(c) == \E i \in 1 .. Len(backlog) : backlog[i] = c

\* Nobody waits twice; a stream that the server has ended belongs to a session
\* that is over, and a client that is through has been told so; what a client
\* has asked for and waits for is still on its way, or the server is at it.
SessionInv(c) ==
  /\ cpc[c] = "off" => ~ Queued(c) /\ cur # c
  /\ Queued(c) => cur # c
  /\ alive /\ (Queued(c) \/ (cur = c /\ spc # "quit")) => ~ conn[c].downEof
  /\ alive /\ cpc[c] \in {"bye", "done"} => conn[c].downEof
  /\ alive /\ cpc[c] = "wait" /\ conn[c].up = <<>> =>
       \/ conn[c].downEof
       \/ cur = c /\ spc = "command"
       \/ Expected(c)

QueueInv == \A i, j \in 1 .. Len(backlog) : backlog[i] = backlog[j] => i = j

\* From the dial on, to the end of the transfer.
Transferring == dataBacklog # <<>> \/ spc \in {"store", "send", "noOpen"}

Unopenable ==
  \/ job.op = "STOR" /\ ~ CanCreate(Target)
  \/ job.op = "RETR" /\ ~ (IsFile(Target) \/ IsDir(Target))

TransferInv ==
  /\ spc \in {"store", "send", "noOpen"} => peer = cur
  /\ spc = "send" => job.op = "RETR"
  /\ spc \in {"noOpen", "crashed"} => Unopenable
  /\ alive /\ Transferring /\ job.op = "RETR" =>
       /\ ~ data[cur].downEof
       /\ cpc[cur] = "dead" \/ (cpc[cur] = "get" /\ ~ data[cur].upEof)

\* Whom a server that exits has been serving.
ExitInv == spc = "exited" => cur \in Client /\ cpc[cur] = "dead"

\* The reply that a client waits for is that to its latest request, which has a
\* line end unless that is a QUIT.
OwnInv(c) ==
  cpc[c] = "wait" =>
    /\ \A i \in Ends(conn[c].down) : conn[c].down[i].n = last[c].n
    /\ last[c].op = "QUIT" => Ends(conn[c].down) = {}

ReplyInv ==
  /\ PortInv
  /\ QueueInv
  /\ TransferInv
  /\ ExitInv
  /\ StallOnlyOnSilentErrno
  /\ ReplyIsOwn
  /\ \A c \in Client : SessionInv(c) /\ OwnInv(c)

----------------------------------------------------------------------------
(* Sequences of pieces of reply, and the queue.                            *)

\* A reply behind notices: its number is the only one that a line ends with.
LEMMA ConcatOwn ==
  ASSUME NEW s \in Seq(Piece), Ends(s) = {}, NEW t \in Seq(Piece), NEW n,
         \A i \in 1 .. Len(t) : t[i].n = n
  PROVE  \A i \in Ends(s \o t) : (s \o t)[i].n = n
<1>1. /\ Len(s \o t) = Len(s) + Len(t)
      /\ \A i \in 1 .. Len(s) + Len(t) :
           (s \o t)[i] = IF i <= Len(s) THEN s[i] ELSE t[i - Len(s)]
      /\ Len(s) \in Nat /\ Len(t) \in Nat
  BY ConcatProperties, LenProperties
<1>2. ASSUME NEW i \in 1 .. Len(s) + Len(t), EndsLine((s \o t)[i])
      PROVE  (s \o t)[i].n = n
  <2>1. ~ (i <= Len(s))
    <3>1. ASSUME i <= Len(s)
          PROVE  i \in 1 .. Len(s) /\ (s \o t)[i] = s[i]
      BY <1>1, <3>1
    <3> QED
      BY <1>2, <3>1 DEF Ends
  <2>2. i - Len(s) \in 1 .. Len(t) /\ (s \o t)[i] = t[i - Len(s)]
    BY <1>1, <2>1
  <2> QED
    BY <2>2
<1> QED
  BY <1>1, <1>2 DEF Ends

\* A reply that ends its line is an end of a line.
LEMMA ConcatHasEnd ==
  ASSUME NEW s \in Seq(Piece), NEW t \in Seq(Piece), Len(t) = 1, EndsLine(t[1])
  PROVE  Ends(s \o t) # {}
<1>1. /\ Len(s \o t) = Len(s) + 1 /\ Len(s) \in Nat
      /\ (s \o t)[Len(s) + 1] = t[1]
  <2>1. /\ Len(s \o t) = Len(s) + Len(t)
        /\ \A i \in 1 .. Len(s) + Len(t) :
             (s \o t)[i] = IF i <= Len(s) THEN s[i] ELSE t[i - Len(s)]
    BY ConcatProperties
  <2>2. /\ Len(s) \in Nat /\ Len(s) + 1 \in 1 .. Len(s) + Len(t)
        /\ ~ (Len(s) + 1 <= Len(s)) /\ (Len(s) + 1) - Len(s) = 1
    BY LenProperties
  <2> QED
    BY <2>1, <2>2
<1>2. Len(s) + 1 \in Ends(s \o t)
  BY <1>1 DEF Ends
<1> QED
  BY <1>2

LEMMA AppendOwn ==
  ASSUME NEW s \in Seq(Piece), NEW p \in Piece, ~ EndsLine(p)
  PROVE  \A i \in Ends(Append(s, p)) : i \in Ends(s) /\ Append(s, p)[i] = s[i]
<1>1. \A i \in 1 .. Len(s) : Append(s, p)[i] = s[i]
  BY AppendProperties
<1> QED
  BY <1>1, AppendEnds DEF Ends

\* Who joins the queue, and who is taken from it.
LEMMA QueueGrows ==
  ASSUME NEW c \in Client, backlog \in Seq(Client), backlog' = Append(backlog, c),
         QueueInv, ~ Queued(c)
  PROVE  /\ QueueInv'
         /\ \A d \in Client : Queued(d)' => Queued(d) \/ d = c
<1>1. /\ Len(backlog') = Len(backlog) + 1 /\ Len(backlog) \in Nat
      /\ \A i \in 1 .. Len(backlog) : backlog'[i] = backlog[i]
      /\ backlog'[Len(backlog) + 1] = c
  BY AppendProperties, LenProperties
<1>2. \A i \in 1 .. Len(backlog') : i \in 1 .. Len(backlog) \/ i = Len(backlog) + 1
  BY <1>1
<1> QED
  BY <1>1, <1>2 DEF QueueInv, Queued

LEMMA QueueShrinks ==
  ASSUME backlog \in Seq(Client), backlog # <<>>, backlog' = Tail(backlog), QueueInv
  PROVE  /\ QueueInv'
         /\ Head(backlog) \in Client /\ Queued(Head(backlog))
         /\ \A d : Queued(d)' => Queued(d) /\ d # Head(backlog)
<1>1. /\ Len(backlog') = Len(backlog) - 1 /\ Len(backlog) \in Nat \ {0}
      /\ \A i \in 1 .. Len(backlog') : backlog'[i] = backlog[i + 1]
      /\ Head(backlog) = backlog[1] /\ Head(backlog) \in Client
  BY HeadTailProperties, EmptySeq
<1>2. \A i \in 1 .. Len(backlog') : i + 1 \in 1 .. Len(backlog) /\ i + 1 # 1 /\ i \in Nat
  BY <1>1
<1>3. 1 \in 1 .. Len(backlog)
  BY <1>1
<1>4. QueueInv'
  <2> SUFFICES ASSUME NEW i \in 1 .. Len(backlog'), NEW j \in 1 .. Len(backlog'),
                      backlog'[i] = backlog'[j]
               PROVE  i = j
    BY DEF QueueInv
  <2>1. i + 1 = j + 1
    BY <1>1, <1>2 DEF QueueInv
  <2> QED
    BY <1>2, <2>1
<1>5. Queued(Head(backlog))
  BY <1>1, <1>3 DEF Queued
<1>6. ASSUME NEW d, Queued(d)'
      PROVE  Queued(d) /\ d # Head(backlog)
  BY <1>1, <1>2, <1>3, <1>6 DEF Queued, QueueInv
<1> QED
  BY <1>1, <1>4, <1>5, <1>6

----------------------------------------------------------------------------
(* What a step that does not concern a place or a client preserves.        *)

\* The outcome of a call depends on the tree and on the names of the directory.
LEMMA SameTree ==
  ASSUME UNCHANGED <<dirs, files, cwd, wd>>
  PROVE  /\ UNCHANGED job /\ Unopenable => Unopenable'
         /\ \A c \in Client : last'[c] = last[c] /\ SilentError(c) => SilentError(c)'
<1> USE DEF Under, At, IsDir, IsFile, Reachable, HasParent, Writable
<1>1. UNCHANGED job /\ Unopenable => Unopenable'
  BY DEF Unopenable, Target, CanCreate
<1>2. \A p : MkdirErrno(p)' = MkdirErrno(p)
  BY DEF MkdirErrno, ThroughFile
<1>3. \A p : RmdirErrno(p)' = RmdirErrno(p)
  BY DEF RmdirErrno, ThroughFile, Empty
<1>4. ASSUME NEW c \in Client, last'[c] = last[c], SilentError(c)
      PROVE  SilentError(c)'
  BY <1>2, <1>3, <1>4 DEF SilentError
<1> QED
  BY <1>1, <1>4

LEMMA FrameOwn ==
  ASSUME NEW c \in Client, OwnInv(c),
         conn'[c].down = conn[c].down, cpc'[c] = cpc[c], last'[c] = last[c]
  PROVE  OwnInv(c)'
  BY DEF OwnInv

\* A client that is neither served nor queued stays so.
LEMMA FrameSession ==
  ASSUME NEW c \in Client, SessionInv(c),
         conn'[c].up = conn[c].up, conn'[c].downEof = conn[c].downEof,
         cpc'[c] = cpc[c], alive' => alive,
         Queued(c)' => Queued(c), cur # c, cur' # c
  PROVE  SessionInv(c)'
  BY DEF SessionInv, Expected

\* The client being served, while its session goes on.
LEMMA FrameServed ==
  ASSUME NEW c \in Client, SessionInv(c), cur = c, cur' = c, backlog' = backlog,
         conn'[c].up = conn[c].up, conn'[c].downEof = conn[c].downEof,
         cpc'[c] = cpc[c], alive' => alive,
         spc # "quit" \/ spc' = "quit",
         alive' => ~ Expected(c) /\ spc # "command"
  PROVE  SessionInv(c)'
  BY DEF SessionInv, Queued

----------------------------------------------------------------------------
(* The server's steps: sessions.                                           *)

LEMMA AcceptReply ==
  ASSUME ReplyInv, Accept, UNCHANGED cliVars
  PROVE  /\ QueueInv' /\ TransferInv' /\ ExitInv' /\ StallOnlyOnSilentErrno'
         /\ \A c \in Client : SessionInv(c)' /\ OwnInv(c)'
<1>1. /\ spc = "accept" /\ spc' = "command" /\ alive /\ alive' /\ dataBacklog = <<>>
      /\ cur' = Head(backlog) /\ backlog # <<>> /\ backlog' = Tail(backlog)
      /\ UNCHANGED <<conn, data, dataBacklog, cpc, last>>
      /\ backlog \in Seq(Client)
  BY DEF ReplyInv, PortInv, IInv, TypeOK, NetTypeOK, AliveInv, OnlyExpectedDial, Accept,
         cliVars
<1>2. /\ QueueInv' /\ cur' \in Client /\ Queued(cur')
      /\ \A d : Queued(d)' => Queued(d) /\ d # cur'
  BY <1>1, QueueShrinks DEF ReplyInv
<1>3. TransferInv' /\ ExitInv'
  BY <1>1 DEF TransferInv, ExitInv, Transferring
<1>4. ASSUME NEW c \in Client
      PROVE  SessionInv(c)' /\ OwnInv(c)'
  <2>1. SessionInv(c) /\ OwnInv(c)
    BY DEF ReplyInv
  <2>2. SessionInv(c)'
    BY <1>1, <1>2, <2>1 DEF SessionInv, Expected
  <2> QED
    BY <1>1, <2>1, <2>2, FrameOwn
<1>5. ASSUME NEW c \in Client
      PROVE  ~ Stalled(c)'
  BY <1>1, <1>2, <1>5 DEF ReplyInv, SessionInv, Expected, Stalled
<1> QED
  BY <1>2, <1>3, <1>4, <1>5 DEF StallOnlyOnSilentErrno

LEMMA QuitCloseReply ==
  ASSUME ReplyInv, QuitClose, UNCHANGED cliVars
  PROVE  /\ QueueInv' /\ TransferInv' /\ ExitInv' /\ StallOnlyOnSilentErrno'
         /\ \A c \in Client : SessionInv(c)' /\ OwnInv(c)'
<1>1. /\ spc = "quit" /\ spc' = "accept" /\ alive /\ dataBacklog = <<>>
      /\ cur' = NoClient
      /\ UNCHANGED <<conn, backlog, data, alive, dataBacklog, cpc, last>>
  BY DEF ReplyInv, PortInv, AliveInv, OnlyExpectedDial, QuitClose, cliVars, netVars
<1>2. QueueInv'
  BY <1>1 DEF ReplyInv, QueueInv
<1>3. TransferInv' /\ ExitInv'
  BY <1>1 DEF TransferInv, ExitInv, Transferring
<1>4. ASSUME NEW c \in Client
      PROVE  SessionInv(c)' /\ OwnInv(c)'
  <2>1. SessionInv(c) /\ OwnInv(c) /\ c # NoClient
    BY ClientAssumption DEF ReplyInv
  <2>2. SessionInv(c)'
    BY <1>1, <2>1 DEF SessionInv, Expected, Queued
  <2> QED
    BY <1>1, <2>1, <2>2, FrameOwn
<1> QED
  BY <1>1, <1>2, <1>3, <1>4 DEF StallOnlyOnSilentErrno, Stalled

\* A client that the server is serving, and whose side has ended, has been
\* killed or has given up: it cannot have been told that it is through.
LEMMA GoneIsDead ==
  ASSUME ReplyInv, alive, cur \in Client, spc # "quit", conn[cur].upEof
  PROVE  cpc[cur] = "dead"
  BY DEF ReplyInv, PortInv, OneAtATime, SessionInv

\* The steps that leave requests, replies and the queue alone.
LEMMA QuietReply ==
  ASSUME ReplyInv, UNCHANGED cliVars,
         Hangup \/ NoOpen \/ Store \/ StoreDone \/ Send \/ SendDone
  PROVE  /\ QueueInv' /\ TransferInv' /\ ExitInv' /\ StallOnlyOnSilentErrno'
         /\ \A c \in Client : SessionInv(c)' /\ OwnInv(c)'
<1>1. /\ UNCHANGED <<conn, backlog, dataBacklog, cpc, last, cur, job, wd, dirs, cwd, peer>>
      /\ spc \in {"command", "noOpen", "store", "send"}
      /\ spc' # "quit"
  BY DEF Hangup, NoOpen, Store, StoreDone, Send, SendDone, cliVars, srvVars, fsVars,
         ContinueOrBroken, WriteFile
<1>2. /\ alive /\ dataBacklog = <<>> /\ cur \in Client
      /\ data \in [Client -> Duplex(Block, Block)]
  BY <1>1 DEF ReplyInv, PortInv, AliveInv, OnlyExpectedDial, IInv, TypeOK, SrvTypeOK, NetTypeOK
<1>3. spc = "command" => ~ alive'
  BY DEF Hangup, NoOpen, Store, StoreDone, Send, SendDone
<1>4. QueueInv'
  BY <1>1 DEF ReplyInv, QueueInv
<1>5. TransferInv'
  <2>1. TransferInv
    BY DEF ReplyInv
  <2>2. CASE Hangup
    BY <1>2, <2>1, <2>2 DEF Hangup, TransferInv, Transferring
  <2>3. CASE NoOpen
    <3>1. spc' = "crashed" => UNCHANGED <<dirs, files, cwd, wd, job>> /\ Unopenable
      BY <2>1, <2>3 DEF NoOpen, TransferInv, fsVars
    <3>2. spc' = "crashed" => Unopenable'
      BY <3>1, SameTree
    <3> QED
      BY <1>1, <1>2, <2>1, <2>3, <3>2 DEF NoOpen, TransferInv, Transferring
  <2>4. CASE Store
    <3>1. /\ spc' = "store" /\ spc = "store" /\ alive' = alive
          /\ data'[cur].downEof = data[cur].downEof /\ data'[cur].upEof = data[cur].upEof
      BY <1>2, <2>4 DEF Store, srvVars, Duplex
    <3> QED
      BY <1>1, <2>1, <3>1 DEF TransferInv, Transferring
  <2>5. CASE StoreDone \/ SendDone
    BY <1>1, <1>2, <2>5 DEF StoreDone, SendDone, TransferInv, Transferring
  <2>6. CASE Send
    <3>1. /\ spc' \in {"send", "exited"} /\ spc = "send" /\ (alive' => alive)
          /\ data'[cur].downEof = data[cur].downEof /\ data'[cur].upEof = data[cur].upEof
      BY <1>2, <2>6 DEF Send, ContinueOrBroken, Duplex
    <3> QED
      BY <1>1, <2>1, <3>1 DEF TransferInv, Transferring
  <2> QED
    BY <2>2, <2>3, <2>4, <2>5, <2>6
<1>6. ExitInv'
  <2>1. CASE Hangup
    BY <1>1, <1>2, <2>1, GoneIsDead DEF Hangup, ExitInv
  <2>2. CASE Send /\ spc' = "exited"
    <3>1. data[cur].upEof /\ spc = "send"
      BY <2>2 DEF ReplyInv, TransferInv, Send, ContinueOrBroken
    <3>2. cpc[cur] = "dead"
      BY <1>2, <3>1 DEF ReplyInv, TransferInv, Transferring
    <3> QED
      BY <1>1, <1>2, <3>2 DEF ExitInv
  <2>3. CASE spc' # "exited"
    BY <2>3 DEF ExitInv
  <2> QED
    BY <1>1, <2>1, <2>2, <2>3 DEF NoOpen, Store, StoreDone, SendDone, srvVars
<1>7. ASSUME NEW c \in Client
      PROVE  SessionInv(c)' /\ OwnInv(c)'
  <2>1. SessionInv(c) /\ OwnInv(c) /\ ~ Expected(c) /\ Queued(c)' = Queued(c)
    BY <1>1 DEF ReplyInv, Expected, Queued
  <2>2. SessionInv(c)'
    BY <1>1, <1>2, <1>3, <2>1, FrameSession, FrameServed
  <2> QED
    BY <1>1, <2>1, <2>2, FrameOwn
<1>8. ASSUME NEW c \in Client, Stalled(c)'
      PROVE  FALSE
  <2>1. spc # "command"
    <3>1. spc = "command" => spc' # "command"
      BY <1>1 DEF Hangup, NoOpen, Store, StoreDone, Send, SendDone
    <3> QED
      BY <1>8, <3>1 DEF Stalled
  <2>2. SessionInv(c) /\ cur = c /\ cpc[c] = "wait" /\ conn[c].up = <<>>
    BY <1>1, <1>8 DEF ReplyInv, Stalled
  <2> QED
    BY <1>1, <1>2, <2>1, <2>2 DEF SessionInv, Expected
<1> QED
  BY <1>4, <1>5, <1>6, <1>7, <1>8 DEF StallOnlyOnSilentErrno

----------------------------------------------------------------------------
(* The server's steps: requests.                                           *)

\* The errors that the two switches pass over.
LEMMA EmptyReply ==
  /\ \A p : MkdReply(MkdirErrno(p)) = <<>> /\ MkdirErrno(p) # "none"
              => MkdirErrno(p) \in {"ENOENT", "ENOTDIR"}
  /\ \A p : RmdReply(RmdirErrno(p)) = <<>> /\ RmdirErrno(p) # "none"
              => RmdirErrno(p) \in {"ENOENT", "EACCES", "EBUSY"}
<1>1. \A st : Reply(st) # <<>>
  BY DEF Reply
<1> QED
  BY <1>1 DEF MkdReply, RmdReply, MkdirErrno, RmdirErrno

\* A request is answered by at most one piece of reply, which ends its line, or
\* is one of the errors that are passed over in silence.
LEMMA AnswerReply ==
  ASSUME ReplyInv, UNCHANGED cliVars, spc = "command", conn[cur].up # <<>>,
         Asked.op # "QUIT", NEW pieces \in Seq(Piece), Len(pieces) <= 1,
         \A i \in 1 .. Len(pieces) : pieces[i].n = Asked.n,
         Len(pieces) = 1 => EndsLine(pieces[1]),
         NEW pc \in {"command", "dataAccept"}, Answer(pieces, pc),
         pc = "dataAccept" => job' = Asked,
         pc = "command" /\ Len(pieces) # 1 /\ cpc[cur] = "wait" => SilentError(cur)'
  PROVE  /\ QueueInv' /\ TransferInv' /\ ExitInv' /\ StallOnlyOnSilentErrno'
         /\ \A c \in Client : SessionInv(c)' /\ OwnInv(c)'
<1>1. /\ cur \in Client /\ alive /\ dataBacklog = <<>>
      /\ conn \in [Client -> Duplex(Line, Piece)]
      /\ UNCHANGED <<cpc, last, backlog, dataBacklog, cur>>
      /\ spc' \in {pc, "exited"} /\ (alive' => spc' = pc)
      /\ spc' = "exited" => conn[cur].upEof
  BY AtCommand DEF ReplyInv, PortInv, IInv, TypeOK, NetTypeOK, Answer, ContinueOrBroken,
                   cliVars
<1>2. /\ conn'[cur].up = Tail(conn[cur].up)
      /\ conn'[cur].downEof = conn[cur].downEof
      /\ conn'[cur].down = conn[cur].down \o pieces
      /\ conn[cur].down \in Seq(Piece)
      /\ \A c \in Client : c # cur => conn'[c] = conn[c]
  BY <1>1 DEF Answer, Duplex
<1>3. cpc[cur] = "wait" => Asked = last[cur] /\ Ends(conn[cur].down) = {}
  BY AtCommand DEF ReplyInv
<1>4. QueueInv' /\ TransferInv'
  BY <1>1 DEF ReplyInv, QueueInv, TransferInv, Transferring
<1>5. ExitInv'
  BY <1>1, GoneIsDead DEF ExitInv
<1>6. ASSUME NEW c \in Client, c # cur
      PROVE  SessionInv(c)' /\ OwnInv(c)'
  <2>1. SessionInv(c) /\ OwnInv(c) /\ Queued(c)' = Queued(c)
    BY <1>1 DEF ReplyInv, Queued
  <2> QED
    BY <1>1, <1>2, <1>6, <2>1, FrameSession, FrameOwn
<1>7. ASSUME NEW c \in Client, c = cur
      PROVE  SessionInv(c)'
  <2>1. SessionInv(c) /\ Queued(c)' = Queued(c)
    BY <1>1 DEF ReplyInv, Queued
  <2>2. alive' /\ spc' = "dataAccept" /\ cpc[c] = "wait" => Expected(c)'
    BY <1>1, <1>3, <1>7 DEF Expected
  <2> QED
    BY <1>1, <1>2, <1>7, <2>1, <2>2 DEF SessionInv
<1>8. ASSUME NEW c \in Client, c = cur
      PROVE  OwnInv(c)'
  <2>1. ASSUME cpc[cur] = "wait"
        PROVE  \A i \in Ends(conn[cur].down \o pieces) :
                 (conn[cur].down \o pieces)[i].n = last[cur].n
    BY <1>2, <1>3, <2>1, ConcatOwn
  <2>2. /\ conn'[c].down = conn[cur].down \o pieces
        /\ cpc'[c] = cpc[cur] /\ last'[c] = last[cur]
    BY <1>1, <1>2, <1>8
  <2>3. cpc[cur] = "wait" => last[cur].op # "QUIT"
    BY <1>3
  <2> QED
    BY <2>1, <2>2, <2>3 DEF OwnInv
<1>9. ASSUME NEW c \in Client, Stalled(c)'
      PROVE  SilentError(c)'
  <2>1. c = cur /\ spc' = "command" /\ cpc[cur] = "wait" /\ Ends(conn'[cur].down) = {}
    BY <1>1, <1>9 DEF Stalled, Ends
  <2>2. Len(pieces) # 1
    BY <1>2, <2>1, ConcatHasEnd
  <2> QED
    BY <1>1, <2>1, <2>2
<1>10. \A c \in Client : SessionInv(c)' /\ OwnInv(c)'
  BY <1>6, <1>7, <1>8
<1>11. StallOnlyOnSilentErrno'
  BY <1>9 DEF StallOnlyOnSilentErrno
<1> QED
  BY <1>4, <1>5, <1>10, <1>11

LEMMA CommandReply ==
  ASSUME ReplyInv, UNCHANGED cliVars,
         Pwd \/ Nlst \/ List \/ Cwd \/ Mkd \/ Rmd \/ Dele \/ Stor \/ Retr
  PROVE  /\ QueueInv' /\ TransferInv' /\ ExitInv' /\ StallOnlyOnSilentErrno'
         /\ \A c \in Client : SessionInv(c)' /\ OwnInv(c)'
<1>1. /\ spc = "command" /\ conn[cur].up # <<>> /\ NetTypeOK /\ SrvTypeOK
      /\ Asked.op # "QUIT"
  BY DEF ReplyInv, PortInv, IInv, TypeOK, Pwd, Nlst, List, Cwd, Mkd, Rmd, Dele, Stor, Retr,
         Serving, Asked
<1>2. ASSUME NEW st \in {"text", "success", "fail", "OK"},
             NEW pc \in {"command", "dataAccept"}, Answer(Reply(st), pc),
             pc = "dataAccept" => job' = Asked
      PROVE  /\ QueueInv' /\ TransferInv' /\ ExitInv' /\ StallOnlyOnSilentErrno'
             /\ \A c \in Client : SessionInv(c)' /\ OwnInv(c)'
  <2>1. /\ Reply(st) \in Seq(Piece) /\ Len(Reply(st)) = 1 /\ Len(Reply(st)) <= 1
        /\ \A i \in 1 .. Len(Reply(st)) : Reply(st)[i].n = Asked.n
        /\ EndsLine(Reply(st)[1])
    <3>1. Reply(st) \in Seq(Piece)
      BY <1>1, ReplyType
    <3>2. Len(Reply(st)) = 1 /\ Reply(st)[1] = [n |-> Asked.n, st |-> st]
      BY DEF Reply
    <3>3. \A i \in 1 .. 1 : i = 1
      OBVIOUS
    <3>4. 1 <= 1
      OBVIOUS
    <3> QED
      BY <3>1, <3>2, <3>3, <3>4 DEF EndsLine
  <2> QED
    BY <1>1, <1>2, <2>1, AnswerReply
<1>3. ASSUME Answer(<<>>, "command"), cpc[cur] = "wait" => SilentError(cur)'
      PROVE  /\ QueueInv' /\ TransferInv' /\ ExitInv' /\ StallOnlyOnSilentErrno'
             /\ \A c \in Client : SessionInv(c)' /\ OwnInv(c)'
  <2>1. <<>> \in Seq(Piece) /\ Len(<<>>) = 0 /\ 0 # 1 /\ 0 <= 1 /\ 1 .. 0 = {}
    BY EmptySeq
  <2> QED
    BY <1>1, <1>3, <2>1, AnswerReply
<1>4. CASE Pwd \/ Nlst \/ List \/ Cwd \/ Dele \/ Stor \/ Retr
  BY <1>2, <1>4 DEF Pwd, Nlst, List, ListReply, Cwd, Dele, Stor, Retr, Promise
<1>5. cpc[cur] = "wait" => Asked = last[cur]
  BY <1>1, AtCommand DEF ReplyInv
<1>6. cur \in Client /\ cur' = cur /\ last' = last
  BY <1>1 DEF SrvTypeOK, Pwd, Nlst, List, Cwd, Mkd, Rmd, Dele, Stor, Retr, Promise, Answer,
              cliVars
<1>7. CASE Mkd
  <2> DEFINE e == MkdirErrno(Under(Asked.arg))
  <2>1. CASE e # "none" /\ MkdReply(e) = <<>>
    <3>1. Answer(<<>>, "command") /\ UNCHANGED <<dirs, files, cwd, wd>> /\ Asked.op = "MKD"
      BY <1>7, <2>1 DEF Mkd, fsVars, Serving, Asked
    <3>2. cpc[cur] = "wait" => SilentError(cur)
      BY <1>5, <2>1, <3>1, EmptyReply DEF SilentError
    <3> QED
      BY <1>3, <1>6, <3>1, <3>2, SameTree
  <2>2. CASE e = "none" \/ MkdReply(e) # <<>>
    BY <1>2, <1>7, <2>2 DEF Mkd, MkdReply
  <2> QED
    BY <2>1, <2>2
<1>8. CASE Rmd
  <2> DEFINE e == RmdirErrno(Asked.arg)
  <2>1. CASE e # "none" /\ RmdReply(e) = <<>>
    <3>1. Answer(<<>>, "command") /\ UNCHANGED <<dirs, files, cwd, wd>> /\ Asked.op = "RMD"
      BY <1>8, <2>1 DEF Rmd, fsVars, Serving, Asked
    <3>2. cpc[cur] = "wait" => SilentError(cur)
      BY <1>5, <2>1, <3>1, EmptyReply DEF SilentError
    <3> QED
      BY <1>3, <1>6, <3>1, <3>2, SameTree
  <2>2. CASE e = "none" \/ RmdReply(e) # <<>>
    BY <1>2, <1>8, <2>2 DEF Rmd, RmdReply
  <2> QED
    BY <2>1, <2>2
<1> QED
  BY <1>4, <1>7, <1>8

\* "bye" ends no line, and the stream ends behind it.
LEMMA QuitReply ==
  ASSUME ReplyInv, UNCHANGED cliVars, Quit
  PROVE  /\ QueueInv' /\ TransferInv' /\ ExitInv' /\ StallOnlyOnSilentErrno'
         /\ \A c \in Client : SessionInv(c)' /\ OwnInv(c)'
<1>1. /\ spc = "command" /\ conn[cur].up # <<>> /\ NetTypeOK /\ SrvTypeOK
      /\ spc' \in {"quit", "exited"} /\ (alive' => spc' = "quit")
      /\ spc' = "exited" => conn[cur].upEof
      /\ UNCHANGED <<backlog, dataBacklog, cur, cpc, last>>
  BY DEF ReplyInv, PortInv, IInv, TypeOK, Quit, Serving, ContinueOrBroken, cliVars
<1>2. cur \in Client /\ alive /\ dataBacklog = <<>>
  BY <1>1, AtCommand DEF ReplyInv
<1>3. /\ conn'[cur].downEof
      /\ conn'[cur].down = conn[cur].down \o Reply("bye")
      /\ conn[cur].down \in Seq(Piece)
      /\ \A c \in Client : c # cur => conn'[c] = conn[c]
  BY <1>1, <1>2 DEF Quit, NetTypeOK, Duplex
<1>4. QueueInv' /\ TransferInv'
  BY <1>1, <1>2 DEF ReplyInv, QueueInv, TransferInv, Transferring
<1>5. ExitInv'
  BY <1>1, <1>2, GoneIsDead DEF ExitInv
<1>6. ASSUME NEW c \in Client
      PROVE  SessionInv(c)' /\ OwnInv(c)'
  <2>1. SessionInv(c) /\ OwnInv(c) /\ Queued(c)' = Queued(c)
    BY <1>1 DEF ReplyInv, Queued
  <2>2. CASE c # cur
    BY <1>1, <1>2, <1>3, <2>1, <2>2, FrameSession, FrameOwn
  <2>3. CASE c = cur
    <3>1. SessionInv(c)'
      BY <1>1, <1>2, <1>3, <2>1, <2>3 DEF SessionInv
    <3>2. cpc[cur] = "wait" => Ends(conn[cur].down) = {}
      BY <1>1, AtCommand DEF ReplyInv
    <3>3. Reply("bye") \in Seq(Piece) /\ Ends(Reply("bye")) = {}
          /\ Len(Reply("bye")) <= 1
      <4>1. "bye" \in {"text", "success", "fail", "OK", "noopen", "bye"} /\ 1 <= 1
        OBVIOUS
      <4> QED
        BY <1>1, <4>1, ReplyType, ReplyOne
    <3>4. OwnInv(c)'
      BY <1>1, <1>3, <2>3, <3>2, <3>3, ConcatEnds DEF OwnInv
    <3> QED
      BY <3>1, <3>4
  <2> QED
    BY <2>2, <2>3
<1> QED
  BY <1>1, <1>4, <1>5, <1>6 DEF StallOnlyOnSilentErrno, Stalled

\* The transfer begins, or a notice is sent, which ends no line.
LEMMA OpenReply ==
  ASSUME ReplyInv, UNCHANGED cliVars, StorOpen \/ RetrOpen
  PROVE  /\ QueueInv' /\ TransferInv' /\ ExitInv' /\ StallOnlyOnSilentErrno'
         /\ \A c \in Client : SessionInv(c)' /\ OwnInv(c)'
<1>1. /\ spc = "dataAccept" /\ dataBacklog # <<>> /\ TakeData
      /\ conn \in [Client -> Duplex(Line, Piece)] /\ job \in Line
      /\ cur \in Client /\ alive /\ dataBacklog = <<<<cur, job.n>>>>
      /\ UNCHANGED <<data, backlog, cur, wd, job, cpc, last>>
  BY DEF ReplyInv, PortInv, IInv, TypeOK, SrvTypeOK, NetTypeOK, AliveInv, OnlyExpectedDial,
         StorOpen, RetrOpen, TakeData, cliVars
<1>2. peer' = cur /\ dataBacklog' = <<>>
  BY <1>1 DEF TakeData
<1>3. \/ conn' = conn /\ alive' = alive /\ spc' \in {"store", "send", "spin"}
      \/ Notice /\ Unopenable /\ UNCHANGED <<dirs, files, cwd>>
  BY DEF StorOpen, RetrOpen, Unopenable, fsVars
<1>4. /\ Notice => spc' \in {"noOpen", "exited"}
      /\ (alive' => alive /\ spc' # "command")
      /\ spc' = "exited" => conn[cur].upEof
      /\ spc' # "quit" /\ spc' # "command" /\ spc' # "crashed"
  BY <1>1, <1>3 DEF Notice, ContinueOrBroken
<1>5. QueueInv'
  BY <1>1 DEF ReplyInv, QueueInv
<1>6. TransferInv'
  <2>1. spc' = "send" => job.op = "RETR"
    BY <1>3, <1>4 DEF StorOpen, RetrOpen
  <2>2. spc' = "noOpen" => Unopenable'
    BY <1>1, <1>3, SameTree
  <2>3. alive /\ job.op = "RETR" =>
          /\ ~ data[cur].downEof
          /\ cpc[cur] = "dead" \/ (cpc[cur] = "get" /\ ~ data[cur].upEof)
    BY <1>1 DEF ReplyInv, TransferInv, Transferring
  <2> QED
    BY <1>1, <1>2, <1>4, <2>1, <2>2, <2>3 DEF TransferInv
<1>7. ExitInv'
  BY <1>1, <1>4, GoneIsDead DEF ExitInv
<1>8. ASSUME NEW c \in Client
      PROVE  SessionInv(c)' /\ OwnInv(c)'
  <2>1. SessionInv(c) /\ OwnInv(c) /\ Queued(c)' = Queued(c) /\ ~ Expected(c)
    BY <1>1 DEF ReplyInv, Queued, Expected
  <2>2. conn'[c].up = conn[c].up /\ conn'[c].downEof = conn[c].downEof
    <3>1. CASE conn' = conn
      BY <3>1
    <3>2. CASE Notice
      BY <1>1, <3>2 DEF Notice, Duplex
    <3> QED
      BY <1>3, <3>1, <3>2
  <2>3. SessionInv(c)'
    BY <1>1, <1>4, <2>1, <2>2, FrameSession, FrameServed
  <2>4. OwnInv(c)'
    <3>1. CASE conn'[c].down = conn[c].down
      BY <1>1, <2>1, <3>1, FrameOwn
    <3>2. CASE conn'[c].down # conn[c].down
      <4> DEFINE p == [n |-> job.n, st |-> "noopen"]
      <4>1. c = cur /\ conn'[c].down = Append(conn[c].down, p) /\ conn[c].down \in Seq(Piece)
        BY <1>1, <1>3, <3>2 DEF Notice, Duplex
      <4>2. p \in Piece /\ ~ EndsLine(p)
        BY <1>1 DEF Line, Piece, EndsLine
      <4> HIDE DEF p
      <4>3. \A i \in Ends(conn'[c].down) :
              i \in Ends(conn[c].down) /\ conn'[c].down[i] = conn[c].down[i]
        <5>1. \A i \in Ends(Append(conn[c].down, p)) :
                i \in Ends(conn[c].down) /\ Append(conn[c].down, p)[i] = conn[c].down[i]
          BY <4>1, <4>2, AppendOwn
        <5> QED
          BY <4>1, <5>1
      <4>4. cpc'[c] = cpc[c] /\ last'[c] = last[c]
        BY <1>1
      <4> QED
        BY <2>1, <4>3, <4>4 DEF OwnInv
    <3> QED
      BY <3>1, <3>2
  <2> QED
    BY <2>3, <2>4
<1> QED
  BY <1>4, <1>5, <1>6, <1>7, <1>8 DEF StallOnlyOnSilentErrno, Stalled

LEMMA ServerReply ==
  ASSUME ReplyInv, ServerStep
  PROVE  /\ QueueInv' /\ TransferInv' /\ ExitInv' /\ StallOnlyOnSilentErrno'
         /\ \A c \in Client : SessionInv(c)' /\ OwnInv(c)'
  BY AcceptReply, QuietReply, CommandReply, QuitReply, QuitCloseReply, OpenReply
  DEF ServerStep, ServerNext

----------------------------------------------------------------------------
(* The clients' steps.                                                     *)

\* Whoever takes a step, the others' sessions go on as they were.
LEMMA OthersReply ==
  ASSUME ReplyInv, NEW c \in Client, cpc[c] # "dead",
         UNCHANGED <<srvVars, fsVars, alive>>,
         dataBacklog' = dataBacklog \/ Expected(c),
         QueueInv', \A d \in Client : d # c /\ Queued(d)' => Queued(d),
         \A d \in Client : d # c =>
           conn'[d] = conn[d] /\ cpc'[d] = cpc[d] /\ last'[d] = last[d],
         SessionInv(c)', OwnInv(c)', TransferInv', ~ Stalled(c)'
  PROVE  /\ QueueInv' /\ TransferInv' /\ ExitInv' /\ StallOnlyOnSilentErrno'
         /\ \A d \in Client : SessionInv(d)' /\ OwnInv(d)'
<1>1. ExitInv'
  BY DEF ReplyInv, ExitInv, srvVars
<1>2. ASSUME NEW d \in Client, d # c
      PROVE  SessionInv(d)' /\ OwnInv(d)'
  <2>1. SessionInv(d) /\ OwnInv(d) /\ (Queued(d)' => Queued(d))
    BY <1>2 DEF ReplyInv
  <2>2. Expected(d) => Expected(d)'
    BY <1>2 DEF Expected, srvVars
  <2>3. SessionInv(d)'
    BY <1>2, <2>1, <2>2 DEF SessionInv, srvVars
  <2> QED
    BY <1>2, <2>1, <2>3, FrameOwn
<1>3. ASSUME NEW d \in Client, Stalled(d)'
      PROVE  SilentError(d)'
  <2>1. d # c /\ Stalled(d)
    BY <1>3 DEF Stalled, srvVars
  <2>2. SilentError(d)
    BY <2>1 DEF ReplyInv, StallOnlyOnSilentErrno
  <2> QED
    BY <2>1, <2>2, SameTree DEF srvVars, fsVars
<1>4. \A d \in Client : SessionInv(d)' /\ OwnInv(d)'
  BY <1>2
<1> QED
  BY <1>1, <1>3, <1>4 DEF StallOnlyOnSilentErrno

\* The client that a file is on its way to is not the one that has moved, or it
\* goes on receiving, or it dies.
LEMMA ClientTransfer ==
  ASSUME ReplyInv, NEW c \in Client, cpc[c] # "dead",
         UNCHANGED <<srvVars, fsVars, alive, dataBacklog>>,
         \A d \in Client : d # c => data'[d] = data[d] /\ cpc'[d] = cpc[d],
         alive /\ cpc[c] = "get" /\ ~ data[c].downEof =>
           /\ ~ data'[c].downEof
           /\ \/ cpc'[c] = "dead"
              \/ cpc'[c] = "get" /\ data'[c].upEof = data[c].upEof
  PROVE  TransferInv'
<1>1. TransferInv /\ SrvTypeOK /\ OnlyExpectedDial
  BY DEF ReplyInv, PortInv, IInv, TypeOK
<1>2. spc \in {"noOpen", "crashed"} => Unopenable'
  BY <1>1, SameTree DEF TransferInv, srvVars, fsVars
<1>3. Transferring => cur \in Client
  BY <1>1 DEF Transferring, SrvTypeOK, OnlyExpectedDial
<1>4. UNCHANGED <<spc, peer, cur, job>>
  BY DEF srvVars
<1> QED
  BY <1>1, <1>2, <1>3, <1>4 DEF TransferInv, Transferring

\* A step of c that sends no request, nor waits for a reply.
LEMMA ClientReply ==
  ASSUME ReplyInv, NEW c \in Client, cpc[c] # "dead",
         UNCHANGED <<srvVars, fsVars, alive, backlog>>,
         dataBacklog' = dataBacklog \/ Expected(c),
         \A d \in Client : d # c =>
           conn'[d] = conn[d] /\ cpc'[d] = cpc[d] /\ last'[d] = last[d],
         cpc'[c] \notin {"off", "wait"},
         cpc'[c] # "dead" => cpc[c] # "off",
         conn'[c].downEof = conn[c].downEof,
         alive /\ cpc'[c] \in {"bye", "done"} => conn[c].downEof,
         TransferInv'
  PROVE  /\ QueueInv' /\ TransferInv' /\ ExitInv' /\ StallOnlyOnSilentErrno'
         /\ \A d \in Client : SessionInv(d)' /\ OwnInv(d)'
<1>1. QueueInv' /\ \A d \in Client : Queued(d)' = Queued(d)
  BY DEF ReplyInv, QueueInv, Queued
<1>2. SessionInv(c)'
  <2>1. SessionInv(c) /\ Queued(c)' = Queued(c)
    BY <1>1 DEF ReplyInv
  <2> QED
    BY <2>1 DEF SessionInv, srvVars
<1>3. OwnInv(c)' /\ ~ Stalled(c)'
  BY DEF OwnInv, Stalled
<1> QED
  BY <1>1, <1>2, <1>3, OthersReply

LEMMA DieReply ==
  ASSUME ReplyInv, NEW c \in Client, cpc[c] # "dead", Die(c), UNCHANGED <<srvVars, fsVars>>,
         \A d \in Client : d # c => last'[d] = last[d]
  PROVE  /\ QueueInv' /\ TransferInv' /\ ExitInv' /\ StallOnlyOnSilentErrno'
         /\ \A d \in Client : SessionInv(d)' /\ OwnInv(d)'
<1>1. /\ conn \in [Client -> Duplex(Line, Piece)] /\ cpc \in [Client -> ClientPc]
      /\ data \in [Client -> Duplex(Block, Block)]
      /\ UNCHANGED <<alive, backlog, dataBacklog>>
  BY DEF ReplyInv, PortInv, IInv, TypeOK, NetTypeOK, CliTypeOK, Die
<1>2. /\ cpc'[c] = "dead" /\ conn'[c].downEof = conn[c].downEof
      /\ data'[c].downEof = data[c].downEof
      /\ \A d \in Client : d # c => /\ conn'[d] = conn[d] /\ cpc'[d] = cpc[d]
                                    /\ data'[d] = data[d]
  BY <1>1 DEF Die, Goto, Duplex
<1>3. TransferInv'
  BY <1>1, <1>2, ClientTransfer
<1> QED
  BY <1>1, <1>2, <1>3, ClientReply

LEMMA ConnectReply ==
  ASSUME ReplyInv, NEW c \in Client, Connect(c), UNCHANGED <<srvVars, fsVars>>
  PROVE  /\ QueueInv' /\ TransferInv' /\ ExitInv' /\ StallOnlyOnSilentErrno'
         /\ \A d \in Client : SessionInv(d)' /\ OwnInv(d)'
<1>1. /\ conn \in [Client -> Duplex(Line, Piece)] /\ cpc \in [Client -> ClientPc]
      /\ backlog \in Seq(Client) /\ cpc[c] = "off" /\ last' = last
      /\ SessionInv(c) /\ QueueInv
  BY DEF ReplyInv, PortInv, IInv, TypeOK, NetTypeOK, CliTypeOK, Connect
<1>2. CASE Die(c)
  BY <1>1, <1>2, DieReply
<1>3. CASE /\ alive
           /\ conn' = [conn EXCEPT ![c] = Fresh]
           /\ backlog' = Append(backlog, c)
           /\ Goto(c, "idle")
           /\ UNCHANGED <<data, dataBacklog, alive>>
  <2>1. /\ cpc'[c] = "idle" /\ conn'[c] = Fresh
        /\ \A d \in Client : d # c => conn'[d] = conn[d] /\ cpc'[d] = cpc[d]
    BY <1>1, <1>3 DEF Goto
  <2>2. ~ Queued(c) /\ cur # c
    BY <1>1 DEF SessionInv
  <2>3. QueueInv' /\ \A d \in Client : d # c /\ Queued(d)' => Queued(d)
    BY <1>1, <1>3, <2>2, QueueGrows
  <2>4. SessionInv(c)' /\ OwnInv(c)' /\ ~ Stalled(c)'
    BY <2>1, <2>2 DEF SessionInv, OwnInv, Stalled, Fresh, srvVars
  <2>5. TransferInv'
    BY <1>1, <1>3, <2>1, ClientTransfer
  <2> QED
    BY <1>1, <1>3, <2>1, <2>3, <2>4, <2>5, OthersReply
<1> QED
  BY <1>2, <1>3 DEF Connect

LEMMA SubmitReply ==
  ASSUME ReplyInv, NEW c \in Client, NEW l \in Line, Submit(c, l),
         UNCHANGED <<srvVars, fsVars>>
  PROVE  /\ QueueInv' /\ TransferInv' /\ ExitInv' /\ StallOnlyOnSilentErrno'
         /\ \A d \in Client : SessionInv(d)' /\ OwnInv(d)'
<1>1. /\ conn \in [Client -> Duplex(Line, Piece)] /\ cpc \in [Client -> ClientPc]
      /\ last \in [Client -> Line] /\ cpc[c] = "idle" /\ OneAtATime(c) /\ AliveInv
      /\ UNCHANGED <<alive, backlog, dataBacklog>>
      /\ \A d \in Client : d # c => last'[d] = last[d]
  BY DEF ReplyInv, PortInv, IInv, TypeOK, NetTypeOK, CliTypeOK, Submit, Write, Die
<1>2. CASE Die(c)
  BY <1>1, <1>2, DieReply
<1>3. CASE /\ conn' = IF alive THEN [conn EXCEPT ![c].up = Append(@, l)] ELSE conn
           /\ Goto(c, "wait")
           /\ UNCHANGED <<data, backlog, dataBacklog, alive>>
  <2>1. /\ cpc'[c] = "wait"
        /\ \A d \in Client : d # c => conn'[d] = conn[d] /\ cpc'[d] = cpc[d]
    BY <1>1, <1>3 DEF Goto
  <2>2. /\ conn'[c].down = conn[c].down /\ conn'[c].downEof = conn[c].downEof
        /\ alive => conn'[c].up # <<>>
    <3>1. /\ conn'[c].down = conn[c].down /\ conn'[c].downEof = conn[c].downEof
          /\ alive => conn'[c].up = Append(conn[c].up, l)
      BY <1>1, <1>3 DEF Duplex
    <3>2. conn[c].up \in Seq(Line)
      BY <1>1 DEF Duplex
    <3>3. Append(conn[c].up, l) # <<>>
      BY <3>2, AppendProperties
    <3> QED
      BY <3>1, <3>3
  <2>3. Ends(conn[c].down) = {}
    BY <1>1 DEF OneAtATime
  <2>4. SessionInv(c) /\ Queued(c)' = Queued(c) /\ QueueInv'
        /\ \A d \in Client : d # c /\ Queued(d)' => Queued(d)
    BY <1>1 DEF ReplyInv, Queued, QueueInv
  <2>5. SessionInv(c)'
    BY <1>1, <2>1, <2>2, <2>4 DEF SessionInv, srvVars
  <2>6. OwnInv(c)'
    BY <2>2, <2>3 DEF OwnInv
  <2>7. ~ Stalled(c)'
    BY <1>1, <2>2 DEF Stalled, AliveInv, srvVars
  <2>8. TransferInv'
    BY <1>1, <1>3, <2>1, ClientTransfer
  <2> QED
    BY <1>1, <2>1, <2>4, <2>5, <2>6, <2>7, <2>8, OthersReply
<1> QED
  BY <1>2, <1>3 DEF Submit, Write

LEMMA ReadReplyReply ==
  ASSUME ReplyInv, NEW c \in Client, ReadReply(c), UNCHANGED <<srvVars, fsVars>>
  PROVE  /\ QueueInv' /\ TransferInv' /\ ExitInv' /\ StallOnlyOnSilentErrno'
         /\ \A d \in Client : SessionInv(d)' /\ OwnInv(d)'
<1> DEFINE s == conn[c].down
<1>1. /\ conn \in [Client -> Duplex(Line, Piece)] /\ cpc \in [Client -> ClientPc]
      /\ s \in Seq(Piece) /\ cpc[c] = "wait" /\ OwnInv(c)
      /\ UNCHANGED <<alive, backlog, dataBacklog, last>>
  BY DEF ReplyInv, PortInv, IInv, TypeOK, NetTypeOK, CliTypeOK, Duplex, ReadReply, Die
<1>2. CASE Die(c)
  BY <1>1, <1>2, DieReply
<1>3. CASE ~ Die(c)
  <2>1. PICK k \in 0 .. Len(s) :
          /\ TakesLine(c, k)
          /\ Goto(c, IF last[c].op \in {"STOR", "RETR"} THEN "dial"
                     ELSE IF last[c].op = "QUIT" THEN "bye" ELSE "idle")
          /\ conn' = [conn EXCEPT ![c].down = SubSeq(s, k + 1, Len(s))]
          /\ data' = data
    BY <1>3 DEF ReadReply
  <2>2. /\ cpc'[c] \in {"dial", "bye", "idle"}
        /\ cpc'[c] = "bye" => last[c].op = "QUIT"
        /\ conn'[c].downEof = conn[c].downEof
        /\ \A d \in Client : d # c => conn'[d] = conn[d] /\ cpc'[d] = cpc[d]
    BY <1>1, <2>1 DEF Goto, Duplex
  <2>3. alive /\ last[c].op = "QUIT" => conn[c].downEof
    <3>1. ~ (k > 0 /\ EndsLine(s[k])) => ~ alive \/ conn[c].downEof
      BY <2>1 DEF TakesLine
    <3>2. k > 0 => k \in 1 .. Len(s)
      BY <1>1, LenProperties
    <3>3. last[c].op = "QUIT" => Ends(s) = {}
      BY <1>1 DEF OwnInv
    <3> HIDE DEF s
    <3> QED
      BY <3>1, <3>2, <3>3 DEF Ends
  <2>4. TransferInv'
    BY <1>1, <2>1, <2>2, ClientTransfer
  <2> QED
    BY <1>1, <2>2, <2>3, <2>4, ClientReply
<1> QED
  BY <1>2, <1>3

LEMMA DialReply ==
  ASSUME ReplyInv, NEW c \in Client, DialPut(c) \/ DialGet(c),
         UNCHANGED <<srvVars, fsVars>>
  PROVE  /\ QueueInv' /\ TransferInv' /\ ExitInv' /\ StallOnlyOnSilentErrno'
         /\ \A d \in Client : SessionInv(d)' /\ OwnInv(d)'
<1>1. /\ conn \in [Client -> Duplex(Line, Piece)] /\ cpc \in [Client -> ClientPc]
      /\ data \in [Client -> Duplex(Block, Block)]
      /\ cpc[c] = "dial" /\ UNCHANGED <<alive, backlog, last>>
  BY DEF ReplyInv, PortInv, IInv, TypeOK, NetTypeOK, CliTypeOK, DialPut, DialGet, Dial,
         Opened, NotOpened
<1>2. Expected(c) /\ job = last[c] /\ spc = "dataAccept" /\ cur = c
  BY <1>1 DEF ReplyInv, PortInv, OkMeansExpected, Expected
<1>3. /\ cpc'[c] \in {"put", "spin", "get", "dead"}
      /\ conn'[c].downEof = conn[c].downEof
      /\ \A d \in Client : d # c => conn'[d] = conn[d] /\ cpc'[d] = cpc[d]
  <2>1. CASE conn' = conn
    BY <1>1, <2>1 DEF DialPut, DialGet, Opened, NotOpened, Goto
  <2>2. CASE NotOpened(c)
    BY <1>1, <2>2 DEF NotOpened, Goto, Duplex
  <2> QED
    BY <2>1, <2>2 DEF DialPut, DialGet, Opened
<1>4. TransferInv'
  <2>1. job.op = "RETR" =>
          /\ ~ data'[c].downEof
          /\ cpc'[c] = "dead" \/ (cpc'[c] = "get" /\ ~ data'[c].upEof)
    <3>1. ASSUME Opened(c, "get", <<>>) \/ NotOpened(c)
          PROVE  /\ ~ data'[c].downEof
                 /\ cpc'[c] = "dead" \/ (cpc'[c] = "get" /\ ~ data'[c].upEof)
      BY <1>1, <3>1 DEF Opened, NotOpened, Goto, Fresh
    <3> QED
      BY <1>2, <3>1 DEF DialPut, DialGet
  <2> QED
    BY <1>2, <2>1 DEF TransferInv, srvVars
<1> QED
  BY <1>1, <1>2, <1>3, <1>4, ClientReply

LEMMA MoveReply ==
  ASSUME ReplyInv, NEW c \in Client, UNCHANGED <<srvVars, fsVars>>,
         Put(c) \/ PutDone(c) \/ Get(c) \/ GetDone(c) \/ Bye(c)
  PROVE  /\ QueueInv' /\ TransferInv' /\ ExitInv' /\ StallOnlyOnSilentErrno'
         /\ \A d \in Client : SessionInv(d)' /\ OwnInv(d)'
<1>1. /\ conn \in [Client -> Duplex(Line, Piece)] /\ cpc \in [Client -> ClientPc]
      /\ data \in [Client -> Duplex(Block, Block)]
      /\ cpc[c] \in {"put", "get", "bye"} /\ UNCHANGED last /\ SessionInv(c)
  BY DEF ReplyInv, PortInv, IInv, TypeOK, NetTypeOK, CliTypeOK, Put, PutDone, Get, GetDone,
         Bye
<1>2. CASE Die(c)
  BY <1>1, <1>2, DieReply
<1>3. CASE Bye(c)
  <2>1. /\ cpc[c] = "bye" /\ cpc'[c] = "done"
        /\ conn'[c].downEof = conn[c].downEof
        /\ \A d \in Client : d # c => conn'[d] = conn[d] /\ cpc'[d] = cpc[d]
        /\ UNCHANGED <<alive, backlog, dataBacklog, data>>
    BY <1>1, <1>3 DEF Bye, Goto, Duplex
  <2>2. TransferInv'
    BY <1>1, <2>1, ClientTransfer
  <2> QED
    BY <1>1, <2>1, <2>2, ClientReply DEF SessionInv
<1>4. CASE /\ ~ Die(c)
           /\ Put(c) \/ PutDone(c) \/ Get(c) \/ GetDone(c)
  <2>1. /\ UNCHANGED <<conn, alive, backlog, dataBacklog>>
        /\ cpc'[c] \in {"put", "get", "idle"} /\ cpc[c] # "bye"
        /\ \A d \in Client : d # c => cpc'[d] = cpc[d] /\ data'[d] = data[d]
    BY <1>1, <1>4 DEF Put, PutDone, Get, GetDone, Goto
  <2>2. alive /\ cpc[c] = "get" /\ ~ data[c].downEof =>
          /\ ~ data'[c].downEof
          /\ cpc'[c] = "get" /\ data'[c].upEof = data[c].upEof
    BY <1>1, <1>4 DEF Put, PutDone, Get, GetDone, DataClosed, Duplex
  <2>3. TransferInv'
    BY <1>1, <2>1, <2>2, ClientTransfer
  <2> QED
    BY <1>1, <2>1, <2>3, ClientReply
<1> QED
  BY <1>2, <1>3, <1>4

LEMMA UserReply ==
  ASSUME ReplyInv, NEW c \in Client, UserStep(c), UNCHANGED <<srvVars, fsVars>>
  PROVE  /\ QueueInv' /\ TransferInv' /\ ExitInv' /\ StallOnlyOnSilentErrno'
         /\ \A d \in Client : SessionInv(d)' /\ OwnInv(d)'
<1>1. CASE Type(c) \/ TypeQuit(c)
  <2>1. CliTypeOK
    BY DEF ReplyInv, PortInv, IInv, TypeOK
  <2> QED
    BY <1>1, <2>1, NextLineType, SubmitReply DEF Type, TypeQuit
<1>2. CASE Kill(c)
  BY <1>2, DieReply DEF Kill
<1> QED
  BY <1>1, <1>2, ConnectReply DEF UserStep

----------------------------------------------------------------------------
(* What a client has read.                                                 *)

\* A step in which a client reads nothing, or forgets what it has read.
LEMMA FrameRead ==
  ASSUME ReplyIsOwn,
         \A c \in Client :
           (line'[c] = line[c] /\ last'[c] = last[c]) \/ line'[c] = <<>>
  PROVE  ReplyIsOwn'
<1>1. Len(<<>>) = 0 /\ 1 .. 0 = {}
  OBVIOUS
<1> QED
  BY <1>1 DEF ReplyIsOwn

LEMMA ReadOwn ==
  ASSUME ReplyInv, NEW c \in Client, ReadReply(c)
  PROVE  ReplyIsOwn'
<1> DEFINE s == conn[c].down
<1>1. /\ s \in Seq(Piece) /\ cpc[c] = "wait" /\ OwnInv(c) /\ last' = last
      /\ line \in [Client -> Seq(Piece)] /\ ReplyIsOwn
  BY DEF ReplyInv, PortInv, IInv, TypeOK, NetTypeOK, CliTypeOK, Duplex, ReadReply
<1>2. PICK k \in 0 .. Len(s) :
        TakesLine(c, k) /\ line' = [line EXCEPT ![c] = SubSeq(s, 1, k)]
  BY DEF ReadReply
<1>3. /\ Len(line'[c]) = k
      /\ \A i \in 1 .. k : line'[c][i] = s[i] /\ i \in 1 .. Len(s)
      /\ \A d \in Client : d # c => line'[d] = line[d]
  <2>1. /\ Len(SubSeq(s, 1, k)) = k
        /\ \A i \in 1 .. k : SubSeq(s, 1, k)[i] = s[i] /\ i \in 1 .. Len(s)
    BY <1>1, SubSeqProperties, LenProperties
  <2>2. line'[c] = SubSeq(s, 1, k)
    BY <1>1, <1>2
  <2>3. \A d \in Client : d # c => line'[d] = line[d]
    BY <1>1, <1>2
  <2> HIDE DEF s
  <2> QED
    BY <2>1, <2>2, <2>3
<1>4. ASSUME NEW i \in 1 .. k
      PROVE  IF i = k /\ EndsLine(line'[c][i])
             THEN line'[c][i].n = last[c].n
             ELSE line'[c][i].st = "bye" \/ line'[c][i].st = "noopen"
  <2>1. EndsLine(s[i]) => i = k
    BY <1>2 DEF TakesLine
  <2>2. EndsLine(s[i]) => s[i].n = last[c].n
    BY <1>1, <1>3 DEF OwnInv, Ends
  <2>3. ~ EndsLine(s[i]) => s[i].st = "bye" \/ s[i].st = "noopen"
    BY DEF EndsLine
  <2> HIDE DEF s
  <2> QED
    BY <1>3, <2>1, <2>2, <2>3
<1> QED
  BY <1>1, <1>3, <1>4 DEF ReplyIsOwn

----------------------------------------------------------------------------
(* The theorems.                                                           *)

LEMMA InitReply == Init => ReplyInv
<1> SUFFICES ASSUME Init PROVE ReplyInv
  OBVIOUS
<1>1. PortInv
  BY InitPort
<1>2. /\ spc = "accept" /\ cur = NoClient /\ backlog = <<>> /\ dataBacklog = <<>>
      /\ \A c \in Client : cpc[c] = "off" /\ line[c] = <<>>
      /\ \A c \in Client : ~ conn[c].downEof
  BY DEF Init, NetInit, SrvInit, CliInit, Fresh
<1>3. QueueInv /\ \A c \in Client : ~ Queued(c)
  BY <1>2 DEF QueueInv, Queued
<1>4. TransferInv /\ ExitInv
  BY <1>2 DEF TransferInv, Transferring, ExitInv
<1>5. StallOnlyOnSilentErrno
  BY <1>2 DEF StallOnlyOnSilentErrno, Stalled
<1>6. ReplyIsOwn
  BY <1>2 DEF ReplyIsOwn
<1>7. \A c \in Client : SessionInv(c) /\ OwnInv(c)
  BY <1>2, <1>3, ClientAssumption DEF SessionInv, OwnInv
<1> QED
  BY <1>1, <1>3, <1>4, <1>5, <1>6, <1>7 DEF ReplyInv

LEMMA NextReply == ReplyInv /\ [Next]_vars => ReplyInv'
<1> SUFFICES ASSUME ReplyInv, [Next]_vars PROVE ReplyInv'
  OBVIOUS
<1>1. PortInv'
  BY NextPort DEF ReplyInv
<1>2. ReplyIsOwn
  BY DEF ReplyInv
<1>3. CASE ServerStep
  <2>1. ReplyIsOwn'
    BY <1>2, <1>3, FrameRead DEF ServerStep, cliVars
  <2> QED
    BY <1>1, <1>3, <2>1, ServerReply DEF ReplyInv
<1>4. ASSUME NEW c \in Client, ClientStep(c)
      PROVE  ReplyInv'
  <2>1. UNCHANGED <<srvVars, fsVars>>
    BY <1>4 DEF ClientStep
  <2>2. CASE ReadReply(c)
    BY <1>1, <2>1, <2>2, ReadOwn, ReadReplyReply DEF ReplyInv
  <2>3. CASE DialPut(c) \/ DialGet(c)
    <3>1. ReplyIsOwn'
      BY <1>2, <2>3, FrameRead DEF DialPut, DialGet, Dial
    <3> QED
      BY <1>1, <2>1, <2>3, <3>1, DialReply DEF ReplyInv
  <2>4. CASE Put(c) \/ PutDone(c) \/ Get(c) \/ GetDone(c) \/ Bye(c)
    <3>1. ReplyIsOwn'
      BY <1>2, <2>4, FrameRead DEF Put, PutDone, Get, GetDone, Bye
    <3> QED
      BY <1>1, <2>1, <2>4, <3>1, MoveReply DEF ReplyInv
  <2> QED
    BY <1>4, <2>2, <2>3, <2>4 DEF ClientStep, ProgramStep
<1>5. ASSUME NEW c \in Client, Typing(c)
      PROVE  ReplyInv'
  <2>1. UNCHANGED <<srvVars, fsVars>> /\ UserStep(c)
    BY <1>5 DEF Typing
  <2>2. ReplyIsOwn'
    <3>1. CASE Connect(c) \/ Kill(c)
      BY <1>2, <3>1, FrameRead DEF Connect, Kill
    <3>2. CASE Type(c) \/ TypeQuit(c)
      <4>1. /\ line \in [Client -> Seq(Piece)] /\ last \in [Client -> Line]
        BY DEF ReplyInv, PortInv, IInv, TypeOK, CliTypeOK
      <4>2. PICK l : last' = [last EXCEPT ![c] = l] /\ line' = [line EXCEPT ![c] = <<>>]
        BY <3>2 DEF Type, TypeQuit, Submit
      <4>3. \A d \in Client :
              (line'[d] = line[d] /\ last'[d] = last[d]) \/ line'[d] = <<>>
        BY <4>1, <4>2
      <4> QED
        BY <1>2, <4>3, FrameRead
    <3> QED
      BY <2>1, <3>1, <3>2 DEF UserStep
  <2> QED
    BY <1>1, <2>1, <2>2, UserReply DEF ReplyInv
<1>6. CASE UNCHANGED vars
  <2> USE <1>6 DEF vars, netVars, fsVars, srvVars, cliVars
  <2>1. QueueInv' /\ TransferInv' /\ ExitInv'
    <3>1. spc \in {"noOpen", "crashed"} => Unopenable'
      BY SameTree DEF ReplyInv, TransferInv
    <3> QED
      BY <3>1 DEF ReplyInv, QueueInv, TransferInv, Transferring, ExitInv
  <2>2. StallOnlyOnSilentErrno'
    BY SameTree DEF ReplyInv, StallOnlyOnSilentErrno, Stalled
  <2>3. ASSUME NEW c \in Client
        PROVE  SessionInv(c)' /\ OwnInv(c)'
    BY DEF ReplyInv, SessionInv, Queued, Expected, OwnInv
  <2>4. ReplyIsOwn'
    BY <1>2, FrameRead
  <2> QED
    BY <1>1, <2>1, <2>2, <2>3, <2>4 DEF ReplyInv
<1> QED
  BY <1>3, <1>4, <1>5, <1>6 DEF Next

\* What a client reads as the reply to a request belongs to that request, but
\* for notices of files that could not be opened in front of it.
THEOREM OwnCorrect == Spec => []ReplyIsOwn
<1>1. ReplyInv => ReplyIsOwn
  BY DEF ReplyInv
<1> QED
  BY <1>1, InitReply, NextReply, PTL DEF Spec

\* A client and the server can come to wait for each other only through one of
\* the errors for which the MKD and the RMD handler have no reply.
THEOREM StallCorrect == Spec => []StallOnlyOnSilentErrno
<1>1. ReplyInv => StallOnlyOnSilentErrno
  BY DEF ReplyInv
<1> QED
  BY <1>1, InitReply, NextReply, PTL DEF Spec

\* The server exits only because of the client it is serving, which is gone
\* without QUIT, and crashes only for a file that cannot be opened.
THEOREM BlameCorrect == Spec => []ServerExitBlame
<1>1. ReplyInv => ServerExitBlame
  BY DEF ReplyInv, PortInv, AliveInv, TransferInv, Unopenable, ExitInv, ServerExitBlame
<1> QED
  BY <1>1, InitReply, NextReply, PTL DEF Spec

(***************************************************************************)
(* Transfers: what a STOR stores and what a RETR retrieves is the whole    *)
(* file, but for what read_line discards of too long a line.               *)
(*                                                                         *)
(* A file on its way is cut in two at the beginning of a line: what has    *)
(* been read and written in front of it, and behind it what the reader has *)
(* still to read, in the stream or with the sender.  That one reads a file *)
(* line by line, as the programs do, or as a whole, as Read does, with the *)
(* same result, is why the first part is what Read makes of it.            *)
(***************************************************************************)

\* Of the file f, rest has still to be read; the lines in front are in got.
Moved(f, rest, got) ==
  LET n == Len(f) - Len(rest)
  IN  /\ n >= 0
      /\ rest = SubSeq(f, n + 1, Len(f))
      /\ n = 0 \/ n = Len(f) \/ f[n] = NewLine
      /\ got = Read(SubSeq(f, 1, n))

\* From the dial on the bytes of a STOR are with the client, in the stream or in
\* the file.  A client that has got to anything else has sent all of them, but
\* one that has been killed only a first part.
Storing ==
  \/ spc = "dataAccept" /\ dataBacklog # <<>> /\ job.op = "STOR"
  \/ spc = "store"

Unsent == IF cpc[cur] = "put" THEN buf[cur] ELSE <<>>
Written == IF spc = "store" THEN files[At(Target)] ELSE <<>>

\* The client has had nothing to send.
NothingSent ==
  /\ data[cur].up = <<>>
  /\ Written = <<>>
  /\ \/ cpc[cur] = "spin" /\ ~ data[cur].upEof
     \/ cpc[cur] = "dead" /\ data[cur].upEof

\* It has sent, or still sends, the first k bytes of its file.
Sending(k) ==
  /\ job.src \in DOMAIN LocalFiles
  /\ data[cur].upEof <=> cpc[cur] # "put"
  /\ cpc[cur] # "dead" => k = Len(LocalFiles[job.src])
  /\ Moved(SubSeq(LocalFiles[job.src], 1, k), data[cur].up \o Unsent, Written)

StoreInv ==
  Storing =>
    /\ ~ data[cur].downEof
    /\ \/ NothingSent
       \/ \E k \in 0 .. Len(LocalFiles[job.src]) : Sending(k)

\* A client in the middle of a RETR is the one being served; the bytes are
\* with the server, in the stream or in its buffer.
Incoming(c) == data[c].down \o left

GetInv(c) ==
  cpc[c] = "get" =>
    /\ cur = c /\ job = last[c] /\ job.op = "RETR"
    /\ data[c].downEof <=> spc = "command"
    /\ \/ /\ spc = "dataAccept" /\ dataBacklog # <<>>
          /\ data[c].down = <<>> /\ buf[c] = <<>>
       \/ spc = "spin"
       \/ spc \in {"noOpen", "command", "crashed"} /\ ~ IsFile(Target)
       \/ /\ spc \in {"send", "command"} /\ IsFile(Target)
          /\ spc = "command" => left = <<>>
          /\ Moved(files[At(Target)], Incoming(c), buf[c])

TransInv ==
  /\ ReplyInv
  /\ StoreInv
  /\ \A c \in Client : GetInv(c)

----------------------------------------------------------------------------
(* What Read makes of a file, one line after the other.                    *)

Kept(s) == {i \in 1 .. Len(s) : Keeps(s, i)}
Rank(S, i) == Cardinality({j \in S : j <= i})
Nth(S, r) == CHOOSE i \in S : Rank(S, i) = r

LEMMA ReadIs ==
  ASSUME NEW s
  PROVE  Read(s) = [r \in 1 .. Cardinality(Kept(s)) |-> s[Nth(Kept(s), r)]]
  BY DEF Read, Kept, Nth, Rank

\* Positions are ranked from 1 on, and no two of them alike.
LEMMA RankProperties ==
  ASSUME NEW n \in Nat, NEW S \in SUBSET (1 .. n)
  PROVE  /\ IsFiniteSet(S) /\ Cardinality(S) \in Nat
         /\ \A i \in S : Rank(S, i) \in 1 .. Cardinality(S)
         /\ \A i, j \in S : Rank(S, i) = Rank(S, j) => i = j
<1> DEFINE Upto(i) == {j \in S : j <= i}
<1>1. IsFiniteSet(S) /\ Cardinality(S) \in Nat
  <2>1. IsFiniteSet(1 .. n)
    BY FS_Interval
  <2>2. IsFiniteSet(S)
    BY <2>1, FS_Subset
  <2> QED
    BY <2>2, FS_CardinalityType
<1>2. ASSUME NEW i \in S
      PROVE  /\ IsFiniteSet(Upto(i)) /\ Cardinality(Upto(i)) <= Cardinality(S)
             /\ Cardinality(Upto(i)) \in Nat /\ Cardinality(Upto(i)) # 0
  <2>1. Upto(i) \in SUBSET S
    OBVIOUS
  <2>2. i \in Upto(i)
    OBVIOUS
  <2> HIDE DEF Upto
  <2>3. IsFiniteSet(Upto(i)) /\ Cardinality(Upto(i)) <= Cardinality(S)
    BY <1>1, <2>1, FS_Subset
  <2>4. Cardinality(Upto(i)) \in Nat /\ (Cardinality(Upto(i)) = 0 <=> Upto(i) = {})
    BY <2>3, FS_CardinalityType, FS_EmptySet
  <2> QED
    BY <2>2, <2>3, <2>4
<1>3. ASSUME NEW i \in S, NEW j \in S, i < j
      PROVE  Cardinality(Upto(i)) # Cardinality(Upto(j))
  <2>1. Upto(i) \in SUBSET Upto(j) /\ j \in Upto(j) /\ j \notin Upto(i)
    <3>1. i \in Nat /\ j \in Nat /\ \A x \in S : x \in Nat
      OBVIOUS
    <3>2. j <= j /\ ~ (j <= i) /\ \A x \in S : x <= i => x <= j
      BY <1>3, <3>1
    <3> QED
      BY <3>2
  <2> HIDE DEF Upto
  <2>2. IsFiniteSet(Upto(j))
    BY <1>2
  <2>3. Cardinality(Upto(j)) = Cardinality(Upto(i)) => Upto(j) = Upto(i)
    BY <2>1, <2>2, FS_Subset
  <2> QED
    BY <2>1, <2>3
<1> QED
  <2>1. \A i \in S : Rank(S, i) = Cardinality(Upto(i))
    BY DEF Rank
  <2> HIDE DEF Upto
  <2>2. \A i \in S : i \in Nat
    OBVIOUS
  <2>3. \A i, j \in S : i # j => i < j \/ j < i
    BY <2>2
  <2>4. \A i, j \in S : Rank(S, i) = Rank(S, j) => i = j
    BY <1>3, <2>1, <2>3
  <2>5. \A i \in S : Rank(S, i) \in 1 .. Cardinality(S)
    BY <1>1, <1>2, <2>1
  <2> QED
    BY <1>1, <2>4, <2>5

\* There is a position of every rank.
LEMMA RankOnto ==
  ASSUME NEW n \in Nat, NEW S \in SUBSET (1 .. n), NEW r \in 1 .. Cardinality(S)
  PROVE  \E i \in S : Rank(S, i) = r
<1> DEFINE T == 1 .. Cardinality(S)
           f == [i \in S |-> Rank(S, i)]
<1>1. /\ IsFiniteSet(S) /\ Cardinality(S) \in Nat
      /\ \A i \in S : Rank(S, i) \in T
      /\ \A i, j \in S : Rank(S, i) = Rank(S, j) => i = j
  BY RankProperties
<1>2. IsFiniteSet(T) /\ Cardinality(T) = Cardinality(S)
  BY <1>1, FS_Interval
<1>3. f \in [S -> T] /\ \A a, b \in S : f[a] = f[b] => a = b
  BY <1>1
<1>4. f \in Injection(S, T)
  BY <1>3, Fun_IsInj
<1>5. f \in Surjection(S, T)
  <2> HIDE DEF f, T
  <2> QED
    BY <1>2, <1>4, FS_Injection
<1>6. \E i \in S : f[i] = r
  <2>1. r \in T
    OBVIOUS
  <2> HIDE DEF f, T
  <2>2. \A t \in T : \E s \in S : f[s] = t
    BY <1>5, Fun_SurjectionProperties
  <2> QED
    BY <2>1, <2>2
<1> QED
  BY <1>6

LEMMA NthIs ==
  ASSUME NEW n \in Nat, NEW S \in SUBSET (1 .. n), NEW i \in S
  PROVE  Nth(S, Rank(S, i)) = i
<1>1. \A j \in S : Rank(S, j) = Rank(S, i) => j = i
  BY RankProperties
<1> QED
  BY <1>1 DEF Nth

\* Positions behind all others: they follow in rank, and change no other's.
LEMMA NthGrows ==
  ASSUME NEW n \in Nat, NEW m \in Nat, NEW S \in SUBSET (1 .. n)
  PROVE  LET U == S \cup ((n + 1) .. (n + m))
             k == Cardinality(S)
         IN  /\ k \in Nat /\ Cardinality(U) = k + m
             /\ \A r \in 1 .. k : Nth(U, r) = Nth(S, r) /\ Nth(S, r) \in S
             /\ \A t \in 1 .. m : Nth(U, k + t) = n + t
<1> DEFINE I(t) == (n + 1) .. (n + t)
           U == S \cup I(m)
           k == Cardinality(S)
<1>1. /\ IsFiniteSet(S) /\ k \in Nat
      /\ U \in SUBSET (1 .. (n + m)) /\ n + m \in Nat
  <2>1. U \in SUBSET (1 .. (n + m)) /\ n + m \in Nat
    OBVIOUS
  <2> QED
    BY <2>1, RankProperties
<1>2. ASSUME NEW t \in 0 .. m
      PROVE  Cardinality(S \cup I(t)) = k + t
  <2>1. n + 1 \in Int /\ n + t \in Int /\ S \cap I(t) = {}
    OBVIOUS
  <2>2. IsFiniteSet(I(t)) /\ Cardinality(I(t)) = t
    BY <2>1, FS_Interval
  <2> HIDE DEF I
  <2>3. Cardinality(S \cup I(t)) = k + Cardinality(I(t)) - Cardinality({})
    BY <1>1, <2>1, <2>2, FS_Union
  <2>4. Cardinality({}) = 0
    BY FS_EmptySet
  <2> QED
    BY <1>1, <2>2, <2>3, <2>4
<1>3. ASSUME NEW r \in 1 .. k
      PROVE  Nth(U, r) = Nth(S, r) /\ Nth(S, r) \in S
  <2>1. PICK i \in S : Rank(S, i) = r
    BY RankOnto
  <2>2. {j \in U : j <= i} = {j \in S : j <= i}
    OBVIOUS
  <2>3. Rank(U, i) = r /\ i \in U
    BY <2>1, <2>2 DEF Rank
  <2> HIDE DEF U
  <2> QED
    BY <1>1, <2>1, <2>3, NthIs
<1>4. ASSUME NEW t \in 1 .. m
      PROVE  Nth(U, k + t) = n + t
  <2>1. {j \in U : j <= n + t} = S \cup I(t)
    <3>1. \A j \in S : j \in Nat /\ j <= n + t
      OBVIOUS
    <3>2. \A j : j \in I(m) /\ j <= n + t <=> j \in I(t)
      OBVIOUS
    <3> QED
      BY <3>1, <3>2
  <2>2. n + t \in U /\ t \in 0 .. m
    OBVIOUS
  <2>3. Rank(U, n + t) = k + t
    BY <1>2, <2>1, <2>2 DEF Rank
  <2> HIDE DEF U
  <2> QED
    BY <1>1, <2>2, <2>3, NthIs
<1>5. Cardinality(U) = k + m
  BY <1>2
<1> QED
  BY <1>1, <1>3, <1>4, <1>5

\* The first n bytes of a file.
LEMMA Prefix ==
  ASSUME NEW f \in Content, NEW n \in Nat, n <= Len(f)
  PROVE  /\ SubSeq(f, 1, n) \in Content /\ Len(SubSeq(f, 1, n)) = n
         /\ \A i \in 1 .. n : SubSeq(f, 1, n)[i] = f[i]
<1>1. Len(f) \in Nat
  BY LenProperties DEF Content
<1>2. \A i \in 1 .. n : f[i] \in Block
  BY <1>1, ElementOfSeq DEF Content
<1>3. /\ SubSeq(f, 1, n) \in Content
      /\ Len(SubSeq(f, 1, n)) = IF 1 <= n THEN n - 1 + 1 ELSE 0
      /\ \A i \in 1 .. n - 1 + 1 : SubSeq(f, 1, n)[i] = f[1 + i - 1]
  BY <1>2, SubSeqProperties DEF Content
<1> QED
  BY <1>3

\* Behind the lines that end at n the first MAX_LENGTH - 1 bytes are kept of
\* the line that ends the file.
LEMMA KeptGrows ==
  ASSUME NEW f \in Content, NEW n \in 0 .. Len(f),
         n = 0 \/ f[n] = NewLine,
         \A i \in (n + 1) .. Len(f) : f[i] = NewLine => i = Len(f)
  PROVE  \A i \in 1 .. Len(f) :
           i \in Kept(f) <=> IF i <= n THEN Keeps(f, i) ELSE i - n < MAX_LENGTH
<1>1. Len(f) \in Nat /\ MAX_LENGTH \in Nat /\ MAX_LENGTH >= 2
  BY LengthAssumption, LenProperties DEF Content
<1>2. ASSUME NEW i \in (n + 1) .. Len(f)
      PROVE  Keeps(f, i) <=> i - n < MAX_LENGTH
  <2>1. ASSUME i - n < MAX_LENGTH
        PROVE  Keeps(f, i)
    <3>1. i - n \in 1 .. (MAX_LENGTH - 1) /\ i - (i - n) = n /\ (n = 0 => i - n = i)
      BY <1>1, <2>1
    <3>2. i - n = i \/ (i - n < i /\ f[i - (i - n)] = NewLine)
      BY <3>1
    <3> QED
      BY <3>1, <3>2 DEF Keeps
  <2>2. ASSUME Keeps(f, i)
        PROVE  i - n < MAX_LENGTH
    <3>1. PICK j \in 1 .. (MAX_LENGTH - 1) : j = i \/ (j < i /\ f[i - j] = NewLine)
      BY <2>2 DEF Keeps
    <3>2. CASE j = i
      BY <1>1, <3>2
    <3>3. CASE j < i /\ f[i - j] = NewLine
      <4>1. CASE i - j > n
        <5>1. i - j \in (n + 1) .. Len(f) /\ i - j # Len(f)
          BY <1>1, <4>1
        <5> QED
          BY <3>3, <5>1
      <4>2. CASE i - j <= n
        BY <1>1, <4>2
      <4> QED
        BY <1>1, <4>1, <4>2
    <3> QED
      BY <3>1, <3>2, <3>3
  <2> QED
    BY <2>1, <2>2
<1>3. ASSUME NEW i \in 1 .. Len(f), ~ (i <= n)
      PROVE  i \in (n + 1) .. Len(f)
  BY <1>1, <1>3
<1> QED
  BY <1>2, <1>3 DEF Kept

\* One line more of a file, read as a whole and as read_line reads it.
LEMMA ReadGrows ==
  ASSUME NEW f \in Content, NEW n \in Nat, NEW k \in Nat, n + k <= Len(f),
         n = 0 \/ f[n] = NewLine,
         \A i \in 1 .. k : f[n + i] = NewLine => i = k,
         NEW s \in Content, k <= Len(s), \A i \in 1 .. k : s[i] = f[n + i]
  PROVE  Read(SubSeq(f, 1, n + k)) = Read(SubSeq(f, 1, n)) \o Handed(s, k)
<1> DEFINE m == IF k < MAX_LENGTH THEN k ELSE MAX_LENGTH - 1
           g == SubSeq(f, 1, n)
           h == SubSeq(f, 1, n + k)
           S == Kept(g)
           U == Kept(h)
           c == Cardinality(S)
<1>1. /\ Len(f) \in Nat /\ Len(s) \in Nat /\ MAX_LENGTH \in Nat /\ MAX_LENGTH >= 2
      /\ m \in Nat /\ m <= k
  BY LengthAssumption, LenProperties DEF Content
<1>2. /\ g \in Content /\ Len(g) = n /\ \A i \in 1 .. n : g[i] = f[i]
      /\ h \in Content /\ Len(h) = n + k /\ \A i \in 1 .. n + k : h[i] = f[i]
  BY <1>1, Prefix
<1>3. /\ Handed(s, k) \in Content /\ Len(Handed(s, k)) = m
      /\ \A i \in 1 .. m : Handed(s, k)[i] = f[n + i]
  <2>1. Handed(s, k) = SubSeq(s, 1, m)
    BY DEF Handed
  <2> HIDE DEF m
  <2>2. m <= Len(s)
    BY <1>1
  <2>3. SubSeq(s, 1, m) \in Content /\ Len(SubSeq(s, 1, m)) = m
        /\ \A i \in 1 .. m : SubSeq(s, 1, m)[i] = s[i]
    BY <1>1, <2>2, Prefix
  <2>4. \A i \in 1 .. m : i \in 1 .. k
    BY <1>1
  <2> QED
    BY <2>1, <2>3, <2>4
<1>4. \A i \in 1 .. n + k :
        i \in U <=> IF i <= n THEN Keeps(h, i) ELSE i - n < MAX_LENGTH
  <2>1. n = 0 \/ h[n] = NewLine
    BY <1>2
  <2>2. n \in 0 .. Len(h) /\ h \in Content
    BY <1>2
  <2>3. ASSUME NEW i \in (n + 1) .. Len(h), h[i] = NewLine
        PROVE  i = Len(h)
    <3> HIDE DEF g, h, m, c, S, U
    <3>1. i \in (n + 1) .. (n + k)
      BY <1>2
    <3>2. i - n \in 1 .. k /\ n + (i - n) = i /\ i \in 1 .. n + k
      BY <3>1
    <3>3. f[n + (i - n)] = NewLine
      BY <1>2, <2>3, <3>2
    <3> QED
      BY <1>2, <3>2, <3>3
  <2> HIDE DEF g, h, m, c, S
  <2>4. \A i \in 1 .. Len(h) :
          i \in Kept(h) <=> IF i <= n THEN Keeps(h, i) ELSE i - n < MAX_LENGTH
    BY <2>1, <2>2, <2>3, KeptGrows
  <2> QED
    BY <1>2, <2>4
<1>5. \A i \in 1 .. n : Keeps(h, i) <=> Keeps(g, i)
  <2> TAKE i \in 1 .. n
  <2> HIDE DEF g, h
  <2>1. \A j \in 1 .. (MAX_LENGTH - 1) : j < i => i - j \in 1 .. n /\ h[i - j] = g[i - j]
    <3> TAKE j \in 1 .. (MAX_LENGTH - 1)
    <3> HAVE j < i
    <3>1. i - j \in 1 .. n /\ i - j \in 1 .. n + k
      BY <1>1
    <3> QED
      BY <1>2, <3>1
  <2> QED
    BY <2>1 DEF Keeps
<1>6. S \in SUBSET (1 .. n) /\ U = S \cup ((n + 1) .. (n + m))
  <2>1. S \in SUBSET (1 .. n) /\ U \in SUBSET (1 .. n + k)
    BY <1>2 DEF Kept
  <2>2. \A i \in 1 .. n : i \in S <=> Keeps(g, i)
    BY <1>2 DEF Kept
  <2> HIDE DEF g, h, S, U
  <2>3. \A i \in (n + 1) .. (n + m) : i \in 1 .. n + k /\ ~ (i <= n) /\ i - n < MAX_LENGTH
    BY <1>1
  <2>4. \A i \in 1 .. n + k : i - n < MAX_LENGTH => i <= n \/ i \in (n + 1) .. (n + m)
    BY <1>1
  <2>5. \A i \in 1 .. n : i \in 1 .. n + k /\ i <= n
    OBVIOUS
  <2>6. \A i \in 1 .. n + k : i <= n => i \in 1 .. n
    OBVIOUS
  <2> QED
    BY <1>4, <1>5, <2>1, <2>2, <2>3, <2>4, <2>5, <2>6
<1> HIDE DEF m, g, h, S, U
<1>7. /\ c \in Nat /\ Cardinality(U) = c + m
      /\ \A r \in 1 .. c : Nth(U, r) = Nth(S, r) /\ Nth(S, r) \in S
      /\ \A t \in 1 .. m : Nth(U, c + t) = n + t
  <2> DEFINE V == S \cup ((n + 1) .. (n + m))
  <2>1. /\ c \in Nat /\ Cardinality(V) = c + m
        /\ \A r \in 1 .. c : Nth(V, r) = Nth(S, r) /\ Nth(S, r) \in S
        /\ \A t \in 1 .. m : Nth(V, c + t) = n + t
    BY <1>1, <1>6, NthGrows
  <2> QED
    BY <1>6, <2>1
<1> HIDE DEF c
<1>8. /\ Read(g) = [r \in 1 .. c |-> g[Nth(S, r)]]
      /\ Read(h) = [r \in 1 .. c + m |-> h[Nth(U, r)]]
  BY <1>7, ReadIs DEF S, U, c
<1>9. \A r \in 1 .. c : h[Nth(U, r)] = g[Nth(S, r)] /\ g[Nth(S, r)] \in Block
  <2> TAKE r \in 1 .. c
  <2>1. Nth(S, r) \in 1 .. n /\ Nth(S, r) \in 1 .. n + k /\ Nth(U, r) = Nth(S, r)
    <3>1. Nth(S, r) \in S /\ Nth(U, r) = Nth(S, r)
      BY <1>7
    <3>2. Nth(S, r) \in 1 .. n
      BY <1>6, <3>1
    <3> QED
      BY <3>1, <3>2
  <2> QED
    BY <1>2, <2>1, ElementOfSeq DEF Content
<1>10. \A t \in 1 .. m : h[Nth(U, c + t)] = Handed(s, k)[t] /\ Handed(s, k)[t] \in Block
  <2> TAKE t \in 1 .. m
  <2>1. Nth(U, c + t) = n + t /\ n + t \in 1 .. n + k
    BY <1>1, <1>7
  <2> QED
    BY <1>2, <1>3, <2>1, ElementOfSeq DEF Content
<1>11. Read(g) \in Content /\ Len(Read(g)) = c
  <2>1. \A r \in 1 .. c : g[Nth(S, r)] \in Block
    BY <1>9
  <2>2. [r \in 1 .. c |-> g[Nth(S, r)]] \in Seq(Block)
    BY <1>7, <2>1, IsASeq
  <2>3. Len(Read(g)) \in Nat /\ DOMAIN Read(g) = 1 .. Len(Read(g)) /\ DOMAIN Read(g) = 1 .. c
    BY <1>8, <2>2, LenProperties
  <2> QED
    BY <1>7, <1>8, <2>2, <2>3 DEF Content
<1> DEFINE v == Read(g) \o Handed(s, k)
<1>12. /\ v \in Content /\ Len(v) = c + m
       /\ \A r \in 1 .. c + m :
            v[r] = IF r <= c THEN Read(g)[r] ELSE Handed(s, k)[r - c]
  <2>1. /\ v \in Content /\ Len(v) = Len(Read(g)) + Len(Handed(s, k))
        /\ \A r \in 1 .. Len(Read(g)) + Len(Handed(s, k)) :
             v[r] = IF r <= Len(Read(g)) THEN Read(g)[r] ELSE Handed(s, k)[r - Len(Read(g))]
    <3>1. Read(g) \in Seq(Block) /\ Handed(s, k) \in Seq(Block)
      BY <1>3, <1>11 DEF Content
    <3> QED
      BY <3>1, ConcatProperties DEF Content
  <2> HIDE DEF v
  <2> QED
    BY <1>3, <1>11, <2>1
<1> HIDE DEF v
<1>13. \A r \in 1 .. c + m : v[r] = h[Nth(U, r)]
  <2> TAKE r \in 1 .. c + m
  <2>1. CASE r <= c
    <3>1. r \in 1 .. c
      BY <1>1, <1>7, <2>1
    <3> QED
      BY <1>8, <1>9, <1>12, <2>1, <3>1
  <2>2. CASE ~ (r <= c)
    <3>1. r - c \in 1 .. m /\ c + (r - c) = r
      BY <1>1, <1>7, <2>2
    <3>2. v[r] = Handed(s, k)[r - c]
      BY <1>12, <2>2
    <3>3. h[Nth(U, c + (r - c))] = Handed(s, k)[r - c]
      BY <1>10, <3>1
    <3> QED
      BY <3>1, <3>2, <3>3
  <2> QED
    BY <2>1, <2>2
<1>14. v = [r \in 1 .. c + m |-> h[Nth(U, r)]]
  <2>1. v \in [1 .. c + m -> Block]
    BY <1>12, LenProperties DEF Content
  <2> QED
    BY <1>13, <2>1
<1> QED
  BY <1>8, <1>14 DEF v, g, h

----------------------------------------------------------------------------
(* A file on its way.                                                      *)

\* The rest of a file from position n on.
LEMMA Suffix ==
  ASSUME NEW f \in Content, NEW n \in Nat, n <= Len(f)
  PROVE  /\ SubSeq(f, n + 1, Len(f)) \in Content
         /\ Len(SubSeq(f, n + 1, Len(f))) = Len(f) - n
         /\ \A i \in 1 .. Len(f) - n : SubSeq(f, n + 1, Len(f))[i] = f[n + i]
<1>1. Len(f) \in Nat
  BY LenProperties DEF Content
<1>2. \A i \in (n + 1) .. Len(f) : f[i] \in Block
  BY <1>1, ElementOfSeq DEF Content
<1>3. /\ SubSeq(f, n + 1, Len(f)) \in Content
      /\ Len(SubSeq(f, n + 1, Len(f)))
           = IF n + 1 <= Len(f) THEN Len(f) - (n + 1) + 1 ELSE 0
      /\ \A i \in 1 .. Len(f) - (n + 1) + 1 :
           SubSeq(f, n + 1, Len(f))[i] = f[n + 1 + i - 1]
  BY <1>1, <1>2, SubSeqProperties DEF Content
<1>4. \A i \in 1 .. Len(f) - n : n + 1 + i - 1 = n + i
  BY <1>1
<1> QED
  BY <1>1, <1>3, <1>4

LEMMA MovedIs ==
  ASSUME NEW f \in Content, NEW rest \in Content, NEW got,
         NEW n \in Nat, n + Len(rest) = Len(f),
         rest = SubSeq(f, n + 1, Len(f)), got = Read(SubSeq(f, 1, n)),
         n = 0 \/ n = Len(f) \/ f[n] = NewLine
  PROVE  Moved(f, rest, got)
<1>1. Len(f) - Len(rest) = n /\ n >= 0
  BY LenProperties DEF Content
<1> QED
  BY <1>1 DEF Moved

\* At first all of it has still to be read.
LEMMA MovedNothing ==
  ASSUME NEW f \in Content
  PROVE  Moved(f, f, <<>>)
<1>1. Len(f) \in Nat /\ Len(f) - Len(f) = 0
  BY LenProperties DEF Content
<1>2. f = SubSeq(f, 0 + 1, Len(f))
  BY SubSeqFull DEF Content
<1>3. SubSeq(f, 1, 0) = <<>> /\ Len(<<>>) = 0
  BY SubSeqEmpty
<1>4. Read(<<>>) = <<>>
  <2>1. Kept(<<>>) = {}
    BY <1>3 DEF Kept
  <2>2. Cardinality({}) = 0 /\ 1 .. 0 = {}
    BY FS_EmptySet
  <2>3. Read(<<>>) = [r \in {} |-> <<>>[Nth(Kept(<<>>), r)]]
    BY <2>1, <2>2, ReadIs
  <2> QED
    BY <2>3
<1>5. <<>> = Read(SubSeq(f, 1, 0))
  BY <1>3, <1>4
<1>6. 0 + Len(f) = Len(f) /\ 0 \in Nat
  BY <1>1
<1> QED
  BY <1>2, <1>5, <1>6, MovedIs

\* At last nothing is left, and Read says what has come of it.
LEMMA MovedAll ==
  ASSUME NEW f \in Content, NEW got, Moved(f, <<>>, got)
  PROVE  got = Read(f)
<1>1. Len(f) \in Nat /\ Len(<<>>) = 0 /\ Len(f) - 0 = Len(f)
  BY EmptySeq, LenProperties DEF Content
<1>2. SubSeq(f, 1, Len(f)) = f
  BY SubSeqFull DEF Content
<1> QED
  BY <1>1, <1>2 DEF Moved

\* A line is read from the stream s, behind which t has still to be sent.
LEMMA MovedLine ==
  ASSUME NEW f \in Content, NEW s \in Content, NEW t \in Content, NEW got,
         Moved(f, s \o t, got),
         NEW k \in 1 .. Len(s), NEW e, TakesBytes(s, e, k), e => t = <<>>
  PROVE  /\ SubSeq(s, k + 1, Len(s)) \in Content
         /\ Moved(f, SubSeq(s, k + 1, Len(s)) \o t, got \o Handed(s, k))
<1> DEFINE n == Len(f) - Len(s \o t)
           u == SubSeq(s, k + 1, Len(s))
<1>1. Len(f) \in Nat /\ Len(s) \in Nat /\ Len(t) \in Nat /\ k \in Nat /\ k <= Len(s)
  BY LenProperties DEF Content
<1>2. /\ s \o t \in Content /\ Len(s \o t) = Len(s) + Len(t)
      /\ \A i \in 1 .. Len(s) + Len(t) :
           (s \o t)[i] = IF i <= Len(s) THEN s[i] ELSE t[i - Len(s)]
  BY ConcatProperties DEF Content
<1>3. /\ n >= 0 /\ s \o t = SubSeq(f, n + 1, Len(f)) /\ got = Read(SubSeq(f, 1, n))
      /\ n = 0 \/ n = Len(f) \/ f[n] = NewLine
  BY DEF Moved
<1>4. n \in Nat /\ n + Len(s) + Len(t) = Len(f) /\ n # Len(f)
  BY <1>1, <1>2, <1>3
<1> HIDE DEF n
<1>5. \A i \in 1 .. Len(s) + Len(t) : (s \o t)[i] = f[n + i]
  <2>1. n <= Len(f) /\ Len(f) - n = Len(s) + Len(t)
    BY <1>1, <1>4
  <2> QED
    BY <1>3, <1>4, <2>1, Suffix
<1>6. \A i \in 1 .. Len(s) : s[i] = f[n + i]
  BY <1>1, <1>2, <1>5
<1>7. /\ u \in Content /\ Len(u) = Len(s) - k
      /\ \A i \in 1 .. Len(s) - k : u[i] = s[k + i]
  BY <1>1, Suffix
<1> HIDE DEF u
<1>8. /\ u \o t \in Content /\ Len(u \o t) = Len(s) - k + Len(t)
      /\ \A i \in 1 .. Len(s) - k + Len(t) :
           (u \o t)[i] = IF i <= Len(s) - k THEN u[i] ELSE t[i - (Len(s) - k)]
  <2>1. /\ u \o t \in Content /\ Len(u \o t) = Len(u) + Len(t)
        /\ \A i \in 1 .. Len(u) + Len(t) :
             (u \o t)[i] = IF i <= Len(u) THEN u[i] ELSE t[i - Len(u)]
    BY <1>7, ConcatProperties DEF Content
  <2> QED
    BY <1>7, <2>1
<1>9. n + k + Len(u \o t) = Len(f) /\ n + k \in Nat /\ n + k <= Len(f)
  <2>1. Len(u \o t) = Len(s) - k + Len(t)
    BY <1>8
  <2> QED
    BY <1>1, <1>4, <2>1
<1>10. u \o t = SubSeq(f, n + k + 1, Len(f))
  <2> DEFINE v == SubSeq(f, n + k + 1, Len(f))
  <2>1. /\ v \in Content /\ Len(v) = Len(f) - (n + k)
        /\ \A i \in 1 .. Len(f) - (n + k) : v[i] = f[n + k + i]
    BY <1>9, Suffix
  <2> HIDE DEF v
  <2>2. Len(v) = Len(u \o t) /\ Len(u \o t) = Len(s) - k + Len(t)
    BY <1>1, <1>4, <1>8, <2>1
  <2>3. ASSUME NEW i \in 1 .. Len(s) - k + Len(t)
        PROVE  (u \o t)[i] = v[i]
    <3>1. /\ k + i \in 1 .. Len(s) + Len(t) /\ n + (k + i) = n + k + i
          /\ i \in 1 .. Len(f) - (n + k)
      BY <1>1, <1>4
    <3>2. v[i] = (s \o t)[k + i]
      BY <1>5, <2>1, <3>1
    <3>3. CASE i <= Len(s) - k
      <4>1. i \in 1 .. Len(s) - k /\ k + i <= Len(s)
        BY <1>1, <3>3
      <4> QED
        BY <1>2, <1>7, <1>8, <3>1, <3>2, <3>3, <4>1
    <3>4. CASE ~ (i <= Len(s) - k)
      <4>1. ~ (k + i <= Len(s)) /\ k + i - Len(s) = i - (Len(s) - k)
        BY <1>1, <3>4
      <4> QED
        BY <1>2, <1>8, <3>1, <3>2, <3>4, <4>1
    <3> QED
      BY <3>3, <3>4
  <2>4. u \o t = v
    BY <1>8, <2>1, <2>2, <2>3, SeqEqual DEF Content
  <2> QED
    BY <2>4 DEF v
<1>11. n + k = Len(f) \/ f[n + k] = NewLine
  <2>1. CASE s[k] = NewLine
    BY <1>6, <2>1
  <2>2. CASE e /\ k = Len(s)
    BY <1>4, <2>2
  <2> QED
    BY <2>1, <2>2 DEF TakesBytes
<1>12. Read(SubSeq(f, 1, n + k)) = got \o Handed(s, k)
  <2>1. \A i \in 1 .. k : f[n + i] = s[i]
    BY <1>1, <1>6
  <2>2. \A i \in 1 .. k : f[n + i] = NewLine => i = k
    BY <2>1 DEF TakesBytes
  <2>3. n = 0 \/ f[n] = NewLine
    BY <1>3, <1>4
  <2>4. n \in Nat /\ k \in Nat /\ n + k <= Len(f) /\ k <= Len(s)
        /\ \A i \in 1 .. k : s[i] = f[n + i]
    BY <1>1, <1>4, <1>9, <2>1
  <2>5. Read(SubSeq(f, 1, n + k)) = Read(SubSeq(f, 1, n)) \o Handed(s, k)
    BY <2>2, <2>3, <2>4, ReadGrows
  <2> QED
    BY <1>3, <2>5
<1>13. u \in Content /\ Moved(f, u \o t, got \o Handed(s, k))
  BY <1>7, <1>8, <1>9, <1>10, <1>11, <1>12, MovedIs
<1> QED
  BY <1>13 DEF u

\* A first part of a first part is one of the whole.
LEMMA FirstPart ==
  ASSUME NEW f \in Content, NEW k \in 0 .. Len(f)
  PROVE  /\ SubSeq(f, 1, k) \in Content
         /\ Len(SubSeq(f, 1, k)) = k
         /\ \A n \in 0 .. k : SubSeq(SubSeq(f, 1, k), 1, n) = SubSeq(f, 1, n)
<1> DEFINE g == SubSeq(f, 1, k)
<1>1. Len(f) \in Nat /\ k \in Nat /\ k <= Len(f)
  BY LenProperties DEF Content
<1>2. g \in Content /\ Len(g) = k /\ \A i \in 1 .. k : g[i] = f[i]
  BY <1>1, Prefix
<1>3. ASSUME NEW n \in 0 .. k
      PROVE  SubSeq(g, 1, n) = SubSeq(f, 1, n)
  <2> HIDE DEF g
  <2> DEFINE u == SubSeq(g, 1, n)
             v == SubSeq(f, 1, n)
  <2>1. n \in Nat /\ n <= k /\ n <= Len(f) /\ n <= Len(g)
    BY <1>1, <1>2
  <2>2. u \in Content /\ Len(u) = n /\ \A i \in 1 .. n : u[i] = g[i]
    BY <1>2, <2>1, Prefix
  <2>3. v \in Content /\ Len(v) = n /\ \A i \in 1 .. n : v[i] = f[i]
    BY <2>1, Prefix
  <2> HIDE DEF u, v
  <2>4. \A i \in 1 .. n : u[i] = v[i]
    BY <1>1, <1>2, <2>1, <2>2, <2>3
  <2>5. u = v
    BY <2>2, <2>3, <2>4, SeqEqual DEF Content
  <2> QED
    BY <2>5 DEF u, v
<1> QED
  BY <1>2, <1>3

\* What has come of a file is what Read makes of a first part of it.
LEMMA MovedFirst ==
  ASSUME NEW f \in Content, NEW rest \in Content, NEW got, Moved(f, rest, got)
  PROVE  \E n \in 0 .. Len(f) : got = Read(SubSeq(f, 1, n))
<1>1. Len(f) \in Nat /\ Len(rest) \in Nat
  BY LenProperties DEF Content
<1>2. Len(f) - Len(rest) \in 0 .. Len(f)
  BY <1>1 DEF Moved
<1> QED
  BY <1>2 DEF Moved

\* When the sender of t is gone, the stream s is all that comes of the file.
LEMMA MovedCut ==
  ASSUME NEW f \in Content, NEW s \in Content, NEW t \in Content, NEW got,
         Moved(f, s \o t, got)
  PROVE  \E k \in 0 .. Len(f) : Moved(SubSeq(f, 1, k), s, got)
<1> DEFINE n == Len(f) - Len(s \o t)
           k == n + Len(s)
           g == SubSeq(f, 1, k)
<1>1. Len(f) \in Nat /\ Len(s) \in Nat /\ Len(t) \in Nat
  BY LenProperties DEF Content
<1>2. /\ Len(s \o t) = Len(s) + Len(t)
      /\ \A i \in 1 .. Len(s) + Len(t) :
           (s \o t)[i] = IF i <= Len(s) THEN s[i] ELSE t[i - Len(s)]
  BY ConcatProperties DEF Content
<1>3. /\ n >= 0 /\ s \o t = SubSeq(f, n + 1, Len(f)) /\ got = Read(SubSeq(f, 1, n))
      /\ n = 0 \/ n = Len(f) \/ f[n] = NewLine
  BY DEF Moved
<1>4. /\ n \in Nat /\ n + Len(s) + Len(t) = Len(f)
      /\ k \in 0 .. Len(f) /\ n \in 0 .. k /\ n + Len(s) = k
  BY <1>1, <1>2, <1>3
<1> HIDE DEF n
<1>5. \A i \in 1 .. Len(s) : s[i] = f[n + i]
  <2>1. n <= Len(f) /\ Len(f) - n = Len(s) + Len(t)
    BY <1>1, <1>4
  <2>2. \A i \in 1 .. Len(s) + Len(t) : (s \o t)[i] = f[n + i]
    BY <1>3, <1>4, <2>1, Suffix
  <2> QED
    BY <1>1, <1>2, <2>2
<1> HIDE DEF k
<1>6. /\ g \in Content /\ Len(g) = k /\ SubSeq(g, 1, n) = SubSeq(f, 1, n)
      /\ \A i \in 1 .. k : g[i] = f[i]
  <2>1. k \in Nat /\ k <= Len(f)
    BY <1>1, <1>4
  <2> QED
    BY <1>4, <2>1, FirstPart, Prefix
<1> HIDE DEF g
<1>7. s = SubSeq(g, n + 1, Len(g))
  <2> DEFINE v == SubSeq(g, n + 1, Len(g))
  <2>1. n <= Len(g) /\ Len(g) - n = Len(s)
    BY <1>1, <1>4, <1>6
  <2>2. v \in Content /\ Len(v) = Len(s) /\ \A i \in 1 .. Len(s) : v[i] = g[n + i]
    BY <1>4, <1>6, <2>1, Suffix
  <2> HIDE DEF v
  <2>3. \A i \in 1 .. Len(s) : n + i \in 1 .. k
    BY <1>1, <1>4
  <2>4. \A i \in 1 .. Len(s) : s[i] = v[i]
    BY <1>5, <1>6, <2>2, <2>3
  <2>5. s = v
    BY <2>2, <2>4, SeqEqual DEF Content
  <2> QED
    BY <2>5 DEF v
<1>8. n = 0 \/ n = Len(g) \/ g[n] = NewLine
  <2>1. CASE n = Len(f)
    BY <1>1, <1>4, <1>6, <2>1
  <2>2. CASE n # 0 /\ f[n] = NewLine
    <3>1. n \in 1 .. k
      BY <1>1, <1>4, <2>2
    <3> QED
      BY <1>6, <2>2, <3>1
  <2> QED
    BY <1>3, <2>1, <2>2
<1>9. Moved(g, s, got)
  BY <1>1, <1>3, <1>4, <1>6, <1>7, <1>8, MovedIs
<1> QED
  BY <1>4, <1>9 DEF g

\* A byte is sent, and is still to be read.
LEMMA SendsByte ==
  ASSUME NEW s \in Content, NEW t \in Content, t # <<>>
  PROVE  Append(s, Head(t)) \o Tail(t) = s \o t
<1>1. Head(t) \in Block /\ Tail(t) \in Content /\ Len(t) \in Nat \ {0}
      /\ Len(Tail(t)) = Len(t) - 1 /\ \A i \in 1 .. Len(Tail(t)) : Tail(t)[i] = t[i + 1]
  BY HeadTailProperties, EmptySeq DEF Content
<1>2. Head(t) = t[1]
  BY DEF Content
<1> DEFINE a == Append(s, Head(t))
<1>3. /\ a \in Content /\ Len(a) = Len(s) + 1 /\ a[Len(s) + 1] = t[1]
      /\ \A i \in 1 .. Len(s) : a[i] = s[i]
  BY <1>1, <1>2, AppendProperties DEF Content
<1> HIDE DEF a
<1>4. Len(s) \in Nat
  BY LenProperties DEF Content
<1>5. /\ a \o Tail(t) \in Content /\ Len(a \o Tail(t)) = Len(a) + Len(Tail(t))
      /\ \A i \in 1 .. Len(a) + Len(Tail(t)) :
           (a \o Tail(t))[i] = IF i <= Len(a) THEN a[i] ELSE Tail(t)[i - Len(a)]
  BY <1>1, <1>3, ConcatProperties DEF Content
<1>6. /\ s \o t \in Content /\ Len(s \o t) = Len(s) + Len(t)
      /\ \A i \in 1 .. Len(s) + Len(t) :
           (s \o t)[i] = IF i <= Len(s) THEN s[i] ELSE t[i - Len(s)]
  BY ConcatProperties DEF Content
<1>7. Len(a \o Tail(t)) = Len(s \o t) /\ Len(a) + Len(Tail(t)) = Len(s) + Len(t)
      /\ Len(s \o t) = Len(s) + Len(t)
  BY <1>1, <1>3, <1>4, <1>5, <1>6
<1>8. ASSUME NEW i \in 1 .. Len(s) + Len(t)
      PROVE  (a \o Tail(t))[i] = (s \o t)[i]
  <2>1. CASE i <= Len(s)
    <3>1. i \in 1 .. Len(s) /\ i <= Len(a)
      BY <1>3, <1>4, <2>1
    <3> QED
      BY <1>3, <1>5, <1>6, <1>7, <2>1, <3>1
  <2>2. CASE i = Len(s) + 1
    <3>1. i <= Len(a) /\ ~ (i <= Len(s)) /\ i - Len(s) = 1
      BY <1>3, <1>4, <2>2
    <3> QED
      BY <1>3, <1>5, <1>6, <1>7, <2>2, <3>1
  <2>3. CASE i > Len(s) + 1
    <3>1. /\ ~ (i <= Len(a)) /\ ~ (i <= Len(s)) /\ i - Len(a) \in 1 .. Len(Tail(t))
          /\ i - Len(a) + 1 = i - Len(s)
      BY <1>1, <1>3, <1>4, <2>3
    <3> QED
      BY <1>1, <1>5, <1>6, <1>7, <3>1
  <2>4. i <= Len(s) \/ i = Len(s) + 1 \/ i > Len(s) + 1
    BY <1>1, <1>4
  <2> QED
    BY <2>1, <2>2, <2>3, <2>4
<1>9. a \o Tail(t) = s \o t
  BY <1>5, <1>6, <1>7, <1>8, SeqEqual DEF Content
<1> QED
  BY <1>9 DEF a

----------------------------------------------------------------------------
(* STOR.                                                                   *)

\* What StoreInv speaks of has the right types.
LEMMA StoreTypes ==
  ASSUME TransInv, Storing
  PROVE  /\ cur \in Client /\ alive /\ data[cur] \in Duplex(Block, Block)
         /\ data[cur].up \in Content /\ Unsent \in Content
         /\ \A x \in DOMAIN LocalFiles : LocalFiles[x] \in Content
<1>1. NetTypeOK /\ SrvTypeOK /\ CliTypeOK /\ AliveInv
  BY DEF TransInv, ReplyInv, PortInv, IInv, TypeOK
<1>2. cur \in Client /\ alive
  BY <1>1 DEF Storing, SrvTypeOK, AliveInv
<1>3. data[cur] \in Duplex(Block, Block) /\ buf[cur] \in Content
  BY <1>1, <1>2 DEF NetTypeOK, CliTypeOK
<1>4. data[cur].up \in Content
  BY <1>3 DEF Duplex, Content
<1>5. Unsent \in Content
  BY <1>3 DEF Unsent, Content
<1> QED
  BY <1>2, <1>3, <1>4, <1>5, LocalFilesAssumption

\* What leaves the server, the stream and the client's part in the transfer alone.
LEMMA FrameStore ==
  ASSUME StoreInv, UNCHANGED <<srvVars, fsVars>>, Storing' => Storing,
         data'[cur] = data[cur], buf'[cur] = buf[cur],
         \A pc \in {"put", "spin", "dead"} : (cpc'[cur] = pc) = (cpc[cur] = pc)
  PROVE  StoreInv'
<1>1. UNCHANGED <<spc, cur, job, files, cwd, wd>>
  BY DEF srvVars, fsVars
<1>2. At(Target)' = At(Target)
  BY <1>1 DEF At, Target, Under
<1>3. Written' = Written
  BY <1>1, <1>2 DEF Written
<1>4. Unsent' = Unsent
  BY <1>1 DEF Unsent
<1>5. NothingSent => NothingSent'
  BY <1>1, <1>3 DEF NothingSent
<1>6. \A k : Sending(k) => Sending(k)'
  BY <1>1, <1>3, <1>4 DEF Sending
<1> QED
  BY <1>1, <1>5, <1>6 DEF StoreInv

\* The server opens the file: it is empty.
LEMMA StorOpenStore ==
  ASSUME TransInv, UNCHANGED cliVars, StorOpen
  PROVE  StoreInv'
<1>1. /\ spc = "dataAccept" /\ dataBacklog # <<>> /\ job.op = "STOR"
      /\ UNCHANGED <<data, cur, wd, job, cpc, buf>>
  BY DEF StorOpen, TakeData, cliVars
<1>2. Storing /\ StoreInv /\ Written = <<>>
  BY <1>1 DEF TransInv, Storing, Written
<1>3. CASE spc' = "store"
  <2>1. WriteFile(At(Target), <<>>)
    BY <1>3 DEF StorOpen, Notice, ContinueOrBroken
  <2>2. At(Target)' = At(Target)
    BY <1>1, <2>1 DEF WriteFile, At, Target, Under
  <2>3. Written' = <<>>
    BY <1>3, <2>1, <2>2 DEF WriteFile, Written
  <2>4. Unsent' = Unsent
    BY <1>1 DEF Unsent
  <2>5. /\ NothingSent => NothingSent'
        /\ \A k : Sending(k) => Sending(k)'
    BY <1>1, <1>2, <2>3, <2>4 DEF NothingSent, Sending
  <2> QED
    BY <1>1, <1>2, <2>5 DEF StoreInv
<1>4. CASE spc' # "store"
  <2>1. spc' # "dataAccept"
    BY <1>1, <1>4 DEF StorOpen, Notice, ContinueOrBroken
  <2> QED
    BY <1>4, <2>1 DEF StoreInv, Storing
<1> QED
  BY <1>3, <1>4

\* The server writes a line to the file.
LEMMA StoreStore ==
  ASSUME TransInv, UNCHANGED cliVars, Store
  PROVE  StoreInv'
<1>1. /\ spc = "store" /\ UNCHANGED srvVars /\ UNCHANGED <<cpc, buf>>
      /\ UNCHANGED <<spc, cur, wd, job>>
  BY DEF Store, cliVars, srvVars
<1>2. Storing /\ StoreInv /\ peer = cur
  BY <1>1 DEF TransInv, ReplyInv, TransferInv, Storing
<1> DEFINE s == data[cur].up
<1>3. PICK k \in 1 .. Len(s) :
        /\ TakesBytes(s, data[cur].upEof, k)
        /\ WriteFile(At(Target), files[At(Target)] \o Handed(s, k))
        /\ data' = [data EXCEPT ![cur].up = SubSeq(s, k + 1, Len(s))]
  BY <1>2 DEF Store
<1>4. /\ cur \in Client /\ s \in Content /\ Unsent \in Content
      /\ data \in [Client -> Duplex(Block, Block)]
  BY <1>2, StoreTypes DEF TransInv, ReplyInv, PortInv, IInv, TypeOK, NetTypeOK
<1>5. /\ data'[cur].up = SubSeq(s, k + 1, Len(s))
      /\ data'[cur].upEof = data[cur].upEof /\ data'[cur].downEof = data[cur].downEof
  BY <1>3, <1>4 DEF Duplex
<1>6. At(Target)' = At(Target)
  BY <1>1, <1>3 DEF WriteFile, At, Target, Under
<1>7. Written = files[At(Target)] /\ Written' = Written \o Handed(s, k)
  BY <1>1, <1>3, <1>6 DEF WriteFile, Written
<1>8. Unsent' = Unsent
  BY <1>1 DEF Unsent
<1>9. ~ NothingSent
  <2>1. s # <<>>
    BY <1>3, <1>4, EmptySeq DEF Content
  <2> QED
    BY <2>1 DEF NothingSent
<1>10. PICK n \in 0 .. Len(LocalFiles[job.src]) : Sending(n)
  BY <1>2, <1>9 DEF StoreInv
<1>11. Sending(n)'
  <2>1. data[cur].upEof => Unsent = <<>>
    BY <1>10 DEF Sending, Unsent
  <2> DEFINE f == SubSeq(LocalFiles[job.src], 1, n)
             u == SubSeq(s, k + 1, Len(s))
  <2>2. f \in Content /\ Moved(f, s \o Unsent, Written)
    BY <1>10, LocalFilesAssumption, FirstPart DEF Sending
  <2> HIDE DEF s, f
  <2>3. Moved(f, u \o Unsent, Written \o Handed(s, k))
    BY <1>3, <1>4, <2>1, <2>2, MovedLine DEF s
  <2> USE DEF s, f
  <2>4. Moved(SubSeq(LocalFiles[job.src], 1, n), data[cur].up \o Unsent, Written)'
    BY <1>1, <1>5, <1>7, <1>8, <2>3
  <2> QED
    BY <1>1, <1>5, <1>10, <2>4 DEF Sending
<1> QED
  BY <1>1, <1>2, <1>5, <1>10, <1>11 DEF StoreInv

\* No other step of the server begins or continues to store.
LEMMA NotStoring ==
  ASSUME TransInv, ServerStep, ~ StorOpen, ~ Store
  PROVE  ~ Storing'
<1>1. ASSUME NEW pieces, NEW pc, Answer(pieces, pc), spc = "command",
             conn[cur].up # <<>>, pc \in {"command", "dataAccept"}
      PROVE  ~ Storing'
  <2>1. dataBacklog = <<>>
    BY <1>1, AtCommand DEF TransInv, ReplyInv
  <2> QED
    BY <1>1, <2>1 DEF Answer, ContinueOrBroken, Storing
<1>2. CASE Pwd \/ Nlst \/ List \/ Cwd \/ Mkd \/ Rmd \/ Dele \/ Stor \/ Retr
  BY <1>1, <1>2
  DEF Serving, Pwd, Nlst, List, Cwd, Mkd, Rmd, Dele, Stor, Retr, Promise
<1>3. CASE Accept \/ Hangup \/ Quit \/ QuitClose
  BY <1>3 DEF Accept, Hangup, Quit, QuitClose, ContinueOrBroken, Storing
<1>4. CASE RetrOpen
  BY <1>4 DEF RetrOpen, TakeData, Notice, ContinueOrBroken, Storing
<1>5. CASE NoOpen \/ StoreDone \/ Send \/ SendDone
  BY <1>5 DEF NoOpen, StoreDone, Send, SendDone, ContinueOrBroken, Storing
<1> QED
  BY <1>2, <1>3, <1>4, <1>5 DEF ServerStep, ServerNext

LEMMA ServerStore ==
  ASSUME TransInv, ServerStep
  PROVE  StoreInv'
<1>1. UNCHANGED cliVars
  BY DEF ServerStep
<1>2. CASE ~ StorOpen /\ ~ Store
  BY <1>2, NotStoring DEF StoreInv
<1> QED
  BY <1>1, <1>2, StorOpenStore, StoreStore

\* A client's step, or its user's, leaves the others' parts alone.
LEMMA OthersAlone ==
  ASSUME TypeOK, NEW c \in Client, ClientStep(c) \/ Typing(c),
         NEW d \in Client, d # c
  PROVE  /\ conn'[d] = conn[d] /\ data'[d] = data[d]
         /\ cpc'[d] = cpc[d] /\ last'[d] = last[d] /\ buf'[d] = buf[d]
<1>1. /\ conn \in [Client -> Duplex(Line, Piece)]
      /\ data \in [Client -> Duplex(Block, Block)]
      /\ cpc \in [Client -> ClientPc] /\ last \in [Client -> Line]
      /\ buf \in [Client -> Content]
  BY DEF TypeOK, NetTypeOK, CliTypeOK
<1>2. /\ Die(c) => conn'[d] = conn[d] /\ data'[d] = data[d] /\ cpc'[d] = cpc[d]
      /\ \A pc : Goto(c, pc) => cpc'[d] = cpc[d]
  BY <1>1 DEF Die, Goto
<1>3. CASE Connect(c) \/ Kill(c)
  BY <1>1, <1>2, <1>3 DEF Connect, Kill
<1>4. ASSUME NEW l, Submit(c, l)
      PROVE  /\ conn'[d] = conn[d] /\ data'[d] = data[d]
             /\ cpc'[d] = cpc[d] /\ last'[d] = last[d] /\ buf'[d] = buf[d]
  BY <1>1, <1>2, <1>4 DEF Submit, Write
<1>5. CASE ReadReply(c)
  BY <1>1, <1>2, <1>5 DEF ReadReply
<1>6. CASE DialPut(c) \/ DialGet(c)
  <2>1. ASSUME NEW pc, NEW v, Opened(c, pc, v)
        PROVE  conn'[d] = conn[d] /\ data'[d] = data[d] /\ cpc'[d] = cpc[d] /\ buf'[d] = buf[d]
    BY <1>1, <1>2, <2>1 DEF Opened
  <2>2. ASSUME NotOpened(c)
        PROVE  conn'[d] = conn[d] /\ data'[d] = data[d] /\ cpc'[d] = cpc[d] /\ buf'[d] = buf[d]
    BY <1>1, <1>2, <2>2 DEF NotOpened
  <2>3. last' = last
    BY <1>6 DEF DialPut, DialGet, Dial
  <2> QED
    BY <1>6, <2>1, <2>2, <2>3 DEF DialPut, DialGet
<1>7. CASE Put(c) \/ PutDone(c)
  BY <1>1, <1>2, <1>7 DEF Put, PutDone
<1>8. CASE Get(c) \/ GetDone(c) \/ Bye(c)
  BY <1>1, <1>2, <1>8 DEF Get, GetDone, Bye
<1> QED
  BY <1>3, <1>4, <1>5, <1>6, <1>7, <1>8
  DEF ClientStep, ProgramStep, Typing, UserStep, Type, TypeQuit

\* Only a dial reaches the data port, and only one that the server waits for.
LEMMA OnlyDials ==
  ASSUME ReplyInv, NEW c \in Client, ClientStep(c) \/ Typing(c)
  PROVE  \/ dataBacklog' = dataBacklog
         \/ (DialPut(c) \/ DialGet(c)) /\ Expected(c)
<1>1. CASE DialPut(c) \/ DialGet(c)
  BY <1>1 DEF ReplyInv, PortInv, OkMeansExpected, DialPut, DialGet, Dial
<1>2. CASE ~ (DialPut(c) \/ DialGet(c))
  BY <1>2 DEF ClientStep, ProgramStep, Typing, UserStep, Type, TypeQuit, Submit, Write,
              Connect, Kill, Die, ReadReply, Put, PutDone, Get, GetDone, Bye
<1> QED
  BY <1>1, <1>2

\* The client opens its file, and all of it is unsent.
LEMMA DialPutStore ==
  ASSUME TransInv, NEW c \in Client, DialPut(c), UNCHANGED <<srvVars, fsVars>>
  PROVE  StoreInv'
<1>1. /\ spc = "dataAccept" /\ cur = c /\ job = last[c] /\ cpc[c] = "dial"
      /\ UNCHANGED <<spc, cur, job>>
  BY DEF TransInv, ReplyInv, PortInv, OkMeansExpected, Expected, DialPut, Dial, srvVars
<1>2. /\ data \in [Client -> Duplex(Block, Block)]
      /\ cpc \in [Client -> ClientPc] /\ buf \in [Client -> Content]
  BY DEF TransInv, ReplyInv, PortInv, IInv, TypeOK, NetTypeOK, CliTypeOK
<1>3. CASE NotOpened(c)
  BY <1>1, <1>2, <1>3 DEF NotOpened, Goto, Fresh, Written, NothingSent, StoreInv
<1>4. CASE Opened(c, "spin", <<>>)
  BY <1>1, <1>2, <1>4 DEF Opened, Goto, Fresh, Written, NothingSent, StoreInv
<1>5. CASE job.src \in DOMAIN LocalFiles /\ Opened(c, "put", LocalFiles[job.src])
  <2> DEFINE f == LocalFiles[job.src]
  <2>1. f \in Content
    BY <1>5, LocalFilesAssumption
  <2>2. /\ cpc'[c] = "put" /\ buf'[c] = f /\ data'[c] = Fresh
    BY <1>2, <1>5 DEF Opened, Goto
  <2>3. Unsent' = f /\ Written' = <<>> /\ data'[cur].up = <<>>
    BY <1>1, <2>2 DEF Unsent, Written, Fresh
  <2>4. <<>> \o f = f
    BY <2>1, ConcatEmptySeq DEF Content
  <2>5. Moved(f, <<>> \o f, <<>>)
    BY <2>1, <2>4, MovedNothing
  <2>6. Len(f) \in 0 .. Len(f) /\ SubSeq(f, 1, Len(f)) = f
    BY <2>1, LenProperties, SubSeqFull DEF Content
  <2>7. Moved(SubSeq(LocalFiles[job.src], 1, Len(f)), data[cur].up \o Unsent, Written)'
    BY <1>1, <2>3, <2>5, <2>6
  <2>8. Sending(Len(f))'
    BY <1>1, <1>5, <2>2, <2>7 DEF Fresh, Sending
  <2> QED
    BY <1>1, <2>2, <2>6, <2>8 DEF Fresh, StoreInv
<1> QED
  BY <1>1, <1>3, <1>4, <1>5 DEF DialPut

\* A byte more has been sent.
LEMMA PutStore ==
  ASSUME TransInv, Storing, Put(cur), UNCHANGED <<srvVars, fsVars>>
  PROVE  StoreInv'
<1> DEFINE s == data[cur].up
<1>1. /\ cpc[cur] = "put" /\ buf[cur] # <<>> /\ cur \in Client /\ alive
      /\ data \in [Client -> Duplex(Block, Block)]
      /\ cpc \in [Client -> ClientPc] /\ buf \in [Client -> Content]
      /\ s \in Content /\ UNCHANGED <<spc, cur, job, wd, files, cwd>>
  BY StoreTypes DEF Put, srvVars, fsVars, TransInv, ReplyInv, PortInv, IInv, TypeOK,
                    NetTypeOK, CliTypeOK
<1>2. PICK k \in 0 .. Len(LocalFiles[job.src]) : Sending(k)
  BY <1>1 DEF TransInv, StoreInv, NothingSent
<1>10. ~ data[cur].upEof /\ ~ data[cur].downEof
  BY <1>1, <1>2 DEF Sending, TransInv, StoreInv
<1>3. /\ data' = [data EXCEPT ![cur].up = Append(@, Head(buf[cur]))]
      /\ buf' = [buf EXCEPT ![cur] = Tail(@)]
      /\ UNCHANGED cpc
  BY <1>1, <1>10 DEF Put, DataClosed
<1>4. /\ data'[cur].up = Append(s, Head(buf[cur])) /\ buf'[cur] = Tail(buf[cur])
      /\ data'[cur].upEof = data[cur].upEof /\ data'[cur].downEof = data[cur].downEof
  BY <1>1, <1>3 DEF Duplex
<1>5. Unsent = buf[cur] /\ Unsent' = Tail(buf[cur])
  BY <1>1, <1>3, <1>4 DEF Unsent
<1>6. At(Target)' = At(Target)
  BY <1>1 DEF At, Target, Under
<1>7. Written' = Written
  BY <1>1, <1>6 DEF Written
<1>8. (data[cur].up \o Unsent)' = s \o Unsent
  <2>1. Append(s, Head(buf[cur])) \o Tail(buf[cur]) = s \o buf[cur]
    <3> HIDE DEF s
    <3> QED
      BY <1>1, SendsByte
  <2> QED
    BY <1>1, <1>4, <1>5, <2>1
<1>9. Sending(k)'
  <2>1. Moved(SubSeq(LocalFiles[job.src], 1, k), s \o Unsent, Written)
    BY <1>2 DEF Sending
  <2>2. Moved(SubSeq(LocalFiles[job.src], 1, k), data[cur].up \o Unsent, Written)'
    BY <1>1, <1>7, <1>8, <2>1
  <2> QED
    BY <1>1, <1>2, <1>3, <1>4, <2>2 DEF Sending
<1> QED
  BY <1>1, <1>2, <1>4, <1>9, <1>10 DEF StoreInv

\* The client has sent all, and goes on.
LEMMA PutDoneStore ==
  ASSUME TransInv, Storing, PutDone(cur), UNCHANGED <<srvVars, fsVars>>
  PROVE  StoreInv'
<1>1. /\ cpc[cur] = "put" /\ buf[cur] = <<>> /\ cur \in Client
      /\ data \in [Client -> Duplex(Block, Block)] /\ cpc \in [Client -> ClientPc]
      /\ UNCHANGED <<spc, cur, job, wd, files, cwd>>
  BY StoreTypes DEF PutDone, srvVars, fsVars, TransInv, ReplyInv, PortInv, IInv, TypeOK,
                    NetTypeOK, CliTypeOK
<1>2. PICK k \in 0 .. Len(LocalFiles[job.src]) : Sending(k)
  BY <1>1 DEF TransInv, StoreInv, NothingSent
<1>8. ~ data[cur].downEof
  BY DEF TransInv, StoreInv
<1>3. /\ cpc'[cur] = "idle" /\ data'[cur].up = data[cur].up
      /\ data'[cur].upEof /\ data'[cur].downEof = data[cur].downEof
  BY <1>1 DEF PutDone, Goto, Duplex
<1>4. Unsent = <<>> /\ Unsent' = <<>>
  BY <1>1, <1>3 DEF Unsent
<1>5. At(Target)' = At(Target)
  BY <1>1 DEF At, Target, Under
<1>6. Written' = Written
  BY <1>1, <1>5 DEF Written
<1>7. Sending(k)'
  <2>1. Moved(SubSeq(LocalFiles[job.src], 1, k), data[cur].up \o Unsent, Written)'
    BY <1>1, <1>2, <1>3, <1>4, <1>6 DEF Sending
  <2> QED
    BY <1>1, <1>2, <1>3, <2>1 DEF Sending
<1> QED
  BY <1>1, <1>2, <1>3, <1>7, <1>8 DEF StoreInv

\* The client ends: what it has not sent yet nobody will.
LEMMA DieStore ==
  ASSUME TransInv, Storing, Die(cur), buf' = buf, UNCHANGED <<srvVars, fsVars>>
  PROVE  StoreInv'
<1> DEFINE s == data[cur].up
           f == LocalFiles[job.src]
<1>1. /\ StoreInv /\ cur \in Client /\ s \in Content /\ buf[cur] \in Content
      /\ data \in [Client -> Duplex(Block, Block)] /\ cpc \in [Client -> ClientPc]
      /\ UNCHANGED <<spc, cur, job, wd, files, cwd>>
  BY StoreTypes DEF srvVars, fsVars, TransInv, ReplyInv, PortInv, IInv, TypeOK,
                    NetTypeOK, CliTypeOK
<1>2. /\ cpc'[cur] = "dead" /\ data'[cur].up = s
      /\ data'[cur].upEof /\ data'[cur].downEof = data[cur].downEof
  BY <1>1 DEF Die, Goto, Duplex
<1>3. At(Target)' = At(Target)
  BY <1>1 DEF At, Target, Under
<1>4. Written' = Written
  BY <1>1, <1>3 DEF Written
<1>5. CASE NothingSent
  <2>1. NothingSent'
    BY <1>1, <1>2, <1>4, <1>5 DEF NothingSent
  <2> QED
    BY <1>1, <1>2, <2>1 DEF StoreInv
<1>6. ASSUME NEW k \in 0 .. Len(f), Sending(k)
      PROVE  StoreInv'
  <2>1. PICK m \in 0 .. Len(f) : Moved(SubSeq(f, 1, m), s, Written)
    <3>1. /\ f \in Content /\ Len(f) \in Nat
          /\ Moved(SubSeq(f, 1, k), s \o Unsent, Written)
      BY <1>6, LocalFilesAssumption, LenProperties DEF Sending, Content
    <3>2. SubSeq(f, 1, k) \in Content /\ Len(SubSeq(f, 1, k)) = k
      BY <3>1, FirstPart
    <3>3. Unsent \in Content
      BY StoreTypes
    <3> DEFINE g == SubSeq(f, 1, k)
    <3> HIDE DEF s, f, g
    <3>4. PICK m \in 0 .. Len(g) : Moved(SubSeq(g, 1, m), s, Written)
      BY <1>1, <3>1, <3>2, <3>3, MovedCut DEF g
    <3>5. m \in 0 .. k /\ m \in 0 .. Len(f) /\ SubSeq(g, 1, m) = SubSeq(f, 1, m)
      BY <1>6, <3>1, <3>2, FirstPart DEF g
    <3> QED
      BY <3>4, <3>5
  <2>2. s \o <<>> = s
    BY <1>1, ConcatEmptySeq DEF Content
  <2>3. Unsent' = <<>>
    BY <1>1, <1>2 DEF Unsent
  <2>4. Moved(SubSeq(LocalFiles[job.src], 1, m), data[cur].up \o Unsent, Written)'
    BY <1>1, <1>2, <1>4, <2>1, <2>2, <2>3
  <2>5. Sending(m)'
    BY <1>1, <1>2, <1>6, <2>4 DEF Sending
  <2> QED
    BY <1>1, <1>2, <2>1, <2>5 DEF StoreInv
<1> QED
  BY <1>1, <1>5, <1>6 DEF StoreInv

LEMMA ClientStore ==
  ASSUME TransInv, NEW c \in Client, ClientStep(c) \/ Typing(c)
  PROVE  StoreInv'
<1>1. UNCHANGED <<srvVars, fsVars>> /\ UNCHANGED <<spc, cur, job>>
  BY DEF ClientStep, Typing, srvVars, fsVars
<1>2. ReplyInv /\ TypeOK /\ StoreInv /\ GetInv(c)
  BY DEF TransInv, ReplyInv, PortInv, IInv
<1> SUFFICES ASSUME Storing' PROVE StoreInv'
  BY DEF StoreInv
<1>3. CASE DialPut(c)
  BY <1>1, <1>3, DialPutStore
<1>4. ~ DialGet(c)
  <2>1. DialGet(c) => spc = "dataAccept" /\ job.op = "RETR"
    BY <1>2 DEF DialGet, Dial, ReplyInv, PortInv, OkMeansExpected, Expected
  <2> QED
    BY <1>1, <2>1 DEF Storing
<1>5. CASE ~ DialPut(c)
  <2>1. Storing /\ dataBacklog' = dataBacklog
    BY <1>1, <1>2, <1>4, <1>5, OnlyDials DEF Storing
  <2>2. cur \in Client
    BY <2>1, StoreTypes
  <2>3. CASE c # cur
    <3>1. data'[cur] = data[cur] /\ cpc'[cur] = cpc[cur] /\ buf'[cur] = buf[cur]
      BY <1>2, <2>2, <2>3, OthersAlone
    <3> QED
      BY <1>1, <1>2, <2>1, <3>1, FrameStore
  <2>4. CASE c = cur
    <3>1. CASE Put(c)
      BY <1>1, <2>1, <2>4, <3>1, PutStore
    <3>2. CASE PutDone(c)
      BY <1>1, <2>1, <2>4, <3>2, PutDoneStore
    <3>3. ~ Get(c) /\ ~ GetDone(c)
      BY <1>2, <2>1 DEF Get, GetDone, GetInv, Storing
    <3>4. cpc \in [Client -> ClientPc] /\ cpc[c] # "off"
      BY <1>2, <2>2, <2>4 DEF TypeOK, CliTypeOK, ReplyInv, SessionInv
    <3>5. Die(c) /\ buf' = buf => StoreInv'
      BY <1>1, <2>1, <2>4, DieStore
    <3>6. CASE Kill(c)
      BY <3>5, <3>6 DEF Kill
    <3>7. ASSUME NEW l, Submit(c, l)
          PROVE  StoreInv'
      <4>1. /\ cpc[c] = "idle" /\ buf' = buf
            /\ Die(c) \/ (cpc'[c] = "wait" /\ data' = data)
        BY <3>4, <3>7 DEF Submit, Write, Goto
      <4> QED
        BY <1>1, <1>2, <2>1, <2>4, <3>5, <4>1, FrameStore
    <3>8. CASE ReadReply(c) \/ Bye(c)
      <4>1. /\ cpc[c] \in {"wait", "bye"} /\ buf' = buf
            /\ \/ Die(c)
               \/ cpc'[c] \in {"dial", "bye", "idle", "done"} /\ data' = data
        BY <3>4, <3>8 DEF ReadReply, Bye, Goto
      <4> QED
        BY <1>1, <1>2, <2>1, <2>4, <3>5, <4>1, FrameStore
    <3> QED
      BY <1>4, <1>5, <3>1, <3>2, <3>3, <3>4, <3>6, <3>7, <3>8
      DEF ClientStep, ProgramStep, Typing, UserStep, Type, TypeQuit, Connect
  <2> QED
    BY <2>3, <2>4
<1> QED
  BY <1>3, <1>5

----------------------------------------------------------------------------
(* RETR.                                                                   *)

\* What leaves the server, its files and the client's part in the transfer alone.
LEMMA FrameGet ==
  ASSUME NEW c \in Client, GetInv(c),
         UNCHANGED <<spc, cur, job, left, wd, dirs, files, cwd>>,
         dataBacklog # <<>> => dataBacklog' # <<>>,
         cpc'[c] = cpc[c], last'[c] = last[c], buf'[c] = buf[c], data'[c] = data[c]
  PROVE  GetInv(c)'
<1>1. At(Target)' = At(Target) /\ IsFile(Target)' = IsFile(Target)
  BY DEF At, IsFile, Reachable, Target, Under
<1>2. Incoming(c)' = Incoming(c)
  BY DEF Incoming
<1> QED
  BY <1>1, <1>2 DEF GetInv

\* What GetInv speaks of has the right types.
LEMMA GetTypes ==
  ASSUME TransInv, NEW c \in Client
  PROVE  /\ data \in [Client -> Duplex(Block, Block)] /\ buf \in [Client -> Content]
         /\ cpc \in [Client -> ClientPc] /\ left \in Content
         /\ data[c].down \in Content /\ buf[c] \in Content
         /\ IsFile(Target) => files[At(Target)] \in Content
<1>1. NetTypeOK /\ SrvTypeOK /\ CliTypeOK /\ FsTypeOK
  BY DEF TransInv, ReplyInv, PortInv, IInv, TypeOK
<1>2. data[c] \in Duplex(Block, Block)
  BY <1>1 DEF NetTypeOK
<1>3. data[c].down \in Content
  BY <1>2 DEF Duplex, Content
<1>4. IsFile(Target) => files[At(Target)] \in Content
  BY <1>1 DEF IsFile, FsTypeOK
<1> QED
  BY <1>1, <1>3, <1>4 DEF NetTypeOK, SrvTypeOK, CliTypeOK

\* The server opens the file: all of it is with the server.
LEMMA RetrOpenGet ==
  ASSUME TransInv, UNCHANGED cliVars, RetrOpen, NEW c \in Client, cpc[c] = "get"
  PROVE  GetInv(c)'
<1>1. /\ UNCHANGED <<data, cur, wd, job, cpc, last, buf, dirs, files, cwd>>
      /\ spc = "dataAccept" /\ dataBacklog # <<>>
  BY DEF RetrOpen, TakeData, cliVars, fsVars
<1>2. /\ cur = c /\ job = last[c] /\ job.op = "RETR" /\ ~ data[c].downEof
      /\ data[c].down = <<>> /\ buf[c] = <<>>
  BY <1>1 DEF TransInv, GetInv
<1>3. At(Target)' = At(Target) /\ IsFile(Target)' = IsFile(Target)
  BY <1>1 DEF At, IsFile, Reachable, Target, Under
<1>4. CASE IsFile(Target) /\ left' = files[At(Target)] /\ spc' = "send"
  <2> DEFINE f == files[At(Target)]
  <2>1. f \in Content
    BY <1>4, GetTypes
  <2>2. Incoming(c)' = f
    <3>1. Incoming(c)' = <<>> \o f
      BY <1>1, <1>2, <1>4 DEF Incoming
    <3> HIDE DEF f
    <3> QED
      BY <2>1, <3>1, ConcatEmptySeq DEF Content
  <2>3. Moved(f, f, <<>>)
    <3> HIDE DEF f
    <3> QED
      BY <2>1, MovedNothing
  <2>4. Moved(files[At(Target)], Incoming(c), buf[c])'
    BY <1>1, <1>2, <1>3, <2>2, <2>3
  <2> QED
    BY <1>1, <1>2, <1>3, <1>4, <2>4 DEF GetInv
<1>5. CASE spc' = "spin"
  BY <1>1, <1>2, <1>5 DEF GetInv
<1>6. CASE ~ IsFile(Target) /\ Notice
  <2>1. ~ conn[c].upEof
    BY <1>1 DEF TransInv, ReplyInv, PortInv, OneAtATime
  <2>2. spc' = "noOpen"
    BY <1>2, <1>6, <2>1 DEF Notice, ContinueOrBroken
  <2> QED
    BY <1>1, <1>2, <1>3, <1>6, <2>2 DEF GetInv
<1> QED
  BY <1>4, <1>5, <1>6 DEF RetrOpen

\* The server sends what it has read, and ends the stream.
LEMMA SendGet ==
  ASSUME TransInv, UNCHANGED cliVars, Send \/ SendDone, NEW c \in Client, cpc[c] = "get"
  PROVE  GetInv(c)'
<1>1. /\ UNCHANGED <<cur, wd, job, cpc, last, buf, dirs, files, cwd>>
      /\ spc = "send"
  BY DEF Send, SendDone, cliVars, fsVars
<1>2. /\ cur = c /\ job = last[c] /\ job.op = "RETR" /\ ~ data[c].downEof
      /\ IsFile(Target) /\ Moved(files[At(Target)], Incoming(c), buf[c])
  BY <1>1 DEF TransInv, GetInv
<1>3. peer = c /\ alive /\ ~ data[c].upEof
  <2>1. ReplyInv /\ PortInv /\ cpc[cur] # "dead"
    BY <1>2 DEF TransInv, ReplyInv
  <2> QED
    BY <1>1, <1>2, <2>1 DEF ReplyInv, PortInv, AliveInv, TransferInv, Transferring
<1>4. At(Target)' = At(Target) /\ IsFile(Target)' = IsFile(Target)
  BY <1>1 DEF At, IsFile, Reachable, Target, Under
<1>5. /\ data \in [Client -> Duplex(Block, Block)] /\ left \in Content
      /\ data[c].down \in Content
  BY GetTypes
<1>6. Incoming(c)' = Incoming(c)
  <2>1. CASE Send
    <3>1. /\ data'[c].down = Append(data[c].down, Head(left)) /\ left' = Tail(left)
          /\ left # <<>>
      BY <1>3, <1>5, <2>1 DEF Send, Duplex
    <3> DEFINE s == data[c].down
    <3>2. Append(s, Head(left)) \o Tail(left) = s \o left
      <4> HIDE DEF s
      <4> QED
        BY <1>5, <3>1, SendsByte DEF s
    <3> QED
      BY <3>1, <3>2 DEF Incoming
  <2>2. CASE SendDone
    <3>1. data'[c].down = data[c].down /\ left' = left
      BY <1>3, <1>5, <2>2 DEF SendDone, Duplex
    <3> QED
      BY <3>1 DEF Incoming
  <2> QED
    BY <2>1, <2>2
<1>7. Moved(files[At(Target)], Incoming(c), buf[c])'
  BY <1>1, <1>2, <1>4, <1>6
<1>8. CASE Send
  <2>1. spc' = "send" /\ data'[c].downEof = data[c].downEof
    BY <1>3, <1>5, <1>8 DEF Send, ContinueOrBroken, Duplex
  <2> QED
    BY <1>1, <1>2, <1>4, <1>7, <2>1 DEF GetInv
<1>9. CASE SendDone
  <2>1. spc' = "command" /\ data'[c].downEof /\ left' = <<>>
    BY <1>3, <1>5, <1>9 DEF SendDone, Duplex
  <2> QED
    BY <1>1, <1>2, <1>4, <1>7, <2>1 DEF GetInv
<1> QED
  BY <1>8, <1>9

\* There was nothing to send.
LEMMA NoOpenGet ==
  ASSUME TransInv, UNCHANGED cliVars, NoOpen, NEW c \in Client, cpc[c] = "get"
  PROVE  GetInv(c)'
<1>1. /\ UNCHANGED <<cur, wd, job, cpc, last, buf, dirs, files, cwd>>
      /\ spc = "noOpen"
  BY DEF NoOpen, cliVars, fsVars
<1>2. /\ cur = c /\ job = last[c] /\ job.op = "RETR" /\ ~ data[c].downEof
      /\ ~ IsFile(Target) /\ peer = c
  BY <1>1 DEF TransInv, GetInv, ReplyInv, TransferInv
<1>3. IsFile(Target)' = IsFile(Target)
  BY <1>1 DEF At, IsFile, Reachable, Target, Under
<1>4. data \in [Client -> Duplex(Block, Block)]
  BY GetTypes
<1>5. \/ spc' = "command" /\ data'[c].downEof
      \/ spc' = "crashed" /\ ~ data'[c].downEof
  BY <1>2, <1>4 DEF NoOpen, Duplex
<1> QED
  BY <1>1, <1>2, <1>3, <1>5 DEF GetInv

LEMMA ServerGet ==
  ASSUME TransInv, ServerStep, NEW c \in Client
  PROVE  GetInv(c)'
<1>1. UNCHANGED cliVars /\ UNCHANGED <<cpc, last>>
  BY DEF ServerStep, cliVars
<1> SUFFICES ASSUME cpc[c] = "get" PROVE GetInv(c)'
  BY <1>1 DEF GetInv
<1>2. /\ GetInv(c) /\ alive \in BOOLEAN
      /\ ~ conn[c].upEof /\ (alive => conn[c].up = <<>>)
      /\ alive <=> spc \notin {"exited", "crashed"}
  BY DEF TransInv, ReplyInv, PortInv, OneAtATime, AliveInv, IInv, TypeOK, NetTypeOK
<1>3. /\ cur = c /\ job.op = "RETR"
      /\ spc \in {"dataAccept", "spin", "noOpen", "command", "crashed", "send"}
  BY <1>2 DEF GetInv
<1>4. CASE spc = "command"
  BY <1>2, <1>3, <1>4
  DEF ServerStep, ServerNext, Accept, Hangup, Pwd, Nlst, List, Cwd, Mkd, Rmd, Dele, Stor,
      Retr, StorOpen, RetrOpen, TakeData, NoOpen, Store, StoreDone, Send, SendDone, Quit,
      QuitClose, Serving
<1>5. CASE spc # "command"
  BY <1>1, <1>3, <1>5, RetrOpenGet, SendGet, NoOpenGet
  DEF ServerStep, ServerNext, Accept, Hangup, Pwd, Nlst, List, Cwd, Mkd, Rmd, Dele, Stor,
      Retr, StorOpen, TakeData, Store, StoreDone, Quit, QuitClose, Serving
<1> QED
  BY <1>4, <1>5

\* The client gets to its end of the data connection: it has nothing yet.
LEMMA DialGetGet ==
  ASSUME TransInv, NEW c \in Client, DialGet(c), UNCHANGED <<srvVars, fsVars>>
  PROVE  GetInv(c)'
<1>1. /\ spc = "dataAccept" /\ cur = c /\ job = last[c] /\ job.op = "RETR"
      /\ UNCHANGED <<spc, cur, job, last>>
  BY DEF TransInv, ReplyInv, PortInv, OkMeansExpected, Expected, DialGet, Dial, srvVars
<1>2. /\ data \in [Client -> Duplex(Block, Block)]
      /\ cpc \in [Client -> ClientPc] /\ buf \in [Client -> Content]
  BY GetTypes
<1>3. CASE NotOpened(c)
  BY <1>2, <1>3 DEF NotOpened, Goto, GetInv
<1>4. CASE Opened(c, "get", <<>>)
  <2>1. cpc'[c] = "get" /\ buf'[c] = <<>> /\ data'[c] = Fresh
    BY <1>2, <1>4 DEF Opened, Goto
  <2>2. dataBacklog' # <<>>
    <3>1. dataBacklog \in Seq(Client \X Nat) /\ <<c, last[c].n>> \in Client \X Nat
      BY DEF TransInv, ReplyInv, PortInv, IInv, TypeOK, NetTypeOK, CliTypeOK, Line
    <3>2. Len(dataBacklog') = Len(dataBacklog) + 1 /\ Len(dataBacklog) \in Nat
      BY <3>1, AppendProperties, LenProperties DEF DialGet, Dial
    <3> QED
      BY <3>2, EmptySeq
  <2> QED
    BY <1>1, <2>1, <2>2 DEF Fresh, GetInv
<1> QED
  BY <1>3, <1>4 DEF DialGet

\* The client reads a line, and writes it to its file.
LEMMA GetGet ==
  ASSUME TransInv, NEW c \in Client, Get(c), UNCHANGED <<srvVars, fsVars>>
  PROVE  GetInv(c)'
<1> DEFINE s == data[c].down
           e == DataClosed(c)
<1>1. /\ cpc[c] = "get" /\ GetInv(c)
      /\ UNCHANGED <<dataBacklog, alive, cpc, last>>
      /\ UNCHANGED <<spc, cur, job, left, wd, dirs, files, cwd>>
  BY DEF Get, TransInv, srvVars, fsVars
<1>2. PICK k \in 1 .. Len(s) :
        /\ TakesBytes(s, e, k)
        /\ buf' = [buf EXCEPT ![c] = @ \o Handed(s, k)]
        /\ data' = [data EXCEPT ![c].down = SubSeq(s, k + 1, Len(s))]
  BY DEF Get
<1>3. /\ data \in [Client -> Duplex(Block, Block)] /\ buf \in [Client -> Content]
      /\ s \in Content /\ left \in Content
      /\ IsFile(Target) => files[At(Target)] \in Content
  BY GetTypes
<1>4. /\ data'[c].down = SubSeq(s, k + 1, Len(s)) /\ data'[c].downEof = data[c].downEof
      /\ buf'[c] = buf[c] \o Handed(s, k)
  BY <1>2, <1>3 DEF Duplex
<1>5. At(Target)' = At(Target) /\ IsFile(Target)' = IsFile(Target)
  BY <1>1 DEF At, IsFile, Reachable, Target, Under
<1>6. CASE s = <<>>
  <2>1. Len(s) = 0
    BY <1>3, <1>6, EmptySeq
  <2> QED
    BY <1>2, <2>1
<1>7. CASE spc = "spin" \/ (spc \in {"noOpen", "command", "crashed"} /\ ~ IsFile(Target))
  BY <1>1, <1>4, <1>5, <1>7 DEF GetInv
<1>8. CASE /\ spc \in {"send", "command"} /\ IsFile(Target)
           /\ spc = "command" => left = <<>>
           /\ Moved(files[At(Target)], Incoming(c), buf[c])
  <2>1. e => left = <<>>
    BY <1>1, <1>8 DEF DataClosed, GetInv, TransInv, ReplyInv, PortInv, AliveInv
  <2> DEFINE u == SubSeq(s, k + 1, Len(s))
             f == files[At(Target)]
  <2>2. f \in Content /\ Moved(f, s \o left, buf[c])
    BY <1>3, <1>8 DEF Incoming
  <2> HIDE DEF s, e, f
  <2>3. Moved(f, u \o left, buf[c] \o Handed(s, k))
    BY <1>2, <1>3, <2>1, <2>2, MovedLine
  <2> USE DEF s, e, f
  <2>4. Moved(files[At(Target)], Incoming(c), buf[c])'
    BY <1>1, <1>4, <1>5, <2>3 DEF Incoming
  <2> QED
    BY <1>1, <1>4, <1>5, <1>8, <2>4 DEF GetInv
<1> QED
  BY <1>1, <1>6, <1>7, <1>8 DEF GetInv

\* Every other step of a client is out of a RETR, or not in one.
LEMMA NotGetting ==
  ASSUME TransInv, NEW c \in Client, ClientStep(c) \/ Typing(c), ~ DialGet(c), ~ Get(c)
  PROVE  cpc'[c] # "get"
<1>1. cpc \in [Client -> ClientPc]
  BY GetTypes
<1>2. Die(c) => cpc'[c] # "get"
  BY <1>1 DEF Die, Goto
<1>3. \A l : Submit(c, l) => cpc'[c] # "get"
  BY <1>1, <1>2 DEF Submit, Write, Goto
<1>4. CASE Connect(c) \/ Kill(c) \/ Type(c) \/ TypeQuit(c)
  BY <1>1, <1>2, <1>3, <1>4 DEF Connect, Kill, Type, TypeQuit, Goto
<1>5. CASE ReadReply(c) \/ GetDone(c) \/ Bye(c)
  BY <1>1, <1>2, <1>5 DEF ReadReply, GetDone, Bye, Goto
<1>6. CASE DialPut(c)
  BY <1>1, <1>6 DEF DialPut, Opened, NotOpened, Goto
<1>7. CASE Put(c) \/ PutDone(c)
  BY <1>1, <1>2, <1>7 DEF Put, PutDone, Goto
<1> QED
  BY <1>4, <1>5, <1>6, <1>7 DEF ClientStep, ProgramStep, Typing, UserStep

LEMMA ClientGet ==
  ASSUME TransInv, NEW c \in Client, ClientStep(c) \/ Typing(c), NEW d \in Client
  PROVE  GetInv(d)'
<1>1. /\ UNCHANGED <<srvVars, fsVars>>
      /\ UNCHANGED <<spc, cur, job, left, wd, dirs, files, cwd>>
  BY DEF ClientStep, Typing, srvVars, fsVars
<1>2. ReplyInv /\ TypeOK /\ GetInv(d)
  BY DEF TransInv, ReplyInv, PortInv, IInv
<1>3. CASE d = c
  <2>1. CASE DialGet(c) \/ Get(c)
    BY <1>1, <1>3, <2>1, DialGetGet, GetGet
  <2>2. CASE ~ DialGet(c) /\ ~ Get(c)
    BY <1>3, <2>2, NotGetting DEF GetInv
  <2> QED
    BY <2>1, <2>2
<1>4. CASE d # c
  <2>1. cpc'[d] = cpc[d] /\ last'[d] = last[d] /\ buf'[d] = buf[d] /\ data'[d] = data[d]
    BY <1>2, <1>4, OthersAlone
  <2>2. CASE cpc[d] # "get"
    BY <2>1, <2>2 DEF GetInv
  <2>3. CASE cpc[d] = "get"
    <3>1. ~ Expected(c)
      BY <1>2, <1>4, <2>3 DEF GetInv, Expected
    <3>2. dataBacklog' = dataBacklog
      BY <1>2, <3>1, OnlyDials
    <3> QED
      BY <1>1, <1>2, <2>1, <3>2, FrameGet
  <2> QED
    BY <2>2, <2>3
<1> QED
  BY <1>3, <1>4

----------------------------------------------------------------------------
LEMMA InitTrans == Init => TransInv
<1> SUFFICES ASSUME Init PROVE TransInv
  OBVIOUS
<1>1. spc = "accept" /\ \A c \in Client : cpc[c] = "off"
  BY DEF Init, SrvInit, CliInit
<1>2. StoreInv /\ \A c \in Client : GetInv(c)
  BY <1>1 DEF StoreInv, Storing, GetInv
<1> QED
  BY <1>2, InitReply DEF TransInv

LEMMA NextTrans == TransInv /\ [Next]_vars => TransInv'
<1> SUFFICES ASSUME TransInv, [Next]_vars PROVE TransInv'
  OBVIOUS
<1>1. ReplyInv'
  BY NextReply DEF TransInv
<1>2. CASE ServerStep
  BY <1>1, <1>2, ServerStore, ServerGet DEF TransInv
<1>3. CASE \E c \in Client : ClientStep(c) \/ Typing(c)
  BY <1>1, <1>3, ClientStore, ClientGet DEF TransInv
<1>4. CASE UNCHANGED vars
  <2>1. /\ UNCHANGED <<srvVars, fsVars>>
        /\ UNCHANGED <<spc, cur, job, left, wd, dirs, files, cwd, dataBacklog>>
        /\ UNCHANGED <<cpc, last, buf, data>>
    BY <1>4 DEF vars, netVars, fsVars, srvVars, cliVars
  <2>2. StoreInv'
    BY <2>1, FrameStore DEF TransInv, StoreInv, Storing
  <2>3. \A c \in Client : GetInv(c)'
    BY <2>1, FrameGet DEF TransInv
  <2> QED
    BY <1>1, <2>2, <2>3 DEF TransInv
<1> QED
  BY <1>2, <1>3, <1>4 DEF Next

\* What a STOR has stored at any moment, its client killed or not, is what
\* read_line makes of a first part of the client's file.
THEOREM SoFarCorrect == Spec => []StoredSoFar
<1>1. TransInv => StoredSoFar
  <2> SUFFICES ASSUME TransInv, spc = "store", files[At(Target)] # <<>>
               PROVE  /\ job.src \in DOMAIN LocalFiles
                      /\ \E k \in 0 .. Len(LocalFiles[job.src]) :
                           files[At(Target)] = Read(SubSeq(LocalFiles[job.src], 1, k))
    BY DEF StoredSoFar
  <2> DEFINE f == LocalFiles[job.src]
  <2>1. Storing /\ Written = files[At(Target)] /\ ~ NothingSent
    BY DEF Storing, Written, NothingSent
  <2>2. PICK k \in 0 .. Len(f) : Sending(k)
    BY <2>1 DEF TransInv, StoreInv
  <2>3. data[cur].up \o Unsent \in Content /\ f \in Content
    BY <2>1, <2>2, StoreTypes, ConcatProperties DEF Sending, Content
  <2>4. PICK n \in 0 .. k : Written = Read(SubSeq(SubSeq(f, 1, k), 1, n))
    <3> DEFINE g == SubSeq(f, 1, k)
               rest == data[cur].up \o Unsent
    <3>1. g \in Content /\ Len(g) = k /\ rest \in Content /\ Moved(g, rest, Written)
      BY <2>2, <2>3, FirstPart DEF Sending
    <3> HIDE DEF g, rest
    <3>2. \E n \in 0 .. Len(g) : Written = Read(SubSeq(g, 1, n))
      BY <3>1, MovedFirst
    <3> QED
      BY <3>1, <3>2 DEF g
  <2>5. n \in 0 .. Len(f) /\ SubSeq(SubSeq(f, 1, k), 1, n) = SubSeq(f, 1, n)
    <3>1. Len(f) \in Nat
      BY <2>3, LenProperties DEF Content
    <3> QED
      BY <2>3, <3>1, FirstPart
  <2> QED
    BY <2>1, <2>2, <2>4, <2>5 DEF Sending
<1> QED
  BY <1>1, InitTrans, NextTrans, PTL DEF Spec

\* What a STOR that ends with its client alive leaves under the name is the
\* client's file, every byte in order, but for what read_line discards of lines
\* that are too long for its buffer.
THEOREM StoredCorrect == Spec => StoredWhole
<1> DEFINE TransferOver == spc = "store" /\ spc' = "command" /\ cpc[peer] # "dead"
           Whole == files'[At(Target)] = Read(LocalFiles[job.src])
<1>1. ASSUME TransInv, Next, TransferOver
      PROVE  Whole
  <2>1. StoreDone
    <3>1. ServerNext
      BY <1>1 DEF Next, ServerStep, ClientStep, Typing, srvVars
    <3> QED
      BY <1>1, <3>1
      DEF ServerNext, Accept, Hangup, Pwd, Nlst, List, Cwd, Mkd, Rmd, Dele, Stor, Retr,
          StorOpen, RetrOpen, TakeData, NoOpen, Store, Send, SendDone, Quit, QuitClose,
          Serving, srvVars
  <2>2. peer = cur /\ Storing /\ files' = files
    BY <1>1, <2>1 DEF TransInv, ReplyInv, TransferInv, Storing, StoreDone, fsVars
  <2>3. /\ job.src \in DOMAIN LocalFiles /\ data[cur].up = <<>> /\ cpc[cur] # "put"
        /\ Moved(LocalFiles[job.src], data[cur].up \o Unsent, Written)
    <3> DEFINE f == LocalFiles[job.src]
    <3>1. ~ NothingSent /\ data[cur].up = <<>> /\ data[cur].upEof /\ cpc[cur] # "dead"
      BY <1>1, <2>1, <2>2 DEF StoreDone, EndOfData, NothingSent
    <3>2. Sending(Len(f))
      <4>1. PICK k \in 0 .. Len(f) : Sending(k)
        BY <1>1, <2>2, <3>1 DEF TransInv, StoreInv
      <4>2. k = Len(f)
        BY <3>1, <4>1 DEF Sending
      <4> QED
        BY <4>1, <4>2
    <3>3. SubSeq(f, 1, Len(f)) = f
      BY <3>2, LocalFilesAssumption, SubSeqFull DEF Sending, Content
    <3> QED
      BY <3>1, <3>2, <3>3 DEF Sending
  <2>4. data[cur].up \o Unsent = <<>>
    <3>1. <<>> \o <<>> = <<>>
      BY ConcatEmptySeq, EmptySeq
    <3> QED
      BY <2>3, <3>1 DEF Unsent
  <2>5. Written = files[At(Target)]
    BY <1>1 DEF Written
  <2>6. files[At(Target)] = Read(LocalFiles[job.src])
    BY <2>3, <2>4, <2>5, MovedAll, LocalFilesAssumption
  <2> QED
    BY <2>2, <2>6
<1>2. TransInv /\ [Next]_vars => [TransferOver => Whole]_vars
  BY <1>1
<1> QED
  BY <1>2, InitTrans, NextTrans, PTL DEF Spec, StoredWhole

\* A client that comes to the end of its RETR has the file as the server has it,
\* but for what read_line discards, unless the server could not open it.
THEOREM RetrievedCorrect == Spec => RetrievedWhole
<1> DEFINE Whole ==
      \A c \in Client :
        /\ cpc[c] = "get"
        /\ cpc'[c] = "idle"
        /\ IsFile(Under(last[c].arg))
        => buf[c] = Read(files[At(Under(last[c].arg))])
<1>1. ASSUME TransInv, Next
      PROVE  Whole
  <2> SUFFICES ASSUME NEW c \in Client, cpc[c] = "get", cpc'[c] = "idle",
                      IsFile(Under(last[c].arg))
               PROVE  buf[c] = Read(files[At(Under(last[c].arg))])
    OBVIOUS
  <2>1. TypeOK /\ AliveInv /\ GetInv(c)
    BY <1>1 DEF TransInv, ReplyInv, PortInv, IInv
  <2>2. ~ ServerStep
    BY DEF ServerStep, cliVars
  <2>3. PICK d \in Client : ClientStep(d) \/ Typing(d)
    BY <1>1, <2>2 DEF Next
  <2>4. d = c
    BY <2>1, <2>3, OthersAlone
  <2>5. cpc \in [Client -> ClientPc]
    BY <2>1 DEF TypeOK, CliTypeOK
  <2>6. Die(c) => cpc'[c] = "dead"
    BY <2>5 DEF Die, Goto
  <2>7. GetDone(c)
    BY <2>3, <2>4, <2>5, <2>6
    DEF ClientStep, ProgramStep, Typing, UserStep, Connect, Type, TypeQuit, Submit, Kill,
        ReadReply, DialPut, DialGet, Dial, Put, PutDone, Get, Bye
  <2>8. data[c].down = <<>> /\ (data[c].downEof \/ ~ alive)
    BY <2>7 DEF GetDone, DataClosed
  <2>9. Target = Under(last[c].arg)
    BY <2>1 DEF GetInv, Target
  <2>10. left = <<>> /\ Moved(files[At(Target)], Incoming(c), buf[c])
    BY <2>1, <2>8, <2>9 DEF GetInv, AliveInv
  <2>11. Incoming(c) = <<>>
    <3>1. <<>> \o <<>> = <<>>
      BY ConcatEmptySeq, EmptySeq
    <3> QED
      BY <2>8, <2>10, <3>1 DEF Incoming
  <2> QED
    BY <1>1, <2>9, <2>10, <2>11, GetTypes, MovedAll
<1>2. TransInv /\ [Next]_vars => [Whole]_vars
  BY <1>1
<1> QED
  BY <1>2, InitTrans, NextTrans, PTL DEF Spec, RetrievedWhole
=============================================================================
