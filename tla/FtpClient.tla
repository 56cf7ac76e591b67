----------------------------- MODULE FtpClient -----------------------------
(***************************************************************************)
(* ftpclient/main.c: one process per client.  A command is read from the   *)
(* user, sent as one line, and answered by one read_line, whatever that    *)
(* returns; STOR and RETR then dial the data port.  Every error is exit(1).*)
(*                                                                         *)
(* The user types when he likes and may kill his client at any time; the   *)
(* rest are steps of the program.                                          *)
(***************************************************************************)
EXTENDS FtpProtocol

CONSTANTS
  MaxCmds,  \* bound: requests a client sends before its QUIT
  MaxKills  \* bound: clients killed

ASSUME BoundAssumption == MaxCmds \in Nat /\ MaxKills \in Nat

VARIABLES
  cpc,   \* cpc[c]: where c stands
  last,  \* last[c]: the latest request it sent
  line,  \* line[c]: what its latest read_line on the command port returned
  buf,   \* buf[c]: STOR: what is still to be sent; RETR: what was received
  kills  \* clients killed so far

cliVars == <<cpc, last, line, buf, kills>>

ClientPc ==
  {"off", "idle", "wait", "dial", "put", "spin", "get", "bye", "done", "dead"}

CliTypeOK ==
  /\ cpc \in [Client -> ClientPc]
  /\ last \in [Client -> Line]
  /\ line \in [Client -> Seq(Piece)]
  /\ buf \in [Client -> Content]
  /\ kills \in 0 .. MaxKills

CliInit ==
  /\ cpc = [c \in Client |-> "off"]
  /\ last = [c \in Client |-> NoLine]
  /\ line = [c \in Client |-> <<>>]
  /\ buf = [c \in Client |-> <<>>]
  /\ kills = 0

Goto(c, pc) == cpc' = [cpc EXCEPT ![c] = pc]

\* Every way for a client to end closes its sockets.
Die(c) ==
  /\ Goto(c, "dead")
  /\ conn' = [conn EXCEPT ![c].upEof = TRUE]
  /\ data' = [data EXCEPT ![c].upEof = TRUE]
  /\ UNCHANGED <<backlog, dataBacklog, alive>>

----------------------------------------------------------------------------
\* The kernel completes a connection before the server accepts it; without a
\* server it is refused.
Connect(c) ==
  /\ cpc[c] = "off"
  /\ \/ /\ alive
        /\ conn' = [conn EXCEPT ![c] = Fresh]
        /\ backlog' = Append(backlog, c)
        /\ Goto(c, "idle")
        /\ UNCHANGED <<data, dataBacklog, alive>>
     \/ ~ alive /\ Die(c)
  /\ UNCHANGED <<last, line, buf, kills>>

\* What is written to a server that is gone is lost, and may raise SIGPIPE.
Write(c, l) ==
  \/ /\ conn' = IF alive THEN [conn EXCEPT ![c].up = Append(@, l)] ELSE conn
     /\ Goto(c, "wait")
     /\ UNCHANGED <<data, backlog, dataBacklog, alive>>
  \/ ~ alive /\ Die(c)

NextLine(c, op, arg, src) ==
  [n |-> last[c].n + 1, op |-> op, arg |-> arg, src |-> src]

Submit(c, l) ==
  /\ cpc[c] = "idle"
  /\ last' = [last EXCEPT ![c] = l]
  /\ line' = [line EXCEPT ![c] = <<>>]
  /\ Write(c, l)
  /\ UNCHANGED <<buf, kills>>

Type(c) ==
  /\ last[c].n < MaxCmds
  /\ \E r \in Request : Submit(c, NextLine(c, r.op, r.arg, r.src))

TypeQuit(c) == Submit(c, NextLine(c, "QUIT", NoPath, NoSource))

----------------------------------------------------------------------------
\* What one read_line takes: everything through the first line end, or, when
\* there is none, everything once the stream has ended.
TakesLine(c, k) ==
  LET s == conn[c].down
  IN  /\ \A i \in 1 .. k : EndsLine(s[i]) => i = k
      /\ \/ k > 0 /\ EndsLine(s[k])
         \/ k = Len(s) /\ (conn[c].downEof \/ ~ alive)

\* STOR and RETR look at the first word of the reply, and go on only if it is
\* "OK"; the other handlers print the reply and ignore it.
Accepted(l) == l # <<>> /\ l[1].st = "OK"

ReadReply(c) ==
  /\ cpc[c] = "wait"
  /\ \E k \in 0 .. Len(conn[c].down) :
       LET s == conn[c].down
           l == SubSeq(s, 1, k)
           moves == last[c].op \in {"STOR", "RETR"}
       IN  /\ TakesLine(c, k)
           /\ line' = [line EXCEPT ![c] = l]
           /\ \/ /\ ~ moves \/ Accepted(l)
                 /\ Goto(c, IF moves THEN "dial"
                            ELSE IF last[c].op = "QUIT" THEN "bye" ELSE "idle")
                 /\ conn' = [conn EXCEPT ![c].down = SubSeq(s, k + 1, Len(s))]
                 /\ UNCHANGED <<data, backlog, dataBacklog, alive>>
              \/ moves /\ ~ Accepted(l) /\ Die(c)
  /\ UNCHANGED <<last, buf, kills>>

\* connect() to the data port, then fopen() of the local file: a file that
\* cannot be opened is noticed only when the connection is there.  Nobody
\* refuses the connection: see DataPortMatches.  A directory can be opened, but
\* not read, and the loop that waits for its end goes on for ever.
Dial(c) ==
  /\ cpc[c] = "dial"
  /\ dataBacklog' = Append(dataBacklog, <<c, last[c].n>>)
  /\ UNCHANGED <<backlog, alive, last, line, kills>>

Opened(c, pc, content) ==
  /\ Goto(c, pc)
  /\ buf' = [buf EXCEPT ![c] = content]
  /\ data' = [data EXCEPT ![c] = Fresh]
  /\ conn' = conn

NotOpened(c) ==
  /\ Goto(c, "dead")
  /\ buf' = buf
  /\ data' = [data EXCEPT ![c] = [Fresh EXCEPT !.upEof = TRUE]]
  /\ conn' = [conn EXCEPT ![c].upEof = TRUE]

DialPut(c) ==
  /\ last[c].op = "STOR"
  /\ Dial(c)
  /\ \/ /\ last[c].src \in DOMAIN LocalFiles
        /\ Opened(c, "put", LocalFiles[last[c].src])
     \/ last[c].src \in LocalDirs /\ Opened(c, "spin", <<>>)
     \/ last[c].src \notin DOMAIN LocalFiles \cup LocalDirs /\ NotOpened(c)

\* RETR writes to a local file of the same name, if it can create it.
DialGet(c) ==
  /\ last[c].op = "RETR"
  /\ Dial(c)
  /\ Opened(c, "get", <<>>) \/ NotOpened(c)

----------------------------------------------------------------------------
DataClosed(c) == data[c].downEof \/ ~ alive

Put(c) ==
  /\ cpc[c] = "put"
  /\ buf[c] # <<>>
  /\ \/ /\ data' = IF DataClosed(c) THEN data
                   ELSE [data EXCEPT ![c].up = Append(@, Head(buf[c]))]
        /\ buf' = [buf EXCEPT ![c] = Tail(@)]
        /\ UNCHANGED <<conn, backlog, dataBacklog, alive, cpc>>
     \/ DataClosed(c) /\ Die(c) /\ buf' = buf
  /\ UNCHANGED <<last, line, kills>>

PutDone(c) ==
  /\ cpc[c] = "put"
  /\ buf[c] = <<>>
  /\ data' = [data EXCEPT ![c].upEof = TRUE]
  /\ Goto(c, "idle")
  /\ UNCHANGED <<conn, backlog, dataBacklog, alive, last, line, buf, kills>>

Get(c) ==
  /\ cpc[c] = "get"
  /\ \E k \in 1 .. Len(data[c].down) :
       LET s == data[c].down
       IN  /\ TakesBytes(s, DataClosed(c), k)
           /\ buf' = [buf EXCEPT ![c] = @ \o Handed(s, k)]
           /\ data' = [data EXCEPT ![c].down = SubSeq(s, k + 1, Len(s))]
  /\ UNCHANGED <<conn, backlog, dataBacklog, alive, cpc, last, line, kills>>

GetDone(c) ==
  /\ cpc[c] = "get"
  /\ data[c].down = <<>>
  /\ DataClosed(c)
  /\ data' = [data EXCEPT ![c].upEof = TRUE]
  /\ Goto(c, "idle")
  /\ UNCHANGED <<conn, backlog, dataBacklog, alive, last, line, buf, kills>>

\* After "bye": shutdown(), one read (the server has ended the stream), close().
Bye(c) ==
  /\ cpc[c] = "bye"
  /\ conn' = [conn EXCEPT ![c].upEof = TRUE]
  /\ Goto(c, "done")
  /\ UNCHANGED <<data, backlog, dataBacklog, alive, last, line, buf, kills>>

Kill(c) ==
  /\ cpc[c] \notin {"off", "done", "dead"}
  /\ kills < MaxKills
  /\ kills' = kills + 1
  /\ Die(c)
  /\ UNCHANGED <<last, line, buf>>

UserStep(c) == Connect(c) \/ Type(c) \/ TypeQuit(c) \/ Kill(c)
ProgramStep(c) ==
  \/ ReadReply(c) \/ DialPut(c) \/ DialGet(c)
  \/ Put(c) \/ PutDone(c) \/ Get(c) \/ GetDone(c) \/ Bye(c)
============================================================================
