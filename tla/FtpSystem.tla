----------------------------- MODULE FtpSystem -----------------------------
(***************************************************************************)
(* ftpserver and its ftpclients: every interleaving of the server's steps, *)
(* the clients' steps and what the users do.                               *)
(***************************************************************************)
EXTENDS FtpServer, FtpClient, FiniteSets

vars == <<netVars, fsVars, srvVars, cliVars>>

Init == NetInit /\ FsInit /\ SrvInit /\ CliInit

ServerStep == ServerNext /\ UNCHANGED cliVars
ClientStep(c) == ProgramStep(c) /\ UNCHANGED <<fsVars, srvVars>>
Typing(c) == UserStep(c) /\ UNCHANGED <<fsVars, srvVars>>

Next == ServerStep \/ \E c \in Client : ClientStep(c) \/ Typing(c)

Spec == Init /\ [][Next]_vars

\* The scheduler runs every process that can run; a user owes nothing.
Fairness == WF_vars(ServerStep) /\ \A c \in Client : WF_vars(ClientStep(c))
FairSpec == Spec /\ Fairness

TypeOK == NetTypeOK /\ FsTypeOK /\ SrvTypeOK /\ CliTypeOK

----------------------------------------------------------------------------
(* The working directory.                                                  *)

\* While WORKING_DIRECTORY is an absolute path it names the directory the
\* process is in, so that MKD, DELE, STOR, RETR (which put the string before
\* their argument) and RMD, CWD (which do not) agree on every relative name;
\* they never do on an absolute one.  After a relative CWD the string is the
\* last part of that directory's name, and then the two groups differ.
WdDenotesCwd ==
  /\ wd.abs => wd.at = cwd.at
  /\ ~ wd.abs => \E k \in 0 .. Len(cwd.at) :
                   wd.at = SubSeq(cwd.at, k + 1, Len(cwd.at))

\* It is an absolute path in every session as long as nobody gives CWD a
\* relative one, whatever directories have come and gone under the server.
AbsoluteWd ==
  (\A r \in Request : r.op = "CWD" => r.arg.abs)
    => (cur # NoClient => wd.abs)

----------------------------------------------------------------------------
(* Requests and replies.                                                   *)

\* Client and server wait for each other: the client for a line end, the
\* server for a request.
Stalled(c) ==
  /\ cpc[c] = "wait"
  /\ spc = "command" /\ cur = c
  /\ conn[c].up = <<>>
  /\ \A i \in 1 .. Len(conn[c].down) : ~ EndsLine(conn[c].down[i])

\* Errors that the switch of the MKD and of the RMD handler do not name.
SilentError(c) ==
  \/ last[c].op = "MKD"
     /\ MkdirErrno(Under(last[c].arg)) \in {"ENOENT", "ENOTDIR"}
  \/ last[c].op = "RMD"
     /\ RmdirErrno(last[c].arg) \in {"ENOENT", "EACCES", "EBUSY"}

\* Nothing but an error those two handlers pass over in silence can leave a
\* client and the server waiting for each other.
StallOnlyOnSilentErrno == \A c \in Client : Stalled(c) => SilentError(c)

\* What a client reads as the reply to a request is the reply to that request:
\* nothing before it but notices of files that could not be opened, and
\* nothing after it.  In particular a command never gets the previous one's
\* answer, though replies carry no tag.
ReplyIsOwn ==
  \A c \in Client :
    \A i \in 1 .. Len(line[c]) :
      IF i = Len(line[c]) /\ EndsLine(line[c][i])
      THEN line[c][i].n = last[c].n
      ELSE line[c][i].st = "bye" \/ line[c][i].st = "noopen"

----------------------------------------------------------------------------
(* The data port.                                                          *)

\* The data port is shared by all sessions and the server takes whatever
\* connection comes first: it is always the one that the request being served
\* asked for, and a client never dials when nobody waits for it.
DataPortMatches ==
  /\ \A i \in 1 .. Len(dataBacklog) :
       /\ spc = "dataAccept"
       /\ dataBacklog[i] = <<cur, job.n>>
  /\ Len(dataBacklog) <= 1
  /\ \A c \in Client :
       cpc[c] = "dial" => spc = "dataAccept" /\ cur = c /\ job = last[c]

\* What is left of a file that read_line has read to its end.
Read(s) ==
  LET kept == {i \in 1 .. Len(s) : Keeps(s, i)}
  IN  [n \in 1 .. Cardinality(kept) |->
         s[CHOOSE i \in kept : Cardinality({j \in kept : j <= i}) = n]]

\* A STOR that ends with its client alive has stored the client's file: every
\* byte of it, in order, but for what read_line discards of too long a line.
StoredWhole ==
  [][spc = "store" /\ spc' = "command" /\ cpc[peer] # "dead"
       => files'[At(Target)] = Read(LocalFiles[job.src])]_vars

\* At any moment of a STOR, and so when its client is killed in the middle, the
\* file holds what read_line makes of a first part of the client's file: nothing
\* out of order, and nothing of what stood under that name before.
StoredSoFar ==
  spc = "store" =>
    \/ files[At(Target)] = <<>>
    \/ /\ job.src \in DOMAIN LocalFiles
       /\ \E k \in 0 .. Len(LocalFiles[job.src]) :
            files[At(Target)] = Read(SubSeq(LocalFiles[job.src], 1, k))

\* A client that comes to the end of its RETR has the file as the server has
\* it, unless the server could not open it.
RetrievedWhole ==
  [][\A c \in Client :
       /\ cpc[c] = "get"
       /\ cpc'[c] = "idle"
       /\ IsFile(Under(last[c].arg))
       => buf[c] = Read(files[At(Under(last[c].arg))])]_vars

----------------------------------------------------------------------------
(* The end of the server.                                                  *)

\* A server that exits does so because of the client it was serving, who left
\* without QUIT; it crashes only for a file that cannot be opened.
ServerExitBlame ==
  /\ spc = "exited" => cur \in Client /\ cpc[cur] = "dead"
  /\ spc = "crashed" =>
       \/ job.op = "STOR" /\ ~ CanCreate(Target)
       \/ job.op = "RETR" /\ ~ (IsFile(Target) \/ IsDir(Target))
  /\ alive <=> spc \notin {"exited", "crashed"}

----------------------------------------------------------------------------
(* Liveness, under Fairness.                                               *)

\* A session that was ended with QUIT makes room for the next one.
QuitCompletes == (spc = "quit") ~> (spc \in {"accept", "exited"})

\* A server that has promised a transfer comes back from it, or ends, but for
\* three ways to wait for ever: RETR of a directory, a STOR whose client sends
\* a directory, and a client that is gone before it dials.
TransferEnds ==
  (spc \in {"dataAccept", "store", "send", "noOpen"})
    ~> \/ spc \in {"command", "exited", "crashed"}
       \/ spc = "spin" /\ IsDir(Target)
       \/ spc = "store" /\ cpc[peer] = "spin"
       \/ spc = "dataAccept" /\ dataBacklog = <<>> /\ cpc[cur] = "dead"

\* A request of the client being served gets its reply, or ends in a stall, or
\* the client is gone.
Answered ==
  \A c \in Client :
    (cpc[c] = "wait" /\ cur = c)
      ~> (cpc[c] # "wait" \/ (Stalled(c) /\ SilentError(c)))
============================================================================
