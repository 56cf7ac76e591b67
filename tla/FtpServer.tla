----------------------------- MODULE FtpServer -----------------------------
(***************************************************************************)
(* ftpserver/main.c: one process, one thread, one session at a time.       *)
(*                                                                         *)
(* The command port is served in the order of the connections; a session's *)
(* requests are handled one by one; a handler that needs the data port     *)
(* accepts on it, blocking, and whatever connection comes first is taken.  *)
(*                                                                         *)
(* The server names its working directory twice: the process has a current *)
(* directory (`cwd` of FtpFiles) and WORKING_DIRECTORY is a string (`wd`). *)
(* CWD stores its argument in the string as typed, so after a relative CWD *)
(* the two may denote different places.                                    *)
(*                                                                         *)
(* A definition named X_mistake is X with a plausible mistake in it, never *)
(* part of the specification: it shows that a property would notice.       *)
(***************************************************************************)
EXTENDS FtpFiles

CONSTANT FcloseNull  \* what fclose(NULL), undefined in C, may do

ASSUME FcloseAssumption ==
  FcloseNull \subseteq {"crash", "return"} /\ FcloseNull # {}

VARIABLES
  spc,   \* where the process stands
  cur,   \* sock_client: the client whose session this is
  wd,    \* WORKING_DIRECTORY
  job,   \* the STOR or RETR request whose handler waits or transfers
  peer,  \* the client at the other end of sock_data_channel
  left   \* RETR: what is still to be read from the opened file

srvVars == <<spc, cur, wd, job, peer, left>>

ServerPc == {"accept", "command", "dataAccept", "store", "send", "spin",
             "noOpen", "quit", "exited", "crashed"}

SrvTypeOK ==
  /\ spc \in ServerPc
  /\ cur \in Client \cup {NoClient}
  /\ spc \notin {"accept", "exited", "crashed"} => cur \in Client
  /\ wd \in Path
  /\ job \in Line
  /\ peer \in Client \cup {NoClient}
  /\ spc \in {"store", "send", "noOpen"} => peer \in Client
  /\ left \in Content

SrvInit ==
  /\ spc = "accept"
  /\ cur = NoClient
  /\ wd = NoPath
  /\ job = NoLine
  /\ peer = NoClient
  /\ left = <<>>

----------------------------------------------------------------------------
(* A write to a client that is gone is answered by a reset, and a write    *)
(* after the reset raises SIGPIPE, which nothing catches: which of the two *)
(* a write meets depends on what the kernel received in between.           *)
ContinueOrBroken(pc, gone) ==
  \/ /\ spc' = pc
     /\ alive' = alive
  \/ /\ gone
     /\ spc' = "exited"
     /\ alive' = FALSE

----------------------------------------------------------------------------
(* main: sessions.                                                         *)

\* Mistakes: the directory the server was started in; a string emptied first.
SessionWd_home == Absolute(StartDir)
SessionWd_cleared == IF cwd.live THEN Absolute(cwd.at) ELSE NoPath

\* getcwd() at accept; it fails, and leaves the string as it was, when the
\* current directory has been removed.
SessionWd == IF cwd.live THEN Absolute(cwd.at) ELSE wd

Accept ==
  /\ spc = "accept"
  /\ backlog # <<>>
  /\ cur' = Head(backlog)
  /\ backlog' = Tail(backlog)
  /\ wd' = SessionWd
  /\ spc' = "command"
  /\ UNCHANGED <<conn, data, dataBacklog, alive, fsVars, job, peer, left>>

\* read_line returns 0, handle_socket -1, and ERROR_LOGGING is exit(1): a
\* client that leaves without QUIT takes the server with it.
Hangup ==
  /\ spc = "command"
  /\ conn[cur].up = <<>>
  /\ conn[cur].upEof
  /\ spc' = "exited"
  /\ alive' = FALSE
  /\ UNCHANGED <<conn, data, backlog, dataBacklog, fsVars, cur, wd, job, peer,
                 left>>

----------------------------------------------------------------------------
(* handle_socket: the handlers that answer at once.                        *)

Serving(op) ==
  /\ spc = "command"
  /\ conn[cur].up # <<>>
  /\ Head(conn[cur].up).op = op

Asked == Head(conn[cur].up)
Reply(st) == <<[n |-> Asked.n, st |-> st]>>

Answer(pieces, pc) ==
  /\ conn' = [conn EXCEPT ![cur].up = Tail(@), ![cur].down = @ \o pieces]
  /\ ContinueOrBroken(pc, conn[cur].upEof)
  /\ UNCHANGED <<data, backlog, dataBacklog, cur, peer, left>>

\* build_absolute_path: WORKING_DIRECTORY "/" target.
Under(t) == [abs |-> wd.abs, at |-> wd.at \o t.at]

Pwd == Serving("PWD") /\ Answer(Reply("text"), "command")
       /\ UNCHANGED <<fsVars, wd, job>>

\* The names listed are not modelled: only whether opendir() succeeded.
ListReply == Reply(IF IsDir(wd) THEN "text" ELSE "fail")

Nlst == Serving("NLST") /\ Answer(ListReply, "command")
        /\ UNCHANGED <<fsVars, wd, job>>

List == Serving("LIST") /\ Answer(ListReply, "command")
        /\ UNCHANGED <<fsVars, wd, job>>

Cwd ==
  /\ Serving("CWD")
  /\ \/ /\ IsDir(Asked.arg)
        /\ cwd' = [live |-> TRUE, at |-> At(Asked.arg)]
        /\ wd' = Asked.arg
        /\ Answer(Reply("success"), "command")
     \/ /\ ~ IsDir(Asked.arg)
        /\ Answer(Reply("fail"), "command")
        /\ UNCHANGED <<cwd, wd>>
  /\ UNCHANGED <<dirs, files, job>>

\* Mistake: one case of the switch forgotten.
RmdReply_forgets(e) ==
  IF e \in {"ENOTDIR", "EEXIST"} THEN Reply("fail") ELSE <<>>

\* The switch on errno leaves the response empty for any other error.
MkdReply(e) == IF e \in {"EACCES", "EEXIST"} THEN Reply("fail") ELSE <<>>
RmdReply(e) ==
  IF e \in {"ENOTDIR", "EEXIST", "ENOTEMPTY"} THEN Reply("fail") ELSE <<>>

Mkd ==
  /\ Serving("MKD")
  /\ LET p == Under(Asked.arg)
         e == MkdirErrno(p)
     IN  \/ /\ e = "none"
            /\ MakeDir(At(p))
            /\ Answer(Reply("success"), "command")
         \/ /\ e # "none"
            /\ Answer(MkdReply(e), "command")
            /\ UNCHANGED fsVars
  /\ UNCHANGED <<wd, job>>

\* The only handler besides CWD that takes its argument as it is.
Rmd ==
  /\ Serving("RMD")
  /\ LET e == RmdirErrno(Asked.arg)
     IN  \/ /\ e = "none"
            /\ RemoveEntry(At(Asked.arg))
            /\ Answer(Reply("success"), "command")
         \/ /\ e # "none"
            /\ Answer(RmdReply(e), "command")
            /\ UNCHANGED fsVars
  /\ UNCHANGED <<wd, job>>

Dele ==
  /\ Serving("DELE")
  /\ LET p == Under(Asked.arg)
     IN  \/ /\ CanRemove(p)
            /\ RemoveEntry(At(p))
            /\ Answer(Reply("success"), "command")
         \/ /\ ~ CanRemove(p)
            /\ Answer(Reply("fail"), "command")
            /\ UNCHANGED fsVars
  /\ UNCHANGED <<wd, job>>

----------------------------------------------------------------------------
(* STOR and RETR.  "OK <port>" is sent before anything has been opened.    *)

Promise ==
  /\ job' = Asked
  /\ Answer(Reply("OK"), "dataAccept")
  /\ UNCHANGED <<fsVars, wd>>

Stor == Serving("STOR") /\ Promise
Retr == Serving("RETR") /\ Promise

Target == Under(job.arg)

\* Mistake: fopen() first, and no accept() when it fails.
StorOpen_early ==
  /\ job.op = "STOR"
  /\ spc = "dataAccept"
  /\ \/ /\ CanCreate(Target)
        /\ dataBacklog # <<>>
        /\ peer' = Head(dataBacklog)[1]
        /\ dataBacklog' = Tail(dataBacklog)
        /\ WriteFile(At(Target), <<>>)
        /\ spc' = "store"
     \/ /\ ~ CanCreate(Target)
        /\ spc' = "command"
        /\ UNCHANGED <<dataBacklog, peer, fsVars>>
  /\ UNCHANGED <<conn, data, backlog, alive, cur, wd, job, left>>

\* accept() on the data port.
TakeData ==
  /\ spc = "dataAccept"
  /\ dataBacklog # <<>>
  /\ peer' = Head(dataBacklog)[1]
  /\ dataBacklog' = Tail(dataBacklog)
  /\ UNCHANGED <<data, backlog, cur, wd, job>>

\* The notice has no "\r\n": it will be read as the start of the next reply.
Notice ==
  /\ conn' = [conn EXCEPT ![cur].down = Append(@, [n |-> job.n, st |-> "noopen"])]
  /\ ContinueOrBroken("noOpen", conn[cur].upEof)

\* Mistake: fopen(.., "ab") for "wb".
StorOpen_appends ==
  /\ job.op = "STOR"
  /\ TakeData
  /\ \/ /\ CanCreate(Target)
        /\ WriteFile(At(Target),
                     IF IsFile(Target) THEN files[At(Target)] ELSE <<>>)
        /\ spc' = "store"
        /\ UNCHANGED <<conn, alive>>
     \/ /\ ~ CanCreate(Target)
        /\ Notice
        /\ UNCHANGED fsVars
  /\ left' = left

StorOpen ==
  /\ job.op = "STOR"
  /\ TakeData
  /\ \/ /\ CanCreate(Target)
        /\ WriteFile(At(Target), <<>>)
        /\ spc' = "store"
        /\ UNCHANGED <<conn, alive>>
     \/ /\ ~ CanCreate(Target)
        /\ Notice
        /\ UNCHANGED fsVars
  /\ left' = left

\* fopen(.., "rb") opens a directory too; every fread() of it then fails, and
\* feof() never becomes true.
RetrOpen ==
  /\ job.op = "RETR"
  /\ TakeData
  /\ \/ /\ IsFile(Target)
        /\ left' = files[At(Target)]
        /\ spc' = "send"
        /\ UNCHANGED <<conn, alive>>
     \/ /\ IsDir(Target)
        /\ spc' = "spin"
        /\ UNCHANGED <<conn, alive, left>>
     \/ /\ ~ (IsFile(Target) \/ IsDir(Target))
        /\ Notice
        /\ left' = left
  /\ UNCHANGED fsVars

\* fclose() of the file that was not opened.
NoOpen ==
  /\ spc = "noOpen"
  /\ \/ /\ "return" \in FcloseNull
        /\ data' = [data EXCEPT ![peer].up = <<>>, ![peer].downEof = TRUE]
        /\ spc' = "command"
        /\ alive' = alive
     \/ /\ "crash" \in FcloseNull
        /\ spc' = "crashed"
        /\ alive' = FALSE
        /\ data' = data
  /\ UNCHANGED <<conn, backlog, dataBacklog, fsVars, cur, wd, job, peer, left>>

Store ==
  /\ spc = "store"
  /\ \E k \in 1 .. Len(data[peer].up) :
       LET s == data[peer].up
       IN  /\ TakesBytes(s, data[peer].upEof, k)
           /\ WriteFile(At(Target), files[At(Target)] \o Handed(s, k))
           /\ data' = [data EXCEPT ![peer].up = SubSeq(s, k + 1, Len(s))]
  /\ UNCHANGED <<conn, backlog, dataBacklog, alive, srvVars>>

\* Mistakes: a pause taken for the end; the test for the end never true, as
\* it would be with `numRead < 0`.
EndOfData_pause == data[peer].up = <<>>
EndOfData_never == FALSE

EndOfData == data[peer].up = <<>> /\ data[peer].upEof

\* Mistake: a completion reply, for which no client of this protocol waits.
StoreDone_confirms ==
  /\ spc = "store"
  /\ EndOfData
  /\ data' = [data EXCEPT ![peer].downEof = TRUE]
  /\ conn' = [conn EXCEPT ![cur].down =
                Append(@, [n |-> job.n, st |-> "success"])]
  /\ spc' = "command"
  /\ UNCHANGED <<backlog, dataBacklog, alive, fsVars, cur, wd, job, peer, left>>

StoreDone ==
  /\ spc = "store"
  /\ EndOfData
  /\ data' = [data EXCEPT ![peer].downEof = TRUE]
  /\ spc' = "command"
  /\ UNCHANGED <<conn, backlog, dataBacklog, alive, fsVars, cur, wd, job, peer,
                 left>>

Send ==
  /\ spc = "send"
  /\ left # <<>>
  /\ data' = [data EXCEPT ![peer].down = Append(@, Head(left))]
  /\ left' = Tail(left)
  /\ ContinueOrBroken("send", data[peer].upEof)
  /\ UNCHANGED <<conn, backlog, dataBacklog, fsVars, cur, wd, job, peer>>

\* Mistake: the last, short block is not sent.
SendDone_short ==
  /\ spc = "send"
  /\ Len(left) <= 1
  /\ data' = [data EXCEPT ![peer].downEof = TRUE]
  /\ spc' = "command"
  /\ UNCHANGED <<conn, backlog, dataBacklog, alive, fsVars, cur, wd, job, peer,
                 left>>

SendDone ==
  /\ spc = "send"
  /\ left = <<>>
  /\ data' = [data EXCEPT ![peer].downEof = TRUE]
  /\ spc' = "command"
  /\ UNCHANGED <<conn, backlog, dataBacklog, alive, fsVars, cur, wd, job, peer,
                 left>>

----------------------------------------------------------------------------
(* QUIT: "bye" without a line end, then shutdown() and one blocking read.  *)

\* Mistake: no shutdown(), so that the client cannot know that "bye" is all.
Quit_open ==
  /\ Serving("QUIT")
  /\ Answer(Reply("bye"), "quit")
  /\ UNCHANGED <<fsVars, wd, job>>

Quit ==
  /\ Serving("QUIT")
  /\ conn' = [conn EXCEPT ![cur].up = Tail(@),
                          ![cur].down = @ \o Reply("bye"),
                          ![cur].downEof = TRUE]
  /\ ContinueOrBroken("quit", conn[cur].upEof)
  /\ UNCHANGED <<data, backlog, dataBacklog, fsVars, cur, wd, job, peer, left>>

\* Mistakes: is_quit not set, with the socket forgotten or not; a read that
\* does not return at the end of the stream.
QuitClose_forgets ==
  /\ spc = "quit"
  /\ conn[cur].up # <<>> \/ conn[cur].upEof
  /\ spc' = "command"
  /\ cur' = NoClient
  /\ UNCHANGED <<netVars, fsVars, wd, job, peer, left>>

QuitClose_stays ==
  /\ spc = "quit"
  /\ conn[cur].up # <<>> \/ conn[cur].upEof
  /\ spc' = "command"
  /\ UNCHANGED <<netVars, fsVars, cur, wd, job, peer, left>>

QuitClose_waits ==
  /\ spc = "quit"
  /\ conn[cur].up # <<>>
  /\ spc' = "accept"
  /\ cur' = NoClient
  /\ UNCHANGED <<netVars, fsVars, wd, job, peer, left>>

QuitClose ==
  /\ spc = "quit"
  /\ conn[cur].up # <<>> \/ conn[cur].upEof
  /\ spc' = "accept"
  /\ cur' = NoClient
  /\ UNCHANGED <<netVars, fsVars, wd, job, peer, left>>

ServerNext ==
  \/ Accept \/ Hangup
  \/ Pwd \/ Nlst \/ List \/ Cwd \/ Mkd \/ Rmd \/ Dele
  \/ Stor \/ Retr \/ StorOpen \/ RetrOpen \/ NoOpen
  \/ Store \/ StoreDone \/ Send \/ SendDone
  \/ Quit \/ QuitClose
============================================================================
