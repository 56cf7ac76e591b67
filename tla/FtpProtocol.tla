---------------------------- MODULE FtpProtocol ----------------------------
(***************************************************************************)
(* What ftpserver and ftpclient share: the vocabulary of a request and of  *)
(* a reply, and the sockets between the two programs.                      *)
(*                                                                         *)
(* A request is one "VERB argument\r\n" line.  A reply is a piece of text; *)
(* all but two kinds end in "\r\n", and the two that do not ("bye" and     *)
(* "fail to open file") are what the client's read_line cannot stop at.    *)
(* TCP itself is external: ordered, loss-free byte streams on the loopback *)
(* interface (ftpclient connects to 127.0.0.1 only).                       *)
(***************************************************************************)
EXTENDS Sockets, Lines

CONSTANTS
  Client,     \* the ftpclient processes
  NoClient,   \* sock_client before the first accept()
  Name,       \* path components
  Source,     \* names of files on the client's side
  NoSource,   \* none, for the requests that name no such file
  LocalFiles, \* the clients' own files: a function from names to contents
  LocalDirs,  \* the clients' own directories
  Request     \* what a user may type, QUIT apart (the bounds choose a sample)

Loc == Seq(Name)                          \* a place, counted from the root
Path == [abs : BOOLEAN, at : Loc]         \* a path as written: "/x/y" or "x/y"

Absolute(l) == [abs |-> TRUE, at |-> l]
NoPath == [abs |-> FALSE, at |-> <<>>]    \* the empty string

Verbs == {"PWD", "CWD", "MKD", "RMD", "NLST", "LIST", "DELE", "STOR", "RETR"}

\* `src` is the local_path a user types after STOR's file name; it never
\* crosses the wire and no server action reads it.
Line ==
  [n : Nat, op : Verbs \cup {"QUIT", ""}, arg : Path, src : Source \cup {NoSource}]
NoLine == [n |-> 0, op |-> "", arg |-> NoPath, src |-> NoSource]

\* `n` is the number of the request that a piece of reply belongs to.  It is
\* not on the wire: properties read it, no action does.
Piece == [n : Nat, st : {"text", "success", "fail", "OK", "noopen", "bye"}]
EndsLine(p) == p.st \notin {"noopen", "bye"}

ASSUME ClientAssumption == NoClient \notin Client

\* scanf("%s") never yields an empty word, so a path that is needed is there.
PathVerbs == Verbs \ {"PWD", "NLST", "LIST"}
ASSUME RequestAssumption ==
  /\ Request \subseteq [op : Verbs, arg : Path, src : Source \cup {NoSource}]
  /\ \A r \in Request : r.op \in PathVerbs => r.arg # NoPath
ASSUME LocalFilesAssumption ==
  /\ DOMAIN LocalFiles \subseteq Source
  /\ \A f \in DOMAIN LocalFiles : LocalFiles[f] \in Content

VARIABLES
  conn,        \* conn[c]: c's connection to the command port
  data,        \* data[c]: c's latest connection to the data port
  backlog,     \* command connections not yet accepted
  dataBacklog, \* data connections not yet accepted, each <<client, request>>
  alive        \* the server process, and so its end of every socket, exists

netVars == <<conn, data, backlog, dataBacklog, alive>>

NetTypeOK ==
  /\ conn \in [Client -> Duplex(Line, Piece)]
  /\ data \in [Client -> Duplex(Block, Block)]
  /\ backlog \in Seq(Client)
  /\ dataBacklog \in Seq(Client \X Nat)
  /\ alive \in BOOLEAN

NetInit ==
  /\ conn = [c \in Client |-> Fresh]
  /\ data = [c \in Client |-> Fresh]
  /\ backlog = <<>>
  /\ dataBacklog = <<>>
  /\ alive = TRUE
============================================================================
