----------------------------- MODULE HttpServer -----------------------------
(***************************************************************************)
(* httpserver/main.c: one process, one thread, one connection at a time:   *)
(* one recv(), taken for one request, one response, shutdown, one read,    *)
(* close.                                                                  *)
(*                                                                         *)
(* The operator may kill the server at any moment and start it again; what *)
(* it has written to the tree stays, all else is lost.                     *)
(*                                                                         *)
(* A definition named X_mistake is X with a plausible mistake in it, never *)
(* part of the specification.                                              *)
(***************************************************************************)
EXTENDS HttpStore, FiniteSets

CONSTANTS
  Random,      \* the names random_string yields, in order, to a new process
  FdLimit,     \* bound: connections it can have open and forgotten
  FcloseNull,  \* what fclose(NULL), undefined in C, may do
  MaxStarts    \* bound: servers killed and started again

ASSUME ServerAssumption ==
  /\ Random \in Seq(Name)
  /\ FdLimit \in Nat /\ MaxStarts \in Nat
  /\ FcloseNull \subseteq {"crash", "return"} /\ FcloseNull # {}

VARIABLES
  spc,     \* where the process stands
  cur,     \* sock_client: the connection being served
  todo,    \* the file opened for writing, and what it will hold when closed
  out,     \* what is still to be sent of the response
  draws,   \* calls of random_string since the process was started
  leaked,  \* connections it has forgotten without closing them
  starts   \* servers started so far, the first one apart

srvVars == <<spc, cur, todo, out, draws, leaked, starts>>

\* "broken": ended by SIGPIPE; "crashed": by a null FILE pointer.
Down == {"killed", "broken", "crashed"}
ServerPc ==
  {"accept", "recv", "write", "respond", "refuse", "linger"} \cup Down

SrvTypeOK ==
  /\ spc \in ServerPc
  /\ cur \in Client \cup {NoClient}
  /\ spc \in {"recv", "write", "respond", "refuse", "linger"} => cur \in Client
  /\ todo \in [at : Loc, text : Text]
  /\ out \in Seq(Piece)
  /\ draws \in 0 .. Len(Random)
  /\ leaked \subseteq Client
  /\ starts \in 0 .. MaxStarts

SrvInit ==
  /\ spc = "accept"
  /\ cur = NoClient
  /\ todo = [at |-> <<>>, text |-> <<>>]
  /\ out = <<>>
  /\ draws = 0
  /\ leaked = {}
  /\ starts = 0

----------------------------------------------------------------------------
(* main, handle_request.                                                   *)

\* accept() fails, and is called again, while no descriptor is free.
Accept ==
  /\ spc = "accept"
  /\ backlog # <<>>
  /\ Cardinality(leaked) < FdLimit
  /\ cur' = Head(backlog)
  /\ backlog' = Tail(backlog)
  /\ spc' = "recv"
  /\ UNCHANGED <<conn, up, treeVars, todo, out, draws, leaked, starts>>

\* Mistakes: recv() called again at the end of the stream; a shutdown() that
\* nobody follows with close().
RecvNothing_never == FALSE

RecvNothing_shuts ==
  /\ spc = "recv"
  /\ conn[cur].up = <<>> /\ conn[cur].upEof
  /\ leaked' = leaked \cup {cur}
  /\ conn' = [conn EXCEPT ![cur].downEof = TRUE]
  /\ spc' = "accept"
  /\ cur' = NoClient
  /\ UNCHANGED <<backlog, up, treeVars, todo, out, draws, starts>>

\* recv() returns 0: handle_request returns before close().
RecvNothing ==
  /\ spc = "recv"
  /\ conn[cur].up = <<>> /\ conn[cur].upEof
  /\ leaked' = leaked \cup {cur}
  /\ spc' = "accept"
  /\ cur' = NoClient
  /\ UNCHANGED <<netVars, treeVars, todo, out, draws, starts>>

Job == Head(conn[cur].up)

Handling(op) ==
  /\ spc = "recv"
  /\ conn[cur].up # <<>>
  /\ Job.op = op
  /\ UNCHANGED <<cur, leaked, starts>>

\* Mistake: MSG_PEEK.
Recv_peeks == conn' = conn

Recv == conn' = [conn EXCEPT ![cur].up = Tail(@)]

Respond(r) ==
  /\ Recv
  /\ spc' = "respond"
  /\ out' = r
  /\ UNCHANGED <<backlog, up, todo>>

\* fprintf() or fclose() of the FILE that could not be opened.
Crash(why) ==
  /\ spc' = why
  /\ up' = FALSE
  /\ cur' = NoClient
  /\ backlog' = <<>>
  /\ conn' = [c \in Client |-> [conn[c] EXCEPT !.up = <<>>, !.downEof = TRUE]]
  /\ leaked' = {}
  /\ UNCHANGED <<treeVars, todo, out, draws, starts>>

\* Mistake: the file is never closed, and its content stays in a buffer.
Open_unclosed(l, keep, code, located) ==
  /\ Recv
  /\ spc' = "respond"
  /\ files' = Put(l, keep)
  /\ todo' = [at |-> l, text |-> keep \o Job.body]
  /\ out' = Response(code, located, TextBody(Job.body))
  /\ UNCHANGED <<backlog, up, dirs>>

\* fopen(): with "w" it empties the file, with "a" it does not.  The response
\* repeats the request's body.
Open(l, keep, code, located) ==
  /\ Recv
  /\ spc' = "write"
  /\ files' = Put(l, keep)
  /\ todo' = [at |-> l, text |-> keep \o Job.body]
  /\ out' = Response(code, located, TextBody(Job.body))
  /\ UNCHANGED <<backlog, up, dirs>>

----------------------------------------------------------------------------
(* The four methods.                                                       *)

Get ==
  /\ Handling("GET")
  /\ Respond(
       CASE IsDir(Job.at) -> Response(200, FALSE, ListBody(Children(Job.at)))
         [] ~ IsDir(Job.at) /\ IsFile(Job.at) /\ CanRead(Job.at) ->
              Response(200, FALSE, TextBody(files[Job.at]))
         [] OTHER -> Response(404, FALSE, NoBody))
  /\ IsFile(Job.at) /\ ~ CanRead(Job.at) => "return" \in FcloseNull
  /\ UNCHANGED <<treeVars, draws>>

\* What is below a directory and contains the text; nothing below anything else.
\* A directory is read as an empty file, and everything contains no text.
Contains(t, w) ==
  \E i \in 0 .. (Len(t) - Len(w)) : SubSeq(t, i + 1, i + Len(w)) = w
Found(l, w) ==
  {n \in Children(l) :
     LET x == Append(l, n) IN Contains(IF IsFile(x) THEN files[x] ELSE <<>>, w)}

\* The search ends at a file it cannot read, and its response is empty.
Sealed(l) == \E n \in Children(l) : ~ CanRead(Append(l, n))

Search ==
  /\ Handling("SEARCH")
  /\ Respond(Response(200, FALSE,
       IF Sealed(Job.at) THEN NoBody ELSE ListBody(Found(Job.at, Job.body))))
  /\ Sealed(Job.at) => "return" \in FcloseNull
  /\ UNCHANGED <<treeVars, draws>>

Form ==
  /\ Handling("FORM")
  /\ Respond(Response(405, FALSE, NoBody))
  /\ UNCHANGED <<treeVars, draws>>

\* A file that cannot be created: fclose(NULL), and, where that returns, the
\* refusal; PUT then writes to the file that it has not opened.
RefusePost ==
  /\ Handling("POST")
  /\ ~ Exists(Job.at) /\ ~ CanMake(Job.at)
  /\ "return" \in FcloseNull
  /\ Respond(Response(405, FALSE, NoBody))
  /\ UNCHANGED <<treeVars, draws>>

RefusePut ==
  /\ Handling("PUT")
  /\ ~ Exists(Job.at) /\ ~ CanMake(Job.at) /\ Job.body # <<>>
  /\ "return" \in FcloseNull
  /\ Recv
  /\ spc' = "refuse"
  /\ out' = Response(400, FALSE, NoBody)
  /\ UNCHANGED <<backlog, up, treeVars, todo, draws>>

\* Mistake: "w" for "a".
Post_truncates ==
  /\ Handling("POST")
  /\ \/ ~ Exists(Job.at) /\ CanMake(Job.at) /\ Open(Job.at, <<>>, 201, TRUE)
     \/ IsFile(Job.at) /\ CanOpen(Job.at) /\ Open(Job.at, <<>>, 200, FALSE)
  /\ UNCHANGED draws

Post ==
  /\ Handling("POST")
  /\ \/ ~ Exists(Job.at) /\ CanMake(Job.at) /\ Open(Job.at, <<>>, 201, TRUE)
     \/ IsFile(Job.at) /\ CanOpen(Job.at) /\ Open(Job.at, files[Job.at], 200, FALSE)
  /\ UNCHANGED draws

\* Mistake: a seed that is set again for every name.
PostName_seeded == Append(Job.at, Random[1])

PostName == Append(Job.at, Random[draws + 1])

\* POST to a directory: a name of the server's choosing, opened with "w"
\* without a look at whether it is there.  `Random` bounds how often.
PostBelow ==
  /\ Handling("POST")
  /\ IsDir(Job.at)
  /\ draws < Len(Random)
  /\ CanOpen(PostName)
  /\ draws' = draws + 1
  /\ Open(PostName, <<>>, 201, TRUE)

\* Mistake: "a" for "w".
PutFile_appends ==
  /\ Handling("PUT")
  /\ CanOpen(Job.at) /\ (IsFile(Job.at) \/ Job.body # <<>>)
  /\ Open(Job.at, IF IsFile(Job.at) THEN files[Job.at] ELSE <<>>,
          IF IsFile(Job.at) THEN 200 ELSE 201, FALSE)
  /\ UNCHANGED draws

PutFile ==
  /\ Handling("PUT")
  /\ CanOpen(Job.at) /\ (IsFile(Job.at) \/ Job.body # <<>>)
  /\ Open(Job.at, <<>>, IF IsFile(Job.at) THEN 200 ELSE 201, FALSE)
  /\ UNCHANGED draws

PutDir ==
  /\ Handling("PUT")
  /\ ~ IsFile(Job.at)
  /\ IF IsDir(Job.at)
     THEN /\ Respond(Response(IF Job.body # <<>> THEN 405 ELSE 400, FALSE, NoBody))
          /\ dirs' = dirs
     ELSE /\ Job.body = <<>>
          /\ Respond(Response(201, FALSE, NoBody))
          /\ dirs' = MkdirP(Job.at)
  /\ UNCHANGED <<files, draws>>

Delete ==
  /\ Handling("DELETE")
  /\ Respond(Response(IF ~ Exists(Job.at) THEN 404
                      ELSE IF IsDir(Job.at) THEN 400 ELSE 200, FALSE, NoBody))
  /\ files' = IF CanRemove(Job.at)
              THEN [x \in DOMAIN files \ {Job.at} |-> files[x]] ELSE files
  /\ UNCHANGED <<dirs, draws>>

\* What makes a handler close a FILE that it has not opened, and what makes it
\* write to one.
NullClosed ==
  \/ Job.op = "GET" /\ IsFile(Job.at) /\ ~ CanRead(Job.at)
  \/ Job.op = "SEARCH" /\ Sealed(Job.at)
  \/ /\ ~ Exists(Job.at) /\ ~ CanMake(Job.at)
     /\ Job.op = "POST" \/ (Job.op = "PUT" /\ Job.body # <<>>)

NullWritten ==
  \/ Job.op \in {"POST", "PUT"} /\ IsFile(Job.at) /\ ~ CanOpen(Job.at)
  \/ /\ Job.op = "POST" /\ IsDir(Job.at)
     /\ draws < Len(Random) /\ ~ CanOpen(PostName)

\* Or strstr(NULL), behind the field in which a request has been cut.
CrashHandling ==
  /\ spc = "recv"
  /\ conn[cur].up # <<>>
  /\ Job = Torn \/ NullWritten \/ (NullClosed /\ "crash" \in FcloseNull)
  /\ Crash("crashed")

----------------------------------------------------------------------------
(* The end of a request.                                                   *)

\* fprintf() and fclose(): now the file has its content.
Written ==
  /\ spc = "write"
  /\ files' = Put(todo.at, todo.text)
  /\ spc' = "respond"
  /\ UNCHANGED <<netVars, dirs, cur, todo, out, draws, leaked, starts>>

\* One send() for every line; SIGPIPE when the client has gone.
Send ==
  /\ spc \in {"respond", "refuse"}
  /\ out # <<>>
  /\ \/ /\ conn' = [conn EXCEPT ![cur].down = Append(@, Head(out))]
        /\ out' = Tail(out)
        /\ UNCHANGED <<backlog, up, treeVars, spc, cur, todo, draws, leaked, starts>>
     \/ conn[cur].upEof /\ Crash("broken")

RefuseCrash ==
  /\ spc = "refuse"
  /\ out = <<>>
  /\ Crash("crashed")

\* Mistake: no shutdown(), so that the client cannot know that this was all.
Shut_open ==
  /\ spc = "respond"
  /\ out = <<>>
  /\ spc' = "linger"
  /\ UNCHANGED <<netVars, treeVars, cur, todo, out, draws, leaked, starts>>

Shut ==
  /\ spc = "respond"
  /\ out = <<>>
  /\ conn' = [conn EXCEPT ![cur].downEof = TRUE]
  /\ spc' = "linger"
  /\ UNCHANGED <<backlog, up, treeVars, cur, todo, out, draws, leaked, starts>>

\* Mistake: recv() again on what has been closed.
Close_reads ==
  /\ spc = "linger"
  /\ conn[cur].upEof
  /\ spc' = "recv"
  /\ cur' = NoClient
  /\ UNCHANGED <<netVars, treeVars, todo, out, draws, leaked, starts>>

Close ==
  /\ spc = "linger"
  /\ IF conn[cur].up = <<>> THEN conn[cur].upEof ELSE Head(conn[cur].up) = Ending
  /\ spc' = "accept"
  /\ cur' = NoClient
  /\ UNCHANGED <<netVars, treeVars, todo, out, draws, leaked, starts>>

ServerNext ==
  \/ Accept \/ RecvNothing
  \/ Get \/ Search \/ Form \/ Post \/ PostBelow \/ PutFile \/ PutDir \/ Delete
  \/ RefusePost \/ RefusePut \/ CrashHandling \/ RefuseCrash
  \/ Written \/ Send \/ Shut \/ Close

----------------------------------------------------------------------------
(* The operator.                                                           *)

KillServer ==
  /\ spc \notin Down
  /\ starts < MaxStarts
  /\ Crash("killed")

StartServer ==
  /\ spc \in Down
  /\ starts < MaxStarts
  /\ spc' = "accept"
  /\ up' = TRUE
  /\ draws' = 0
  /\ starts' = starts + 1
  /\ UNCHANGED <<conn, backlog, treeVars, cur, todo, out, leaked>>
============================================================================
