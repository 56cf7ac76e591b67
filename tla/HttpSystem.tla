----------------------------- MODULE HttpSystem -----------------------------
(***************************************************************************)
(* httpserver, the rounds of its clients, their users and the operator.    *)
(***************************************************************************)
EXTENDS HttpServer, HttpClient

vars == <<netVars, treeVars, srvVars, cliVars>>

Init == NetInit /\ TreeInit /\ SrvInit /\ CliInit

ServerStep == ServerNext /\ UNCHANGED cliVars
Operator == (KillServer \/ StartServer) /\ UNCHANGED cliVars
ClientStep(c) == ProgramStep(c) /\ UNCHANGED <<treeVars, srvVars>>
Typing(c) == UserStep(c) /\ UNCHANGED <<treeVars, srvVars>>

Network(c) == Arrive(c) /\ UNCHANGED <<treeVars, srvVars>>

Next ==
  \/ ServerStep \/ Operator
  \/ \E c \in Client : ClientStep(c) \/ Typing(c) \/ Network(c)

Spec == Init /\ [][Next]_vars

\* Programs run when they can, and TCP delivers what has been sent; users and
\* operators owe nothing.
Fairness ==
  /\ WF_vars(ServerStep)
  /\ \A c \in Client : WF_vars(ClientStep(c)) /\ WF_vars(Network(c))
FairSpec == Spec /\ Fairness

TypeOK == NetTypeOK /\ TreeTypeOK /\ SrvTypeOK /\ CliTypeOK

----------------------------------------------------------------------------
(* Responses.                                                              *)

BodyPieces(b) == IF b = NoBody THEN <<>> ELSE <<BodyPiece(b)>>

\* mkdir -p that must fail, rm -f that must: the server does not notice.
MkdirFails(l) ==
  \E q \in Prefixes(l) :
    IsFile(q) \/ (~ IsDir(q) /\ Parent(q) \in ReadOnly)
RmFails(l) == Parent(l) \in ReadOnly

\* PUT and POST repeat the body of the request.  The Location header of a POST
\* that has created a file brings a line end of its own and gets another, so
\* that an empty line comes first of what its reader takes for the body.
Repeats(r, g) ==
  g.rest = (IF r.op = "POST" /\ g.code = 201 THEN <<Blank>> ELSE <<>>)
             \o BodyPieces(TextBody(r.body))

\* What a response that reports success says of the tree.
Done(r, g) ==
  \/ /\ r.op = "GET"
     /\ \/ IsFile(r.at) /\ CanRead(r.at) /\ g.rest = BodyPieces(TextBody(files[r.at]))
        \/ IsDir(r.at) /\ g.rest = BodyPieces(ListBody(Children(r.at)))
  \/ /\ r.op = "PUT" /\ Repeats(r, g)
     /\ \/ IsFile(r.at) /\ files[r.at] = r.body
        \/ r.body = <<>> /\ (IsDir(r.at) \/ MkdirFails(r.at))
  \/ /\ r.op = "POST" /\ Repeats(r, g)
     /\ \E l \in DOMAIN files :
          /\ l = r.at \/ (Parent(l) = r.at /\ g.code = 201)
          /\ Len(files[l]) >= Len(r.body)
          /\ SubSeq(files[l], Len(files[l]) - Len(r.body) + 1, Len(files[l])) = r.body
          /\ g.code = 201 => files[l] = r.body
  \/ r.op = "DELETE" /\ g.rest = <<>> /\ (~ Exists(r.at) \/ RmFails(r.at))
  \/ /\ r.op = "SEARCH"
     /\ g.rest = IF Sealed(r.at) THEN <<>> ELSE BodyPieces(ListBody(Found(r.at, r.body)))

\* A client that has read 200 or 201 can rely on it: what it asked for is in
\* the tree, what it was given is complete, and what it is told back is what it
\* has sent, behind an empty line if it was a POST that has created a file; as
\* long as the server has not taken the next connection, and but for what fails
\* without the server looking at it: mkdir, rm, and a search among files that it
\* cannot all read, which finds nothing at all.
SuccessIsTrue ==
  \A c \in Client :
    (cpc[c] \in {"linger", "done"} /\ cur = c /\ got[c].code \in {200, 201})
      => Done(last[c], got[c])

\* What a client must look at when its request may arrive in pieces: a success
\* that repeats all that it has sent, or asked to read or to delete, is true.
\* A request cut short is carried out as far as it goes, and its response says
\* how far; only of a search the client cannot tell.
Echo(r, g) ==
  {g.rest[i].body : i \in {j \in 1 .. Len(g.rest) : g.rest[j].is = "body"}}
    = IF r.body = <<>> THEN {} ELSE {TextBody(r.body)}

EchoTells ==
  \A c \in Client :
    (/\ cpc[c] \in {"linger", "done"} /\ cur = c /\ got[c].code \in {200, 201}
     /\ \/ last[c].op \in {"GET", "DELETE"}
        \/ last[c].op \in {"PUT", "POST"} /\ Echo(last[c], got[c]))
      => Done(last[c], got[c])

\* POST to a directory overwrites a file only when the server has been started
\* again, and random_string, which nothing seeds, begins from the beginning: a
\* name with a capital in it is out of the reach of clients, which lower a url.
ClobberOnlyAfterRestart ==
  [][(/\ spc = "recv" /\ spc' = "write"
      /\ Job.op = "POST" /\ todo'.at # Job.at
      /\ todo'.at \in DOMAIN files)
       => starts > 0]_vars

\* A POST that cannot create its file is refused: the comment and the
\* response_405 behind the failing fopen() (main.c:249-253) say so.
PostIsRefused ==
  [][(spc = "recv" /\ spc' = "crashed" /\ Job.op = "POST") => Exists(Job.at)]_vars

\* A connection that the server has forgotten is that of a client that has never
\* sent anything, however late the server looked: its user typed no request, and
\* it still waits for the server, or it was killed before that.
LeakedHaveSentNothing ==
  \A c \in leaked :
    /\ last[c] = NoReq
    /\ cpc[c] \in {"linger", "dead"}
    /\ got[c] = Nothing
    /\ ~ conn[c].downEof

----------------------------------------------------------------------------
(* Liveness, under Fairness.                                               *)

\* A request that the server has before it is answered, or the client ends.
Answered ==
  \A c \in Client : (cpc[c] = "wait" /\ cur = c) ~> (cpc[c] # "wait")

\* Connections are taken up but for a user who has not typed yet, and for a
\* server that has no descriptor left.
BacklogMoves ==
  (backlog # <<>>)
    ~> \/ backlog = <<>>
       \/ spc = "recv" /\ cpc[cur] = "prompt"
       \/ Cardinality(leaked) >= FdLimit

\* A client that has ended its side gets to the next round, unless the server
\* has forgotten it, or has not come to it yet.
LingerEnds ==
  \A c \in Client :
    (cpc[c] = "linger") ~>
      \/ cpc[c] # "linger"
      \/ c \in leaked
      \/ \E i \in 1 .. Len(backlog) : backlog[i] = c
============================================================================
