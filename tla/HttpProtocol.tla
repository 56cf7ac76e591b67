---------------------------- MODULE HttpProtocol ----------------------------
(***************************************************************************)
(* What httpserver and httpclient share: requests, responses piece by      *)
(* piece, and one connection per request.                                  *)
(*                                                                         *)
(* httpclient's main loop keeps nothing from one round to the next, so a   *)
(* member of Client is one round: connect, ask the user, send, read.       *)
(***************************************************************************)
EXTENDS Sockets

CONSTANTS
  Client,    \* the rounds of the httpclient processes
  NoClient,  \* no connection is being served
  Name,      \* path components
  Lower,     \* str_tolower() on them
  Word,      \* what bodies and files are made of
  CR,        \* the first half of the line end behind a body, as a word
  Request,   \* what a user may type (the bounds choose a sample)
  Cuts       \* a request may arrive in two segments

ASSUME ClientAssumption == NoClient \notin Client
ASSUME LowerAssumption == Lower \in [Name -> Name]
ASSUME CutAssumption == CR \in Word /\ Cuts \in BOOLEAN

Loc == Seq(Name)    \* a url, as a place below the server's directory
Text == Seq(Word)

\* POST with the form content type is two operations: SEARCH when its body
\* begins with "q=" (the word searched for is then body[1]), FORM otherwise.
Methods == {"GET", "POST", "SEARCH", "FORM", "PUT", "DELETE"}
Req == [op : Methods, at : Loc, body : Text]
NoReq == [op |-> "GET", at |-> <<>>, body |-> <<>>]

ASSUME RequestAssumption ==
  /\ Request \subseteq Req
  /\ \A r \in Request : r.op = "SEARCH" => r.body # <<>>

\* A segment is what one recv() finds: a request, or the end of one.  A request
\* cut in its header cannot be parsed; one cut behind it is a request for less,
\* as HttpText shows.  Coming stands for a segment that is still on its way.
Mark(what) == [NoReq EXCEPT !.op = what]
Torn == Mark("torn")
Ending == Mark("ending")
Coming == Mark("coming")
Segment == Req \cup {Torn, Ending, Coming}

CutBodies(r) == {SubSeq(r.body \o <<CR>>, 1, k) : k \in 0 .. (Len(r.body) + 1)}
Heads(r) ==
  CASE r.op \in {"GET", "DELETE"} -> {}
    [] r.op = "SEARCH" -> {[r EXCEPT !.body = b] : b \in CutBodies(r)}
                            \cup {[r EXCEPT !.op = "FORM", !.body = <<>>]}
    [] OTHER -> {[r EXCEPT !.body = b] : b \in CutBodies(r)}

Arrivals(r) ==
  {<<r>>} \cup {<<h, Coming>> : h \in IF Cuts THEN Heads(r) \cup {Torn} ELSE {}}

\* A body is a text or, for a directory, a list of names.
Body == [text : Text, names : SUBSET Name, list : BOOLEAN]
TextBody(t) == [text |-> t, names |-> {}, list |-> FALSE]
ListBody(ns) == [text |-> <<>>, names |-> ns, list |-> TRUE]
NoBody == TextBody(<<>>)

\* The lines of a response that the client's read_response tells apart.
Piece == [is : {"status", "header", "blank", "body"}, code : Nat, body : Body]
Status(code) == [is |-> "status", code |-> code, body |-> NoBody]
Header == [is |-> "header", code |-> 0, body |-> NoBody]
Blank == [is |-> "blank", code |-> 0, body |-> NoBody]
BodyPiece(b) == [is |-> "body", code |-> 0, body |-> b]

\* The extra header of a 201 carries a line end of its own, and gets another:
\* to the reader the header section ends there.
Response(code, located, b) ==
  <<Status(code), Header, Header>>
    \o (IF located THEN <<Header, Blank, Blank>> ELSE <<Blank>>)
    \o (IF b = NoBody THEN <<>> ELSE <<BodyPiece(b)>>)

VARIABLES
  conn,    \* conn[c]: the connection of round c
  backlog, \* connections not yet accepted
  up       \* a server is running

netVars == <<conn, backlog, up>>

NetTypeOK ==
  /\ conn \in [Client -> Duplex(Segment, Piece)]
  /\ backlog \in Seq(Client)
  /\ up \in BOOLEAN

NetInit ==
  /\ conn = [c \in Client |-> Fresh]
  /\ backlog = <<>>
  /\ up = TRUE
============================================================================
