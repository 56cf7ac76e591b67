------------------------------ MODULE HttpText ------------------------------
(***************************************************************************)
(* A request as text: what httpclient writes (build_request_...), what one *)
(* recv() of httpserver finds of it, and what the server makes of that     *)
(* (parsing_http_request, find_header_value, the path of the resource).    *)
(*                                                                         *)
(* HttpServer takes requests for records.  Here is why it may, and what    *)
(* becomes of a request whose end has not arrived: TCP promises nothing    *)
(* about the pieces that a stream comes in.                                *)
(*                                                                         *)
(* A text is a sequence of words and of the characters that delimiters are *)
(* made of.  A word that is cut is one that is missing.                    *)
(***************************************************************************)
EXTENDS Naturals, Sequences, SequencesExt

CONSTANTS
  Asked,    \* requests: [op, body], with op one of GET POST SEARCH PUT DELETE
  Lengths,  \* of the url, in bytes
  UrlSize,  \* httpclient's url[]
  GetSize,  \* path[] of process_request_get
  PathSize, \* path[] of the other three
  NameSize  \* the name that POST to a directory adds, with its slash

ASSUME TextAssumption ==
  /\ Lengths \subseteq 1 .. (UrlSize - 1)
  /\ {UrlSize, GetSize, PathSize, NameSize} \subseteq Nat
  /\ \A r \in Asked : r.op \in {"GET", "POST", "SEARCH", "PUT", "DELETE"}
  /\ \A r \in Asked : r.body \in Seq(STRING)

\* url[32] and path[32]; path[64], with room for ".", a name of 9 and the zero.
ASSUME SizeAssumption ==
  /\ GetSize >= UrlSize
  /\ PathSize >= UrlSize + 1 + NameSize

Space == <<"SP">>
CrLf == <<"CR", "LF">>
Blank == CrLf \o CrLf
Colon == <<":", "SP">>

Header(key, value) == <<key>> \o Colon \o <<value>> \o CrLf

\* build_request_get and _delete, _post and _put, _post_searching.
Method(r) == IF r.op = "SEARCH" THEN "POST" ELSE r.op
HasBody(r) == r.op \in {"POST", "SEARCH", "PUT"}
HeaderText(r) ==
  <<Method(r)>> \o Space \o <<"/url">> \o Space \o <<"HTTP/1.1">> \o CrLf
    \o Header("Host", "ip")
    \o (IF r.op = "SEARCH" THEN Header("Content-Type", "form") ELSE <<>>)
    \o (IF HasBody(r) THEN Header("Content-Length", "n") ELSE <<>>)
    \o CrLf
Text(r) == HeaderText(r) \o (IF HasBody(r) THEN r.body \o CrLf ELSE <<>>)

VARIABLES
  asked,    \* what the user asked
  length,   \* of the url
  message,  \* what recv() has found of it
  tpc,      \* the field to be parsed next, or the end
  last,     \* the rest to be parsed: a pointer, and NULL after the last one
  request,  \* the fields parsed
  headers   \* the header lines

vars == <<asked, length, message, tpc, last, request, headers>>

Fields == <<"method", "url", "version", "header", "body">>
\* Mistake: the headers end with their first line.
Delimiter_line ==
  [method |-> Space, url |-> Space, version |-> CrLf, header |-> CrLf, body |-> CrLf]

Delimiter ==
  [method |-> Space, url |-> Space, version |-> CrLf, header |-> Blank, body |-> CrLf]

Rest(s) == [null |-> FALSE, text |-> s]
NULL == [null |-> TRUE, text |-> <<>>]

Init ==
  /\ asked \in Asked
  /\ length \in Lengths
  \* Nothing of it is what recv() returns for an error: -1 is true, as 1 is.
  /\ \E k \in 0 .. Len(Text(asked)) : message = SubSeq(Text(asked), 1, k)
  /\ tpc = "method"
  /\ last = Rest(message)
  /\ request = [f \in Range(Fields) |-> <<>>]
  /\ headers = <<>>

----------------------------------------------------------------------------
\* strstr
Occurs(s, d, i) == i + Len(d) - 1 <= Len(s) /\ SubSeq(s, i, i + Len(d) - 1) = d
Found(s, d) == {i \in 1 .. Len(s) : Occurs(s, d, i)}
First(s, d) == CHOOSE i \in Found(s, d) : \A j \in Found(s, d) : i <= j

\* Mistake: the delimiter is left in front of what follows.
After_delim(s, d) == Rest(SubSeq(s, First(s, d), Len(s)))

\* tokenizing_multi_character_delim: what is before the delimiter, or all.
After(s, d) == Rest(SubSeq(s, First(s, d) + Len(d), Len(s)))
Before(s, d) == IF Found(s, d) = {} THEN s ELSE SubSeq(s, 1, First(s, d) - 1)
Following(s, d) == IF Found(s, d) = {} THEN NULL ELSE After(s, d)

\* parsing_http_request, one field after the other; strstr(NULL) crashes.
Parse(f, next) ==
  /\ tpc = f
  /\ ~ last.null
  /\ request' = [request EXCEPT ![f] = Before(last.text, Delimiter[f])]
  /\ last' = IF next = "split" THEN Rest(request.header)
             ELSE Following(last.text, Delimiter[f])
  /\ tpc' = next
  /\ UNCHANGED <<asked, length, message, headers>>

ParseFields ==
  \E i \in 1 .. Len(Fields) :
    Parse(Fields[i], IF i < Len(Fields) THEN Fields[i + 1] ELSE "split")

ParseNull ==
  /\ tpc \in Range(Fields)
  /\ last.null
  /\ tpc' = "crashed"
  /\ UNCHANGED <<asked, length, message, last, request, headers>>

Split ==
  /\ tpc = "split"
  /\ headers' = Append(headers, Before(last.text, CrLf))
  /\ last' = Following(last.text, CrLf)
  /\ tpc' = IF last'.null THEN "parsed" ELSE "split"
  /\ UNCHANGED <<asked, length, message, request>>

\* find_header_value
Value(key) ==
  LET is == {i \in 1 .. Len(headers) : Before(headers[i], Colon) = <<key>>}
  IN  IF is = {} THEN <<>>
      ELSE LET i == CHOOSE j \in is : \A k \in is : j <= k
           IN  Following(headers[i], Colon).text

\* process_request and the beginning of process_request_post.
Form == request.method = <<"POST">> /\ Value("Content-Type") = <<"form">>
Meaning ==
  IF Form THEN IF IsPrefix(<<"q=">>, request.body) THEN "SEARCH" ELSE "FORM"
  ELSE IF request.method = <<>> THEN "" ELSE request.method[1]

\* sprintf into path[], with "." before it and a zero behind, and in a POST
\* perhaps once more with a name added.
Needs == length + 2 + (IF Meaning = "POST" THEN NameSize ELSE 0)

\* Mistake: path[] as in process_request_get everywhere.
Room_short == GetSize

Room == IF Meaning = "GET" THEN GetSize ELSE PathSize

MakePath ==
  /\ tpc = "parsed"
  /\ tpc' = IF Needs <= Room THEN "ready" ELSE "over"
  /\ UNCHANGED <<asked, length, message, last, request, headers>>

Next == ParseFields \/ ParseNull \/ Split \/ MakePath

Spec == Init /\ [][Next]_vars

TypeOK ==
  /\ tpc \in Range(Fields) \cup {"split", "parsed", "crashed", "ready", "over"}
  /\ last.null \in BOOLEAN
  /\ DOMAIN request = Range(Fields)
  /\ Len(headers) <= 3

----------------------------------------------------------------------------
\* What reaches the handler of a whole body: all before its first line end.
Bodied(b) == Before(b \o CrLf, CrLf)

\* The operation that a user means, given the body that has arrived.
Intended(r, b) ==
  IF r.op # "SEARCH" THEN r.op
  ELSE IF IsPrefix(<<"q=">>, b) THEN "SEARCH" ELSE "FORM"

\* A request that has arrived is understood: its method, its url, its content
\* type and its body up to a line end of its own.
WholeIsUnderstood ==
  (tpc \in {"ready", "over"} /\ message = Text(asked)) =>
    /\ Meaning = Intended(asked, asked.body)
    /\ request.url = <<"/url">>
    /\ HasBody(asked) => request.body = Bodied(asked.body)

\* A request cut in its header ends the server: strstr(NULL).  One cut behind it
\* is taken for a request to the same resource with less of a body, and perhaps
\* the first half of the line end that was to follow it.
CutIsLessOrCrash ==
  LET header == Len(HeaderText(asked))
  IN  /\ tpc = "crashed" => Len(message) < header
      /\ tpc \in {"ready", "over"} =>
           /\ Len(message) >= header
           /\ request.url = <<"/url">>
           /\ Meaning = Intended(asked, request.body)
           /\ HasBody(asked) => IsPrefix(request.body, Bodied(asked.body) \o <<"CR">>)

\* The paths fit their buffers, but for GET of the longest url that a user can
\* type: path[] of process_request_get has no room for the dot before it.
OverrunOnlyByDot ==
  tpc = "over" => Meaning = "GET" /\ length = UrlSize - 1
============================================================================
