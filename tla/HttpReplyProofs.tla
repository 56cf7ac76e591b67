-------------------------- MODULE HttpReplyProofs --------------------------
(***************************************************************************)
(* A client of httpserver that has read a success can rely on it.          *)
(*                                                                         *)
(* What the server handles is the request of the client it serves, or the  *)
(* part of it that has arrived; what it has sent and what it has still to  *)
(* send are one response to that; and from the moment the file has its     *)
(* content until the next connection is taken, a response that reports     *)
(* success is true of the tree.                                            *)
(***************************************************************************)
EXTENDS HttpSystemProofs

Created == 201
Codes == {200, Created, 400, 404, 405}

\* What may arrive of the request of c as a request.
Versions(c) == {last[c]} \cup (IF Cuts THEN Heads(last[c]) ELSE {})

\* What is on its way from c is what it has asked, or a part of that.
AskingInv(c) ==
  /\ cpc[c] \in {"off", "prompt"} => conn[c].up = <<>>
  /\ \A i \in 1 .. Len(conn[c].up) :
       conn[c].up[i] \in Versions(c) \cup {Torn, Ending, Coming}

\* What the reader of Response(code, located, b) finds behind its header.
Rest(located, b) == (IF located THEN <<Blank>> ELSE <<>>) \o BodyPieces(b)
Reading(code, located, b) == [code |-> code, rest |-> Rest(located, b)]

\* What is to be written is what the request q asks to write.
Writes(q, code, located, b) ==
  /\ b = TextBody(q.body)
  /\ located <=> (q.op = "POST" /\ code = Created)
  /\ \/ q.op = "PUT" /\ todo = [at |-> q.at, text |-> q.body]
     \/ /\ q.op = "POST"
        /\ \E keep \in Text : /\ todo.text = keep \o q.body
                              /\ code = Created => keep = <<>>
        /\ todo.at = q.at \/ (Parent(todo.at) = q.at /\ code = Created)

\* A success is true of the tree, and repeats what has been written.
Holds(q, code, located, b) ==
  code \in {200, 201} =>
    /\ Done(q, Reading(code, located, b))
    /\ q.op \in {"PUT", "POST"} => b = TextBody(q.body)

\* The response to the version q of what the client c has asked: sent in part,
\* or read; until the file is written it is not true yet.
Replies(c, q, code, located, b) ==
  /\ \/ conn[c].down \o out = Response(code, located, b) /\ got[c] = Nothing
     \/ spc = "linger" /\ got[c] = Reading(code, located, b)
  /\ IF spc = "write" THEN Writes(q, code, located, b) ELSE Holds(q, code, located, b)

ServingInv(c) ==
  /\ Queued(c) \/ (cur = c /\ spc = "recv") => conn[c].down = <<>>
  /\ cur = c /\ spc = "linger" => out = <<>>
  /\ cur = c /\ spc \in {"write", "respond", "refuse", "linger"} =>
       /\ cpc[c] \notin {"off", "prompt"}
       /\ \E q \in Versions(c), code \in Codes, located \in BOOLEAN, b \in Body :
            Replies(c, q, code, located, b)

ReplyInv ==
  /\ <<>> \in dirs
  /\ \A c \in Client : AskingInv(c) /\ ServingInv(c)

\* What is to be sent answers q.
Starts(q) ==
  \E code \in Codes, located \in BOOLEAN, b \in Body :
    /\ out = Response(code, located, b)
    /\ IF spc = "write" THEN Writes(q, code, located, b) ELSE Holds(q, code, located, b)

----------------------------------------------------------------------------
(* Sequences, and responses as the client reads them.                      *)

LEMMA SuffixOfConcat ==
  ASSUME NEW S, NEW s \in Seq(S), NEW t \in Seq(S)
  PROVE  SubSeq(s \o t, Len(s) + 1, Len(s \o t)) = t
<1> DEFINE u == s \o t
<1>1. /\ Len(s) \in Nat /\ Len(t) \in Nat /\ Len(u) = Len(s) + Len(t)
      /\ u \in Seq(S)
      /\ \A i \in 1 .. Len(t) : u[Len(s) + i] = t[i]
  <2>1. Len(s) \in Nat /\ Len(t) \in Nat
    BY LenProperties
  <2>2. \A i \in 1 .. Len(t) : /\ Len(s) + i \in 1 .. Len(s) + Len(t)
                               /\ ~ (Len(s) + i <= Len(s))
                               /\ (Len(s) + i) - Len(s) = i
    BY <2>1
  <2> QED
    BY <2>1, <2>2, ConcatProperties
<1> HIDE DEF u
<1>2. \A i \in Len(s) + 1 .. Len(u) : u[i] \in S
  <2>1. \A i \in Len(s) + 1 .. Len(u) : i \in 1 .. Len(u)
    BY <1>1
  <2> QED
    BY <1>1, <2>1, ElementOfSeq
<1>3. /\ SubSeq(u, Len(s) + 1, Len(u)) \in Seq(S)
      /\ Len(SubSeq(u, Len(s) + 1, Len(u))) = Len(t)
      /\ \A i \in 1 .. Len(t) : SubSeq(u, Len(s) + 1, Len(u))[i] = t[i]
  <2>1. Len(s) + 1 \in Int /\ Len(u) \in Int /\ Len(u) - (Len(s) + 1) + 1 = Len(t)
        /\ (Len(s) + 1 <= Len(u) \/ Len(t) = 0)
        /\ \A i \in 1 .. Len(t) : (Len(s) + 1) + i - 1 = Len(s) + i
    BY <1>1
  <2>2. /\ SubSeq(u, Len(s) + 1, Len(u)) \in Seq(S)
        /\ Len(SubSeq(u, Len(s) + 1, Len(u)))
             = IF Len(s) + 1 <= Len(u) THEN Len(u) - (Len(s) + 1) + 1 ELSE 0
        /\ \A i \in 1 .. Len(u) - (Len(s) + 1) + 1 :
             SubSeq(u, Len(s) + 1, Len(u))[i] = u[(Len(s) + 1) + i - 1]
    BY <1>2, <2>1, SubSeqProperties
  <2>3. Len(SubSeq(u, Len(s) + 1, Len(u))) = Len(t)
    BY <1>1, <2>1, <2>2
  <2> QED
    BY <1>1, <2>1, <2>2, <2>3
<1> QED
  BY <1>3, SeqEqual DEF u

LEMMA OneThenTail ==
  ASSUME NEW S, NEW t \in Seq(S), t # <<>>,
         NEW h \in Seq(S), Len(h) = 1, h[1] = Head(t), NEW w, w = Tail(t)
  PROVE  h \o w = t
<1> w \in Seq(S)
  BY HeadTailProperties
<1>1. /\ w \in Seq(S) /\ Len(w) = Len(t) - 1 /\ Len(t) \in Nat /\ Len(t) # 0
      /\ \A i \in 1 .. Len(w) : w[i] = t[i + 1]
      /\ h[1] = t[1]
  BY HeadTailProperties, LenProperties, EmptySeq
<1>2. /\ h \o w \in Seq(S) /\ Len(h \o w) = Len(h) + Len(w)
      /\ \A i \in 1 .. Len(h) + Len(w) :
           (h \o w)[i] = IF i <= Len(h) THEN h[i] ELSE w[i - Len(h)]
  <2>1. \A v, x \in Seq(S) :
          /\ v \o x \in Seq(S) /\ Len(v \o x) = Len(v) + Len(x)
          /\ \A i \in 1 .. Len(v) + Len(x) :
               (v \o x)[i] = IF i <= Len(v) THEN v[i] ELSE x[i - Len(v)]
    BY ConcatProperties
  <2> QED
    BY <2>1
<1>3. ASSUME NEW i \in 1 .. Len(t)
      PROVE  (h \o w)[i] = t[i]
  <2>1. i \in 1 .. Len(h) + Len(w) /\ (i <= Len(h) => i = 1)
        /\ (~ (i <= Len(h)) => i - Len(h) \in 1 .. Len(w) /\ (i - Len(h)) + 1 = i)
    BY <1>1
  <2> QED
    BY <1>1, <1>2, <2>1
<1>4. Len(h \o w) = Len(t)
  BY <1>1, <1>2
<1> QED
  BY <1>2, <1>3, <1>4, SeqEqual

LEMMA HeadThenTail ==
  ASSUME NEW S, NEW s \in Seq(S), NEW t \in Seq(S), t # <<>>
  PROVE  Append(s, Head(t)) \o Tail(t) = s \o t
<1>1. Head(t) \in S /\ Tail(t) \in Seq(S)
  BY HeadTailProperties
<1>2. <<Head(t)>> \in Seq(S) /\ Len(<<Head(t)>>) = 1 /\ <<Head(t)>>[1] = Head(t)
  BY <1>1
<1>3. <<Head(t)>> \o Tail(t) = t
  BY <1>1, <1>2, OneThenTail
<1>4. Append(s, Head(t)) = s \o <<Head(t)>>
  BY <1>1, AppendIsConcat
<1> QED
  BY <1>1, <1>2, <1>3, <1>4, ConcatAssociative

LEMMA PieceTypes ==
  /\ \A code \in Nat : Status(code) \in Piece
  /\ Header \in Piece /\ Blank \in Piece
  /\ \A b \in Body : BodyPiece(b) \in Piece /\ BodyPieces(b) \in Seq(Piece)
<1>1. /\ \A code \in Nat : Status(code) \in Piece
      /\ Header \in Piece /\ Blank \in Piece
      /\ \A b \in Body : BodyPiece(b) \in Piece
  BY BodyTypes DEF Piece, Status, Header, Blank, BodyPiece
<1>2. \A x \in Piece : <<x>> \in Seq(Piece)
  OBVIOUS
<1>3. <<>> \in Seq(Piece)
  OBVIOUS
<1> QED
  BY <1>1, <1>2, <1>3 DEF BodyPieces

LEMMA RestType ==
  ASSUME NEW located \in BOOLEAN, NEW b \in Body
  PROVE  Rest(located, b) \in Seq(Piece)
<1>1. <<>> \in Seq(Piece) /\ <<Blank>> \in Seq(Piece)
  BY PieceTypes
<1> QED
  BY <1>1, PieceTypes, ConcatProperties DEF Rest

LEMMA PlainRest == \A b \in Body : Rest(FALSE, b) = BodyPieces(b)
  BY PieceTypes, ConcatEmptySeq DEF Rest

\* The header section ends with the first blank line, and the rest is behind it.
LEMMA ResponseIsRead ==
  ASSUME NEW code \in Codes, NEW located \in BOOLEAN, NEW b \in Body,
         NEW s, s = Response(code, located, b)
  PROVE  /\ Headed(s)
         /\ s[1].code = code
         /\ \A i \in 1 .. Len(s) :
              s[i].is = "blank" /\ (\A j \in 1 .. (i - 1) : s[j].is # "blank")
                => SubSeq(s, i + 1, Len(s)) = Rest(located, b)
<1> DEFINE top == <<Status(code), Header, Header>>
           p == IF located THEN top \o <<Header, Blank>> ELSE top \o <<Blank>>
           r == Rest(located, b)
<1>1. /\ Status(code) \in Piece /\ Header \in Piece /\ Blank \in Piece
      /\ BodyPieces(b) \in Seq(Piece) /\ r \in Seq(Piece)
  BY PieceTypes, RestType DEF Codes, Created
<1>2. top \in Seq(Piece) /\ <<Header, Blank>> \in Seq(Piece) /\ <<Blank>> \in Seq(Piece)
  BY <1>1
<1>3. s = p \o r
  <2>1. BodyPieces(b) = IF b = NoBody THEN <<>> ELSE <<BodyPiece(b)>>
    BY DEF BodyPieces
  <2>2. CASE located = TRUE
    <3>1. <<Header, Blank, Blank>> = <<Header, Blank>> \o <<Blank>>
      OBVIOUS
    <3>2. s = (top \o (<<Header, Blank>> \o <<Blank>>)) \o BodyPieces(b)
      BY <2>1, <2>2, <3>1 DEF Response
    <3>3. top \o (<<Header, Blank>> \o <<Blank>>) = (top \o <<Header, Blank>>) \o <<Blank>>
      BY <1>2, ConcatAssociative
    <3>4. r = <<Blank>> \o BodyPieces(b)
      BY <2>2 DEF Rest
    <3>5. top \o <<Header, Blank>> \in Seq(Piece)
      BY <1>2, ConcatProperties
    <3>6. ((top \o <<Header, Blank>>) \o <<Blank>>) \o BodyPieces(b)
            = (top \o <<Header, Blank>>) \o (<<Blank>> \o BodyPieces(b))
      BY <1>1, <1>2, <3>5, ConcatAssociative
    <3> QED
      BY <2>2, <3>2, <3>3, <3>4, <3>6
  <2>3. CASE located = FALSE
    <3>1. s = (top \o <<Blank>>) \o BodyPieces(b)
      BY <2>1, <2>3 DEF Response
    <3>2. r = BodyPieces(b)
      BY <2>3, PlainRest
    <3> QED
      BY <2>3, <3>1, <3>2
  <2> QED
    BY <2>2, <2>3
<1>4. /\ Status(code).is = "status" /\ Status(code).code = code
      /\ Header.is = "header" /\ Blank.is = "blank"
  BY DEF Status, Header, Blank
<1>5. /\ p \in Seq(Piece) /\ Len(p) \in Nat /\ Len(p) >= 1
      /\ p[1].code = code /\ p[Len(p)].is = "blank"
      /\ \A j \in 1 .. Len(p) : j # Len(p) => p[j].is # "blank"
  <2>1. Len(top) = 3 /\ top[1] = Status(code) /\ top[2] = Header /\ top[3] = Header
    OBVIOUS
  <2>2. ASSUME NEW q \in Seq(Piece), p = top \o q, NEW n \in 1 .. 2, Len(q) = n,
               q[n].is = "blank", n = 2 => q[1] = Header
        PROVE  /\ p \in Seq(Piece) /\ Len(p) \in Nat /\ Len(p) >= 1
               /\ p[1].code = code /\ p[Len(p)].is = "blank"
               /\ \A j \in 1 .. Len(p) : j # Len(p) => p[j].is # "blank"
    <3> HIDE DEF p, top
    <3>1. /\ p \in Seq(Piece) /\ Len(p) = 3 + n
          /\ \A j \in 1 .. 3 + n : p[j] = IF j <= 3 THEN top[j] ELSE q[j - 3]
      <4>1. /\ top \o q \in Seq(Piece) /\ Len(top \o q) = Len(top) + Len(q)
            /\ \A j \in 1 .. Len(top) + Len(q) :
                 (top \o q)[j] = IF j <= Len(top) THEN top[j] ELSE q[j - Len(top)]
        BY <1>2, ConcatProperties
      <4> QED
        BY <2>1, <2>2, <4>1
    <3>2. p[1] = top[1] /\ p[2] = top[2] /\ p[3] = top[3] /\ p[3 + n] = q[n]
          /\ (n = 2 => p[4] = q[1])
      <4>1. 1 \in 1 .. 3 + n /\ 2 \in 1 .. 3 + n /\ 3 \in 1 .. 3 + n /\ 3 + n \in 1 .. 3 + n
            /\ ~ (3 + n <= 3) /\ 3 + n - 3 = n /\ (n = 2 => 4 \in 1 .. 3 + n)
            /\ ~ (4 <= 3) /\ 4 - 3 = 1 /\ 1 <= 3 /\ 2 <= 3 /\ 3 <= 3
        OBVIOUS
      <4> QED
        BY <3>1, <4>1
    <3>3. \A j \in 1 .. 3 + n : j # 3 + n => j = 1 \/ j = 2 \/ j = 3 \/ (j = 4 /\ n = 2)
      OBVIOUS
    <3>4. Len(p) \in Nat /\ Len(p) >= 1
      BY <3>1
    <3>5. p[1].code = code
      BY <1>4, <2>1, <3>2
    <3>6. p[Len(p)].is = "blank"
      BY <2>2, <3>1, <3>2
    <3>7. \A j \in 1 .. Len(p) : j # Len(p) => p[j].is # "blank"
      BY <1>4, <2>1, <2>2, <3>1, <3>2, <3>3
    <3> QED
      BY <3>1, <3>4, <3>5, <3>6, <3>7
  <2>3. /\ Len(<<Header, Blank>>) = 2 /\ <<Header, Blank>>[1] = Header
        /\ <<Header, Blank>>[2] = Blank
        /\ Len(<<Blank>>) = 1 /\ <<Blank>>[1] = Blank
    OBVIOUS
  <2>4. CASE located = TRUE
    <3>1. p = top \o <<Header, Blank>> /\ 2 \in 1 .. 2
      BY <2>4
    <3> HIDE DEF p, top
    <3> QED
      BY <1>2, <1>4, <2>2, <2>3, <3>1
  <2>5. CASE located = FALSE
    <3>1. p = top \o <<Blank>> /\ 1 \in 1 .. 2 /\ 1 # 2
      BY <2>5
    <3> HIDE DEF p, top
    <3> QED
      BY <1>2, <1>4, <2>2, <2>3, <3>1
  <2> QED
    BY <2>4, <2>5
<1> HIDE DEF p, r, top
<1>6. /\ s \in Seq(Piece) /\ Len(s) = Len(p) + Len(r) /\ Len(r) \in Nat
      /\ \A j \in 1 .. Len(p) : s[j] = p[j]
  <2>1. Len(r) \in Nat /\ \A j \in 1 .. Len(p) : j \in 1 .. Len(p) + Len(r) /\ j <= Len(p)
    BY <1>1, <1>5, LenProperties
  <2> QED
    BY <1>1, <1>3, <1>5, <2>1, ConcatProperties
<1>7. SubSeq(s, Len(p) + 1, Len(s)) = r
  BY <1>1, <1>3, <1>5, SuffixOfConcat
<1>8. /\ 1 \in 1 .. Len(p) /\ Len(p) \in 1 .. Len(p) /\ Len(p) \in 1 .. Len(s)
      /\ s # <<>>
  BY <1>5, <1>6, EmptySeq
<1>9. Headed(s) /\ s[1].code = code
  BY <1>5, <1>6, <1>8 DEF Headed
<1>10. ASSUME NEW i \in 1 .. Len(s), s[i].is = "blank",
              \A j \in 1 .. (i - 1) : s[j].is # "blank"
       PROVE  i = Len(p)
  <2>1. CASE i < Len(p)
    <3>1. i \in 1 .. Len(p) /\ i # Len(p)
      BY <1>5, <1>6, <2>1
    <3> QED
      BY <1>5, <1>6, <1>10, <3>1
  <2>2. CASE i > Len(p)
    <3>1. Len(p) \in 1 .. (i - 1)
      BY <1>5, <1>6, <2>2
    <3> QED
      BY <1>5, <1>6, <1>8, <1>10, <3>1
  <2> QED
    BY <1>5, <1>6, <2>1, <2>2
<1> QED
  BY <1>7, <1>9, <1>10 DEF r

----------------------------------------------------------------------------
(* Each handler makes a response that will be true.                        *)

LEMMA Prefixed ==
  ASSUME NEW l \in Loc
  PROVE  /\ \A q \in Prefixes(l) : q \in Loc /\ q \in Prefixes(q)
         /\ l # <<>> => l \in Prefixes(l)
<1>1. l \in Seq(Name) /\ Len(l) \in Nat
  BY LenProperties DEF Loc
<1>2. ASSUME NEW q \in Prefixes(l)
      PROVE  q \in Loc /\ q \in Prefixes(q)
  <2>1. PICK k \in 1 .. Len(l) : q = SubSeq(l, 1, k)
    BY DEF Prefixes
  <2>2. \A i \in 1 .. k : i \in 1 .. Len(l) /\ l[i] \in Name
    BY <1>1, ElementOfSeq
  <2>3. q \in Seq(Name) /\ Len(q) = k
    BY <1>1, <2>1, <2>2, SubSeqProperties
  <2>4. SubSeq(q, 1, k) = q /\ k \in 1 .. Len(q)
    BY <2>3, SubSeqFull
  <2> QED
    BY <2>3, <2>4 DEF Loc, Prefixes
<1>3. l # <<>> => l \in Prefixes(l)
  <2> SUFFICES ASSUME l # <<>> PROVE l \in Prefixes(l)
    OBVIOUS
  <2>1. Len(l) \in 1 .. Len(l) /\ SubSeq(l, 1, Len(l)) = l
    BY <1>1, EmptySeq, SubSeqFull
  <2> QED
    BY <2>1 DEF Prefixes
<1> QED
  BY <1>2, <1>3

LEMMA ParentOfAppend ==
  ASSUME NEW l \in Loc, NEW n \in Name
  PROVE  Parent(Append(l, n)) = l
<1>1. /\ l \in Seq(Name) /\ Len(l) \in Nat
      /\ Append(l, n) = l \o <<n>> /\ Len(Append(l, n)) = Len(l) + 1
      /\ \A i \in 1 .. Len(l) : Append(l, n)[i] = l[i] /\ l[i] \in Name
  BY AppendProperties, AppendIsConcat, LenProperties, ElementOfSeq DEF Loc
<1>2. Parent(Append(l, n)) = SubSeq(Append(l, n), 1, Len(l))
  BY <1>1 DEF Parent
<1> DEFINE p == SubSeq(Append(l, n), 1, Len(l))
<1>3. /\ p \in Seq(Name) /\ Len(p) = Len(l)
      /\ \A i \in 1 .. Len(l) : p[i] = l[i]
  <2>1. \A i \in 1 .. Len(l) : Append(l, n)[i] \in Name /\ 1 + i - 1 = i
    BY <1>1
  <2>2. (1 <= Len(l) \/ Len(l) = 0) /\ Len(l) - 1 + 1 = Len(l) /\ Len(l) \in Int /\ 1 \in Int
    BY <1>1
  <2>3. /\ p \in Seq(Name)
        /\ Len(p) = IF 1 <= Len(l) THEN Len(l) - 1 + 1 ELSE 0
        /\ \A i \in 1 .. Len(l) - 1 + 1 : p[i] = Append(l, n)[1 + i - 1]
    BY <2>1, <2>2, SubSeqProperties
  <2> HIDE DEF p
  <2>4. Len(p) = Len(l)
    BY <2>2, <2>3
  <2> QED
    BY <1>1, <2>1, <2>2, <2>3, <2>4
<1> QED
  BY <1>1, <1>2, <1>3, SeqEqual

LEMMA Refuses ==
  ASSUME NEW q \in Req, NEW code \in {400, 404, 405}, out' = Response(code, FALSE, NoBody),
         spc' # "write"
  PROVE  Starts(q)'
<1>1. code \in Codes /\ FALSE \in BOOLEAN
  BY DEF Codes, Created
<1>2. PICK b \in Body : b = NoBody
  BY BodyTypes
<1>3. Holds(q, code, FALSE, b)'
  BY DEF Holds
<1>4. out' = Response(code, FALSE, b)
  BY <1>2
<1> QED
  BY <1>1, <1>3, <1>4 DEF Starts

LEMMA Tells ==
  ASSUME NEW q, NEW code \in {200, 201}, NEW b \in Body,
         out' = Response(code, FALSE, b), spc' # "write",
         Done(q, [code |-> code, rest |-> BodyPieces(b)])',
         q.op \in {"PUT", "POST"} => b = TextBody(q.body)
  PROVE  Starts(q)'
<1>1. code \in Codes /\ FALSE \in BOOLEAN
  BY DEF Codes, Created
<1>2. Reading(code, FALSE, b) = [code |-> code, rest |-> BodyPieces(b)]
  BY PlainRest DEF Reading
<1>3. Holds(q, code, FALSE, b)'
  BY <1>2 DEF Holds
<1> QED
  BY <1>1, <1>3 DEF Starts

LEMMA GetStarts ==
  ASSUME TreeTypeOK, NEW q \in Req, q = Job, Get
  PROVE  Starts(q)'
<1>1. /\ q.op = "GET" /\ UNCHANGED <<dirs, files>> /\ spc' # "write"
      /\ out' = CASE IsDir(q.at) -> Response(200, FALSE, ListBody(Children(q.at)))
                  [] ~ IsDir(q.at) /\ IsFile(q.at) /\ CanRead(q.at) ->
                       Response(200, FALSE, TextBody(files[q.at]))
                  [] OTHER -> Response(404, FALSE, NoBody)
  BY DEF Get, Handling, Respond, treeVars
<1>2. ListBody(Children(q.at)) \in Body /\ NoBody \in Body
  BY BodyTypes, ChildrenType
<1>3. 200 \in {200, 201} /\ 404 \in {400, 404, 405}
  OBVIOUS
<1>4. CASE IsDir(q.at)
  <2> PICK b \in Body : b = ListBody(Children(q.at))
    BY <1>2
  <2>1. Done(q, [code |-> 200, rest |-> BodyPieces(b)])'
    <3>1. Children(q.at)' = Children(q.at) /\ IsDir(q.at)'
      BY <1>1, <1>4 DEF Children, IsDir
    <3>2. BodyPieces(b) = BodyPieces(ListBody(Children(q.at)'))
      BY <3>1
    <3> QED
      BY <1>1, <3>1, <3>2 DEF Done
  <2>2. out' = Response(200, FALSE, b)
    BY <1>1, <1>4
  <2>3. q.op \notin {"PUT", "POST"}
    BY <1>1
  <2> QED
    BY <1>1, <1>3, <2>1, <2>2, <2>3, Tells
<1>5. CASE ~ IsDir(q.at) /\ IsFile(q.at) /\ CanRead(q.at)
  <2> PICK b \in Body : b = TextBody(files[q.at])
    BY <1>5, BodyTypes DEF TreeTypeOK, IsFile
  <2>1. Done(q, [code |-> 200, rest |-> BodyPieces(b)])'
    <3>1. files'[q.at] = files[q.at] /\ IsFile(q.at)' /\ CanRead(q.at)'
      BY <1>1, <1>5 DEF IsFile, CanRead
    <3>2. BodyPieces(b) = BodyPieces(TextBody(files'[q.at]))
      BY <3>1
    <3> QED
      BY <1>1, <3>1, <3>2 DEF Done
  <2>2. out' = Response(200, FALSE, b) /\ q.op \notin {"PUT", "POST"}
    BY <1>1, <1>5
  <2> QED
    BY <1>1, <1>3, <2>1, <2>2, Tells
<1>6. CASE ~ IsDir(q.at) /\ ~ (IsFile(q.at) /\ CanRead(q.at))
  <2>1. out' = Response(404, FALSE, NoBody)
    BY <1>1, <1>6
  <2> QED
    BY <1>1, <1>2, <1>3, <2>1, Refuses
<1> QED
  BY <1>4, <1>5, <1>6

LEMMA SearchStarts ==
  ASSUME TreeTypeOK, NEW q \in Req, q = Job, Search
  PROVE  Starts(q)'
<1>1. /\ q.op = "SEARCH" /\ UNCHANGED <<dirs, files>> /\ spc' # "write"
      /\ out' = Response(200, FALSE,
                   IF Sealed(q.at) THEN NoBody ELSE ListBody(Found(q.at, q.body)))
  BY DEF Search, Handling, Respond, treeVars
<1>2. PICK b \in Body : b = IF Sealed(q.at) THEN NoBody ELSE ListBody(Found(q.at, q.body))
  BY BodyTypes, ChildrenType
<1>3. Found(q.at, q.body)' = Found(q.at, q.body) /\ Sealed(q.at)' = Sealed(q.at)
  BY <1>1 DEF Found, Sealed, Children, IsFile, CanRead
<1>4. BodyPieces(b) = IF Sealed(q.at)' THEN <<>>
                      ELSE BodyPieces(ListBody(Found(q.at, q.body)'))
  BY <1>2, <1>3 DEF BodyPieces
<1>5. Done(q, [code |-> 200, rest |-> BodyPieces(b)])'
  BY <1>1, <1>4 DEF Done
<1>6. 200 \in {200, 201} /\ q.op \notin {"PUT", "POST"} /\ out' = Response(200, FALSE, b)
  BY <1>1, <1>2
<1> QED
  BY <1>1, <1>5, <1>6, Tells

\* A file that has been opened is to hold what the request asks for.
LEMMA PutOpens ==
  ASSUME NEW q \in Req, q = Job, q.op = "PUT",
         NEW code \in Codes, NEW located \in BOOLEAN, Open(q.at, <<>>, code, located),
         ~ located
  PROVE  Starts(q)'
<1>1. q.body \in Text /\ q.body \in Seq(Word)
  BY DEF Req, Text
<1>2. /\ spc' = "write" /\ todo' = [at |-> q.at, text |-> <<>> \o q.body]
      /\ out' = Response(code, located, TextBody(q.body))
  BY DEF Open
<1>3. PICK b \in Body : b = TextBody(q.body)
  BY <1>1, BodyTypes
<1>4. <<>> \o q.body = q.body
  BY <1>1, ConcatEmptySeq
<1>5. Writes(q, code, located, b)'
  BY <1>2, <1>3, <1>4 DEF Writes
<1> QED
  BY <1>1, <1>2, <1>3, <1>5 DEF Starts

LEMMA PostOpens ==
  ASSUME NEW q \in Req, q = Job, q.op = "POST", NEW l, NEW keep \in Text,
         NEW code \in Codes, NEW located \in BOOLEAN, Open(l, keep, code, located),
         code = Created => keep = <<>>, located <=> code = Created,
         l = q.at \/ (Parent(l) = q.at /\ code = Created)
  PROVE  Starts(q)'
<1>1. q.body \in Text
  BY DEF Req
<1>2. /\ spc' = "write" /\ todo'.at = l /\ todo'.text = keep \o q.body
      /\ out' = Response(code, located, TextBody(q.body))
  BY DEF Open
<1>3. PICK b \in Body : b = TextBody(q.body)
  BY <1>1, BodyTypes
<1>4. Writes(q, code, located, b)'
  BY <1>2, <1>3 DEF Writes, Parent
<1> QED
  BY <1>1, <1>2, <1>3, <1>4 DEF Starts

LEMMA WritingStarts ==
  ASSUME TreeTypeOK, SrvTypeOK, NEW q \in Req, q = Job, Post \/ PostBelow \/ PutFile
  PROVE  Starts(q)'
<1>1. <<>> \in Text
  BY DEF Text
<1>2. 200 \in Codes /\ Created \in Codes /\ 200 # Created /\ Created = 201
    /\ TRUE \in BOOLEAN /\ FALSE \in BOOLEAN
  BY DEF Codes, Created
<1>3. CASE Post
  <2>1. q.op = "POST"
    BY <1>3 DEF Post, Handling
  <2>2. CASE Open(q.at, <<>>, 201, TRUE)
    <3>1. PICK code \in Codes, located \in BOOLEAN :
            Open(q.at, <<>>, code, located) /\ code = Created /\ located
      BY <1>2, <2>2
    <3> QED
      BY <1>1, <2>1, <3>1, PostOpens
  <2>3. CASE IsFile(q.at) /\ Open(q.at, files[q.at], 200, FALSE)
    <3>1. PICK l : l = q.at
      OBVIOUS
    <3>2. PICK keep \in Text : keep = files[q.at]
      BY <2>3 DEF IsFile, TreeTypeOK
    <3>3. PICK code \in Codes : code = 200
      BY <1>2
    <3>4. PICK located \in BOOLEAN : located = FALSE
      OBVIOUS
    <3>5. Open(l, keep, code, located)
      BY <2>3, <3>1, <3>2, <3>3, <3>4
    <3>6. code = Created => keep = <<>>
      BY <1>2, <3>3
    <3>7. l = q.at \/ (Parent(l) = q.at /\ code = Created)
      BY <3>1
    <3>8. located <=> code = Created
      BY <1>2, <3>3, <3>4
    <3> QED
      BY <2>1, <3>5, <3>6, <3>7, <3>8, PostOpens
  <2> QED
    BY <1>3, <2>2, <2>3 DEF Post
<1>4. CASE PostBelow
  <2>1. /\ q.op = "POST" /\ draws < Len(Random)
        /\ Open(Append(q.at, Random[draws + 1]), <<>>, 201, TRUE)
    BY <1>4 DEF PostBelow, Handling, PostName
  <2>2. PICK l : l = Append(q.at, Random[draws + 1])
    OBVIOUS
  <2>3. PICK code \in Codes : code = Created
    BY <1>2
  <2>4. PICK located \in BOOLEAN : located = TRUE
    OBVIOUS
  <2>5. Open(l, <<>>, code, located)
    BY <1>2, <2>1, <2>2, <2>3, <2>4
  <2>6. Random[draws + 1] \in Name /\ q.at \in Loc
    <3>1. Len(Random) \in Nat /\ draws \in 0 .. Len(Random)
      BY ServerAssumption, LenProperties DEF SrvTypeOK
    <3>2. draws + 1 \in 1 .. Len(Random)
      BY <2>1, <3>1
    <3> QED
      BY <3>2, ServerAssumption, ElementOfSeq DEF Req
  <2>7. l = q.at \/ (Parent(l) = q.at /\ code = Created)
    BY <2>1, <2>2, <2>3, <2>6, ParentOfAppend
  <2>8. q.op = "POST"
    BY <2>1
  <2>9. located <=> code = Created
    BY <2>3, <2>4
  <2> QED
    BY <1>1, <2>5, <2>7, <2>8, <2>9, PostOpens
<1>5. CASE PutFile
  <2>1. PICK code \in Codes : code = IF IsFile(q.at) THEN 200 ELSE 201
    BY <1>2
  <2>2. PICK located \in BOOLEAN : located = FALSE
    OBVIOUS
  <2>3. Open(q.at, <<>>, code, located)
    BY <1>5, <2>1, <2>2 DEF PutFile
  <2>4. q.op = "PUT"
    BY <1>5 DEF PutFile, Handling
  <2> QED
    BY <2>2, <2>3, <2>4, PutOpens
<1> QED
  BY <1>3, <1>4, <1>5

LEMMA PutDirStarts ==
  ASSUME TreeTypeOK, <<>> \in dirs, NEW q \in Req, q = Job, PutDir
  PROVE  Starts(q)'
<1>1. /\ q.op = "PUT" /\ spc' # "write" /\ files' = files
      /\ 201 \in {200, 201} /\ {400, 405} \subseteq {400, 404, 405}
      /\ NoBody \in Body /\ q.at \in Loc
  BY BodyTypes DEF PutDir, Handling, Respond, Req
<1>2. CASE IsDir(q.at)
  <2>1. PICK code \in {400, 404, 405} : out' = Response(code, FALSE, NoBody)
    BY <1>1, <1>2 DEF PutDir, Respond
  <2>2. spc' # "write"
    BY <1>1
  <2> QED
    BY <2>1, <2>2, Refuses
<1>3. CASE ~ IsDir(q.at)
  <2>1. /\ q.body = <<>> /\ out' = Response(201, FALSE, NoBody)
        /\ dirs' = MkdirP(q.at)
    BY <1>3 DEF PutDir, Respond
  <2>2. IsDir(q.at)' \/ MkdirFails(q.at)'
    <3>1. q.at # <<>>
      BY <1>3 DEF IsDir
    <3>2. q.at \in Prefixes(q.at)
      BY <1>1, <3>1, Prefixed
    <3>3. CASE \A p \in Prefixes(q.at) :
                 IsDir(p) \/ (~ IsFile(p) /\ Parent(p) \notin ReadOnly)
      BY <2>1, <3>2, <3>3 DEF MkdirP, IsDir
    <3>4. ASSUME NEW p \in Prefixes(q.at),
                 ~ (IsDir(p) \/ (~ IsFile(p) /\ Parent(p) \notin ReadOnly))
          PROVE  MkdirFails(q.at)'
      <4>1. p \notin dirs'
        <5>1. p \in Prefixes(p)
          BY <1>1, Prefixed
        <5> QED
          BY <2>1, <3>4, <5>1 DEF MkdirP, IsDir
      <4>2. (IsFile(p) \/ (~ IsDir(p) /\ Parent(p) \in ReadOnly))'
        BY <1>1, <3>4, <4>1 DEF IsFile, IsDir, Parent
      <4> QED
        BY <4>2 DEF MkdirFails, Prefixes
    <3> QED
      BY <3>3, <3>4
  <2>3. Done(q, [code |-> 201, rest |-> BodyPieces(NoBody)])'
    <3>1. Repeats(q, [code |-> 201, rest |-> BodyPieces(NoBody)])
      <4>1. TextBody(q.body) = NoBody
        BY <2>1 DEF NoBody
      <4>2. BodyPieces(NoBody) = <<>> /\ <<>> \o BodyPieces(NoBody) = BodyPieces(NoBody)
        <5>1. BodyPieces(NoBody) = <<>>
          BY DEF BodyPieces
        <5>2. <<>> \o <<>> = <<>>
          OBVIOUS
        <5> QED
          BY <5>1, <5>2
      <4> QED
        BY <1>1, <4>1, <4>2 DEF Repeats
    <3> QED
      BY <1>1, <2>1, <2>2, <3>1 DEF Done
  <2>4. NoBody = TextBody(q.body)
    BY <2>1 DEF NoBody
  <2> QED
    BY <1>1, <2>1, <2>3, <2>4, Tells
<1> QED
  BY <1>2, <1>3

LEMMA DeleteStarts ==
  ASSUME NEW q \in Req, q = Job, Delete
  PROVE  Starts(q)'
<1>1. /\ q.op = "DELETE" /\ spc' # "write" /\ dirs' = dirs
      /\ files' = IF CanRemove(q.at) THEN [x \in DOMAIN files \ {q.at} |-> files[x]]
                  ELSE files
      /\ out' = Response(IF ~ Exists(q.at) THEN 404
                         ELSE IF IsDir(q.at) THEN 400 ELSE 200, FALSE, NoBody)
  BY DEF Delete, Handling, Respond
<1>2. 200 \in {200, 201} /\ {400, 404} \subseteq {400, 404, 405} /\ NoBody \in Body
      /\ q.op \notin {"PUT", "POST"}
  BY <1>1, BodyTypes
<1>3. CASE ~ Exists(q.at) \/ IsDir(q.at)
  <2>1. PICK code \in {400, 404, 405} : out' = Response(code, FALSE, NoBody)
    BY <1>1, <1>2, <1>3
  <2>2. spc' # "write"
    BY <1>1
  <2> QED
    BY <2>1, <2>2, Refuses
<1>4. CASE Exists(q.at) /\ ~ IsDir(q.at)
  <2>1. ~ Exists(q.at)' \/ RmFails(q.at)'
    <3>1. CASE CanRemove(q.at)
      BY <1>1, <1>4, <3>1 DEF Exists, IsDir, IsFile
    <3>2. CASE ~ CanRemove(q.at)
      BY <1>4, <3>2 DEF CanRemove, Exists, RmFails, Parent
    <3> QED
      BY <3>1, <3>2
  <2>2. Done(q, [code |-> 200, rest |-> BodyPieces(NoBody)])'
    <3>1. BodyPieces(NoBody) = <<>>
      BY DEF BodyPieces
    <3> QED
      BY <1>1, <2>1, <3>1 DEF Done
  <2>3. out' = Response(200, FALSE, NoBody)
    BY <1>1, <1>4
  <2> QED
    BY <1>1, <1>2, <2>2, <2>3, Tells
<1> QED
  BY <1>3, <1>4

LEMMA HandlerStarts ==
  ASSUME TreeTypeOK, SrvTypeOK, <<>> \in dirs, NEW q \in Req, q = Job,
         \/ Get \/ Search \/ Form \/ Post \/ PostBelow \/ PutFile \/ PutDir \/ Delete
         \/ RefusePost \/ RefusePut
  PROVE  Starts(q)'
<1>1. NoBody \in Body /\ {400, 405} \subseteq {400, 404, 405}
  BY BodyTypes
<1>2. CASE Form \/ RefusePost \/ RefusePut
  <2>1. PICK code \in {400, 404, 405} : out' = Response(code, FALSE, NoBody)
    BY <1>1, <1>2 DEF Form, RefusePost, RefusePut, Respond
  <2>2. spc' # "write"
    BY <1>2 DEF Form, RefusePost, RefusePut, Respond
  <2> QED
    BY <2>1, <2>2, Refuses
<1> QED
  BY <1>2, GetStarts, SearchStarts, WritingStarts, PutDirStarts, DeleteStarts

----------------------------------------------------------------------------
(* What is on its way.                                                     *)

LEMMA VersionType ==
  ASSUME IInv, NEW c \in Client
  PROVE  last[c] \in Req /\ Versions(c) \subseteq Req
<1>1. last[c] \in Req
  BY DEF IInv, TypeOK, CliTypeOK
<1> QED
  BY <1>1, HeadsType DEF Versions

\* What the server handles is what its client has asked, or a part of that.
LEMMA JobVersion ==
  ASSUME IInv, ReplyInv, spc = "recv", conn[cur].up # <<>>, Job.op \in Methods
  PROVE  /\ cur \in Client /\ cpc[cur] \notin {"off", "prompt"}
         /\ Job \in Req /\ Job \in Versions(cur)
<1>1. cur \in Client /\ NetTypeOK
  BY DEF IInv, TypeOK, SrvTypeOK
<1>2. Job \in Req
  BY <1>1, JobType
<1>3. conn[cur].up \in Seq(Segment)
  BY <1>1 DEF NetTypeOK, Duplex
<1>4. 1 \in 1 .. Len(conn[cur].up) /\ Job = conn[cur].up[1]
  BY <1>3, EmptySeq, LenProperties DEF Job
<1>5. Job \in Versions(cur) \cup {Torn, Ending, Coming} /\ cpc[cur] \notin {"off", "prompt"}
  BY <1>1, <1>4 DEF ReplyInv, AskingInv
<1>6. Torn.op = "torn" /\ Ending.op = "ending" /\ Coming.op = "coming"
  BY DEF Torn, Ending, Coming, Mark, NoReq
<1>7. Job \notin {Torn, Ending, Coming}
  BY <1>6 DEF Methods
<1> QED
  BY <1>1, <1>2, <1>5, <1>7

LEMMA ServerAsking ==
  ASSUME IInv, ReplyInv, ServerStep \/ Operator, NEW c \in Client
  PROVE  AskingInv(c)'
<1>1. last' = last /\ cpc' = cpc
  BY DEF ServerStep, Operator, cliVars
<1>2. AskingInv(c)
  BY DEF ReplyInv
<1>3. Versions(c)' = Versions(c)
  BY <1>1 DEF Versions
<1>4. 1 .. Len(<<>>) = {}
  OBVIOUS
<1>5. CASE conn'[c].up = conn[c].up
  BY <1>1, <1>2, <1>3, <1>5 DEF AskingInv
<1>6. CASE conn'[c].up = <<>>
  BY <1>4, <1>6 DEF AskingInv
<1>7. CASE conn[c].up # <<>> /\ conn'[c].up = Tail(conn[c].up)
  <2>1. conn[c].up \in Seq(Segment)
    BY DEF IInv, TypeOK, NetTypeOK, Duplex
  <2>2. \A i \in 1 .. Len(Tail(conn[c].up)) :
          i + 1 \in 1 .. Len(conn[c].up) /\ Tail(conn[c].up)[i] = conn[c].up[i + 1]
    BY <1>7, <2>1, TailElements
  <2> QED
    BY <1>1, <1>2, <1>3, <1>7, <2>2 DEF AskingInv
<1> QED
  BY <1>5, <1>6, <1>7, ServerReads

\* What arrives of a request.
LEMMA ArrivalVersions ==
  ASSUME NEW r, NEW s \in Arrivals(r)
  PROVE  \A i \in 1 .. Len(s) :
           s[i] \in {r} \cup (IF Cuts THEN Heads(r) ELSE {}) \cup {Torn, Ending, Coming}
<1>1. s = <<r>> \/ (Cuts /\ \E h \in Heads(r) \cup {Torn} : s = <<h, Coming>>)
  BY DEF Arrivals
<1>2. CASE s = <<r>>
  BY <1>2
<1>3. ASSUME Cuts, NEW h \in Heads(r) \cup {Torn}, s = <<h, Coming>>
      PROVE  \A i \in 1 .. Len(s) : s[i] \in Heads(r) \cup {Torn, Ending, Coming}
  <2>1. Len(s) = 2 /\ s[1] = h /\ s[2] = Coming
    BY <1>3
  <2> QED
    BY <1>3, <2>1
<1> QED
  BY <1>1, <1>2, <1>3

LEMMA ClientAsking ==
  ASSUME IInv, ReplyInv, NEW c \in Client, ClientStep(c) \/ Typing(c) \/ Network(c)
  PROVE  \A d \in Client : AskingInv(d)'
<1>1. /\ conn \in [Client -> Duplex(Segment, Piece)]
      /\ last \in [Client -> Req] /\ cpc \in [Client -> ClientPc]
      /\ \A d \in Client : AskingInv(d)
  BY DEF IInv, TypeOK, NetTypeOK, CliTypeOK, ReplyInv
<1>2. ASSUME NEW d \in Client, conn'[d].up = conn[d].up, last'[d] = last[d],
             cpc'[d] \in {"off", "prompt"} => cpc[d] \in {"off", "prompt"}
      PROVE  AskingInv(d)'
  <2>1. Versions(d)' = Versions(d)
    BY <1>2 DEF Versions
  <2> QED
    BY <1>1, <1>2, <2>1 DEF AskingInv
<1>3. \A d \in Client : d # c => AskingInv(d)'
  <2>1. ASSUME NEW pc, Leave(c, pc)
        PROVE  \A d \in Client : d # c => conn'[d] = conn[d] /\ cpc'[d] = cpc[d]
    BY <1>1, <2>1 DEF Leave, Goto
  <2>2. \A d \in Client : d # c => conn'[d] = conn[d]
    <3>1. CASE Connect(c) \/ Linger(c) \/ Arrive(c) \/ ReadResponse(c)
      BY <1>1, <3>1 DEF Connect, Linger, Arrive, ReadResponse, netVars
    <3>2. CASE Type(c) \/ TypeUnknown(c) \/ Kill(c)
      BY <1>1, <2>1, <3>2 DEF Type, TypeUnknown, Kill
    <3> QED
      BY <3>1, <3>2 DEF ClientStep, Typing, Network, ProgramStep, UserStep
  <2>3. \A d \in Client : d # c => cpc'[d] = cpc[d]
    <3>1. CASE Connect(c) \/ Linger(c) \/ Arrive(c) \/ ReadResponse(c)
      BY <1>1, <3>1 DEF Connect, Linger, Arrive, ReadResponse, Goto, cliVars
    <3>2. CASE Type(c) \/ TypeUnknown(c) \/ Kill(c)
      BY <1>1, <2>1, <3>2 DEF Type, TypeUnknown, Kill, Goto
    <3> QED
      BY <3>1, <3>2 DEF ClientStep, Typing, Network, ProgramStep, UserStep
  <2>4. \A d \in Client : d # c => last'[d] = last[d]
    BY <1>1 DEF ClientStep, Typing, Network, ProgramStep, UserStep, Connect, Linger, Arrive,
                ReadResponse, Type, TypeUnknown, Kill, cliVars
  <2> QED
    BY <1>2, <2>2, <2>3, <2>4
<1>4. AskingInv(c)'
  <2>1. ASSUME NEW pc \in {"linger", "dead"}, Leave(c, pc)
        PROVE  conn'[c].up = conn[c].up /\ cpc'[c] \notin {"off", "prompt"}
    BY <1>1, <2>1 DEF Leave, Goto, Duplex
  <2>2. CASE Connect(c)
    <3>1. conn'[c].up = <<>> /\ 1 .. Len(<<>>) = {}
      BY <1>1, <2>2 DEF Connect, Fresh
    <3> QED
      BY <3>1 DEF AskingInv
  <2>3. CASE Type(c)
    <3>1. PICK r \in Request :
            /\ last' = [last EXCEPT ![c] = Lowered(r)]
            /\ \/ /\ IF conn[c].downEof THEN conn' = conn
                     ELSE \E s \in Arrivals(Lowered(r)) : conn' = [conn EXCEPT ![c].up = s]
                  /\ Goto(c, "wait")
               \/ Leave(c, "dead")
      BY <2>3 DEF Type
    <3>2. cpc'[c] \notin {"off", "prompt"}
      <4>1. CASE Goto(c, "wait")
        BY <1>1, <4>1 DEF Goto
      <4> QED
        BY <2>1, <3>1, <4>1
    <3>3. CASE conn'[c].up = conn[c].up
      <4>1. conn'[c].up = <<>> /\ 1 .. Len(<<>>) = {}
        BY <1>1, <2>3, <3>3 DEF Type, AskingInv
      <4> QED
        BY <4>1 DEF AskingInv
    <3>4. ASSUME NEW s \in Arrivals(Lowered(r)), conn' = [conn EXCEPT ![c].up = s]
          PROVE  AskingInv(c)'
      <4>1. conn'[c].up = s /\ last'[c] = Lowered(r)
        BY <1>1, <3>1, <3>4 DEF Duplex
      <4>2. \A i \in 1 .. Len(s) : s[i] \in Versions(c)' \cup {Torn, Ending, Coming}
        BY <4>1, ArrivalVersions DEF Versions
      <4> QED
        BY <3>2, <4>1, <4>2 DEF AskingInv
    <3> QED
      BY <2>1, <3>1, <3>3, <3>4
  <2>4. CASE TypeUnknown(c) \/ Kill(c)
    <3>1. last' = last /\ \E pc \in {"linger", "dead"} : Leave(c, pc)
      BY <2>4 DEF TypeUnknown, Kill
    <3> QED
      BY <1>2, <2>1, <3>1
  <2>5. CASE Linger(c)
    <3>1. last' = last /\ conn' = conn /\ cpc'[c] = "done"
      BY <1>1, <2>5 DEF Linger, netVars, Goto
    <3> QED
      BY <1>2, <3>1
  <2>6. CASE ReadResponse(c)
    <3>1. last' = last /\ cpc'[c] \in {"linger", "dead"}
      BY <1>1, <2>6 DEF ReadResponse, Goto
    <3>2. conn'[c].up = conn[c].up
      BY <1>1, <2>6 DEF ReadResponse, Duplex
    <3> QED
      BY <1>2, <3>1, <3>2
  <2>7. CASE Arrive(c)
    <3>1. last' = last /\ cpc' = cpc
      BY <2>7 DEF Arrive, cliVars
    <3>2. conn'[c].up = <<Ending>> \/ conn'[c].up = <<last[c]>>
      BY <1>1, <2>7 DEF Arrive, Duplex
    <3>3. last[c] \in Versions(c) /\ Versions(c)' = Versions(c)
      BY <3>1 DEF Versions
    <3>4. \A x : Len(<<x>>) = 1 /\ <<x>>[1] = x
      OBVIOUS
    <3>5. conn[c].up # <<>>
      BY <2>7 DEF Arrive
    <3> QED
      BY <1>1, <3>1, <3>2, <3>3, <3>4, <3>5 DEF AskingInv
  <2> QED
    BY <2>2, <2>3, <2>4, <2>5, <2>6, <2>7
    DEF ClientStep, Typing, Network, ProgramStep, UserStep
<1> QED
  BY <1>3, <1>4

----------------------------------------------------------------------------
(* Responses stay true until the next connection is taken.                 *)

LEMMA SameTree ==
  ASSUME UNCHANGED treeVars, NEW q, NEW code, NEW located, NEW b
  PROVE  Holds(q, code, located, b)' <=> Holds(q, code, located, b)
<1>1. dirs' = dirs /\ files' = files
  BY DEF treeVars
<1>2. \A g : Done(q, g)' <=> Done(q, g)
  BY <1>1 DEF Done, Repeats, IsFile, IsDir, CanRead, Children, MkdirFails, Prefixes, Parent, Exists,
              RmFails, Sealed, Found
<1> QED
  BY <1>2 DEF Holds

LEMMA ServeFrame ==
  ASSUME NEW c \in Client, ServingInv(c), UNCHANGED <<treeVars, srvVars>>,
         conn'[c].down = conn[c].down, got'[c] = got[c], last'[c] = last[c],
         Queued(c)' => Queued(c),
         cpc[c] \notin {"off", "prompt"} => cpc'[c] \notin {"off", "prompt"}
  PROVE  ServingInv(c)'
<1>1. UNCHANGED <<spc, cur, todo, out>>
  BY DEF srvVars
<1>2. Versions(c)' = Versions(c)
  BY DEF Versions
<1>3. ASSUME NEW q, NEW code, NEW located, NEW b, Replies(c, q, code, located, b)
      PROVE  Replies(c, q, code, located, b)'
  <2>1. Writes(q, code, located, b)' <=> Writes(q, code, located, b)
    BY <1>1 DEF Writes, Parent
  <2>2. Holds(q, code, located, b)' <=> Holds(q, code, located, b)
    BY SameTree
  <2> QED
    BY <1>1, <1>3, <2>1, <2>2 DEF Replies
<1> QED
  BY <1>1, <1>2, <1>3 DEF ServingInv

\* Once the file has been closed, it holds what the response says.
LEMMA WrittenHolds ==
  ASSUME NEW q \in Req, NEW code \in Codes, NEW located \in BOOLEAN, NEW b \in Body,
         Writes(q, code, located, b), Written
  PROVE  Holds(q, code, located, b)'
<1>1. files' = Put(todo.at, todo.text)
  BY DEF Written
<1>2. todo.at \in DOMAIN files' /\ files'[todo.at] = todo.text
  BY <1>1 DEF Put
<1>3. b = TextBody(q.body)
  BY DEF Writes
<1> DEFINE g == Reading(code, located, b)
<1>4. g.code = code
  BY DEF Reading
<1>5. q.op \in {"PUT", "POST"} => Repeats(q, g)
  <2>1. g.rest = Rest(located, TextBody(q.body))
    BY <1>3 DEF Reading
  <2>2. located <=> (q.op = "POST" /\ g.code = 201)
    BY <1>4 DEF Writes, Created
  <2> HIDE DEF g
  <2> QED
    BY <2>1, <2>2 DEF Rest, Repeats
<1>6. Done(q, g)'
  <2>1. CASE q.op = "PUT" /\ todo = [at |-> q.at, text |-> q.body]
    <3>1. q.at \in DOMAIN files' /\ files'[q.at] = q.body
      BY <1>2, <2>1
    <3> QED
      BY <1>5, <2>1, <3>1 DEF Done, IsFile
  <2>2. ASSUME q.op = "POST", NEW keep \in Text, todo.text = keep \o q.body,
               code = Created => keep = <<>>,
               todo.at = q.at \/ (Parent(todo.at) = q.at /\ code = Created)
        PROVE  Done(q, g)'
    <3>1. keep \in Seq(Word) /\ q.body \in Seq(Word)
      BY DEF Text, Req
    <3>2. /\ Len(todo.text) = Len(keep) + Len(q.body)
          /\ Len(keep) \in Nat /\ Len(q.body) \in Nat
      BY <2>2, <3>1, ConcatProperties, LenProperties
    <3>3. SubSeq(todo.text, Len(keep) + 1, Len(todo.text)) = q.body
      BY <2>2, <3>1, SuffixOfConcat
    <3>4. /\ Len(todo.text) >= Len(q.body)
          /\ Len(todo.text) - Len(q.body) + 1 = Len(keep) + 1
      BY <3>2
    <3>5. code = 201 => todo.text = q.body
      BY <2>2, <3>1, ConcatEmptySeq DEF Created
    <3>6. todo.at = q.at \/ (Parent(todo.at) = q.at /\ g.code = 201)
      BY <1>4, <2>2 DEF Created
    <3> DEFINE l == todo.at
    <3>7. /\ l \in DOMAIN files'
          /\ l = q.at \/ (Parent(l) = q.at /\ g.code = 201)
          /\ Len(files'[l]) >= Len(q.body)
          /\ SubSeq(files'[l], Len(files'[l]) - Len(q.body) + 1, Len(files'[l])) = q.body
          /\ g.code = 201 => files'[l] = q.body
      BY <1>2, <1>4, <3>3, <3>4, <3>5, <3>6
    <3> HIDE DEF l, g
    <3> QED
      BY <1>5, <2>2, <3>7 DEF Done, Parent
  <2> QED
    BY <2>1, <2>2 DEF Writes
<1> QED
  BY <1>3, <1>6 DEF Holds

\* For a client that is not served, only the queue counts.
LEMMA NotServed ==
  ASSUME NEW c \in Client, ServingInv(c), cur' # c, Queued(c)' => Queued(c),
         Queued(c) => conn'[c].down = conn[c].down
  PROVE  ServingInv(c)'
  BY DEF ServingInv

LEMMA ReplyBegins ==
  ASSUME IInv, ReplyInv, UNCHANGED cliVars,
         \/ Get \/ Search \/ Form \/ Post \/ PostBelow \/ PutFile \/ PutDir \/ Delete
         \/ RefusePost \/ RefusePut
  PROVE  \A c \in Client : ServingInv(c)'
<1>1. /\ UNCHANGED <<backlog, cur, last, got, cpc>> /\ Recv
      /\ spc = "recv" /\ spc' \in {"write", "respond", "refuse"}
      /\ conn[cur].up # <<>> /\ Job.op \in Methods
  BY DEF Get, Search, Form, Post, PostBelow, PutFile, PutDir, Delete, RefusePost, RefusePut,
         Handling, Respond, Open, cliVars, Methods
<1>2. PICK q \in Req : q = Job /\ q \in Versions(cur) /\ cpc[cur] \notin {"off", "prompt"}
                       /\ cur \in Client
  BY <1>1, JobVersion
<1>3. Starts(q)'
  BY <1>2, HandlerStarts DEF IInv, TypeOK, ReplyInv
<1>4. PICK code \in Codes, located \in BOOLEAN, b \in Body :
        /\ out' = Response(code, located, b)
        /\ IF spc' = "write" THEN Writes(q, code, located, b)' ELSE Holds(q, code, located, b)'
  BY <1>3 DEF Starts
<1>5. \A c \in Client : conn'[c].down = conn[c].down
  BY <1>1 DEF Recv, Duplex, IInv, TypeOK, NetTypeOK
<1>6. \A c \in Client : ServingInv(c) /\ (Queued(c)' <=> Queued(c)) /\ SessionInv(c)
  BY <1>1 DEF ReplyInv, Queued, IInv
<1>7. ASSUME NEW c \in Client, c = cur
      PROVE  ServingInv(c)'
  <2>1. conn[c].down = <<>> /\ got[c] = Nothing /\ ~ Queued(c)
    BY <1>1, <1>6, <1>7 DEF ServingInv, SessionInv
  <2>2. Response(code, located, b) \in Seq(Piece)
    <3>1. code \in Nat
      BY DEF Codes, Created
    <3> QED
      BY <3>1, ResponseType
  <2>3. conn'[c].down \o out' = Response(code, located, b)
    BY <1>4, <1>5, <2>1, <2>2, ConcatEmptySeq
  <2>4. Replies(c, q, code, located, b)'
    BY <1>1, <1>4, <2>1, <2>3 DEF Replies
  <2>5. q \in Versions(c)'
    BY <1>1, <1>2, <1>7 DEF Versions
  <2> QED
    BY <1>1, <1>2, <1>6, <1>7, <2>1, <2>4, <2>5 DEF ServingInv
<1>8. ASSUME NEW c \in Client, c # cur
      PROVE  ServingInv(c)'
  BY <1>1, <1>5, <1>6, <1>8, NotServed
<1> QED
  BY <1>7, <1>8

\* The file is closed, a piece is sent, the stream is shut.
LEMMA ReplyGoesOn ==
  ASSUME IInv, ReplyInv, UNCHANGED cliVars, Written \/ (Send /\ spc' # "broken") \/ Shut
  PROVE  \A c \in Client : ServingInv(c)'
<1>1. /\ UNCHANGED <<backlog, cur, last, got, cpc>> /\ cur \in Client
      /\ spc \in {"write", "respond", "refuse"} /\ spc' \in {"respond", "refuse", "linger"}
      /\ spc' = "linger" <=> Shut
      /\ conn \in [Client -> Duplex(Segment, Piece)] /\ out \in Seq(Piece)
  BY DEF Written, Send, Shut, Crash, cliVars, netVars, IInv, TypeOK, SrvTypeOK, NetTypeOK
<1>2. \A c \in Client : c # cur => conn'[c].down = conn[c].down
  <2>1. \/ conn' = conn \/ conn' = [conn EXCEPT ![cur].down = Append(@, Head(out))]
        \/ conn' = [conn EXCEPT ![cur].downEof = TRUE]
    BY DEF Written, Send, Shut, Crash, netVars
  <2> QED
    BY <1>1, <2>1
<1>3. conn'[cur].down \o out' = conn[cur].down \o out
  <2>1. CASE Written
    BY <2>1 DEF Written, netVars
  <2>2. CASE Shut
    BY <1>1, <2>2 DEF Shut, Duplex
  <2>3. CASE Send /\ spc' # "broken"
    <3>1. /\ conn' = [conn EXCEPT ![cur].down = Append(@, Head(out))]
          /\ out' = Tail(out) /\ out # <<>>
      BY <2>3 DEF Send, Crash
    <3>2. conn'[cur].down = Append(conn[cur].down, Head(out)) /\ conn[cur].down \in Seq(Piece)
      BY <1>1, <3>1 DEF Duplex
    <3> QED
      BY <1>1, <3>1, <3>2, HeadThenTail
  <2> QED
    BY <2>1, <2>2, <2>3
<1>4. \A c \in Client : ServingInv(c) /\ (Queued(c)' <=> Queued(c)) /\ SessionInv(c)
  BY <1>1 DEF ReplyInv, Queued, IInv
<1>5. ASSUME NEW c \in Client, c = cur
      PROVE  ServingInv(c)'
  <2>1. PICK q \in Versions(c), code \in Codes, located \in BOOLEAN, b \in Body :
          Replies(c, q, code, located, b)
    BY <1>1, <1>4, <1>5 DEF ServingInv
  <2>2. cpc[c] \notin {"off", "prompt"} /\ ~ Queued(c)
    BY <1>1, <1>4, <1>5 DEF ServingInv, SessionInv
  <2>3. q \in Req /\ q \in Versions(c)'
    BY <1>1, VersionType DEF Versions
  <2>4. Holds(q, code, located, b)'
    <3>1. CASE Written
      <4>1. Writes(q, code, located, b)
        BY <2>1, <3>1 DEF Replies, Written
      <4> QED
        BY <2>3, <3>1, <4>1, WrittenHolds
    <3>2. CASE ~ Written
      <4>1. UNCHANGED treeVars /\ spc # "write"
        BY <3>2 DEF Send, Shut, Crash
      <4> QED
        BY <2>1, <4>1, SameTree DEF Replies
    <3> QED
      BY <3>1, <3>2
  <2>5. /\ conn'[c].down \o out' = Response(code, located, b) /\ got'[c] = Nothing
    BY <1>1, <1>3, <1>5, <2>1 DEF Replies
  <2>6. Replies(c, q, code, located, b)'
    BY <1>1, <2>4, <2>5 DEF Replies
  <2>7. spc' = "linger" => out' = <<>>
    BY <1>1 DEF Shut
  <2> QED
    BY <1>1, <1>4, <1>5, <2>2, <2>3, <2>6, <2>7 DEF ServingInv
<1>6. ASSUME NEW c \in Client, c # cur
      PROVE  ServingInv(c)'
  BY <1>1, <1>2, <1>4, <1>6, NotServed
<1> QED
  BY <1>5, <1>6

\* A connection is taken, left or lost.
LEMMA ReplyEnds ==
  ASSUME IInv, ReplyInv, UNCHANGED cliVars,
         Accept \/ RecvNothing \/ Close \/ StartServer \/ \E why : Crash(why)
  PROVE  \A c \in Client : ServingInv(c)'
<1>1. \A c \in Client : ServingInv(c) /\ c # NoClient
  BY ClientAssumption DEF ReplyInv
<1>2. CASE Accept
  <2>1. /\ conn' = conn /\ cur' = Head(backlog) /\ backlog' = Tail(backlog)
        /\ spc' = "recv" /\ backlog # <<>>
    BY <1>2 DEF Accept
  <2>2. /\ Head(backlog) \in Client /\ Queued(Head(backlog))
        /\ \A d : Queued(d)' => Queued(d)
    BY <2>1, QueueShrinks DEF IInv, TypeOK, NetTypeOK
  <2> QED
    BY <1>1, <2>1, <2>2 DEF ServingInv
<1>3. CASE RecvNothing \/ Close \/ StartServer
  <2>1. UNCHANGED <<conn, backlog>> /\ cur' = NoClient
    BY <1>3 DEF RecvNothing, Close, StartServer, netVars, IInv, ProcessInv
  <2> QED
    BY <1>1, <2>1 DEF ServingInv, Queued
<1>4. ASSUME NEW why, Crash(why)
      PROVE  \A c \in Client : ServingInv(c)'
  <2>1. backlog' = <<>> /\ cur' = NoClient
    BY <1>4 DEF Crash
  <2>2. 1 .. Len(<<>>) = {}
    OBVIOUS
  <2> QED
    BY <1>1, <2>1, <2>2 DEF ServingInv, Queued
<1> QED
  BY <1>2, <1>3, <1>4

LEMMA ServerReply ==
  ASSUME IInv, ReplyInv, ServerStep \/ Operator
  PROVE  ReplyInv'
<1>1. UNCHANGED cliVars
  BY DEF ServerStep, Operator
<1>2. \A c \in Client : AskingInv(c)'
  BY ServerAsking
<1>3. <<>> \in dirs'
  <2>1. dirs \subseteq dirs'
    BY DEF ServerStep, ServerNext, Operator, Accept, RecvNothing, Get, Search, Form, Post,
           PostBelow, PutFile, PutDir, Delete, RefusePost, RefusePut, CrashHandling,
           RefuseCrash, Written, Send, Shut, Close, KillServer, StartServer, Crash, Open,
           treeVars, MkdirP
  <2> QED
    BY <2>1 DEF ReplyInv
<1>4. \A c \in Client : ServingInv(c)'
  <2>1. CASE CrashHandling \/ RefuseCrash \/ KillServer
    BY <1>1, <2>1, ReplyEnds DEF CrashHandling, RefuseCrash, KillServer
  <2>2. CASE Send
    <3>1. Crash("broken") \/ (Send /\ spc' # "broken")
      BY <2>2 DEF Send
    <3> QED
      BY <1>1, <3>1, ReplyEnds, ReplyGoesOn
  <2> QED
    BY <1>1, <2>1, <2>2, ReplyBegins, ReplyGoesOn, ReplyEnds
    DEF ServerStep, ServerNext, Operator
<1> QED
  BY <1>2, <1>3, <1>4 DEF ReplyInv

----------------------------------------------------------------------------
(* The clients' steps.                                                     *)

\* A client that is not served, or waits for its user, may ask.
LEMMA NotYetServed ==
  ASSUME NEW c \in Client, UNCHANGED srvVars,
         Queued(c)' \/ (cur = c /\ spc = "recv") => conn'[c].down = <<>>,
         cur # c \/ spc \notin {"write", "respond", "refuse", "linger"}
  PROVE  ServingInv(c)'
  BY DEF ServingInv, srvVars

\* What the client reads is the whole of one response.
LEMMA ReadServing ==
  ASSUME IInv, ReplyInv, NEW c \in Client, ReadResponse(c), UNCHANGED <<treeVars, srvVars>>
  PROVE  ServingInv(c)'
<1>1. /\ conn \in [Client -> Duplex(Segment, Piece)] /\ cpc \in [Client -> ClientPc]
      /\ got \in [Client -> [code : Nat, rest : Seq(Piece)]]
      /\ out \in Seq(Piece) /\ SessionInv(c) /\ ServingInv(c)
  BY DEF IInv, TypeOK, NetTypeOK, CliTypeOK, SrvTypeOK, ReplyInv
<1>2. /\ cpc[c] = "wait" /\ conn[c].downEof /\ last' = last /\ backlog' = backlog
      /\ UNCHANGED <<spc, cur, todo, out>>
  BY DEF ReadResponse, srvVars
<1>3. /\ got[c] = Nothing /\ ~ Queued(c) /\ ~ Queued(c)'
      /\ cur = c => spc = "linger"
  BY <1>1, <1>2 DEF SessionInv, Queued
<1>4. CASE cur # c
  BY <1>2, <1>3, <1>4, NotYetServed
<1>5. CASE cur = c /\ spc = "linger"
  <2>1. out = <<>>
    BY <1>1, <1>5 DEF ServingInv
  <2>2. PICK q \in Versions(c), code \in Codes, located \in BOOLEAN, b \in Body :
          Replies(c, q, code, located, b)
    BY <1>1, <1>5 DEF ServingInv
  <2>3. got[c] # Reading(code, located, b)
    BY <1>3 DEF Nothing, Reading, Codes, Created
  <2>4. conn[c].down \in Seq(Piece)
    BY <1>1 DEF Duplex
  <2>5. PICK s \in Seq(Piece) : s = conn[c].down
    BY <2>4
  <2>6. s = Response(code, located, b)
    BY <2>1, <2>2, <2>3, <2>5, ConcatEmptySeq DEF Replies
  <2>7. /\ Headed(s) /\ s[1].code = code
        /\ \A i \in 1 .. Len(s) :
             s[i].is = "blank" /\ (\A j \in 1 .. (i - 1) : s[j].is # "blank")
               => SubSeq(s, i + 1, Len(s)) = Rest(located, b)
    BY <2>6, ResponseIsRead
  <2>8. PICK i \in 1 .. Len(s) :
          /\ s[i].is = "blank" /\ \A j \in 1 .. (i - 1) : s[j].is # "blank"
          /\ got' = [got EXCEPT ![c] = [code |-> s[1].code, rest |-> SubSeq(s, i + 1, Len(s))]]
          /\ cpc' = [cpc EXCEPT ![c] = "linger"]
    BY <2>5, <2>7 DEF ReadResponse
  <2>9. got'[c] = Reading(code, located, b)
    BY <1>1, <2>7, <2>8 DEF Reading
  <2>10. cpc'[c] = "linger"
    BY <1>1, <2>8
  <2>11. Holds(q, code, located, b)
    BY <1>5, <2>2 DEF Replies
  <2>12. Holds(q, code, located, b)'
    BY <2>11, SameTree
  <2>13. Replies(c, q, code, located, b)'
    BY <1>2, <1>5, <2>9, <2>12 DEF Replies
  <2>14. q \in Versions(c)'
    BY <1>2, <2>2 DEF Versions
  <2> QED
    BY <1>2, <1>3, <1>5, <2>1, <2>10, <2>13, <2>14 DEF ServingInv
<1> QED
  BY <1>3, <1>4, <1>5

LEMMA ClientReply ==
  ASSUME IInv, ReplyInv, NEW c \in Client, ClientStep(c) \/ Typing(c) \/ Network(c)
  PROVE  ReplyInv'
<1>1. /\ conn \in [Client -> Duplex(Segment, Piece)] /\ cpc \in [Client -> ClientPc]
      /\ last \in [Client -> Req] /\ got \in [Client -> [code : Nat, rest : Seq(Piece)]]
      /\ backlog \in Seq(Client)
      /\ \A d \in Client : SessionInv(d) /\ ServingInv(d)
  BY DEF IInv, TypeOK, NetTypeOK, CliTypeOK, ReplyInv
<1>2. UNCHANGED <<treeVars, srvVars>>
  BY DEF ClientStep, Typing, Network
<1>3. \A d \in Client : AskingInv(d)'
  BY ClientAsking
<1>4. <<>> \in dirs'
  BY <1>2 DEF ReplyInv, treeVars
<1>5. ASSUME NEW pc \in {"linger", "dead"}, Leave(c, pc)
      PROVE  /\ cpc'[c] = pc /\ conn'[c].down = conn[c].down
             /\ \A d \in Client : d # c => conn'[d] = conn[d] /\ cpc'[d] = cpc[d]
  BY <1>1, <1>5 DEF Leave, Goto, Duplex
<1>6. ASSUME NEW d \in Client, d # c
      PROVE  ServingInv(d)'
  <2>1. conn'[d] = conn[d]
    <3>1. CASE Connect(c) \/ Linger(c) \/ Arrive(c) \/ ReadResponse(c)
      BY <1>1, <1>6, <3>1 DEF Connect, Linger, Arrive, ReadResponse, netVars
    <3>2. CASE Type(c) \/ TypeUnknown(c) \/ Kill(c)
      BY <1>1, <1>5, <1>6, <3>2 DEF Type, TypeUnknown, Kill
    <3> QED
      BY <3>1, <3>2 DEF ClientStep, Typing, Network, ProgramStep, UserStep
  <2>2. cpc'[d] = cpc[d]
    <3>1. CASE Connect(c) \/ Linger(c) \/ Arrive(c) \/ ReadResponse(c)
      BY <1>1, <1>6, <3>1 DEF Connect, Linger, Arrive, ReadResponse, Goto, cliVars
    <3>2. CASE Type(c) \/ TypeUnknown(c) \/ Kill(c)
      BY <1>1, <1>5, <1>6, <3>2 DEF Type, TypeUnknown, Kill, Goto
    <3> QED
      BY <3>1, <3>2 DEF ClientStep, Typing, Network, ProgramStep, UserStep
  <2>3. last'[d] = last[d] /\ got'[d] = got[d]
    BY <1>1, <1>6 DEF ClientStep, Typing, Network, ProgramStep, UserStep, Connect, Linger,
                      Arrive, ReadResponse, Type, TypeUnknown, Kill, cliVars
  <2>4. Queued(d)' => Queued(d)
    <3>1. CASE Connect(c)
      <4>1. ~ Queued(c) /\ backlog' = Append(backlog, c)
        BY <1>1, <3>1 DEF Connect, SessionInv
      <4> QED
        BY <1>1, <1>6, <4>1, QueueGrows DEF IInv
    <3>2. CASE backlog' = backlog
      BY <3>2 DEF Queued
    <3> QED
      BY <3>1, <3>2 DEF ClientStep, Typing, Network, ProgramStep, UserStep, Linger, Arrive,
                        ReadResponse, Type, TypeUnknown, Kill, netVars
  <2> QED
    BY <1>1, <1>2, <2>1, <2>2, <2>3, <2>4, ServeFrame
<1>7. ServingInv(c)'
  <2>1. CASE Connect(c)
    <3>1. cur # c
      BY <1>1, <2>1 DEF Connect, SessionInv
    <3>2. conn'[c].down = <<>>
      BY <1>1, <2>1 DEF Connect, Fresh
    <3> QED
      BY <1>2, <3>1, <3>2, NotYetServed
  <2>2. CASE Type(c)
    <3>1. cpc[c] = "prompt" /\ backlog' = backlog
      BY <2>2 DEF Type
    <3>2. cur # c \/ spc \notin {"write", "respond", "refuse", "linger"}
      BY <1>1, <3>1 DEF ServingInv
    <3>3. conn'[c].down = conn[c].down
      <4>1. \/ conn' = conn \/ \E s : conn' = [conn EXCEPT ![c].up = s]
            \/ Leave(c, "dead")
        BY <2>2 DEF Type
      <4> QED
        BY <1>1, <1>5, <4>1 DEF Duplex
    <3>4. Queued(c)' <=> Queued(c)
      BY <3>1 DEF Queued
    <3> QED
      BY <1>1, <1>2, <3>2, <3>3, <3>4, NotYetServed DEF ServingInv
  <2>3. CASE TypeUnknown(c) \/ Kill(c) \/ Linger(c) \/ Arrive(c)
    <3>1. UNCHANGED <<backlog, last, got>>
      BY <2>3 DEF TypeUnknown, Kill, Linger, Arrive, netVars, cliVars
    <3>2. /\ conn'[c].down = conn[c].down
          /\ cpc[c] \notin {"off", "prompt"} => cpc'[c] \notin {"off", "prompt"}
      <4>1. CASE TypeUnknown(c) \/ Kill(c)
        BY <1>5, <4>1 DEF TypeUnknown, Kill
      <4>2. CASE Linger(c)
        BY <1>1, <4>2 DEF Linger, Goto, netVars
      <4>3. CASE Arrive(c)
        BY <1>1, <4>3 DEF Arrive, cliVars, Duplex
      <4> QED
        BY <2>3, <4>1, <4>2, <4>3
    <3>3. Queued(c)' <=> Queued(c)
      BY <3>1 DEF Queued
    <3> QED
      BY <1>1, <1>2, <3>1, <3>2, <3>3, ServeFrame
  <2>4. CASE ReadResponse(c)
    BY <1>2, <2>4, ReadServing
  <2> QED
    BY <2>1, <2>2, <2>3, <2>4 DEF ClientStep, Typing, Network, ProgramStep, UserStep
<1> QED
  BY <1>3, <1>4, <1>6, <1>7 DEF ReplyInv

----------------------------------------------------------------------------
(* The theorems.                                                           *)

LEMMA InitReply == Init => ReplyInv
<1> SUFFICES ASSUME Init PROVE ReplyInv
  OBVIOUS
<1>1. /\ backlog = <<>> /\ cur = NoClient /\ dirs = InitDirs
      /\ \A c \in Client : cpc[c] = "off" /\ conn[c] = Fresh /\ c # NoClient
  BY ClientAssumption DEF Init, NetInit, TreeInit, SrvInit, CliInit
<1>2. \A c \in Client : conn[c].up = <<>> /\ conn[c].down = <<>>
  BY <1>1 DEF Fresh
<1>3. 1 .. Len(<<>>) = {}
  OBVIOUS
<1>4. <<>> \in dirs
  BY <1>1, TreeAssumption
<1>5. \A c \in Client : AskingInv(c)
  BY <1>2, <1>3 DEF AskingInv
<1>6. \A c \in Client : ServingInv(c)
  BY <1>1, <1>2 DEF ServingInv
<1> QED
  BY <1>4, <1>5, <1>6 DEF ReplyInv

LEMMA NextReply == IInv /\ ReplyInv /\ [Next]_vars => ReplyInv'
<1> SUFFICES ASSUME IInv, ReplyInv, [Next]_vars PROVE ReplyInv'
  OBVIOUS
<1>1. CASE UNCHANGED vars
  <2>1. UNCHANGED <<netVars, treeVars, srvVars, cliVars>>
    BY <1>1 DEF vars
  <2>2. UNCHANGED <<conn, backlog, last, got, cpc, dirs>>
    BY <2>1 DEF netVars, treeVars, cliVars
  <2>3. \A c \in Client : AskingInv(c)'
    BY <2>2 DEF ReplyInv, AskingInv, Versions
  <2>4. \A c \in Client : ServingInv(c) /\ (Queued(c)' <=> Queued(c))
    BY <2>2 DEF ReplyInv, Queued
  <2>5. \A c \in Client : ServingInv(c)'
    BY <2>1, <2>2, <2>4, ServeFrame
  <2> QED
    BY <2>2, <2>3, <2>5 DEF ReplyInv
<1> QED
  BY <1>1, ServerReply, ClientReply DEF Next

\* What a client has read of the server that still serves it.
LEMMA ReadIsTold ==
  ASSUME IInv, ReplyInv, NEW c \in Client,
         cpc[c] \in {"linger", "done"}, cur = c, got[c].code \in {200, 201}
  PROVE  \E q \in Versions(c), located \in BOOLEAN, b \in Body :
           /\ got[c] = Reading(got[c].code, located, b)
           /\ Done(q, got[c])
           /\ q.op \in {"PUT", "POST"} => b = TextBody(q.body)
<1>1. SessionInv(c) /\ ServingInv(c)
  BY DEF IInv, ReplyInv
<1>2. got[c] # Nothing
  BY DEF Nothing
<1>3. spc = "linger"
  BY <1>1, <1>2 DEF SessionInv
<1>4. PICK q \in Versions(c), code \in Codes, located \in BOOLEAN, b \in Body :
        Replies(c, q, code, located, b)
  BY <1>1, <1>3 DEF ServingInv
<1>5. got[c] = Reading(code, located, b) /\ Holds(q, code, located, b)
  BY <1>2, <1>3, <1>4 DEF Replies
<1>6. got[c].code = code
  BY <1>5 DEF Reading
<1> QED
  BY <1>4, <1>5, <1>6 DEF Holds

\* When a request arrives as a whole, a client that has read 200 or 201 has
\* what it asked for, until the server takes the next connection
\* (httpserver/main.c: every handler answers before the next accept()).
THEOREM SuccessCorrect == ~ Cuts => (Spec => []SuccessIsTrue)
<1> SUFFICES ASSUME ~ Cuts PROVE Spec => []SuccessIsTrue
  OBVIOUS
<1>1. IInv /\ ReplyInv => SuccessIsTrue
  <2> SUFFICES ASSUME IInv, ReplyInv, NEW c \in Client,
                      cpc[c] \in {"linger", "done"}, cur = c, got[c].code \in {200, 201}
               PROVE  Done(last[c], got[c])
    BY DEF SuccessIsTrue
  <2>1. PICK q \in Versions(c) : Done(q, got[c])
    BY ReadIsTold
  <2> QED
    BY <2>1 DEF Versions
<1> QED
  BY <1>1, InitIInv, NextIInv, InitReply, NextReply, PTL DEF Spec

\* Of a reading only the body tells what has been read.
Bodies(s) == {s[i].body : i \in {j \in 1 .. Len(s) : s[j].is = "body"}}

Shown(b) == IF b = NoBody THEN {} ELSE {b}
Echoes(t) == IF t = <<>> THEN {} ELSE {TextBody(t)}

LEMMA EchoedBody ==
  ASSUME NEW located \in BOOLEAN, NEW b \in Body
  PROVE  Bodies(Rest(located, b)) = Shown(b)
<1> DEFINE x == BodyPiece(b)
           r == Rest(located, b)
<1>1. Blank.is = "blank" /\ x.is = "body" /\ x.body = b
  BY DEF Blank, BodyPiece
<1>2. ASSUME Len(r) = 0
      PROVE  Bodies(r) = {}
  BY <1>2 DEF Bodies
<1>3. ASSUME Len(r) = 1, r[1] = Blank
      PROVE  Bodies(r) = {}
  BY <1>1, <1>3 DEF Bodies
<1>4. ASSUME Len(r) = 1, r[1] = x
      PROVE  Bodies(r) = {b}
  BY <1>1, <1>4 DEF Bodies
<1>5. ASSUME Len(r) = 2, r[1] = Blank, r[2] = x
      PROVE  Bodies(r) = {b}
  <2>1. {j \in 1 .. Len(r) : r[j].is = "body"} = {2}
    BY <1>1, <1>5
  <2> QED
    BY <1>1, <1>5, <2>1 DEF Bodies
<1>6. CASE ~ located /\ b = NoBody
  <2>1. Len(r) = 0
    BY <1>6 DEF Rest, BodyPieces
  <2> QED
    BY <1>2, <1>6, <2>1 DEF Shown
<1>7. CASE located /\ b = NoBody
  <2>1. Len(r) = 1 /\ r[1] = Blank
    <3>1. <<Blank>> \in Seq(Piece)
      BY PieceTypes
    <3>2. r = <<Blank>> \o <<>>
      BY <1>7 DEF Rest, BodyPieces
    <3>3. \A s \in Seq(Piece) : s \o <<>> = s
      BY ConcatEmptySeq
    <3>4. r = <<Blank>>
      BY <3>1, <3>2, <3>3
    <3> QED
      BY <3>4
  <2> QED
    BY <1>3, <1>7, <2>1 DEF Shown
<1>8. CASE ~ located /\ b # NoBody
  <2>1. Len(r) = 1 /\ r[1] = x
    BY <1>8 DEF Rest, BodyPieces
  <2> QED
    BY <1>4, <1>8, <2>1 DEF Shown
<1>9. CASE located /\ b # NoBody
  <2>1. Len(r) = 2 /\ r[1] = Blank /\ r[2] = x
    BY <1>9 DEF Rest, BodyPieces
  <2> QED
    BY <1>5, <1>9, <2>1 DEF Shown
<1> QED
  BY <1>6, <1>7, <1>8, <1>9 DEF Shown

\* A text is told by what the response repeats of it.
LEMMA EchoedText ==
  /\ \A t : Shown(TextBody(t)) = Echoes(t)
  /\ \A t, u : Echoes(t) = Echoes(u) => t = u
<1>1. \A t : TextBody(t).text = t
  BY DEF TextBody
<1>2. \A t : TextBody(t) = NoBody <=> t = <<>>
  BY <1>1 DEF NoBody
<1>3. \A t : Shown(TextBody(t)) = Echoes(t)
  BY <1>2 DEF Shown, Echoes
<1>4. \A b, y : {b} # {} /\ ({b} = {y} => b = y)
  OBVIOUS
<1>5. ASSUME NEW t, NEW u, Echoes(t) = Echoes(u)
      PROVE  t = u
  <2>1. t = <<>> <=> u = <<>>
    BY <1>4, <1>5 DEF Echoes
  <2>2. t # <<>> => TextBody(t) = TextBody(u)
    BY <1>4, <1>5, <2>1 DEF Echoes
  <2>3. t # <<>> => t = u
    BY <1>1, <2>2
  <2> QED
    BY <2>1, <2>3
<1> QED
  BY <1>3, <1>5

\* Even when requests arrive in pieces, a client that has read a success can
\* rely on it if it asked to read or to delete, or if the response repeats all
\* that it has sent.
THEOREM EchoCorrect == Spec => []EchoTells
<1>1. IInv /\ ReplyInv => EchoTells
  <2> SUFFICES ASSUME IInv, ReplyInv, NEW c \in Client,
                      cpc[c] \in {"linger", "done"}, cur = c, got[c].code \in {200, 201},
                      \/ last[c].op \in {"GET", "DELETE"}
                      \/ last[c].op \in {"PUT", "POST"} /\ Echo(last[c], got[c])
               PROVE  Done(last[c], got[c])
    BY DEF EchoTells
  <2>1. PICK q \in Versions(c), located \in BOOLEAN, b \in Body :
          /\ got[c] = Reading(got[c].code, located, b)
          /\ Done(q, got[c])
          /\ q.op \in {"PUT", "POST"} => b = TextBody(q.body)
    BY ReadIsTold
  <2>2. last[c] \in Req /\ q \in Req
    BY VersionType
  <2>3. q = last[c] \/ q \in Heads(last[c])
    BY DEF Versions
  <2>4. CASE last[c].op \in {"GET", "DELETE"}
    <3>1. Heads(last[c]) = {}
      BY <2>4 DEF Heads
    <3> QED
      BY <2>1, <2>3, <3>1
  <2>5. CASE last[c].op \in {"PUT", "POST"} /\ Echo(last[c], got[c])
    <3>1. q.op = last[c].op /\ q.at = last[c].at
      BY <2>2, <2>3, <2>5 DEF Heads, Req
    <3>2. b = TextBody(q.body)
      BY <2>1, <2>5, <3>1
    <3>3. got[c].rest = Rest(located, b)
      <4>1. \A code : Reading(code, located, b).rest = Rest(located, b)
        BY DEF Reading
      <4> QED
        BY <2>1, <4>1
    <3>4. Shown(b) = Echoes(last[c].body)
      <4>1. Bodies(got[c].rest) = Echoes(last[c].body)
        BY <2>5 DEF Echo, Bodies, Echoes
      <4>2. Bodies(Rest(located, b)) = Shown(b)
        BY EchoedBody
      <4> QED
        BY <3>3, <4>1, <4>2
    <3>5. q.body = last[c].body
      BY <3>2, <3>4, EchoedText
    <3>6. q = last[c]
      BY <2>2, <3>1, <3>5 DEF Req
    <3> QED
      BY <2>1, <3>6
  <2> QED
    BY <2>4, <2>5
<1> QED
  BY <1>1, InitIInv, NextIInv, InitReply, NextReply, PTL DEF Spec
=============================================================================
