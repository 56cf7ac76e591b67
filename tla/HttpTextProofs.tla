--------------------------- MODULE HttpTextProofs ---------------------------
(***************************************************************************)
(* A request as text, whole or cut, and what the server makes of it: for   *)
(* any bodies and any sizes of the paths that have room for any url.       *)
(*                                                                         *)
(* Everything parsed is a part of the text that was written, so that the   *)
(* argument is about the place of each delimiter in it: Shape says what    *)
(* stands where, Delimits and IsCut what strstr() then finds.              *)
(***************************************************************************)
EXTENDS HttpText, SequenceTheorems, NaturalsInduction, WellFoundedInduction, TLAPS

\* The words of a text; the literals are strings, which the provers are not told.
Word ==
  STRING \cup {"GET", "POST", "PUT", "DELETE", "/url", "HTTP/1.1", "Host", "ip",
               "Content-Type", "form", "Content-Length", "n", "q=", "SP", "CR", "LF", ":"}

T == Text(asked)
n == Len(message)

\* The header lines of a request, and the place of its last word.
Keys(r) ==
  IF r.op = "SEARCH" THEN <<"Host", "Content-Type", "Content-Length">>
  ELSE IF HasBody(r) THEN <<"Host", "Content-Length">> ELSE <<"Host">>
Values(r) ==
  IF r.op = "SEARCH" THEN <<"ip", "form", "n">>
  ELSE IF HasBody(r) THEN <<"ip", "n">> ELSE <<"ip">>
Count(r) == Len(Keys(r))
End(r) == 6 * Count(r) + 9

Lost == last.null /\ n < End(asked)
From(p) == ~ last.null /\ last.text = SubSeq(T, p, n) /\ n >= p - 1

MethodKnown == request.method = SubSeq(T, 1, 1)
UrlKnown == request.url = SubSeq(T, 3, 3)
HeaderKnown == request.header = SubSeq(T, 8, End(asked) - 4)
BodyKnown == request.body = Before(SubSeq(T, End(asked) + 1, n), CrLf)

AllKnown == MethodKnown /\ UrlKnown /\ HeaderKnown /\ BodyKnown /\ n >= End(asked)

HeadersKnown ==
  \A i \in 1 .. Len(headers) : headers[i] = SubSeq(T, 6 * i + 2, 6 * i + 5)

FieldInv ==
  /\ tpc = "method" => From(1)
  /\ tpc = "url" => Lost \/ (From(3) /\ MethodKnown)
  /\ tpc = "version" => Lost \/ (From(5) /\ MethodKnown /\ UrlKnown)
  /\ tpc = "header" => Lost \/ (From(8) /\ MethodKnown /\ UrlKnown)
  /\ tpc = "body" =>
       Lost \/ (From(End(asked) + 1) /\ MethodKnown /\ UrlKnown /\ HeaderKnown)
  /\ tpc = "crashed" => n < End(asked)

SplitInv ==
  /\ tpc \in Range(Fields) \cup {"crashed"} => headers = <<>>
  /\ tpc = "split" =>
       /\ AllKnown
       /\ Len(headers) < Count(asked)
       /\ ~ last.null
       /\ last.text = SubSeq(T, 6 * Len(headers) + 8, End(asked) - 4)
  /\ tpc \in {"parsed", "ready", "over"} => AllKnown /\ Len(headers) = Count(asked)
  /\ HeadersKnown

IInv ==
  /\ asked \in Asked
  /\ length \in Lengths
  /\ n \in 0 .. Len(T) /\ message = SubSeq(T, 1, n)
  /\ headers \in Seq(Seq(Word))
  /\ tpc \in Range(Fields) \cup {"split", "parsed", "crashed", "ready", "over"}
  /\ last.null \in BOOLEAN
  /\ DOMAIN request = Range(Fields)
  /\ FieldInv
  /\ SplitInv
  /\ tpc = "over" => Needs > Room

----------------------------------------------------------------------------
(* strstr                                                                  *)

\* Parts of a sequence.
LEMMA Part ==
  ASSUME NEW S, NEW t \in Seq(S), NEW p \in Nat, NEW e \in Nat, p >= 1, e <= Len(t)
  PROVE  /\ SubSeq(t, p, e) \in Seq(S)
         /\ Len(SubSeq(t, p, e)) = IF p <= e THEN e - p + 1 ELSE 0
         /\ \A i \in 1 .. e - p + 1 : SubSeq(t, p, e)[i] = t[p + i - 1]
<1>1. \A i \in p .. e : t[i] \in S
  OBVIOUS
<1> QED
  BY <1>1, SubSeqProperties

LEMMA PartOfPart ==
  ASSUME NEW S, NEW t \in Seq(S), NEW p \in Nat, NEW e \in Nat, p >= 1, e <= Len(t),
         NEW a \in Nat, NEW b \in Nat, a >= 1, b <= Len(SubSeq(t, p, e))
  PROVE  SubSeq(SubSeq(t, p, e), a, b) = SubSeq(t, p + a - 1, p + b - 1)
<1> DEFINE s == SubSeq(t, p, e)
<1>1. /\ s \in Seq(S)
      /\ Len(s) = IF p <= e THEN e - p + 1 ELSE 0
      /\ \A i \in 1 .. e - p + 1 : s[i] = t[p + i - 1]
  BY Part
<1> HIDE DEF s
<1>2. CASE a > b
  <2>1. SubSeq(s, a, b) = <<>> /\ SubSeq(t, p + a - 1, p + b - 1) = <<>>
    BY <1>2, SubSeqEmpty
  <2> QED
    BY <2>1 DEF s
<1>3. CASE a <= b
  <2>1. p <= e /\ p + b - 1 <= e
    BY <1>1, <1>3
  <2>2. /\ SubSeq(s, a, b) \in Seq(S)
        /\ Len(SubSeq(s, a, b)) = b - a + 1
        /\ \A i \in 1 .. b - a + 1 : SubSeq(s, a, b)[i] = s[a + i - 1]
    <3>1. b <= Len(s)
      BY DEF s
    <3>2. /\ SubSeq(s, a, b) \in Seq(S)
          /\ Len(SubSeq(s, a, b)) = IF a <= b THEN b - a + 1 ELSE 0
          /\ \A i \in 1 .. b - a + 1 : SubSeq(s, a, b)[i] = s[a + i - 1]
      <4> s \in Seq(S)
        BY <1>1
      <4> QED
        BY <3>1, Part
    <3> QED
      BY <1>3, <3>2
  <2>3. /\ SubSeq(t, p + a - 1, p + b - 1) \in Seq(S)
        /\ Len(SubSeq(t, p + a - 1, p + b - 1)) = b - a + 1
        /\ \A i \in 1 .. b - a + 1 : SubSeq(t, p + a - 1, p + b - 1)[i] = t[p + a - 1 + i - 1]
    <3> DEFINE x == p + a - 1
               y == p + b - 1
    <3>1. x \in Nat /\ y \in Nat /\ x >= 1 /\ y <= Len(t) /\ x <= y /\ y - x + 1 = b - a + 1
      BY <1>3, <2>1
    <3> HIDE DEF x, y
    <3>2. /\ SubSeq(t, x, y) \in Seq(S)
          /\ Len(SubSeq(t, x, y)) = b - a + 1
          /\ \A i \in 1 .. b - a + 1 : SubSeq(t, x, y)[i] = t[x + i - 1]
      BY <3>1, Part
    <3> QED
      BY <3>2 DEF x, y
  <2>4. \A i \in 1 .. b - a + 1 : SubSeq(s, a, b)[i] = SubSeq(t, p + a - 1, p + b - 1)[i]
    <3> SUFFICES ASSUME NEW i \in 1 .. b - a + 1
                 PROVE  SubSeq(s, a, b)[i] = SubSeq(t, p + a - 1, p + b - 1)[i]
      OBVIOUS
    <3>1. a + i - 1 \in 1 .. e - p + 1
      BY <2>1
    <3>2. s[a + i - 1] = t[p + (a + i - 1) - 1]
      BY <1>1, <3>1
    <3> QED
      BY <2>2, <2>3, <3>2
  <2> QED
    BY <2>2, <2>3, <2>4, SeqEqual DEF s
<1> QED
  BY <1>2, <1>3

\* Whether d stands at i, word for word.
LEMMA OccursAt ==
  ASSUME NEW S, NEW s \in Seq(S), NEW d \in Seq(S), NEW i \in Nat, i >= 1, Len(d) > 0
  PROVE  Occurs(s, d, i) <=>
           i + Len(d) - 1 <= Len(s) /\ \A j \in 1 .. Len(d) : s[i + j - 1] = d[j]
<1>1. CASE i + Len(d) - 1 <= Len(s)
  <2>1. PICK e \in Nat : e = i + Len(d) - 1
    OBVIOUS
  <2>2. /\ SubSeq(s, i, e) \in Seq(S)
        /\ Len(SubSeq(s, i, e)) = Len(d)
        /\ \A j \in 1 .. Len(d) : SubSeq(s, i, e)[j] = s[i + j - 1]
    BY <1>1, <2>1, Part
  <2>3. SubSeq(s, i, e) = d <=> \A j \in 1 .. Len(d) : SubSeq(s, i, e)[j] = d[j]
    BY <2>2, SeqEqual
  <2>4. Occurs(s, d, i) <=> SubSeq(s, i, e) = d
    BY <1>1, <2>1 DEF Occurs
  <2> QED
    BY <1>1, <2>2, <2>3, <2>4
<1>2. CASE ~ (i + Len(d) - 1 <= Len(s))
  BY <1>2 DEF Occurs
<1> QED
  BY <1>1, <1>2

IsThere(s, d, i) ==
  i + Len(d) - 1 <= Len(s) /\ \A j \in 1 .. Len(d) : s[i + j - 1] = d[j]

LEMMA OccursThere ==
  ASSUME NEW S, NEW s \in Seq(S), NEW d \in Seq(S), NEW i \in Nat, i >= 1, Len(d) > 0
  PROVE  Occurs(s, d, i) <=> IsThere(s, d, i)
BY OccursAt DEF IsThere

\* The delimiter stands behind z, and nowhere before from p on; what follows it
\* begins at f.
Delimits(t, d, p, z, f) ==
  /\ t \in Seq(Word) /\ d \in Seq(Word) /\ Len(d) > 0
  /\ p \in Nat /\ z \in Nat /\ f \in Nat /\ p >= 1 /\ p <= z + 1 /\ f = z + 1 + Len(d)
  /\ \A j \in 1 .. Len(d) : t[z + j] = d[j]
  /\ \A i \in p .. z : \E j \in 1 .. Len(d) : t[i + j - 1] # d[j]

IsCut(t, d, p, z, f, e) ==
  /\ f <= e + 1 =>
       /\ Before(SubSeq(t, p, e), d) = SubSeq(t, p, z)
       /\ Following(SubSeq(t, p, e), d) = Rest(SubSeq(t, f, e))
  /\ e + 1 < f => Following(SubSeq(t, p, e), d) = NULL
  /\ e + 1 < f => Before(SubSeq(t, p, e), d) = SubSeq(t, p, e)

\* That is where strstr() finds it.
LEMMA Cut ==
  ASSUME NEW t, NEW d, NEW p, NEW z, NEW f, Delimits(t, d, p, z, f),
         NEW e \in Nat, p <= e + 1, e <= Len(t)
  PROVE  IsCut(t, d, p, z, f, e)
<1>1. /\ t \in Seq(Word) /\ d \in Seq(Word) /\ Len(d) > 0
      /\ p \in Nat /\ z \in Nat /\ f \in Nat /\ p >= 1 /\ p <= z + 1 /\ f = z + 1 + Len(d)
      /\ \A j \in 1 .. Len(d) : t[z + j] = d[j]
      /\ \A i \in p .. z : \E j \in 1 .. Len(d) : t[i + j - 1] # d[j]
  BY DEF Delimits
<1>2. PICK q \in Nat : q = z + 1
  BY <1>1
<1>3. q - 1 = z /\ q + Len(d) = f /\ q + Len(d) - 1 = f - 1
  BY <1>1, <1>2
<1>4. \A j \in 1 .. Len(d) : t[q + j - 1] = d[j]
  <2>1. ASSUME NEW j \in 1 .. Len(d)
        PROVE  q + j - 1 = z + j
    BY <1>1, <1>2
  <2> QED
    BY <1>1, <2>1
<1>5. \A i \in p .. q - 1 : \E j \in 1 .. Len(d) : t[i + j - 1] # d[j]
  BY <1>1, <1>3
<1>6. (f <= e + 1 <=> q + Len(d) - 1 <= e) /\ (e + 1 < f <=> ~ (q + Len(d) - 1 <= e))
  BY <1>1, <1>3
<1> SUFFICES ASSUME t \in Seq(Word), d \in Seq(Word), Len(d) > 0,
                    p \in Nat, p >= 1, p <= q, p - 1 <= e,
                    \A j \in 1 .. Len(d) : t[q + j - 1] = d[j],
                    \A i \in p .. q - 1 : \E j \in 1 .. Len(d) : t[i + j - 1] # d[j]
             PROVE  /\ q + Len(d) - 1 <= e =>
                         /\ Before(SubSeq(t, p, e), d) = SubSeq(t, p, q - 1)
                         /\ Following(SubSeq(t, p, e), d) = Rest(SubSeq(t, q + Len(d), e))
                    /\ ~ (q + Len(d) - 1 <= e) =>
                         /\ Before(SubSeq(t, p, e), d) = SubSeq(t, p, e)
                         /\ Following(SubSeq(t, p, e), d) = NULL
  <2>1. p <= q /\ p - 1 <= e
    BY <1>1, <1>2
  <2> QED
    BY <1>1, <1>3, <1>4, <1>5, <1>6, <2>1 DEF IsCut
<1> DEFINE s == SubSeq(t, p, e)
<1>7. PICK w \in Nat : w = q - p + 1 /\ w >= 1
  OBVIOUS
<1>8. PICK m \in Nat : m = Len(d) /\ m > 0
  OBVIOUS
<1>9. /\ s \in Seq(Word)
      /\ Len(s) = e - p + 1
      /\ \A i \in 1 .. e - p + 1 : s[i] = t[p + i - 1]
  BY Part
<1> HIDE DEF s
<1>10. ASSUME NEW i \in Found(s, d)
      PROVE  i \in Nat /\ i >= w /\ i + m - 1 <= Len(s)
  <2>1. i \in 1 .. Len(s) /\ Occurs(s, d, i)
    BY DEF Found
  <2>2. i \in Nat /\ i >= 1
    BY <2>1, <1>9
  <2>3. i + m - 1 <= Len(s) /\ \A j \in 1 .. m : s[i + j - 1] = d[j]
    <3>1. s \in Seq(Word) /\ d \in Seq(Word) /\ i \in Nat /\ i >= 1 /\ Len(d) > 0
      BY <2>2, <1>8, <1>9
    <3>2. Occurs(s, d, i) <=>
            i + Len(d) - 1 <= Len(s) /\ \A j \in 1 .. Len(d) : s[i + j - 1] = d[j]
      BY <3>1, OccursAt
    <3> QED
      BY <2>1, <3>2, <1>8
  <2>4. \A j \in 1 .. m : t[(p + i - 1) + j - 1] = d[j]
    <3> SUFFICES ASSUME NEW j \in 1 .. m
                 PROVE  t[(p + i - 1) + j - 1] = d[j]
      OBVIOUS
    <3>1. i + j - 1 \in 1 .. e - p + 1
      BY <2>2, <2>3, <1>8, <1>9
    <3>2. s[i + j - 1] = t[p + (i + j - 1) - 1]
      BY <3>1, <1>9
    <3>3. p + (i + j - 1) - 1 = (p + i - 1) + j - 1
      BY <2>2
    <3> QED
      BY <2>3, <3>2, <3>3
  <2>5. p + i - 1 \notin p .. q - 1
    BY <2>4, <1>8
  <2> QED
    BY <2>2, <2>3, <2>5, <1>7
<1>11. ASSUME q + m - 1 <= e
      PROVE  /\ Before(s, d) = SubSeq(t, p, q - 1)
             /\ Following(s, d) = Rest(SubSeq(t, q + m, e))
  <2>1. w \in 1 .. Len(s) /\ w + m - 1 <= Len(s)
    BY <1>7, <1>8, <1>9, <1>11
  <2>2. \A j \in 1 .. m : s[w + j - 1] = d[j]
    <3> SUFFICES ASSUME NEW j \in 1 .. m
                 PROVE  s[w + j - 1] = d[j]
      OBVIOUS
    <3>1. w + j - 1 \in 1 .. e - p + 1 /\ p + (w + j - 1) - 1 = q + j - 1
      BY <2>1, <1>7, <1>8, <1>9
    <3>2. s[w + j - 1] = t[q + j - 1]
      BY <3>1, <1>9
    <3> QED
      BY <3>2, <1>8
  <2>3. Occurs(s, d, w)
    BY <2>1, <2>2, <1>7, <1>8, <1>9, OccursAt
  <2>4. w \in Found(s, d)
    BY <2>1, <2>3 DEF Found
  <2>5. First(s, d) = w
    <3>1. \A j \in Found(s, d) : w <= j
      BY <1>10, <1>7
    <3>2. /\ First(s, d) \in Found(s, d)
          /\ \A j \in Found(s, d) : First(s, d) <= j
      BY <2>4, <3>1 DEF First
    <3>3. PICK x : x = First(s, d)
      OBVIOUS
    <3>4. x \in Nat /\ x >= w /\ x <= w
      BY <3>2, <3>3, <2>4, <1>10
    <3> QED
      BY <3>3, <3>4
  <2>6. SubSeq(s, 1, w - 1) = SubSeq(t, p, q - 1)
    <3>1. PICK b \in Nat : b = w - 1
      BY <1>7
    <3>2. SubSeq(SubSeq(t, p, e), 1, b) = SubSeq(t, p + 1 - 1, p + b - 1)
      <4> b <= Len(SubSeq(t, p, e))
        BY <2>1, <3>1, <1>9, <1>8 DEF s
      <4> QED
        BY PartOfPart
    <3>3. p + 1 - 1 = p /\ p + b - 1 = q - 1
      BY <3>1, <1>7
    <3> QED
      BY <3>1, <3>2, <3>3 DEF s
  <2>7. SubSeq(s, w + m, Len(s)) = SubSeq(t, q + m, e)
    <3>1. PICK a \in Nat, b \in Nat : a = w + m /\ b = Len(s) /\ a >= 1
      BY <1>7, <1>9
    <3>2. SubSeq(SubSeq(t, p, e), a, b) = SubSeq(t, p + a - 1, p + b - 1)
      <4> b <= Len(SubSeq(t, p, e))
        BY <3>1, <1>9 DEF s
      <4> QED
        BY <3>1, PartOfPart
    <3>3. p + a - 1 = q + m /\ p + b - 1 = e
      BY <3>1, <1>7, <1>9
    <3> QED
      BY <3>1, <3>2, <3>3 DEF s
  <2>8. Found(s, d) # {}
    BY <2>4
  <2>9. Before(s, d) = SubSeq(s, 1, w - 1)
    BY <2>5, <2>8 DEF Before
  <2>10. Following(s, d) = Rest(SubSeq(s, w + m, Len(s)))
    BY <2>5, <2>8, <1>8 DEF Following, After
  <2> QED
    BY <2>6, <2>7, <2>9, <2>10
<1>12. ASSUME ~ (q + m - 1 <= e)
      PROVE  Before(s, d) = s /\ Following(s, d) = NULL
  <2>1. Found(s, d) = {}
    BY <1>7, <1>8, <1>9, <1>10, <1>12
  <2> QED
    BY <2>1 DEF Before, Following
<1> QED
  BY <1>8, <1>11, <1>12 DEF s

----------------------------------------------------------------------------
(* The text of a request                                                   *)

\* Where the words of a concatenation are.
Joins(c, a, b) ==
  /\ Len(c) = Len(a) + Len(b)
  /\ \A i \in 1 .. Len(a) : c[i] = a[i]
  /\ \A j \in 1 .. Len(b) : c[Len(a) + j] = b[j]

LEMMA Joined ==
  ASSUME NEW S, NEW a \in Seq(S), NEW b \in Seq(S), NEW c, c = a \o b
  PROVE  c \in Seq(S) /\ Joins(c, a, b)
<1>1. /\ c \in Seq(S)
      /\ Len(c) = Len(a) + Len(b)
      /\ \A i \in 1 .. Len(a) + Len(b) :
           c[i] = IF i <= Len(a) THEN a[i] ELSE b[i - Len(a)]
  BY ConcatProperties
<1>2. \A i \in 1 .. Len(a) : c[i] = a[i]
  BY <1>1
<1>3. ASSUME NEW j \in 1 .. Len(b)
      PROVE  c[Len(a) + j] = b[j]
  <2>1. /\ Len(a) + j \in 1 .. Len(a) + Len(b) /\ ~ (Len(a) + j <= Len(a))
        /\ Len(a) + j - Len(a) = j
    OBVIOUS
  <2> QED
    BY <1>1, <2>1
<1> QED
  BY <1>1, <1>2, <1>3 DEF Joins

LEMMA Words ==
  /\ {"GET", "POST", "PUT", "DELETE", "/url", "HTTP/1.1", "Host", "ip", "Content-Type",
      "form", "Content-Length", "n", "q=", "SP", "CR", "LF", ":"} \subseteq Word
  /\ STRING \subseteq Word
BY DEF Word

LEMMA Wider ==
  ASSUME NEW A, NEW B, A \subseteq B, NEW s \in Seq(A)
  PROVE  s \in Seq(B)
OBVIOUS

LEMMA One ==
  ASSUME NEW S, NEW a \in S
  PROVE  <<a>> \in Seq(S) /\ Len(<<a>>) = 1 /\ <<a>>[1] = a
OBVIOUS

LEMMA Two ==
  ASSUME NEW S, NEW a \in S, NEW b \in S
  PROVE  <<a, b>> \in Seq(S) /\ Len(<<a, b>>) = 2 /\ <<a, b>>[1] = a /\ <<a, b>>[2] = b
OBVIOUS

LEMMA LineOf ==
  ASSUME NEW k \in Word, NEW v \in Word
  PROVE  /\ Header(k, v) \in Seq(Word)
         /\ Len(Header(k, v)) = 6
         /\ Header(k, v)[1] = k /\ Header(k, v)[2] = ":" /\ Header(k, v)[3] = "SP"
         /\ Header(k, v)[4] = v /\ Header(k, v)[5] = "CR" /\ Header(k, v)[6] = "LF"
<1>1. PICK kk, colon, vv, crlf :
           kk = <<k>> /\ colon = Colon /\ vv = <<v>> /\ crlf = CrLf
  OBVIOUS
<1>2. /\ colon \in Seq(Word) /\ Len(colon) = 2 /\ colon[1] = ":" /\ colon[2] = "SP"
      /\ crlf \in Seq(Word) /\ Len(crlf) = 2 /\ crlf[1] = "CR" /\ crlf[2] = "LF"
      /\ kk \in Seq(Word) /\ Len(kk) = 1 /\ kk[1] = k
      /\ vv \in Seq(Word) /\ Len(vv) = 1 /\ vv[1] = v
  BY <1>1, Words, Two DEF Colon, CrLf
<1>3. PICK a : a = kk \o colon
  OBVIOUS
<1>4. PICK b : b = a \o vv
  OBVIOUS
<1>5. PICK c : c = b \o crlf
  OBVIOUS
<1>6. a \in Seq(Word) /\ Len(a) = 3 /\ a[1] = k /\ a[2] = ":" /\ a[3] = "SP"
  <2>1. a \in Seq(Word) /\ Joins(a, kk, colon)
    <3> kk \in Seq(Word) /\ colon \in Seq(Word) /\ a = kk \o colon
      BY <1>2, <1>3
    <3> QED
      BY Joined
  <2>2. a[1] = kk[1] /\ a[1 + 1] = colon[1] /\ a[1 + 2] = colon[2]
    BY <2>1, <1>2 DEF Joins
  <2> QED
    BY <2>1, <2>2, <1>2 DEF Joins
<1>7. /\ b \in Seq(Word) /\ Len(b) = 4
      /\ b[1] = k /\ b[2] = ":" /\ b[3] = "SP" /\ b[4] = v
  <2>1. b \in Seq(Word) /\ Joins(b, a, vv)
    <3> a \in Seq(Word) /\ vv \in Seq(Word) /\ b = a \o vv
      BY <1>2, <1>4, <1>6
    <3> QED
      BY Joined
  <2>2. b[3 + 1] = vv[1]
    BY <2>1, <1>2, <1>6 DEF Joins
  <2> QED
    BY <2>1, <2>2, <1>2, <1>6 DEF Joins
<1>8. /\ c \in Seq(Word) /\ Len(c) = 6
      /\ c[1] = k /\ c[2] = ":" /\ c[3] = "SP" /\ c[4] = v /\ c[5] = "CR" /\ c[6] = "LF"
  <2>1. c \in Seq(Word) /\ Joins(c, b, crlf)
    <3> b \in Seq(Word) /\ crlf \in Seq(Word) /\ c = b \o crlf
      BY <1>2, <1>5, <1>7
    <3> QED
      BY Joined
  <2>2. c[4 + 1] = crlf[1] /\ c[4 + 2] = crlf[2]
    BY <2>1, <1>2, <1>7 DEF Joins
  <2> QED
    BY <2>1, <2>2, <1>2, <1>7 DEF Joins
<1>9. Header(k, v) = c
  BY <1>1, <1>3, <1>4, <1>5 DEF Header
<1> QED
  BY <1>8, <1>9

\* The first line of a request.
FirstLine(m) == <<m>> \o Space \o <<"/url">> \o Space \o <<"HTTP/1.1">> \o CrLf

LEMMA FirstLineOf ==
  ASSUME NEW m \in Word, NEW a, a = FirstLine(m)
  PROVE  /\ a \in Seq(Word) /\ Len(a) = 7
         /\ a[1] = m /\ a[2] = "SP" /\ a[3] = "/url" /\ a[4] = "SP" /\ a[5] = "HTTP/1.1"
         /\ a[6] = "CR" /\ a[7] = "LF"
<1>1. PICK mm, space, url, version, crlf :
        /\ mm = <<m>> /\ space = Space /\ url = <<"/url">> /\ version = <<"HTTP/1.1">>
        /\ crlf = CrLf
  OBVIOUS
<1>2. /\ mm \in Seq(Word) /\ Len(mm) = 1 /\ mm[1] = m
      /\ space \in Seq(Word) /\ Len(space) = 1 /\ space[1] = "SP"
      /\ url \in Seq(Word) /\ Len(url) = 1 /\ url[1] = "/url"
      /\ version \in Seq(Word) /\ Len(version) = 1 /\ version[1] = "HTTP/1.1"
      /\ crlf \in Seq(Word) /\ Len(crlf) = 2 /\ crlf[1] = "CR" /\ crlf[2] = "LF"
  BY <1>1, Words, One, Two DEF Space, CrLf
<1>3. PICK b : b = mm \o space
  OBVIOUS
<1>4. PICK c : c = b \o url
  OBVIOUS
<1>5. PICK d : d = c \o space
  OBVIOUS
<1>6. PICK e : e = d \o version
  OBVIOUS
<1>7. a = e \o crlf
  BY <1>1, <1>3, <1>4, <1>5, <1>6 DEF FirstLine
<1>8. b \in Seq(Word) /\ Len(b) = 2 /\ b[1] = m /\ b[2] = "SP"
  <2>1. b \in Seq(Word) /\ Joins(b, mm, space)
    <3> mm \in Seq(Word) /\ space \in Seq(Word) /\ b = mm \o space
      BY <1>2, <1>3
    <3> QED
      BY Joined
  <2>2. b[1] = mm[1] /\ b[1 + 1] = space[1]
    BY <2>1, <1>2 DEF Joins
  <2> QED
    BY <2>1, <2>2, <1>2 DEF Joins
<1>9. c \in Seq(Word) /\ Len(c) = 3 /\ c[1] = m /\ c[2] = "SP" /\ c[3] = "/url"
  <2>1. c \in Seq(Word) /\ Joins(c, b, url)
    <3> b \in Seq(Word) /\ url \in Seq(Word) /\ c = b \o url
      BY <1>2, <1>4, <1>8
    <3> QED
      BY Joined
  <2>2. c[2 + 1] = url[1]
    BY <2>1, <1>2, <1>8 DEF Joins
  <2> QED
    BY <2>1, <2>2, <1>2, <1>8 DEF Joins
<1>10. /\ d \in Seq(Word) /\ Len(d) = 4
       /\ d[1] = m /\ d[2] = "SP" /\ d[3] = "/url" /\ d[4] = "SP"
  <2>1. d \in Seq(Word) /\ Joins(d, c, space)
    <3> c \in Seq(Word) /\ space \in Seq(Word) /\ d = c \o space
      BY <1>2, <1>5, <1>9
    <3> QED
      BY Joined
  <2>2. d[3 + 1] = space[1]
    BY <2>1, <1>2, <1>9 DEF Joins
  <2> QED
    BY <2>1, <2>2, <1>2, <1>9 DEF Joins
<1>11. /\ e \in Seq(Word) /\ Len(e) = 5
       /\ e[1] = m /\ e[2] = "SP" /\ e[3] = "/url" /\ e[4] = "SP" /\ e[5] = "HTTP/1.1"
  <2>1. e \in Seq(Word) /\ Joins(e, d, version)
    <3> d \in Seq(Word) /\ version \in Seq(Word) /\ e = d \o version
      BY <1>2, <1>6, <1>10
    <3> QED
      BY Joined
  <2>2. e[4 + 1] = version[1]
    BY <2>1, <1>2, <1>10 DEF Joins
  <2> QED
    BY <2>1, <2>2, <1>2, <1>10 DEF Joins
<1> QED
  <2>1. a \in Seq(Word) /\ Joins(a, e, crlf)
    <3> e \in Seq(Word) /\ crlf \in Seq(Word) /\ a = e \o crlf
      BY <1>2, <1>7, <1>11
    <3> QED
      BY Joined
  <2>2. a[5 + 1] = crlf[1] /\ a[5 + 2] = crlf[2]
    BY <2>1, <1>2, <1>11 DEF Joins
  <2> QED
    BY <2>1, <2>2, <1>2, <1>11 DEF Joins

\* What stands in a header line, in the first line, and in a longer text.
IsLine(t, i, k, v) ==
  /\ t[6 * i + 2] = k /\ t[6 * i + 3] = ":" /\ t[6 * i + 4] = "SP"
  /\ t[6 * i + 5] = v /\ t[6 * i + 6] = "CR" /\ t[6 * i + 7] = "LF"

IsFirst(t, m) ==
  /\ t[1] = m /\ t[2] = "SP" /\ t[3] = "/url" /\ t[4] = "SP" /\ t[5] = "HTTP/1.1"
  /\ t[6] = "CR" /\ t[7] = "LF"

Longer(c, a) == Len(a) <= Len(c) /\ \A j \in 1 .. Len(a) : c[j] = a[j]

LEMMA LineKept ==
  ASSUME NEW a \in Seq(Word), NEW c, NEW i \in Nat, NEW k, NEW v,
         Longer(c, a), IsLine(a, i, k, v), 6 * i + 7 <= Len(a)
  PROVE  IsLine(c, i, k, v)
<1>1. PICK x \in Nat : x = 6 * i /\ x + 7 <= Len(a)
  OBVIOUS
<1>2. /\ c[x + 2] = a[x + 2] /\ c[x + 3] = a[x + 3] /\ c[x + 4] = a[x + 4]
      /\ c[x + 5] = a[x + 5] /\ c[x + 6] = a[x + 6] /\ c[x + 7] = a[x + 7]
  BY <1>1 DEF Longer
<1> QED
  BY <1>1, <1>2 DEF IsLine

LEMMA FirstKept ==
  ASSUME NEW a \in Seq(Word), NEW c, NEW m, Longer(c, a), IsFirst(a, m), 7 <= Len(a)
  PROVE  IsFirst(c, m)
BY DEF Longer, IsFirst

\* A text with a header line, and with the last line end, behind it.
WithLine(a, k, v) == a \o Header(k, v)
Lengthened(c, a, i, k, v) ==
  c \in Seq(Word) /\ Len(c) = 6 * i + 7 /\ IsLine(c, i, k, v) /\ Longer(c, a)

LEMMA LineBehind ==
  ASSUME NEW a \in Seq(Word), NEW k \in Word, NEW v \in Word, NEW i \in Nat,
         Len(a) = 6 * i + 1
  PROVE  Lengthened(WithLine(a, k, v), a, i, k, v)
<1> DEFINE c == WithLine(a, k, v)
<1>1. PICK b : b = Header(k, v)
  OBVIOUS
<1>2. /\ b \in Seq(Word) /\ Len(b) = 6
      /\ b[1] = k /\ b[2] = ":" /\ b[3] = "SP" /\ b[4] = v /\ b[5] = "CR" /\ b[6] = "LF"
  BY <1>1, LineOf
<1>3. c \in Seq(Word) /\ Joins(c, a, b)
  <2> a \in Seq(Word) /\ b \in Seq(Word) /\ c = a \o b
    BY <1>1, <1>2 DEF WithLine
  <2> QED
    BY Joined
<1>4. PICK x \in Nat : x = 6 * i
  OBVIOUS
<1>5. /\ c[x + 1 + 1] = b[1] /\ c[x + 1 + 2] = b[2] /\ c[x + 1 + 3] = b[3]
      /\ c[x + 1 + 4] = b[4] /\ c[x + 1 + 5] = b[5] /\ c[x + 1 + 6] = b[6]
  BY <1>2, <1>3, <1>4 DEF Joins
<1>6. IsLine(c, i, k, v)
  <2>1. /\ x + 1 + 1 = 6 * i + 2 /\ x + 1 + 2 = 6 * i + 3 /\ x + 1 + 3 = 6 * i + 4
        /\ x + 1 + 4 = 6 * i + 5 /\ x + 1 + 5 = 6 * i + 6 /\ x + 1 + 6 = 6 * i + 7
    BY <1>4
  <2>2. /\ c[6 * i + 2] = b[1] /\ c[6 * i + 3] = b[2] /\ c[6 * i + 4] = b[3]
        /\ c[6 * i + 5] = b[4] /\ c[6 * i + 6] = b[5] /\ c[6 * i + 7] = b[6]
    BY <1>5, <2>1, Zenon
  <2> QED
    BY <1>2, <2>2 DEF IsLine
<1>7. Len(c) = 6 * i + 7 /\ Longer(c, a)
  BY <1>2, <1>3 DEF Joins, Longer
<1> QED
  BY <1>3, <1>6, <1>7 DEF Lengthened

LEMMA EndBehind ==
  ASSUME NEW a \in Seq(Word), NEW c, c = a \o CrLf
  PROVE  /\ c \in Seq(Word) /\ Len(c) = Len(a) + 2 /\ Longer(c, a)
         /\ c[Len(a) + 1] = "CR" /\ c[Len(a) + 2] = "LF"
<1>1. PICK b : b = CrLf
  OBVIOUS
<1>2. b \in Seq(Word) /\ Len(b) = 2 /\ b[1] = "CR" /\ b[2] = "LF"
  BY <1>1, Words, Two DEF CrLf
<1>3. c \in Seq(Word) /\ Joins(c, a, b)
  <2> a \in Seq(Word) /\ b \in Seq(Word) /\ c = a \o b
    BY <1>1, <1>2
  <2> QED
    BY Joined
<1> QED
  BY <1>2, <1>3 DEF Joins, Longer

\* A first line and the first i header lines.
IsLines(t, m, i, keys, values) ==
  /\ t \in Seq(Word) /\ Len(t) = 6 * i + 7
  /\ IsFirst(t, m)
  /\ \A j \in 1 .. i : IsLine(t, j, keys[j], values[j])

LEMMA LineAdded ==
  ASSUME NEW a, NEW m, NEW i \in Nat, NEW keys, NEW values, IsLines(a, m, i, keys, values),
         NEW k \in Word, NEW v \in Word, keys[i + 1] = k, values[i + 1] = v,
         NEW c, c = WithLine(a, k, v)
  PROVE  IsLines(c, m, i + 1, keys, values)
<1>1. PICK e \in Nat : e = i + 1
  OBVIOUS
<1>2. a \in Seq(Word) /\ Len(a) = 6 * e + 1
  BY <1>1 DEF IsLines
<1>3. c \in Seq(Word) /\ Len(c) = 6 * e + 7 /\ IsLine(c, e, k, v) /\ Longer(c, a)
  <2> Lengthened(c, a, e, k, v)
    BY <1>2, LineBehind
  <2> QED
    BY DEF Lengthened
<1>4. IsFirst(c, m)
  <2> IsFirst(a, m) /\ 7 <= Len(a)
    BY <1>1, <1>2 DEF IsLines
  <2> QED
    BY <1>2, <1>3, FirstKept
<1>5. ASSUME NEW j \in 1 .. e
      PROVE  IsLine(c, j, keys[j], values[j])
  <2>1. CASE j = e
    BY <1>1, <1>3, <2>1
  <2>2. CASE j # e
    <3>1. j \in Nat /\ j \in 1 .. i /\ 6 * j + 7 <= Len(a)
      BY <1>1, <1>2, <2>2
    <3>2. IsLine(a, j, keys[j], values[j])
      BY <3>1 DEF IsLines
    <3> QED
      BY <1>2, <1>3, <3>1, <3>2, LineKept
  <2> QED
    BY <2>1, <2>2
<1>6. IsLines(c, m, e, keys, values)
  BY <1>3, <1>4, <1>5 DEF IsLines
<1> QED
  BY <1>1, <1>6

IsHeader(t, m, i, keys, values) ==
  /\ IsFirst(t, m)
  /\ \A j \in 1 .. i : IsLine(t, j, keys[j], values[j])
  /\ t[6 * i + 8] = "CR" /\ t[6 * i + 9] = "LF"

LEMMA EndAdded ==
  ASSUME NEW a, NEW m, NEW i \in Nat, NEW keys, NEW values, IsLines(a, m, i, keys, values),
         NEW c, c = a \o CrLf
  PROVE  c \in Seq(Word) /\ Len(c) = 6 * i + 9 /\ IsHeader(c, m, i, keys, values)
<1>1. a \in Seq(Word) /\ Len(a) = 6 * i + 7 /\ IsFirst(a, m)
  BY DEF IsLines
<1>2. /\ c \in Seq(Word) /\ Len(c) = Len(a) + 2 /\ Longer(c, a)
      /\ c[Len(a) + 1] = "CR" /\ c[Len(a) + 2] = "LF"
  BY <1>1, EndBehind
<1>3. IsFirst(c, m)
  <2> 7 <= Len(a)
    BY <1>1
  <2> QED
    BY <1>1, <1>2, FirstKept
<1>4. ASSUME NEW j \in 1 .. i
      PROVE  IsLine(c, j, keys[j], values[j])
  <2>1. j \in Nat /\ 6 * j + 7 <= Len(a)
    BY <1>1
  <2>2. IsLine(a, j, keys[j], values[j])
    BY DEF IsLines
  <2> QED
    BY <1>1, <1>2, <2>1, <2>2, LineKept
<1>5. Len(a) + 1 = 6 * i + 8 /\ Len(a) + 2 = 6 * i + 9
  BY <1>1
<1> QED
  BY <1>1, <1>2, <1>3, <1>4, <1>5 DEF IsHeader

\* What stands where in the header of a request, or in what is longer.
Shape(t, r) == IsHeader(t, Method(r), Count(r), Keys(r), Values(r))

LEMMA HeaderShape ==
  ASSUME NEW r \in Asked
  PROVE  /\ HeaderText(r) \in Seq(Word)
         /\ Len(HeaderText(r)) = End(r)
         /\ Shape(HeaderText(r), r)
         /\ Count(r) \in 1 .. 3
<1>1. r.op \in {"GET", "POST", "SEARCH", "PUT", "DELETE"}
  BY TextAssumption
<1>2. PICK m \in Word : m = Method(r)
  BY <1>1, Words DEF Method
<1> DEFINE A == FirstLine(Method(r))
           B == A \o Header("Host", "ip")
           C == B \o (IF r.op = "SEARCH" THEN Header("Content-Type", "form") ELSE <<>>)
           D == C \o (IF HasBody(r) THEN Header("Content-Length", "n") ELSE <<>>)
           E == D \o CrLf
<1>3. HeaderText(r) = E
  BY DEF HeaderText, FirstLine
<1>4. PICK a, b, c, d, t : a = A /\ b = B /\ c = C /\ d = D /\ t = E
  OBVIOUS
<1>5. /\ b = WithLine(a, "Host", "ip")
      /\ c = IF r.op = "SEARCH" THEN WithLine(b, "Content-Type", "form") ELSE b \o <<>>
      /\ d = IF HasBody(r) THEN WithLine(c, "Content-Length", "n") ELSE c \o <<>>
      /\ t = d \o CrLf
      /\ t = HeaderText(r)
  BY <1>3, <1>4 DEF WithLine
<1>6. PICK keys, values : keys = Keys(r) /\ values = Values(r)
  OBVIOUS
<1>7. a \in Seq(Word) /\ Len(a) = 7 /\ IsFirst(a, m)
  <2>1. a = FirstLine(m)
    BY <1>2, <1>4
  <2> HIDE DEF A
  <2> QED
    BY <1>2, <2>1, FirstLineOf DEF IsFirst
<1> HIDE DEF A, B, C, D, E
<1>8. IsLines(a, m, 0, keys, values)
  BY <1>7 DEF IsLines
<1>9. keys[1] = "Host" /\ values[1] = "ip"
  BY <1>6 DEF Keys, Values
<1>10. PICK z \in Nat : z = 0
  OBVIOUS
<1>11. IsLines(b, m, 1, keys, values) /\ b \in Seq(Word)
  <2>1. keys[z + 1] = "Host" /\ values[z + 1] = "ip" /\ IsLines(a, m, z, keys, values)
    BY <1>8, <1>9, <1>10
  <2>2. "Host" \in Word /\ "ip" \in Word
    BY Words
  <2>3. IsLines(b, m, z + 1, keys, values)
    BY <1>5, <2>1, <2>2, LineAdded
  <2> QED
    BY <2>3, <1>10 DEF IsLines
<1>12. ASSUME NEW i \in Nat, i = Len(keys), i \in 1 .. 3, IsLines(d, m, i, keys, values)
       PROVE  /\ HeaderText(r) \in Seq(Word)
              /\ Len(HeaderText(r)) = End(r)
              /\ Shape(HeaderText(r), r)
              /\ Count(r) \in 1 .. 3
  <2>1. Count(r) = i /\ End(r) = 6 * i + 9 /\ End(r) - 1 = 6 * i + 8
    BY <1>6, <1>12 DEF Count, End
  <2>2. t \in Seq(Word) /\ Len(t) = 6 * i + 9 /\ IsHeader(t, m, i, keys, values)
    BY <1>5, <1>12, EndAdded
  <2> QED
    BY <1>2, <1>5, <1>6, <1>12, <2>1, <2>2 DEF Shape
<1>13. CASE r.op \in {"GET", "DELETE"}
  <2>1. d = b
    BY <1>5, <1>11, <1>13, ConcatEmptySeq DEF HasBody
  <2>2. Len(keys) = 1
    BY <1>6, <1>13 DEF Keys, HasBody
  <2> QED
    BY <1>11, <1>12, <2>1, <2>2
<1>14. CASE r.op \in {"POST", "PUT"}
  <2>1. c = b /\ d = WithLine(c, "Content-Length", "n")
    BY <1>5, <1>11, <1>14, ConcatEmptySeq DEF HasBody
  <2>2. Len(keys) = 2 /\ keys[2] = "Content-Length" /\ values[2] = "n"
    BY <1>6, <1>14 DEF Keys, Values, HasBody
  <2>3. PICK i \in Nat : i = 1
    OBVIOUS
  <2>4. keys[i + 1] = "Content-Length" /\ values[i + 1] = "n"
    BY <2>2, <2>3
  <2>5. IsLines(d, m, i + 1, keys, values)
    BY <1>11, <2>1, <2>3, <2>4, Words, LineAdded
  <2> QED
    BY <1>12, <2>2, <2>3, <2>5
<1>15. CASE r.op = "SEARCH"
  <2>1. c = WithLine(b, "Content-Type", "form") /\ d = WithLine(c, "Content-Length", "n")
    BY <1>5, <1>15 DEF HasBody
  <2>2. /\ Len(keys) = 3 /\ keys[2] = "Content-Type" /\ values[2] = "form"
        /\ keys[3] = "Content-Length" /\ values[3] = "n"
    BY <1>6, <1>15 DEF Keys, Values
  <2>3. PICK i \in Nat, j \in Nat : i = 1 /\ j = i + 1
    OBVIOUS
  <2>4. /\ keys[i + 1] = "Content-Type" /\ values[i + 1] = "form"
        /\ keys[j + 1] = "Content-Length" /\ values[j + 1] = "n"
    BY <2>2, <2>3
  <2>5. IsLines(c, m, j, keys, values)
    BY <1>11, <2>1, <2>3, <2>4, Words, LineAdded
  <2>6. IsLines(d, m, j + 1, keys, values)
    BY <2>1, <2>4, <2>5, Words, LineAdded
  <2> QED
    BY <1>12, <2>2, <2>3, <2>6
<1> QED
  BY <1>1, <1>13, <1>14, <1>15

LEMMA ShapeKept ==
  ASSUME NEW r \in Asked, NEW a \in Seq(Word), NEW c, Longer(c, a), Shape(a, r),
         End(r) <= Len(a), Count(r) \in 1 .. 3
  PROVE  Shape(c, r)
<1>1. PICK i \in Nat : i = Count(r) /\ i \in 1 .. 3
  OBVIOUS
<1>2. 6 * i + 9 <= Len(a)
  BY <1>1 DEF End
<1>3. IsHeader(a, Method(r), i, Keys(r), Values(r))
  BY <1>1 DEF Shape
<1>4. IsFirst(c, Method(r))
  BY <1>1, <1>2, <1>3, FirstKept DEF IsHeader
<1>5. ASSUME NEW j \in 1 .. i
      PROVE  IsLine(c, j, Keys(r)[j], Values(r)[j])
  <2>1. j \in Nat /\ 6 * j + 7 <= Len(a)
    BY <1>1, <1>2
  <2>2. IsLine(a, j, Keys(r)[j], Values(r)[j])
    BY <1>3 DEF IsHeader
  <2> QED
    BY <2>1, <2>2, LineKept
<1>6. c[6 * i + 8] = "CR" /\ c[6 * i + 9] = "LF"
  <2>1. PICK x \in Nat : x = 6 * i /\ x + 9 <= Len(a)
    BY <1>2
  <2>2. a[x + 8] = "CR" /\ a[x + 9] = "LF"
    BY <1>3, <2>1 DEF IsHeader
  <2>3. c[x + 8] = a[x + 8] /\ c[x + 9] = a[x + 9]
    BY <2>1 DEF Longer
  <2> QED
    BY <2>1, <2>2, <2>3
<1> QED
  BY <1>1, <1>4, <1>5, <1>6 DEF Shape, IsHeader

\* What stands in a request: its header, and its body with a line end.
LEMMA TextShape ==
  ASSUME NEW r \in Asked
  PROVE  /\ Text(r) \in Seq(Word)
         /\ Shape(Text(r), r)
         /\ Count(r) \in 1 .. 3
         /\ ~ HasBody(r) => Len(Text(r)) = End(r)
         /\ HasBody(r) =>
              /\ r.body \in Seq(Word)
              /\ Len(Text(r)) = End(r) + Len(r.body \o CrLf)
              /\ r.body \o CrLf \in Seq(Word)
              /\ SubSeq(Text(r), End(r) + 1, Len(Text(r))) = r.body \o CrLf
              /\ \A j \in 1 .. Len(r.body \o CrLf) :
                   Text(r)[End(r) + j] = (r.body \o CrLf)[j]
<1>1. PICK a : a = HeaderText(r)
  OBVIOUS
<1>2. /\ a \in Seq(Word) /\ Len(a) = End(r) /\ Shape(a, r) /\ Count(r) \in 1 .. 3
  BY <1>1, HeaderShape
<1>3. CASE ~ HasBody(r)
  <2>1. Text(r) = a
    BY <1>1, <1>2, <1>3, ConcatEmptySeq DEF Text
  <2> QED
    BY <1>2, <1>3, <2>1
<1>4. CASE HasBody(r)
  <2>1. PICK body : body = r.body
    OBVIOUS
  <2>2. body \in Seq(Word)
    <3>1. body \in Seq(STRING)
      BY <2>1, TextAssumption
    <3> QED
      BY <3>1, Words, Wider
  <2>3. PICK b : b = body \o CrLf
    OBVIOUS
  <2>4. b \in Seq(Word)
    BY <2>2, <2>3, EndBehind
  <2>5. PICK t : t = Text(r)
    OBVIOUS
  <2>6. t = a \o b
    BY <1>1, <1>4, <2>1, <2>3, <2>5 DEF Text
  <2>7. t \in Seq(Word) /\ Joins(t, a, b)
    BY <1>2, <2>4, <2>6, Joined
  <2>8. Longer(t, a)
    BY <1>2, <2>4, <2>7 DEF Joins, Longer
  <2>9. Shape(t, r)
    BY <1>2, <2>8, ShapeKept
  <2>10. Len(t) = End(r) + Len(b) /\ \A j \in 1 .. Len(b) : t[End(r) + j] = b[j]
    BY <1>2, <2>7 DEF Joins
  <2>11. SubSeq(t, End(r) + 1, Len(t)) = b
    <3>1. PICK p \in Nat, e \in Nat :
            p = End(r) + 1 /\ e = Len(t) /\ p >= 1 /\ e - p + 1 = Len(b) /\ p <= e + 1
      BY <1>2, <2>4, <2>7, <2>10 DEF End
    <3>2. /\ SubSeq(t, p, e) \in Seq(Word)
          /\ Len(SubSeq(t, p, e)) = IF p <= e THEN e - p + 1 ELSE 0
          /\ \A i \in 1 .. e - p + 1 : SubSeq(t, p, e)[i] = t[p + i - 1]
      BY <2>7, <3>1, Part
    <3>3. Len(SubSeq(t, p, e)) = Len(b)
      BY <3>1, <3>2
    <3>4. ASSUME NEW i \in 1 .. Len(b)
          PROVE  SubSeq(t, p, e)[i] = b[i]
      <4>1. SubSeq(t, p, e)[i] = t[p + i - 1]
        BY <3>1, <3>2
      <4>2. p + i - 1 = End(r) + i
        BY <1>2, <3>1
      <4> QED
        BY <2>10, <4>1, <4>2
    <3> QED
      BY <2>4, <3>1, <3>2, <3>3, <3>4, SeqEqual
  <2> QED
    BY <1>2, <1>4, <2>1, <2>2, <2>3, <2>4, <2>5, <2>7, <2>9, <2>10, <2>11
<1> QED
  BY <1>3, <1>4

\* No word of a header line is a part of a line end or of a delimiter.
LEMMA Plain ==
  ASSUME NEW r \in Asked, NEW j \in 1 .. Count(r)
  PROVE  /\ Keys(r)[j] \in Word \ {"SP", "CR", "LF", ":"}
         /\ Values(r)[j] \in Word \ {"SP", "CR", "LF", ":"}
         /\ Keys(r)[j] = "Content-Type" <=> (j = 2 /\ r.op = "SEARCH")
         /\ r.op = "SEARCH" => Count(r) = 3 /\ Keys(r)[2] = "Content-Type" /\ Values(r)[2] = "form"
<1>1. CASE r.op = "SEARCH"
  <2>1. /\ Keys(r) = <<"Host", "Content-Type", "Content-Length">>
        /\ Values(r) = <<"ip", "form", "n">>
    BY <1>1 DEF Keys, Values
  <2>2. Count(r) = 3
    BY <2>1 DEF Count
  <2>3. j = 1 \/ j = 2 \/ j = 3
    BY <2>2
  <2> QED
    BY <1>1, <2>1, <2>2, <2>3, Words
<1>2. CASE r.op # "SEARCH" /\ HasBody(r)
  <2>1. /\ Keys(r) = <<"Host", "Content-Length">>
        /\ Values(r) = <<"ip", "n">>
    BY <1>2 DEF Keys, Values
  <2>2. Count(r) = 2
    BY <2>1 DEF Count
  <2>3. j = 1 \/ j = 2
    BY <2>2
  <2> QED
    BY <1>2, <2>1, <2>2, <2>3, Words
<1>3. CASE r.op # "SEARCH" /\ ~ HasBody(r)
  <2>1. Keys(r) = <<"Host">> /\ Values(r) = <<"ip">>
    BY <1>3 DEF Keys, Values
  <2>2. Count(r) = 1
    BY <2>1 DEF Count
  <2>3. j = 1
    BY <2>2
  <2> QED
    BY <1>3, <2>1, <2>3, Words
<1> QED
  BY <1>1, <1>2, <1>3

----------------------------------------------------------------------------
(* What is found in the text of a request                                  *)

LEMMA Delimiters ==
  /\ Space \in Seq(Word) /\ Len(Space) = 1 /\ Space[1] = "SP"
  /\ CrLf \in Seq(Word) /\ Len(CrLf) = 2 /\ CrLf[1] = "CR" /\ CrLf[2] = "LF"
  /\ Colon \in Seq(Word) /\ Len(Colon) = 2 /\ Colon[1] = ":" /\ Colon[2] = "SP"
  /\ Blank \in Seq(Word) /\ Len(Blank) = 4
  /\ Blank[1] = "CR" /\ Blank[2] = "LF" /\ Blank[3] = "CR" /\ Blank[4] = "LF"
<1>1. /\ Space \in Seq(Word) /\ Len(Space) = 1 /\ Space[1] = "SP"
      /\ CrLf \in Seq(Word) /\ Len(CrLf) = 2 /\ CrLf[1] = "CR" /\ CrLf[2] = "LF"
      /\ Colon \in Seq(Word) /\ Len(Colon) = 2 /\ Colon[1] = ":" /\ Colon[2] = "SP"
  BY Words, One, Two DEF Space, CrLf, Colon
<1>2. PICK c, b : c = CrLf /\ b = c \o c
  OBVIOUS
<1>3. b \in Seq(Word) /\ Joins(b, c, c)
  BY <1>1, <1>2, Joined
<1>4. /\ Len(b) = 4 /\ b[1] = c[1] /\ b[2] = c[2] /\ b[2 + 1] = c[1] /\ b[2 + 2] = c[2]
  <2>1. Len(c) = 2 /\ 1 \in 1 .. 2 /\ 2 \in 1 .. 2
    BY <1>1, <1>2
  <2>2. /\ Len(b) = 2 + 2
        /\ \A i \in 1 .. 2 : b[i] = c[i]
        /\ \A j \in 1 .. 2 : b[2 + j] = c[j]
    BY <1>3, <2>1 DEF Joins
  <2> QED
    BY <2>1, <2>2
<1>5. b = Blank
  BY <1>2 DEF Blank
<1> QED
  BY <1>1, <1>2, <1>3, <1>4, <1>5

\* The first line is cut at its spaces and its end.
LEMMA FirstLineCut ==
  ASSUME NEW r \in Asked
  PROVE  /\ Delimits(Text(r), Space, 1, 1, 3)
         /\ Delimits(Text(r), Space, 3, 3, 5)
         /\ Delimits(Text(r), CrLf, 5, 5, 8)
<1>1. PICK t : t = Text(r)
  OBVIOUS
<1>2. t \in Seq(Word) /\ IsFirst(t, Method(r))
  BY <1>1, TextShape DEF Shape, IsHeader
<1>3. r.op \in {"GET", "POST", "SEARCH", "PUT", "DELETE"}
  BY TextAssumption
<1>4. /\ t[1] # "SP" /\ t[2] = "SP" /\ t[3] # "SP" /\ t[4] = "SP"
      /\ t[5] # "CR" /\ t[6] = "CR" /\ t[7] = "LF"
  BY <1>2, <1>3 DEF IsFirst, Method
<1>5. Delimits(t, Space, 1, 1, 3)
  <2>1. ASSUME NEW i \in 1 .. 1
        PROVE  1 \in 1 .. Len(Space) /\ t[i + 1 - 1] # Space[1]
    BY <1>4, Delimiters
  <2> QED
    BY <1>2, <1>4, <2>1, Delimiters DEF Delimits
<1>6. Delimits(t, Space, 3, 3, 5)
  <2>1. ASSUME NEW i \in 3 .. 3
        PROVE  1 \in 1 .. Len(Space) /\ t[i + 1 - 1] # Space[1]
    BY <1>4, Delimiters
  <2> QED
    BY <1>2, <1>4, <2>1, Delimiters DEF Delimits
<1>7. Delimits(t, CrLf, 5, 5, 8)
  <2>1. ASSUME NEW i \in 5 .. 5
        PROVE  1 \in 1 .. Len(CrLf) /\ t[i + 1 - 1] # CrLf[1]
    BY <1>4, Delimiters
  <2> QED
    BY <1>2, <1>4, <2>1, Delimiters DEF Delimits
<1> QED
  BY <1>1, <1>5, <1>6, <1>7

\* The place of a word in the header lines.
LEMMA Place ==
  ASSUME NEW h \in 1 .. 3, NEW i \in 8 .. 6 * h + 7
  PROVE  \E j \in 1 .. h, k \in 0 .. 5 : i = 6 * j + 2 + k
<1>1. h = 1 \/ h = 2 \/ h = 3
  OBVIOUS
<1>2. CASE i \in 8 .. 13
  <2>1. PICK k \in 0 .. 5 : i = 6 * 1 + 2 + k
    <3> i - 8 \in 0 .. 5 /\ i = 6 * 1 + 2 + (i - 8)
      BY <1>2
    <3> QED
      OBVIOUS
  <2>2. 1 \in 1 .. h
    OBVIOUS
  <2> QED
    BY <2>1, <2>2
<1>3. CASE i \in 14 .. 19
  <2>1. PICK k \in 0 .. 5 : i = 6 * 2 + 2 + k
    <3> i - 14 \in 0 .. 5 /\ i = 6 * 2 + 2 + (i - 14)
      BY <1>3
    <3> QED
      OBVIOUS
  <2>2. 2 \in 1 .. h
    BY <1>1, <1>3
  <2> QED
    BY <2>1, <2>2
<1>4. CASE i \in 20 .. 25
  <2>1. PICK k \in 0 .. 5 : i = 6 * 3 + 2 + k
    <3> i - 20 \in 0 .. 5 /\ i = 6 * 3 + 2 + (i - 20)
      BY <1>4
    <3> QED
      OBVIOUS
  <2>2. 3 \in 1 .. h
    BY <1>1, <1>4
  <2> QED
    BY <2>1, <2>2
<1> QED
  BY <1>1, <1>2, <1>3, <1>4

LEMMA WordsOf ==
  ASSUME NEW r \in Asked, NEW j \in 1 .. Count(r), NEW x \in Nat, x = 6 * j
  PROVE  /\ Text(r)[x + 2] = Keys(r)[j] /\ Text(r)[x + 5] = Values(r)[j]
         /\ Text(r)[x + 2] \notin {"SP", "CR", "LF", ":"}
         /\ Text(r)[x + 5] \notin {"SP", "CR", "LF", ":"}
         /\ Text(r)[x + 3] = ":" /\ Text(r)[x + 4] = "SP"
         /\ Text(r)[x + 6] = "CR" /\ Text(r)[x + 7] = "LF"
<1>1. PICK t : t = Text(r)
  OBVIOUS
<1>2. IsLine(t, j, Keys(r)[j], Values(r)[j])
  BY <1>1, TextShape DEF Shape, IsHeader
<1>3. /\ t[x + 2] = Keys(r)[j] /\ t[x + 3] = ":" /\ t[x + 4] = "SP"
      /\ t[x + 5] = Values(r)[j] /\ t[x + 6] = "CR" /\ t[x + 7] = "LF"
  BY <1>2 DEF IsLine
<1>4. /\ Keys(r)[j] \notin {"SP", "CR", "LF", ":"}
      /\ Values(r)[j] \notin {"SP", "CR", "LF", ":"}
  BY Plain
<1> QED
  BY <1>1, <1>3, <1>4

\* A header line is cut at its end, and at its colon.
LEMMA LineCut ==
  ASSUME NEW r \in Asked, NEW j \in 1 .. Count(r)
  PROVE  /\ Delimits(Text(r), CrLf, 6 * j + 2, 6 * j + 5, 6 * j + 8)
         /\ Delimits(Text(r), Colon, 6 * j + 2, 6 * j + 2, 6 * j + 5)
<1>1. Count(r) \in 1 .. 3 /\ Text(r) \in Seq(Word)
  BY TextShape
<1>2. PICK x \in Nat : x = 6 * j
  BY <1>1
<1>3. PICK t : t = Text(r)
  OBVIOUS
<1>4. /\ t[x + 2] \notin {"SP", "CR", "LF", ":"} /\ t[x + 5] \notin {"SP", "CR", "LF", ":"}
      /\ t[x + 3] = ":" /\ t[x + 4] = "SP" /\ t[x + 6] = "CR" /\ t[x + 7] = "LF"
  BY <1>2, <1>3, WordsOf
<1>5. Delimits(t, CrLf, x + 2, x + 5, x + 8)
  <2>1. ASSUME NEW i \in x + 2 .. x + 5
        PROVE  1 \in 1 .. Len(CrLf) /\ t[i + 1 - 1] # CrLf[1]
    <3>1. i = x + 2 \/ i = x + 3 \/ i = x + 4 \/ i = x + 5
      OBVIOUS
    <3>2. t[i] # "CR"
      BY <1>4, <3>1
    <3> QED
      BY <3>2, Delimiters
  <2>2. t[x + 5 + 1] = "CR" /\ t[x + 5 + 2] = "LF"
    BY <1>4
  <2>3. \A k \in 1 .. Len(CrLf) : t[x + 5 + k] = CrLf[k]
    <3>1. ASSUME NEW k \in 1 .. Len(CrLf)
          PROVE  k = 1 \/ k = 2
      BY Delimiters
    <3> QED
      BY <2>2, <3>1, Delimiters
  <2>4. t \in Seq(Word) /\ CrLf \in Seq(Word) /\ Len(CrLf) > 0
        /\ x + 8 = x + 5 + 1 + Len(CrLf)
    BY <1>1, <1>3, Delimiters
  <2> QED
    BY <2>1, <2>3, <2>4 DEF Delimits
<1>6. Delimits(t, Colon, x + 2, x + 2, x + 5)
  <2>1. ASSUME NEW i \in x + 2 .. x + 2
        PROVE  1 \in 1 .. Len(Colon) /\ t[i + 1 - 1] # Colon[1]
    <3>1. i = x + 2
      OBVIOUS
    <3> QED
      BY <3>1, <1>4, Delimiters
  <2>2. t[x + 2 + 1] = ":" /\ t[x + 2 + 2] = "SP"
    BY <1>4
  <2>3. \A k \in 1 .. Len(Colon) : t[x + 2 + k] = Colon[k]
    <3>1. ASSUME NEW k \in 1 .. Len(Colon)
          PROVE  k = 1 \/ k = 2
      BY Delimiters
    <3> QED
      BY <2>2, <3>1, Delimiters
  <2>4. t \in Seq(Word) /\ Colon \in Seq(Word) /\ Len(Colon) > 0
        /\ x + 5 = x + 2 + 1 + Len(Colon)
    BY <1>1, <1>3, Delimiters
  <2> QED
    BY <2>1, <2>3, <2>4 DEF Delimits
<1> QED
  BY <1>2, <1>3, <1>5, <1>6

\* The header is cut at its end, and at no line end before.
LEMMA HeaderCut ==
  ASSUME NEW r \in Asked
  PROVE  Delimits(Text(r), Blank, 8, End(r) - 4, End(r) + 1)
<1>1. Text(r) \in Seq(Word) /\ Count(r) \in 1 .. 3 /\ Shape(Text(r), r)
  BY TextShape
<1>2. PICK t : t = Text(r)
  OBVIOUS
<1>3. PICK h \in 1 .. 3 : h = Count(r)
  BY <1>1
<1>4. PICK y \in Nat : y = 6 * h
  OBVIOUS
<1>5. End(r) = y + 9 /\ End(r) - 4 = y + 5 /\ End(r) + 1 = y + 10
  BY <1>3, <1>4 DEF End
<1>6. t[y + 6] = "CR" /\ t[y + 7] = "LF"
  BY <1>2, <1>3, <1>4, WordsOf
<1>7. t[y + 8] = "CR" /\ t[y + 9] = "LF"
  BY <1>1, <1>2, <1>3, <1>4 DEF Shape, IsHeader
<1>8. ASSUME NEW i \in 8 .. y + 5
      PROVE  t[i] # "CR" \/ t[i + 2] # "CR"
  <2>1. PICK j \in 1 .. h, k \in 0 .. 5 : i = 6 * j + 2 + k
    <3> i \in 8 .. 6 * h + 7
      BY <1>4
    <3> QED
      BY Place
  <2>2. PICK x \in Nat : x = 6 * j
    OBVIOUS
  <2>3. /\ t[x + 2] \notin {"SP", "CR", "LF", ":"} /\ t[x + 5] \notin {"SP", "CR", "LF", ":"}
        /\ t[x + 3] = ":" /\ t[x + 4] = "SP" /\ t[x + 6] = "CR" /\ t[x + 7] = "LF"
    BY <1>2, <1>3, <2>2, WordsOf
  <2>4. i = x + 2 \/ i = x + 3 \/ i = x + 4 \/ i = x + 5 \/ i = x + 6 \/ i = x + 7
    BY <2>1, <2>2
  <2>5. CASE i = x + 6
    <3>1. j # h
      BY <1>4, <2>2, <2>5
    <3>2. PICK l \in 1 .. h : l = j + 1
      BY <3>1
    <3>3. PICK u \in Nat : u = 6 * l /\ i + 2 = u + 2
      BY <2>2, <2>5, <3>2
    <3>4. t[u + 2] \notin {"SP", "CR", "LF", ":"}
      BY <1>2, <1>3, <3>3, WordsOf
    <3> QED
      BY <3>3, <3>4
  <2> QED
    BY <2>3, <2>4, <2>5
<1>9. \A i \in 8 .. y + 5 : \E k \in 1 .. Len(Blank) : t[i + k - 1] # Blank[k]
  <2> SUFFICES ASSUME NEW i \in 8 .. y + 5
               PROVE  \E k \in 1 .. Len(Blank) : t[i + k - 1] # Blank[k]
    OBVIOUS
  <2>1. CASE t[i] # "CR"
    <3>1. 1 \in 1 .. Len(Blank) /\ t[i + 1 - 1] # Blank[1]
      BY <2>1, Delimiters
    <3> QED
      BY <3>1
  <2>2. CASE t[i + 2] # "CR"
    <3>1. 3 \in 1 .. Len(Blank) /\ t[i + 3 - 1] # Blank[3]
      <4> i + 3 - 1 = i + 2
        OBVIOUS
      <4> QED
        BY <2>2, Delimiters
    <3> QED
      BY <3>1
  <2> QED
    BY <1>8, <2>1, <2>2
<1>10. \A k \in 1 .. Len(Blank) : t[y + 5 + k] = Blank[k]
  <2>1. ASSUME NEW k \in 1 .. Len(Blank)
        PROVE  k = 1 \/ k = 2 \/ k = 3 \/ k = 4
    BY Delimiters
  <2>2. t[y + 5 + 1] = "CR" /\ t[y + 5 + 2] = "LF" /\ t[y + 5 + 3] = "CR" /\ t[y + 5 + 4] = "LF"
    BY <1>6, <1>7
  <2> QED
    BY <2>1, <2>2, Delimiters
<1>11. Delimits(t, Blank, 8, y + 5, y + 10)
  <2>1. PICK z \in Nat, f \in Nat : z = y + 5 /\ f = y + 10
    OBVIOUS
  <2>2. /\ t \in Seq(Word) /\ Blank \in Seq(Word) /\ Len(Blank) > 0
        /\ f = z + 1 + Len(Blank) /\ 8 <= z + 1 /\ 8 \in Nat /\ 8 >= 1
        /\ z \in Nat /\ f \in Nat
    BY <1>1, <1>2, <1>4, <2>1, Delimiters
  <2>3. /\ \A k \in 1 .. Len(Blank) : t[z + k] = Blank[k]
        /\ \A i \in 8 .. z : \E k \in 1 .. Len(Blank) : t[i + k - 1] # Blank[k]
    BY <1>9, <1>10, <2>1
  <2>4. Delimits(t, Blank, 8, z, f)
    BY <2>2, <2>3, Zenon DEF Delimits
  <2> QED
    BY <2>1, <2>4
<1> QED
  BY <1>2, <1>5, <1>11

----------------------------------------------------------------------------
(* The body                                                                *)

LEMMA OneWord ==
  ASSUME NEW t \in Seq(Word), NEW p \in 1 .. Len(t)
  PROVE  SubSeq(t, p, p) = <<t[p]>>
<1>1. PICK x \in Word : x = t[p]
  OBVIOUS
<1>2. PICK s : s = <<x>>
  OBVIOUS
<1>3. s \in Seq(Word) /\ Len(s) = 1 /\ s[1] = x
  BY <1>2, One
<1>4. /\ SubSeq(t, p, p) \in Seq(Word)
      /\ Len(SubSeq(t, p, p)) = IF p <= p THEN p - p + 1 ELSE 0
      /\ \A i \in 1 .. p - p + 1 : SubSeq(t, p, p)[i] = t[p + i - 1]
  <2> p \in Nat /\ p >= 1 /\ p <= Len(t)
    OBVIOUS
  <2> QED
    BY Part
<1>5. p - p + 1 = 1 /\ p + 1 - 1 = p
  OBVIOUS
<1>6. Len(SubSeq(t, p, p)) = 1 /\ SubSeq(t, p, p)[1] = x
  BY <1>1, <1>4, <1>5
<1>7. SubSeq(t, p, p) = s
  <2> \A i \in 1 .. Len(s) : SubSeq(t, p, p)[i] = s[i]
    BY <1>3, <1>6
  <2> QED
    BY <1>3, <1>4, <1>6, SeqEqual
<1> QED
  BY <1>1, <1>2, <1>7

LEMMA PrefixOf ==
  ASSUME NEW t \in Seq(Word), NEW a \in Nat, NEW b \in Nat, a <= b, b <= Len(t)
  PROVE  IsPrefix(SubSeq(t, 1, a), SubSeq(t, 1, b))
<1>1. Len(SubSeq(t, 1, a)) = a /\ Len(SubSeq(t, 1, b)) = b
  BY Part
<1>2. SubSeq(SubSeq(t, 1, a), 1, a) = SubSeq(t, 1 + 1 - 1, 1 + a - 1)
  <2> a <= Len(SubSeq(t, 1, a)) /\ a <= Len(t)
    BY <1>1
  <2> QED
    BY PartOfPart
<1>3. SubSeq(SubSeq(t, 1, b), 1, a) = SubSeq(t, 1 + 1 - 1, 1 + a - 1)
  <2> a <= Len(SubSeq(t, 1, b))
    BY <1>1
  <2> QED
    BY PartOfPart
<1> QED
  BY <1>1, <1>2, <1>3 DEF IsPrefix

LEMMA Least ==
  ASSUME NEW F, F \subseteq Nat, NEW l \in F
  PROVE  \E x \in F : \A j \in F : x <= j
<1> DEFINE R == {p \in Nat \X Nat : p[1] < p[2]}
<1>1. IsWellFoundedOn(R, Nat)
  BY NatLessThanWellFounded DEF OpToRel
<1> HIDE DEF R
<1>2. PICK x \in F : \A y \in F : ~ (<<y, x>> \in R)
  BY <1>1, WFMin
<1>3. ASSUME NEW j \in F
      PROVE  x <= j
  <2>1. j \in Nat /\ x \in Nat
    OBVIOUS
  <2>2. ~ (j < x)
    <3>1. ~ (<<j, x>> \in R)
      BY <1>2
    <3> QED
      BY <2>1, <3>1 DEF R
  <2> QED
    BY <2>1, <2>2
<1> QED
  BY <1>3

\* The first line end of a body with a line end behind it.
LEMMA BodyEnd ==
  ASSUME NEW body \in Seq(Word), NEW b, b = body \o CrLf
  PROVE  \E z \in Nat :
           /\ b \in Seq(Word) /\ z + 2 <= Len(b) /\ b[z + 1] = "CR"
           /\ Delimits(b, CrLf, 1, z, z + 3)
           /\ Bodied(body) = SubSeq(b, 1, z)
<1>1. /\ b \in Seq(Word) /\ Len(b) = Len(body) + 2
      /\ b[Len(body) + 1] = "CR" /\ b[Len(body) + 2] = "LF"
  BY EndBehind
<1>2. PICK c : c = CrLf
  OBVIOUS
<1>3. c \in Seq(Word) /\ Len(c) = 2 /\ c[1] = "CR" /\ c[2] = "LF"
  BY <1>2, Delimiters
<1>4. ASSUME NEW i \in Nat, i >= 1
      PROVE  Occurs(b, c, i) <=> i + 1 <= Len(b) /\ b[i] = "CR" /\ b[i + 1] = "LF"
  <2>1. Occurs(b, c, i) <=>
          i + Len(c) - 1 <= Len(b) /\ \A j \in 1 .. Len(c) : b[i + j - 1] = c[j]
    <3>1. b \in Seq(Word) /\ c \in Seq(Word) /\ i \in Nat /\ i >= 1 /\ Len(c) > 0
      BY <1>1, <1>3, <1>4
    <3> QED
      <4> Occurs(b, c, i) <=> IsThere(b, c, i)
        BY <3>1, OccursThere
      <4> QED
        BY DEF IsThere
  <2>2. i + Len(c) - 1 = i + 1 /\ i + 1 - 1 = i /\ i + 2 - 1 = i + 1
    BY <1>3
  <2>3. (\A j \in 1 .. Len(c) : b[i + j - 1] = c[j]) <=> b[i] = c[1] /\ b[i + 1] = c[2]
    <3>1. 1 .. Len(c) = {1, 2}
      BY <1>3
    <3> QED
      BY <2>2, <3>1
  <2> QED
    BY <1>3, <2>1, <2>2, <2>3
<1>5. PICK l \in Nat : l = Len(body) + 1
  OBVIOUS
<1>6. l \in Found(b, c)
  <2>1. l \in 1 .. Len(b) /\ l >= 1 /\ l + 1 <= Len(b) /\ b[l] = "CR" /\ b[l + 1] = "LF"
    BY <1>1, <1>5
  <2> QED
    BY <1>4, <2>1 DEF Found
<1>7. \A i \in Found(b, c) : i \in Nat /\ i >= 1 /\ i + 1 <= Len(b) /\ b[i] = "CR" /\ b[i + 1] = "LF"
  <2> SUFFICES ASSUME NEW i \in Found(b, c)
               PROVE  i \in Nat /\ i >= 1 /\ i + 1 <= Len(b) /\ b[i] = "CR" /\ b[i + 1] = "LF"
    OBVIOUS
  <2>1. i \in 1 .. Len(b) /\ Occurs(b, c, i)
    BY DEF Found
  <2>2. i \in Nat /\ i >= 1
    BY <1>1, <2>1
  <2> QED
    BY <1>4, <2>1, <2>2
<1>8. \E x \in Found(b, c) : \A j \in Found(b, c) : x <= j
  <2>1. Found(b, c) \subseteq Nat
    BY <1>7
  <2> QED
    BY <1>6, <2>1, Least
<1>9. PICK x : x = First(b, c)
  OBVIOUS
<1>10. x \in Found(b, c) /\ \A j \in Found(b, c) : x <= j
  BY <1>8, <1>9 DEF First
<1>11. x \in Nat /\ x >= 1 /\ x + 1 <= Len(b) /\ b[x] = "CR" /\ b[x + 1] = "LF"
  BY <1>7, <1>10
<1>12. PICK z \in Nat : z = x - 1 /\ z + 1 = x /\ z + 2 = x + 1
  BY <1>11
<1>13. \A i \in 1 .. z : \E j \in 1 .. Len(c) : b[i + j - 1] # c[j]
  <2> SUFFICES ASSUME NEW i \in 1 .. z
               PROVE  \E j \in 1 .. Len(c) : b[i + j - 1] # c[j]
    OBVIOUS
  <2>1. i \in Nat /\ i >= 1 /\ i + 1 <= Len(b) /\ i \in 1 .. Len(b) /\ i < x
    BY <1>1, <1>11, <1>12
  <2>2. i \notin Found(b, c)
    BY <1>10, <1>11, <2>1
  <2>3. ~ (b[i] = "CR" /\ b[i + 1] = "LF")
    BY <1>4, <2>1, <2>2 DEF Found
  <2>4. 1 \in 1 .. Len(c) /\ 2 \in 1 .. Len(c) /\ i + 1 - 1 = i /\ i + 2 - 1 = i + 1
    BY <1>3
  <2> QED
    BY <1>3, <2>3, <2>4
<1>14. \A j \in 1 .. Len(c) : b[z + j] = c[j]
  <2>1. ASSUME NEW j \in 1 .. Len(c)
        PROVE  j = 1 \/ j = 2
    BY <1>3
  <2> QED
    BY <1>3, <1>11, <1>12, <2>1
<1>15. Delimits(b, c, 1, z, z + 3)
  <2> z + 3 = z + 1 + Len(c) /\ Len(c) > 0
    BY <1>3
  <2> QED
    BY <1>1, <1>3, <1>13, <1>14 DEF Delimits
<1>16. Bodied(body) = SubSeq(b, 1, x - 1)
  <2>1. Found(b, c) # {}
    BY <1>6
  <2>2. Bodied(body) = Before(b, c)
    BY <1>2 DEF Bodied
  <2> QED
    BY <1>9, <2>1, <2>2 DEF Before
<1> QED
  BY <1>1, <1>2, <1>11, <1>12, <1>15, <1>16

\* What is found of a body that has arrived, whole or not.
LEMMA BodyFound ==
  ASSUME NEW r \in Asked, HasBody(r), NEW e \in Nat, End(r) <= e, e <= Len(Text(r)),
         NEW f, f = Before(SubSeq(Text(r), End(r) + 1, e), CrLf)
  PROVE  /\ IsPrefix(f, Bodied(r.body) \o <<"CR">>)
         /\ e = Len(Text(r)) => f = Bodied(r.body)
<1>1. PICK t, body, b, h :
        t = Text(r) /\ body = r.body /\ b = body \o CrLf /\ h = End(r)
  OBVIOUS
<1>2. /\ t \in Seq(Word) /\ body \in Seq(Word) /\ b \in Seq(Word)
      /\ Len(t) = h + Len(b) /\ SubSeq(t, h + 1, Len(t)) = b
      /\ h \in Nat
  <2>1. /\ Text(r) \in Seq(Word) /\ r.body \in Seq(Word) /\ r.body \o CrLf \in Seq(Word)
        /\ Len(Text(r)) = End(r) + Len(r.body \o CrLf)
        /\ SubSeq(Text(r), End(r) + 1, Len(Text(r))) = r.body \o CrLf
        /\ Count(r) \in 1 .. 3
    BY TextShape
  <2>2. End(r) \in Nat
    BY <2>1 DEF End
  <2> QED
    BY <1>1, <2>1, <2>2
<1>3. PICK z \in Nat :
        /\ b \in Seq(Word) /\ z + 2 <= Len(b) /\ b[z + 1] = "CR"
        /\ Delimits(b, CrLf, 1, z, z + 3)
        /\ Bodied(body) = SubSeq(b, 1, z)
  BY <1>1, <1>2, BodyEnd
<1>4. PICK m \in Nat : m <= Len(b) /\ e = h + m
  <2>1. h <= e /\ e <= h + Len(b) /\ h \in Nat /\ Len(b) \in Nat
    BY <1>1, <1>2
  <2>2. e - h \in Nat /\ e - h <= Len(b) /\ e = h + (e - h)
    BY <2>1
  <2> QED
    BY <2>2
<1>5. SubSeq(t, h + 1, e) = SubSeq(b, 1, m)
  <2>1. PICK p \in Nat, l \in Nat : p = h + 1 /\ l = Len(t) /\ p >= 1 /\ l <= Len(t)
    BY <1>2
  <2>2. PICK o \in Nat : o = 1
    OBVIOUS
  <2>3. SubSeq(t, p, l) = b /\ m <= Len(SubSeq(t, p, l)) /\ o >= 1
    BY <1>2, <1>4, <2>1, <2>2
  <2>4. SubSeq(SubSeq(t, p, l), o, m) = SubSeq(t, p + o - 1, p + m - 1)
    <3>1. /\ t \in Seq(Word) /\ p >= 1 /\ l <= Len(t) /\ o >= 1
          /\ m <= Len(SubSeq(t, p, l))
      BY <1>2, <2>1, <2>3
    <3> QED
      BY <3>1, PartOfPart
  <2>5. p + o - 1 = h + 1 /\ p + m - 1 = e
    BY <1>2, <1>4, <2>1, <2>2
  <2> QED
    BY <2>2, <2>3, <2>4, <2>5
<1>6. f = Before(SubSeq(b, 1, m), CrLf)
  BY <1>1, <1>5
<1>7. IsCut(b, CrLf, 1, z, z + 3, m)
  <2>1. PICK p, y : p = 1 /\ y = z + 3 /\ Delimits(b, CrLf, p, z, y)
    BY <1>3
  <2>2. p <= m + 1
    BY <2>1
  <2>3. IsCut(b, CrLf, p, z, y, m)
    BY <1>4, <2>1, <2>2, Cut
  <2> QED
    BY <2>1, <2>3
<1>8. SubSeq(b, 1, z + 1) = Bodied(body) \o <<"CR">>
  <2>1. PICK n1 \in 1 .. Len(b) : n1 = z + 1 /\ n1 - 1 = z
    BY <1>3
  <2>2. 1 \in 1 .. Len(b) /\ n1 \in 1 .. Len(b)
    BY <1>3
  <2>3. SubSeq(b, 1, n1) = SubSeq(b, 1, n1 - 1) \o <<b[n1]>>
    BY <1>3, <2>2, SubSeqRecursiveSecond
  <2> QED
    BY <1>3, <2>1, <2>3
<1>9. CASE z + 3 <= m + 1
  <2>1. f = SubSeq(b, 1, z)
    BY <1>6, <1>7, <1>9 DEF IsCut
  <2>2. IsPrefix(SubSeq(b, 1, z), SubSeq(b, 1, z + 1))
    <3> PICK y \in Nat : y = z + 1 /\ y <= Len(b) /\ z <= y
      BY <1>3
    <3> QED
      BY <1>3, PrefixOf
  <2> QED
    BY <1>1, <1>3, <1>8, <2>1, <2>2
<1>10. CASE m + 1 < z + 3
  <2>1. f = SubSeq(b, 1, m)
    BY <1>6, <1>7, <1>10 DEF IsCut
  <2>2. IsPrefix(SubSeq(b, 1, m), SubSeq(b, 1, z + 1))
    <3> PICK y \in Nat : y = z + 1 /\ y <= Len(b) /\ m <= y
      BY <1>3, <1>10
    <3> QED
      BY <1>3, PrefixOf
  <2>3. e # Len(Text(r))
    <3>1. m < Len(b) /\ Len(b) \in Nat
      BY <1>3, <1>10
    <3>2. h + m # h + Len(b)
      BY <1>2, <3>1
    <3> QED
      BY <1>1, <1>2, <1>4, <3>2
  <2> QED
    BY <1>1, <1>8, <2>1, <2>2, <2>3
<1> QED
  BY <1>3, <1>4, <1>9, <1>10

LEMMA StartsWith ==
  ASSUME NEW s \in Seq(Word), NEW w \in Word
  PROVE  IsPrefix(<<w>>, s) <=> Len(s) >= 1 /\ s[1] = w
<1>1. PICK o : o = <<w>>
  OBVIOUS
<1>2. o \in Seq(Word) /\ Len(o) = 1 /\ o[1] = w
  BY <1>1, One
<1>3. SubSeq(o, 1, 1) = o
  BY <1>2, SubSeqFull
<1>4. ASSUME Len(s) >= 1
      PROVE  SubSeq(s, 1, 1) = <<s[1]>>
  <2>1. 1 \in 1 .. Len(s)
    BY <1>4
  <2> QED
    BY <2>1, OneWord
<1>5. Len(s) >= 1 => (SubSeq(s, 1, 1) = o <=> s[1] = w)
  BY <1>1, <1>2, <1>4
<1> QED
  BY <1>1, <1>2, <1>3, <1>5 DEF IsPrefix

\* A query is one up to its first line end.
LEMMA QueryKept ==
  ASSUME NEW body \in Seq(Word)
  PROVE  IsPrefix(<<"q=">>, Bodied(body)) <=> IsPrefix(<<"q=">>, body)
<1>1. PICK b : b = body \o CrLf
  OBVIOUS
<1>2. PICK z \in Nat :
        /\ b \in Seq(Word) /\ z + 2 <= Len(b) /\ b[z + 1] = "CR"
        /\ Delimits(b, CrLf, 1, z, z + 3)
        /\ Bodied(body) = SubSeq(b, 1, z)
  BY <1>1, BodyEnd
<1>3. /\ Len(b) = Len(body) + 2 /\ b[Len(body) + 1] = "CR"
      /\ \A j \in 1 .. Len(body) : b[j] = body[j]
  BY <1>1, EndBehind DEF Longer
<1>4. PICK s : s = SubSeq(b, 1, z)
  OBVIOUS
<1>5. s \in Seq(Word) /\ Len(s) = z /\ \A i \in 1 .. z : s[i] = b[i]
  <2>1. 1 \in Nat /\ z <= Len(b)
    BY <1>2
  <2>2. /\ SubSeq(b, 1, z) \in Seq(Word)
        /\ Len(SubSeq(b, 1, z)) = IF 1 <= z THEN z - 1 + 1 ELSE 0
        /\ \A i \in 1 .. z - 1 + 1 : SubSeq(b, 1, z)[i] = b[1 + i - 1]
    BY <1>2, <2>1, Part
  <2>3. \A i \in 1 .. z : 1 + i - 1 = i /\ i \in 1 .. z - 1 + 1
    OBVIOUS
  <2> QED
    BY <1>4, <2>2, <2>3
<1>6. "q=" \in Word
  BY Words
<1>7. IsPrefix(<<"q=">>, s) <=> Len(s) >= 1 /\ s[1] = "q="
  BY <1>5, <1>6, StartsWith
<1>8. IsPrefix(<<"q=">>, body) <=> Len(body) >= 1 /\ body[1] = "q="
  BY <1>6, StartsWith
<1>9. ASSUME Len(s) >= 1, s[1] = "q="
      PROVE  Len(body) >= 1 /\ body[1] = "q="
  <2>1. b[1] = "q="
    BY <1>5, <1>9
  <2>2. Len(body) # 0
    BY <1>3, <2>1
  <2> QED
    BY <1>3, <2>1, <2>2
<1>10. ASSUME Len(body) >= 1, body[1] = "q="
       PROVE  Len(s) >= 1 /\ s[1] = "q="
  <2>1. b[1] = "q="
    BY <1>3, <1>10
  <2>2. z # 0
    BY <1>2, <2>1
  <2> QED
    BY <1>5, <2>1, <2>2
<1> QED
  BY <1>2, <1>4, <1>7, <1>8, <1>9, <1>10

----------------------------------------------------------------------------
(* What parsing finds                                                      *)

LEMMA FieldsFound ==
  ASSUME NEW r \in Asked, NEW e \in Nat, e <= Len(Text(r))
  PROVE  /\ IsCut(Text(r), Space, 1, 1, 3, e)
         /\ e >= 2 => IsCut(Text(r), Space, 3, 3, 5, e)
         /\ e >= 4 => IsCut(Text(r), CrLf, 5, 5, 8, e)
         /\ e >= 7 => IsCut(Text(r), Blank, 8, End(r) - 4, End(r) + 1, e)
<1>1. /\ Delimits(Text(r), Space, 1, 1, 3)
      /\ Delimits(Text(r), Space, 3, 3, 5)
      /\ Delimits(Text(r), CrLf, 5, 5, 8)
      /\ Delimits(Text(r), Blank, 8, End(r) - 4, End(r) + 1)
  BY FirstLineCut, HeaderCut
<1>2. ASSUME NEW d, NEW p, NEW z, NEW f, Delimits(Text(r), d, p, z, f), p <= e + 1
      PROVE  IsCut(Text(r), d, p, z, f, e)
  BY <1>2, Cut
<1>3. 1 <= e + 1 /\ (e >= 2 => 3 <= e + 1) /\ (e >= 4 => 5 <= e + 1) /\ (e >= 7 => 8 <= e + 1)
  OBVIOUS
<1> QED
  BY <1>1, <1>2, <1>3, Zenon

LEMMA EndIn ==
  ASSUME NEW r \in Asked
  PROVE  /\ Count(r) \in 1 .. 3 /\ Text(r) \in Seq(Word)
         /\ End(r) = 6 * Count(r) + 9 /\ End(r) <= Len(Text(r))
         /\ 6 * Count(r) + 9 <= Len(Text(r))
<1>1. PICK l : l = Len(Text(r))
  OBVIOUS
<1>2. PICK b : b = r.body \o CrLf
  OBVIOUS
<1>3. /\ Count(r) \in 1 .. 3 /\ Text(r) \in Seq(Word)
      /\ ~ HasBody(r) => l = End(r)
      /\ HasBody(r) => l = End(r) + Len(b) /\ b \in Seq(Word)
  BY <1>1, <1>2, TextShape
<1>4. PICK h \in Nat : h = End(r) /\ h = 6 * Count(r) + 9
  BY <1>3 DEF End
<1>5. CASE ~ HasBody(r)
  BY <1>1, <1>3, <1>4, <1>5
<1>6. CASE HasBody(r)
  <2>1. l = h + Len(b) /\ Len(b) \in Nat
    BY <1>3, <1>4, <1>6
  <2>2. h <= l
    BY <2>1
  <2> QED
    BY <1>1, <1>3, <1>4, <2>2
<1> QED
  BY <1>5, <1>6

LEMMA HeaderLineFound ==
  ASSUME NEW r \in Asked, NEW j \in Nat, j < Count(r),
         NEW s, s = SubSeq(Text(r), 6 * j + 8, End(r) - 4)
  PROVE  /\ Before(s, CrLf) = SubSeq(Text(r), 6 * (j + 1) + 2, 6 * (j + 1) + 5)
         /\ j + 1 < Count(r) =>
              Following(s, CrLf) = Rest(SubSeq(Text(r), 6 * (j + 1) + 8, End(r) - 4))
         /\ j + 1 = Count(r) => Following(s, CrLf) = NULL
<1>1. PICK t, h : t = Text(r) /\ h = Count(r)
  OBVIOUS
<1>2. h \in 1 .. 3 /\ t \in Seq(Word) /\ End(r) = 6 * h + 9 /\ End(r) <= Len(t)
  BY <1>1, EndIn
<1>3. PICK i \in 1 .. h : i = j + 1
  BY <1>1, <1>2
<1>4. PICK p \in Nat, z \in Nat, f \in Nat, e \in Nat :
        p = 6 * i + 2 /\ z = 6 * i + 5 /\ f = 6 * i + 8 /\ e = 6 * h + 5
  BY <1>2
<1>5. p = 6 * j + 8 /\ e = End(r) - 4 /\ p <= e + 1 /\ e <= Len(t)
  BY <1>2, <1>3, <1>4
<1>6. Delimits(t, CrLf, p, z, f)
  BY <1>1, <1>3, <1>4, LineCut
<1>7. IsCut(t, CrLf, p, z, f, e)
  BY <1>5, <1>6, Cut
<1>8. s = SubSeq(t, p, e)
  BY <1>1, <1>5
<1>9. p = 6 * (j + 1) + 2 /\ z = 6 * (j + 1) + 5 /\ f = 6 * (j + 1) + 8
  BY <1>3, <1>4
<1>10. CASE i < h
  <2>1. f <= e + 1
    BY <1>2, <1>4, <1>10
  <2>2. Before(s, CrLf) = SubSeq(t, p, z) /\ Following(s, CrLf) = Rest(SubSeq(t, f, e))
    BY <1>7, <1>8, <2>1 DEF IsCut
  <2>3. ~ (j + 1 = Count(r))
    BY <1>1, <1>2, <1>3, <1>10
  <2> QED
    BY <1>1, <1>5, <1>9, <2>2, <2>3, Zenon
<1>11. CASE i = h
  <2>1. e + 1 < f /\ e = z
    BY <1>2, <1>4, <1>11
  <2>2. Before(s, CrLf) = SubSeq(t, p, e) /\ Following(s, CrLf) = NULL
    BY <1>7, <1>8, <2>1 DEF IsCut
  <2>3. ~ (j + 1 < Count(r))
    BY <1>1, <1>2, <1>3, <1>11
  <2> QED
    BY <1>1, <1>5, <1>9, <2>1, <2>2, <2>3, Zenon
<1> QED
  BY <1>2, <1>3, <1>10, <1>11

LEMMA ColonFound ==
  ASSUME NEW r \in Asked, NEW i \in 1 .. Count(r),
         NEW s, s = SubSeq(Text(r), 6 * i + 2, 6 * i + 5)
  PROVE  Before(s, Colon) = <<Keys(r)[i]>> /\ Following(s, Colon).text = <<Values(r)[i]>>
<1>1. PICK t, h : t = Text(r) /\ h = Count(r)
  OBVIOUS
<1>2. h \in 1 .. 3 /\ t \in Seq(Word) /\ 6 * h + 9 <= Len(t)
  BY <1>1, EndIn
<1>3. PICK x \in Nat : x = 6 * i /\ x + 9 <= Len(t)
  BY <1>1, <1>2
<1>4. t[x + 2] = Keys(r)[i] /\ t[x + 5] = Values(r)[i]
  BY <1>1, <1>3, WordsOf
<1>5. PICK p \in Nat, f \in Nat : p = x + 2 /\ f = x + 5
  OBVIOUS
<1>6. Delimits(t, Colon, p, p, f)
  BY <1>1, <1>3, <1>5, LineCut
<1>7. p <= f + 1 /\ f <= Len(t) /\ p \in 1 .. Len(t) /\ f \in 1 .. Len(t) /\ f <= f + 1
  BY <1>2, <1>3, <1>5
<1>8. IsCut(t, Colon, p, p, f, f)
  BY <1>6, <1>7, Cut
<1>9. s = SubSeq(t, p, f)
  BY <1>1, <1>3, <1>5
<1>10. Before(s, Colon) = SubSeq(t, p, p) /\ Following(s, Colon) = Rest(SubSeq(t, f, f))
  BY <1>7, <1>8, <1>9 DEF IsCut
<1>11. SubSeq(t, p, p) = <<t[p]>> /\ SubSeq(t, f, f) = <<t[f]>>
  BY <1>2, <1>7, OneWord
<1> QED
  BY <1>4, <1>5, <1>10, <1>11 DEF Rest

LEMMA ValueIs ==
  ASSUME asked \in Asked, Len(headers) = Count(asked), HeadersKnown
  PROVE  Value("Content-Type") = IF asked.op = "SEARCH" THEN <<"form">> ELSE <<>>
<1>1. PICK r : r = asked
  OBVIOUS
<1>2. Count(r) \in 1 .. 3
  BY <1>1, TextShape
<1>3. ASSUME NEW i \in 1 .. Len(headers)
      PROVE  /\ Before(headers[i], Colon) = <<Keys(r)[i]>>
             /\ Following(headers[i], Colon).text = <<Values(r)[i]>>
  <2>1. headers[i] = SubSeq(Text(r), 6 * i + 2, 6 * i + 5) /\ i \in 1 .. Count(r)
    BY <1>1 DEF HeadersKnown, T
  <2> QED
    BY <1>1, <2>1, ColonFound
<1> DEFINE is == {i \in 1 .. Len(headers) : Before(headers[i], Colon) = <<"Content-Type">>}
<1>4. ASSUME NEW i \in 1 .. Len(headers)
      PROVE  i \in is <=> Keys(r)[i] = "Content-Type"
  BY <1>3
<1>5. \A i \in 1 .. Len(headers) : i \in is <=> i = 2 /\ r.op = "SEARCH"
  <2> SUFFICES ASSUME NEW i \in 1 .. Len(headers)
               PROVE  i \in is <=> i = 2 /\ r.op = "SEARCH"
    OBVIOUS
  <2>1. i \in 1 .. Count(r)
    BY <1>1
  <2>2. Keys(r)[i] = "Content-Type" <=> (i = 2 /\ r.op = "SEARCH")
    BY <1>1, <2>1, Plain
  <2> QED
    BY <1>4, <2>2
<1>6. Value("Content-Type") =
        IF is = {} THEN <<>>
        ELSE LET i == CHOOSE j \in is : \A k \in is : j <= k
             IN  Following(headers[i], Colon).text
  BY DEF Value
<1>7. is \subseteq 1 .. Len(headers)
  OBVIOUS
<1> HIDE DEF is
<1>8. CASE r.op # "SEARCH"
  <2>1. is = {}
    BY <1>5, <1>7, <1>8
  <2> QED
    BY <1>1, <1>6, <1>8, <2>1
<1>9. CASE r.op = "SEARCH"
  <2>1. Count(r) = 3 /\ Values(r)[2] = "form"
    <3>1. 1 \in 1 .. Count(r)
      BY <1>2
    <3> QED
      BY <1>1, <1>9, <3>1, Plain
  <2>2. 2 \in 1 .. Len(headers)
    BY <1>1, <2>1
  <2>3. is = {2}
    BY <1>5, <1>7, <1>9, <2>2
  <2>4. (CHOOSE j \in is : \A k \in is : j <= k) = 2
    BY <2>3
  <2>5. Following(headers[2], Colon).text = <<"form">>
    BY <1>3, <2>1, <2>2
  <2> QED
    BY <1>1, <1>6, <1>9, <2>3, <2>4, <2>5
<1> QED
  BY <1>8, <1>9

\* What a request means to the server, once its header has arrived.
LEMMA MeaningIs ==
  ASSUME asked \in Asked, AllKnown, Len(headers) = Count(asked), HeadersKnown
  PROVE  /\ Meaning = Intended(asked, request.body)
         /\ request.url = <<"/url">>
         /\ Meaning = "GET" <=> asked.op = "GET"
         /\ Meaning = "POST" <=> asked.op = "POST"
<1>1. asked.op \in {"GET", "POST", "SEARCH", "PUT", "DELETE"}
  BY TextAssumption
<1>2. PICK r, t : r = asked /\ t = Text(r)
  OBVIOUS
<1>3. t \in Seq(Word) /\ IsFirst(t, Method(r)) /\ 7 <= Len(t)
  <2>1. 6 * Count(r) + 9 <= Len(t) /\ Count(r) \in 1 .. 3
    BY <1>2, EndIn
  <2>2. 7 <= Len(t)
    BY <2>1
  <2> QED
    BY <1>2, <2>2, TextShape DEF Shape, IsHeader
<1>4. SubSeq(t, 1, 1) = <<Method(r)>> /\ SubSeq(t, 3, 3) = <<"/url">>
  <2>1. 1 \in 1 .. Len(t) /\ 3 \in 1 .. Len(t)
    BY <1>3
  <2>2. SubSeq(t, 1, 1) = <<t[1]>> /\ SubSeq(t, 3, 3) = <<t[3]>>
    BY <1>3, <2>1, OneWord
  <2> QED
    BY <1>3, <2>2 DEF IsFirst
<1>5. request.method = <<Method(r)>> /\ request.url = <<"/url">>
  BY <1>2, <1>4 DEF AllKnown, MethodKnown, UrlKnown, T
<1>6. Value("Content-Type") = IF r.op = "SEARCH" THEN <<"form">> ELSE <<>>
  BY <1>2, ValueIs
<1>7. CASE r.op = "SEARCH"
  <2>1. Method(r) = "POST" /\ Value("Content-Type") = <<"form">>
    BY <1>6, <1>7 DEF Method
  <2>2. Form
    BY <1>5, <2>1 DEF Form
  <2>3. Meaning = IF IsPrefix(<<"q=">>, request.body) THEN "SEARCH" ELSE "FORM"
    BY <2>2 DEF Meaning
  <2>4. Intended(asked, request.body) = IF IsPrefix(<<"q=">>, request.body) THEN "SEARCH" ELSE "FORM"
    BY <1>2, <1>7 DEF Intended
  <2> QED
    BY <1>2, <1>5, <1>7, <2>3, <2>4
<1>8. CASE r.op # "SEARCH"
  <2>1. Method(r) = r.op /\ Value("Content-Type") = <<>>
    BY <1>6, <1>8 DEF Method
  <2>2. ~ Form
    <3>1. <<>> # <<"form">>
      OBVIOUS
    <3> QED
      BY <2>1, <3>1 DEF Form
  <2>3. request.method # <<>> /\ request.method[1] = r.op
    BY <1>5, <2>1
  <2>4. Meaning = r.op
    BY <2>2, <2>3 DEF Meaning
  <2>5. Intended(asked, request.body) = r.op
    BY <1>2, <1>8 DEF Intended
  <2> QED
    BY <1>2, <1>5, <2>4, <2>5
<1> QED
  BY <1>7, <1>8

LEMMA FieldsAre == Range(Fields) = {"method", "url", "version", "header", "body"}
<1>1. DOMAIN Fields = 1 .. 5
  BY DEF Fields
<1>2. /\ Fields[1] = "method" /\ Fields[2] = "url" /\ Fields[3] = "version"
      /\ Fields[4] = "header" /\ Fields[5] = "body"
  BY DEF Fields
<1>3. ASSUME NEW x \in 1 .. 5
      PROVE  x = 1 \/ x = 2 \/ x = 3 \/ x = 4 \/ x = 5
  OBVIOUS
<1>4. Range(Fields) = {Fields[x] : x \in 1 .. 5}
  BY <1>1 DEF Range
<1>5. 1 \in 1 .. 5 /\ 2 \in 1 .. 5 /\ 3 \in 1 .. 5 /\ 4 \in 1 .. 5 /\ 5 \in 1 .. 5
  OBVIOUS
<1> QED
  BY <1>2, <1>3, <1>4, <1>5

----------------------------------------------------------------------------
(* The invariant                                                           *)

LEMMA InitInv == Init => IInv
<1> SUFFICES ASSUME Init PROVE IInv
  OBVIOUS
<1>1. asked \in Asked /\ length \in Lengths /\ tpc = "method" /\ last = Rest(message)
      /\ request = [f \in Range(Fields) |-> <<>>] /\ headers = <<>>
  BY DEF Init
<1>2. PICK k \in 0 .. Len(Text(asked)) : message = SubSeq(Text(asked), 1, k)
  BY DEF Init
<1>3. PICK t : t = Text(asked)
  OBVIOUS
<1>4. t \in Seq(Word)
  BY <1>1, <1>3, TextShape
<1>5. message = SubSeq(t, 1, k) /\ Len(message) = k /\ k \in 0 .. Len(t) /\ k \in Nat
  <2>1. k \in Nat /\ 1 \in Nat /\ k <= Len(t)
    BY <1>3, <1>4
  <2>2. Len(SubSeq(t, 1, k)) = IF 1 <= k THEN k - 1 + 1 ELSE 0
    BY <1>4, <2>1, Part
  <2> QED
    BY <1>2, <1>3, <2>1, <2>2
<1>6. n \in 0 .. Len(T) /\ message = SubSeq(T, 1, n) /\ n >= 1 - 1
  BY <1>3, <1>5 DEF n, T
<1>7. From(1)
  BY <1>1, <1>6 DEF From, Rest
<1>8. FieldInv
  BY <1>1, <1>7 DEF FieldInv
<1>9. headers \in Seq(Seq(Word)) /\ Len(headers) = 0
  BY <1>1
<1>10. SplitInv
  BY <1>1, <1>9 DEF SplitInv, HeadersKnown
<1>11. DOMAIN request = Range(Fields) /\ last.null \in BOOLEAN
  BY <1>1 DEF Rest
<1> QED
  BY <1>1, <1>6, <1>8, <1>9, <1>10, <1>11, FieldsAre DEF IInv

LEMMA ParseCases ==
  ParseFields =>
    \/ Parse("method", "url") \/ Parse("url", "version") \/ Parse("version", "header")
    \/ Parse("header", "body") \/ Parse("body", "split")
<1> SUFFICES ASSUME NEW i \in 1 .. Len(Fields),
                    Parse(Fields[i], IF i < Len(Fields) THEN Fields[i + 1] ELSE "split")
             PROVE  \/ Parse("method", "url") \/ Parse("url", "version")
                    \/ Parse("version", "header") \/ Parse("header", "body")
                    \/ Parse("body", "split")
  BY DEF ParseFields
<1>1. /\ Len(Fields) = 5 /\ Fields[1] = "method" /\ Fields[2] = "url" /\ Fields[3] = "version"
      /\ Fields[4] = "header" /\ Fields[5] = "body"
  BY DEF Fields
<1>2. i = 1 \/ i = 2 \/ i = 3 \/ i = 4 \/ i = 5
  BY <1>1
<1> DEFINE g == IF i < Len(Fields) THEN Fields[i + 1] ELSE "split"
<1>3. /\ i = 1 => g = "url"
      /\ i = 2 => g = "version"
      /\ i = 3 => g = "header"
      /\ i = 4 => g = "body"
      /\ i = 5 => g = "split"
  BY <1>1
<1>4. Parse(Fields[i], g)
  OBVIOUS
<1> HIDE DEF g
<1> QED
  BY <1>1, <1>2, <1>3, <1>4, Zenon

\* What parsing a field does, whichever it is.
LEMMA ParseFrame ==
  ASSUME IInv, NEW f \in Range(Fields), NEW g, Parse(f, g)
  PROVE  /\ asked' = asked /\ length' = length /\ message' = message /\ headers' = headers
         /\ tpc = f /\ tpc' = g /\ headers = <<>> /\ ~ last.null
         /\ DOMAIN request' = Range(Fields)
         /\ request'[f] = Before(last.text, Delimiter[f])
         /\ \A x \in Range(Fields) : x # f => request'[x] = request[x]
         /\ last' = IF g = "split" THEN Rest(request.header)
                    ELSE Following(last.text, Delimiter[f])
         /\ HeadersKnown'
<1>1. /\ asked' = asked /\ length' = length /\ message' = message /\ headers' = headers
      /\ tpc = f /\ tpc' = g /\ ~ last.null
      /\ request' = [request EXCEPT ![f] = Before(last.text, Delimiter[f])]
      /\ last' = IF g = "split" THEN Rest(request.header)
                 ELSE Following(last.text, Delimiter[f])
  BY DEF Parse
<1>2. DOMAIN request = Range(Fields) /\ SplitInv
  BY DEF IInv
<1>3. headers = <<>>
  BY <1>1, <1>2 DEF SplitInv
<1>4. /\ DOMAIN request' = Range(Fields)
      /\ request'[f] = Before(last.text, Delimiter[f])
      /\ \A x \in Range(Fields) : x # f => request'[x] = request[x]
  BY <1>1, <1>2
<1>5. HeadersKnown'
  <2>1. Len(headers') = 0
    BY <1>1, <1>3
  <2> QED
    BY <2>1 DEF HeadersKnown
<1> QED
  BY <1>1, <1>3, <1>4, <1>5

\* What the rest of the invariant takes, when the next field is g.
LEMMA ParseSuffices ==
  ASSUME IInv, NEW f \in Range(Fields), NEW g \in Range(Fields), Parse(f, g),
         (last.null \in BOOLEAN)', FieldInv'
  PROVE  IInv'
<1>1. /\ asked' = asked /\ length' = length /\ message' = message /\ headers' = headers
      /\ tpc' = g /\ headers = <<>>
      /\ DOMAIN request' = Range(Fields)
      /\ HeadersKnown'
  BY ParseFrame
<1>2. SplitInv'
  <2>1. g \notin {"split", "parsed", "ready", "over"}
    BY FieldsAre
  <2> QED
    BY <1>1, <2>1 DEF SplitInv
<1>3. /\ (asked \in Asked)' /\ (length \in Lengths)'
      /\ (n \in 0 .. Len(T) /\ message = SubSeq(T, 1, n))'
      /\ (headers \in Seq(Seq(Word)))'
  BY <1>1 DEF IInv, n, T
<1>4. tpc' # "over" /\ tpc' \in Range(Fields)
  BY <1>1, FieldsAre
<1> QED
  BY <1>1, <1>2, <1>3, <1>4 DEF IInv

\* What a cut of the text leaves: the field, and what follows or nothing.
LEMMA ParseCut ==
  ASSUME IInv, NEW f \in Range(Fields), NEW g \in Range(Fields), Parse(f, g),
         NEW p, NEW z, NEW e \in Nat, From(p), e <= End(asked) + 1,
         IsCut(T, Delimiter[f], p, z, e, n)
  PROVE  /\ n' = n /\ T' = T /\ End(asked') = End(asked)
         /\ (last.null \in BOOLEAN)'
         /\ \/ Lost'
            \/ From(e)' /\ request'[f] = SubSeq(T, p, z)
<1>1. /\ asked' = asked /\ message' = message
      /\ request'[f] = Before(last.text, Delimiter[f])
      /\ last' = IF g = "split" THEN Rest(request.header)
                 ELSE Following(last.text, Delimiter[f])
  BY ParseFrame
<1>2. n' = n /\ T' = T /\ End(asked') = End(asked)
  BY <1>1 DEF n, T
<1>3. last' = Following(last.text, Delimiter[f])
  BY <1>1, FieldsAre
<1>4. last.text = SubSeq(T, p, n)
  BY DEF From
<1>5. n \in Nat
  BY DEF IInv
<1>6. PICK h \in Nat : h = End(asked)
  <2>1. Count(asked) \in 1 .. 3 /\ End(asked) = 6 * Count(asked) + 9
    BY EndIn DEF IInv
  <2> QED
    BY <2>1
<1>7. PICK m \in Nat : m = n
  BY <1>5
<1>8. CASE e <= m + 1
  <2>1. /\ request'[f] = SubSeq(T, p, z)
        /\ last' = Rest(SubSeq(T, e, n))
    BY <1>1, <1>3, <1>4, <1>7, <1>8 DEF IsCut
  <2>2. last'.null = FALSE /\ last'.text = SubSeq(T, e, n)
    BY <2>1 DEF Rest
  <2>3. m >= e - 1
    BY <1>8
  <2>4. From(e)'
    BY <1>2, <1>7, <2>2, <2>3 DEF From
  <2> QED
    BY <1>2, <2>1, <2>2, <2>4
<1>9. CASE m + 1 < e
  <2>1. last' = NULL
    BY <1>3, <1>4, <1>7, <1>9 DEF IsCut
  <2>2. last'.null = TRUE
    BY <2>1 DEF NULL
  <2>3. m < h
    BY <1>6, <1>9
  <2>4. Lost'
    BY <1>2, <1>6, <1>7, <2>2, <2>3 DEF Lost
  <2> QED
    BY <1>2, <2>2, <2>4
<1> QED
  BY <1>8, <1>9

LEMMA DelimiterOf ==
  /\ Delimiter["method"] = Space /\ Delimiter["url"] = Space
  /\ Delimiter["version"] = CrLf /\ Delimiter["header"] = Blank
  /\ Delimiter["body"] = CrLf
BY DEF Delimiter

\* The cuts that a state of the invariant makes possible.
LEMMA CutsOf ==
  ASSUME IInv
  PROVE  /\ n \in Nat /\ End(asked) \in Nat /\ End(asked) >= 15
         /\ IsCut(T, Space, 1, 1, 3, n)
         /\ n >= 2 => IsCut(T, Space, 3, 3, 5, n)
         /\ n >= 4 => IsCut(T, CrLf, 5, 5, 8, n)
         /\ n >= 7 => IsCut(T, Blank, 8, End(asked) - 4, End(asked) + 1, n)
<1>1. asked \in Asked /\ n \in 0 .. Len(T)
  BY DEF IInv
<1>2. Count(asked) \in 1 .. 3 /\ End(asked) = 6 * Count(asked) + 9 /\ T \in Seq(Word)
  BY <1>1, EndIn DEF T
<1>3. n \in Nat /\ n <= Len(Text(asked))
  BY <1>1, <1>2 DEF T
<1>4. End(asked) \in Nat /\ End(asked) >= 15
  BY <1>2
<1> QED
  BY <1>1, <1>3, <1>4, FieldsFound DEF T

LEMMA ParseMethodInv == IInv /\ Parse("method", "url") => IInv'
<1> SUFFICES ASSUME IInv, Parse("method", "url") PROVE IInv'
  OBVIOUS
<1>1. PICK f \in Range(Fields), g \in Range(Fields), p \in Nat, z \in Nat, e \in Nat :
        f = "method" /\ g = "url" /\ p = 1 /\ z = 1 /\ e = 3
  BY FieldsAre
<1>2. Parse(f, g)
  BY <1>1
<1>3. /\ tpc = f /\ tpc' = g /\ ~ last.null /\ asked' = asked
      /\ \A x \in Range(Fields) : x # f => request'[x] = request[x]
  BY <1>2, ParseFrame
<1>4. From(p)
  BY <1>1, <1>3 DEF IInv, FieldInv
<1>5. IsCut(T, Delimiter[f], p, z, e, n) /\ e <= End(asked) + 1
  BY <1>1, <1>4, CutsOf, DelimiterOf DEF From
<1>6. /\ n' = n /\ T' = T /\ End(asked') = End(asked) /\ (last.null \in BOOLEAN)'
      /\ \/ Lost'
         \/ From(e)' /\ request'[f] = SubSeq(T, p, z)
  BY <1>2, <1>4, <1>5, ParseCut
<1>7. Lost' \/ (From(3)' /\ request'[f] = SubSeq(T, 1, 1))
  BY <1>1, <1>3, <1>6
<1>8. FieldInv'
  <2>1. request'[f] = SubSeq(T, 1, 1) => MethodKnown'
    BY <1>1, <1>3, <1>6 DEF MethodKnown
  <2> QED
    BY <1>1, <1>3, <1>7, <2>1 DEF FieldInv
<1> QED
  BY <1>2, <1>6, <1>8, ParseSuffices

LEMMA ParseUrlInv == IInv /\ Parse("url", "version") => IInv'
<1> SUFFICES ASSUME IInv, Parse("url", "version") PROVE IInv'
  OBVIOUS
<1>1. PICK f \in Range(Fields), g \in Range(Fields), p \in Nat, z \in Nat, e \in Nat :
        f = "url" /\ g = "version" /\ p = 3 /\ z = 3 /\ e = 5
  BY FieldsAre
<1>2. Parse(f, g)
  BY <1>1
<1>3. /\ tpc = f /\ tpc' = g /\ ~ last.null /\ asked' = asked
      /\ \A x \in Range(Fields) : x # f => request'[x] = request[x]
  BY <1>2, ParseFrame
<1>4. From(p) /\ MethodKnown
  BY <1>1, <1>3 DEF IInv, FieldInv, Lost
<1>5. IsCut(T, Delimiter[f], p, z, e, n) /\ e <= End(asked) + 1
  BY <1>1, <1>4, CutsOf, DelimiterOf DEF From
<1>6. /\ n' = n /\ T' = T /\ End(asked') = End(asked) /\ (last.null \in BOOLEAN)'
      /\ \/ Lost'
         \/ From(e)' /\ request'[f] = SubSeq(T, p, z)
  BY <1>2, <1>4, <1>5, ParseCut
<1>7. Lost' \/ (From(5)' /\ request'[f] = SubSeq(T, 3, 3))
  BY <1>1, <1>3, <1>6
<1>8. FieldInv'
  <2>1. request'[f] = SubSeq(T, 3, 3) => UrlKnown'
    BY <1>1, <1>3, <1>6 DEF UrlKnown
  <2>2. MethodKnown'
    BY <1>1, <1>3, <1>4, <1>6, FieldsAre DEF MethodKnown
  <2> QED
    BY <1>1, <1>3, <1>7, <2>1, <2>2 DEF FieldInv
<1> QED
  BY <1>2, <1>6, <1>8, ParseSuffices

LEMMA ParseVersionInv == IInv /\ Parse("version", "header") => IInv'
<1> SUFFICES ASSUME IInv, Parse("version", "header") PROVE IInv'
  OBVIOUS
<1>1. PICK f \in Range(Fields), g \in Range(Fields), p \in Nat, z \in Nat, e \in Nat :
        f = "version" /\ g = "header" /\ p = 5 /\ z = 5 /\ e = 8
  BY FieldsAre
<1>2. Parse(f, g)
  BY <1>1
<1>3. /\ tpc = f /\ tpc' = g /\ ~ last.null /\ asked' = asked
      /\ \A x \in Range(Fields) : x # f => request'[x] = request[x]
  BY <1>2, ParseFrame
<1>4. From(p) /\ MethodKnown /\ UrlKnown
  BY <1>1, <1>3 DEF IInv, FieldInv, Lost
<1>5. IsCut(T, Delimiter[f], p, z, e, n) /\ e <= End(asked) + 1
  BY <1>1, <1>4, CutsOf, DelimiterOf DEF From
<1>6. /\ n' = n /\ T' = T /\ End(asked') = End(asked) /\ (last.null \in BOOLEAN)'
      /\ \/ Lost'
         \/ From(e)' /\ request'[f] = SubSeq(T, p, z)
  BY <1>2, <1>4, <1>5, ParseCut
<1>7. Lost' \/ (From(8)' /\ request'[f] = SubSeq(T, 5, 5))
  BY <1>1, <1>3, <1>6
<1>8. FieldInv'
  <2>1. MethodKnown' /\ UrlKnown'
    BY <1>1, <1>3, <1>4, <1>6, FieldsAre DEF MethodKnown, UrlKnown
  <2> QED
    BY <1>1, <1>3, <1>7, <2>1 DEF FieldInv
<1> QED
  BY <1>2, <1>6, <1>8, ParseSuffices

LEMMA ParseHeaderInv == IInv /\ Parse("header", "body") => IInv'
<1> SUFFICES ASSUME IInv, Parse("header", "body") PROVE IInv'
  OBVIOUS
<1>1. PICK f \in Range(Fields), g \in Range(Fields), p \in Nat, z \in Nat, e \in Nat :
        f = "header" /\ g = "body" /\ p = 8 /\ z = End(asked) - 4 /\ e = End(asked) + 1
  BY FieldsAre, CutsOf
<1>2. Parse(f, g)
  BY <1>1
<1>3. /\ tpc = f /\ tpc' = g /\ ~ last.null /\ asked' = asked
      /\ \A x \in Range(Fields) : x # f => request'[x] = request[x]
  BY <1>2, ParseFrame
<1>4. From(p) /\ MethodKnown /\ UrlKnown
  BY <1>1, <1>3 DEF IInv, FieldInv, Lost
<1>5. IsCut(T, Delimiter[f], p, z, e, n) /\ e <= End(asked) + 1
  BY <1>1, <1>4, CutsOf, DelimiterOf DEF From
<1>6. /\ n' = n /\ T' = T /\ End(asked') = End(asked) /\ (last.null \in BOOLEAN)'
      /\ \/ Lost'
         \/ From(e)' /\ request'[f] = SubSeq(T, p, z)
  BY <1>2, <1>4, <1>5, ParseCut
<1>7. Lost' \/ (From(End(asked) + 1)' /\ request'[f] = SubSeq(T, 8, End(asked) - 4))
  BY <1>1, <1>3, <1>6
<1>8. FieldInv'
  <2>1. request'[f] = SubSeq(T, 8, End(asked) - 4) => HeaderKnown'
    BY <1>1, <1>3, <1>6 DEF HeaderKnown
  <2>2. MethodKnown' /\ UrlKnown'
    BY <1>1, <1>3, <1>4, <1>6, FieldsAre DEF MethodKnown, UrlKnown
  <2> QED
    BY <1>1, <1>3, <1>7, <2>1, <2>2 DEF FieldInv
<1> QED
  BY <1>2, <1>6, <1>8, ParseSuffices

LEMMA ParseBodyInv == IInv /\ Parse("body", "split") => IInv'
<1> SUFFICES ASSUME IInv, Parse("body", "split") PROVE IInv'
  OBVIOUS
<1>0. PICK f \in Range(Fields) : f = "body"
  BY FieldsAre
<1>1. PICK g : f = "body" /\ g = "split"
  BY <1>0
<1>2. Parse(f, g)
  BY <1>1
<1>3. /\ tpc = f /\ tpc' = g /\ ~ last.null /\ asked' = asked /\ length' = length
      /\ message' = message /\ headers' = headers /\ headers = <<>>
      /\ DOMAIN request' = Range(Fields)
      /\ request'[f] = Before(last.text, Delimiter[f])
      /\ \A x \in Range(Fields) : x # f => request'[x] = request[x]
      /\ last' = IF g = "split" THEN Rest(request.header)
                 ELSE Following(last.text, Delimiter[f])
      /\ HeadersKnown'
  BY <1>2, ParseFrame
<1>4. From(End(asked) + 1) /\ MethodKnown /\ UrlKnown /\ HeaderKnown
  BY <1>1, <1>3 DEF IInv, FieldInv, Lost
<1>5. n' = n /\ T' = T /\ End(asked') = End(asked)
  BY <1>3 DEF n, T
<1>6. last' = Rest(request.header)
  BY <1>1, <1>3
<1>7. n \in Nat /\ End(asked) \in Nat
  BY CutsOf
<1>8. AllKnown'
  <2>1. MethodKnown' /\ UrlKnown' /\ HeaderKnown'
    BY <1>1, <1>3, <1>4, <1>5, FieldsAre DEF MethodKnown, UrlKnown, HeaderKnown
  <2>2. BodyKnown'
    <3>1. request'["body"] = Before(SubSeq(T, End(asked) + 1, n), CrLf)
      BY <1>1, <1>3, <1>4, DelimiterOf DEF From
    <3> QED
      BY <1>5, <3>1 DEF BodyKnown
  <2>3. n >= End(asked)
    BY <1>4, <1>7 DEF From
  <2> QED
    BY <1>5, <2>1, <2>2, <2>3 DEF AllKnown
<1>9. SplitInv'
  <2>1. Len(headers') = 0
    BY <1>3
  <2>2. Count(asked) \in 1 .. 3
    BY EndIn DEF IInv
  <2>3. Len(headers') < Count(asked')
    BY <1>3, <2>1, <2>2
  <2>4. last'.null = FALSE /\ last'.text = SubSeq(T, 8, End(asked) - 4)
    BY <1>4, <1>6 DEF Rest, HeaderKnown
  <2>5. 6 * Len(headers') + 8 = 8
    BY <2>1
  <2>6. last'.text = SubSeq(T', 6 * Len(headers') + 8, End(asked') - 4)
    BY <1>5, <2>4, <2>5
  <2>7. tpc' = "split"
    BY <1>1, <1>3
  <2> QED
    BY <1>3, <1>8, <2>3, <2>4, <2>6, <2>7, FieldsAre DEF SplitInv
<1>10. FieldInv'
  BY <1>1, <1>3 DEF FieldInv
<1>11. /\ (asked \in Asked)' /\ (length \in Lengths)'
       /\ (n \in 0 .. Len(T) /\ message = SubSeq(T, 1, n))'
       /\ (headers \in Seq(Seq(Word)))'
  BY <1>3, <1>5 DEF IInv
<1>12. tpc' = "split" /\ (last.null \in BOOLEAN)'
  BY <1>1, <1>3, <1>6 DEF Rest
<1> QED
  BY <1>3, <1>9, <1>10, <1>11, <1>12 DEF IInv

LEMMA ParseNullInv == IInv /\ ParseNull => IInv'
<1> SUFFICES ASSUME IInv, ParseNull PROVE IInv'
  OBVIOUS
<1>1. /\ tpc \in Range(Fields) /\ last.null /\ tpc' = "crashed"
      /\ asked' = asked /\ length' = length /\ message' = message /\ last' = last
      /\ request' = request /\ headers' = headers
  BY DEF ParseNull
<1>2. n' = n /\ T' = T
  BY <1>1 DEF n, T
<1>3. n < End(asked)
  BY <1>1, FieldsAre DEF IInv, FieldInv, From, Lost
<1>4. headers = <<>>
  BY <1>1 DEF IInv, SplitInv
<1>5. FieldInv'
  BY <1>1, <1>2, <1>3 DEF FieldInv
<1>6. SplitInv'
  <2>1. HeadersKnown'
    <3>1. Len(headers') = 0
      BY <1>1, <1>4
    <3> QED
      BY <3>1 DEF HeadersKnown
  <2> QED
    BY <1>1, <1>4, <2>1 DEF SplitInv
<1> QED
  BY <1>1, <1>2, <1>5, <1>6 DEF IInv

LEMMA SplitStepInv == IInv /\ Split => IInv'
<1> SUFFICES ASSUME IInv, Split PROVE IInv'
  OBVIOUS
<1>1. /\ tpc = "split"
      /\ headers' = Append(headers, Before(last.text, CrLf))
      /\ last' = Following(last.text, CrLf)
      /\ tpc' = IF last'.null THEN "parsed" ELSE "split"
      /\ asked' = asked /\ length' = length /\ message' = message /\ request' = request
  BY DEF Split
<1>2. /\ AllKnown /\ Len(headers) < Count(asked)
      /\ last.text = SubSeq(T, 6 * Len(headers) + 8, End(asked) - 4)
      /\ HeadersKnown /\ headers \in Seq(Seq(Word)) /\ asked \in Asked
  BY <1>1 DEF IInv, SplitInv
<1>3. n' = n /\ T' = T
  BY <1>1 DEF n, T
<1>0. PICK j \in Nat, h \in 1 .. 3 : j = Len(headers) /\ h = Count(asked)
  BY <1>2, EndIn
<1>4. PICK r, t, s, hs :
        /\ j = Len(headers) /\ h = Count(asked) /\ r = asked /\ t = T /\ s = last.text
        /\ hs = headers
  BY <1>0
<1>5. s = SubSeq(Text(r), 6 * j + 8, End(r) - 4) /\ j < Count(r) /\ r \in Asked
  BY <1>2, <1>4 DEF T
<1>6. /\ Before(s, CrLf) = SubSeq(Text(r), 6 * (j + 1) + 2, 6 * (j + 1) + 5)
      /\ j + 1 < Count(r) =>
           Following(s, CrLf) = Rest(SubSeq(Text(r), 6 * (j + 1) + 8, End(r) - 4))
      /\ j + 1 = Count(r) => Following(s, CrLf) = NULL
  BY <1>5, HeaderLineFound
<1>7. SubSeq(t, 6 * (j + 1) + 2, 6 * (j + 1) + 5) \in Seq(Word)
  <2>1. PICK p \in Nat, e \in Nat : p = 6 * (j + 1) + 2 /\ e = 6 * (j + 1) + 5
    OBVIOUS
  <2>2. t \in Seq(Word) /\ 6 * h + 9 <= Len(t)
    BY <1>2, <1>4, EndIn DEF T
  <2>3. p >= 1 /\ e <= Len(t)
    <3>1. j + 1 <= h
      BY <1>2, <1>4
    <3>2. e <= 6 * h + 9 /\ Len(t) \in Nat /\ e \in Nat
      BY <2>1, <2>2, <3>1
    <3> QED
      BY <2>1, <2>2, <3>2
  <2> QED
    BY <2>1, <2>2, <2>3, Part
<1>8. PICK b : b = Before(s, CrLf)
  OBVIOUS
<1>9. b \in Seq(Word) /\ b = SubSeq(t, 6 * (j + 1) + 2, 6 * (j + 1) + 5)
  BY <1>4, <1>5, <1>6, <1>7, <1>8 DEF T
<1>10. headers' = Append(hs, b) /\ hs \in Seq(Seq(Word)) /\ Len(hs) = j
  BY <1>1, <1>2, <1>4, <1>8
<1>11. /\ headers' \in Seq(Seq(Word)) /\ Len(headers') = j + 1
       /\ \A i \in 1 .. j : headers'[i] = hs[i]
       /\ headers'[j + 1] = b
  BY <1>9, <1>10
<1>12. HeadersKnown'
  <2>1. ASSUME NEW i \in 1 .. j + 1
        PROVE  headers'[i] = SubSeq(t, 6 * i + 2, 6 * i + 5)
    <3>1. CASE i = j + 1
      BY <1>9, <1>11, <3>1
    <3>2. CASE i # j + 1
      <4>1. i \in 1 .. j
        BY <3>2
      <4> QED
        BY <1>2, <1>4, <1>11, <4>1 DEF HeadersKnown
    <3> QED
      BY <3>1, <3>2
  <2> QED
    BY <1>3, <1>4, <1>11, <2>1 DEF HeadersKnown
<1>13. AllKnown'
  BY <1>1, <1>2, <1>3
    DEF AllKnown, MethodKnown, UrlKnown, HeaderKnown, BodyKnown
<1>14. /\ (asked \in Asked)' /\ (length \in Lengths)'
       /\ (n \in 0 .. Len(T) /\ message = SubSeq(T, 1, n))'
       /\ (headers \in Seq(Seq(Word)))' /\ DOMAIN request' = Range(Fields)
  BY <1>1, <1>3, <1>11 DEF IInv
<1>15. CASE j + 1 < h
  <2>1. last' = Rest(SubSeq(t, 6 * (j + 1) + 8, End(r) - 4))
    BY <1>1, <1>4, <1>6, <1>15 DEF T
  <2>2. last'.null = FALSE /\ last'.text = SubSeq(t, 6 * (j + 1) + 8, End(r) - 4)
    BY <2>1 DEF Rest
  <2>3. tpc' = "split"
    BY <1>1, <2>2
  <2>4. last'.text = SubSeq(T', 6 * Len(headers') + 8, End(asked') - 4)
    BY <1>1, <1>3, <1>4, <1>11, <2>2
  <2>5. Len(headers') < Count(asked')
    BY <1>1, <1>4, <1>11, <1>15
  <2>6. SplitInv'
    BY <1>12, <1>13, <2>2, <2>3, <2>4, <2>5, FieldsAre DEF SplitInv
  <2>7. FieldInv'
    BY <2>3 DEF FieldInv
  <2> QED
    BY <1>14, <2>2, <2>3, <2>6, <2>7 DEF IInv
<1>16. CASE j + 1 = h
  <2>1. last' = NULL
    BY <1>1, <1>4, <1>6, <1>16
  <2>2. last'.null = TRUE
    BY <2>1 DEF NULL
  <2>3. tpc' = "parsed"
    BY <1>1, <2>2
  <2>4. Len(headers') = Count(asked')
    BY <1>1, <1>4, <1>11, <1>16
  <2>5. SplitInv'
    BY <1>12, <1>13, <2>3, <2>4, FieldsAre DEF SplitInv
  <2>6. FieldInv'
    BY <2>3 DEF FieldInv
  <2> QED
    BY <1>14, <2>2, <2>3, <2>5, <2>6 DEF IInv
<1> QED
  BY <1>2, <1>4, <1>15, <1>16

LEMMA MakePathInv == IInv /\ MakePath => IInv'
<1> SUFFICES ASSUME IInv, MakePath PROVE IInv'
  OBVIOUS
<1>1. /\ tpc = "parsed" /\ tpc' = IF Needs <= Room THEN "ready" ELSE "over"
      /\ asked' = asked /\ length' = length /\ message' = message /\ last' = last
      /\ request' = request /\ headers' = headers
  BY DEF MakePath
<1>2. n' = n /\ T' = T
  BY <1>1 DEF n, T
<1>3. Meaning' = Meaning
  BY <1>1 DEF Meaning, Form, Value
<1>4. Needs' = Needs /\ Room' = Room
  BY <1>1, <1>3 DEF Needs, Room
<1>5. /\ Len(headers) = Count(asked) /\ AllKnown /\ HeadersKnown
      /\ asked \in Asked /\ length \in Lengths
  BY <1>1 DEF IInv, SplitInv
<1>6. AllKnown' /\ HeadersKnown' /\ Len(headers') = Count(asked')
  BY <1>1, <1>2, <1>5
    DEF AllKnown, MethodKnown, UrlKnown, HeaderKnown, BodyKnown, HeadersKnown
<1>7. tpc' = "over" => Needs' > Room'
  <2>1. tpc' = "over" => ~ (Needs <= Room)
    BY <1>1
  <2>2. Needs \in Nat /\ Room \in Nat
    BY <1>5, TextAssumption DEF Needs, Room
  <2> QED
    BY <1>4, <2>1, <2>2
<1>8. tpc' \in {"ready", "over"}
  BY <1>1
<1>9. SplitInv' /\ FieldInv'
  BY <1>6, <1>8, FieldsAre DEF SplitInv, FieldInv
<1> QED
  BY <1>1, <1>2, <1>7, <1>8, <1>9 DEF IInv

LEMMA Invariant == Spec => []IInv
<1>1. Init => IInv
  BY InitInv
<1>2. IInv /\ [Next]_vars => IInv'
  <2> SUFFICES ASSUME IInv, [Next]_vars PROVE IInv'
    OBVIOUS
  <2>1. CASE ParseFields
    BY <2>1, ParseCases, ParseMethodInv, ParseUrlInv, ParseVersionInv, ParseHeaderInv,
       ParseBodyInv
  <2>2. CASE ParseNull
    BY <2>2, ParseNullInv
  <2>3. CASE Split
    BY <2>3, SplitStepInv
  <2>4. CASE MakePath
    BY <2>4, MakePathInv
  <2>5. CASE UNCHANGED vars
    <3>1. /\ asked' = asked /\ length' = length /\ message' = message /\ tpc' = tpc
          /\ last' = last /\ request' = request /\ headers' = headers
      BY <2>5 DEF vars
    <3>2. n' = n /\ T' = T /\ Needs' = Needs /\ Room' = Room
      BY <3>1 DEF n, T, Needs, Room, Meaning, Form, Value
    <3>3. FieldInv' /\ SplitInv'
      <4>1. FieldInv /\ SplitInv
        BY DEF IInv
      <4> QED
        BY <3>1, <3>2, <4>1
          DEF FieldInv, SplitInv, From, Lost, AllKnown, MethodKnown, UrlKnown, HeaderKnown,
              BodyKnown, HeadersKnown
    <3> QED
      BY <3>1, <3>2, <3>3 DEF IInv
  <2> QED
    BY <2>1, <2>2, <2>3, <2>4, <2>5 DEF Next
<1> QED
  BY <1>1, <1>2, PTL DEF Spec

----------------------------------------------------------------------------
\* The field to be parsed next, the fields and the number of header lines are
\* what they are said to be.
THEOREM TypeCorrect == Spec => []TypeOK
<1>1. IInv => TypeOK
  <2> SUFFICES ASSUME IInv PROVE TypeOK
    OBVIOUS
  <2>1. Count(asked) \in 1 .. 3
    BY EndIn DEF IInv
  <2>2. headers \in Seq(Seq(Word)) /\ SplitInv
    BY DEF IInv
  <2>3. Len(headers) \in Nat
    BY <2>2
  <2>4. Len(headers) <= Count(asked)
    <3>1. CASE tpc \in Range(Fields) \cup {"crashed"}
      <4>1. Len(headers) = 0
        BY <2>2, <3>1 DEF SplitInv
      <4> QED
        BY <2>1, <4>1
    <3>2. CASE tpc = "split"
      BY <2>1, <2>2, <2>3, <3>2 DEF SplitInv
    <3>3. CASE tpc \in {"parsed", "ready", "over"}
      BY <2>1, <2>2, <3>3 DEF SplitInv
    <3> QED
      BY <3>1, <3>2, <3>3 DEF IInv
  <2>5. Len(headers) <= 3
    BY <2>1, <2>3, <2>4
  <2> QED
    BY <2>5 DEF TypeOK, IInv
<1> QED
  BY <1>1, Invariant, PTL

\* A request that has arrived is understood: what the user asked, its url, and its
\* body up to its first line end (parsing_http_request, process_request).
THEOREM UnderstoodCorrect == Spec => []WholeIsUnderstood
<1>1. IInv => WholeIsUnderstood
  <2> SUFFICES ASSUME IInv, tpc \in {"ready", "over"}, message = Text(asked)
               PROVE  /\ Meaning = Intended(asked, asked.body)
                      /\ request.url = <<"/url">>
                      /\ HasBody(asked) => request.body = Bodied(asked.body)
    BY DEF WholeIsUnderstood
  <2>1. asked \in Asked /\ AllKnown /\ Len(headers) = Count(asked) /\ HeadersKnown
    BY DEF IInv, SplitInv
  <2>2. Meaning = Intended(asked, request.body) /\ request.url = <<"/url">>
    BY <2>1, MeaningIs
  <2>3. n = Len(Text(asked)) /\ n \in Nat /\ End(asked) <= n
    BY <2>1, CutsOf DEF n, AllKnown
  <2>4. HasBody(asked) => request.body = Bodied(asked.body)
    <3> SUFFICES ASSUME HasBody(asked) PROVE request.body = Bodied(asked.body)
      OBVIOUS
    <3>0. PICK e \in Nat : e = n
      BY <2>3
    <3>1. PICK r, f : r = asked /\ f = request.body
      OBVIOUS
    <3>2. f = Before(SubSeq(Text(r), End(r) + 1, e), CrLf)
      BY <2>1, <3>0, <3>1 DEF AllKnown, BodyKnown, T
    <3>3. r \in Asked /\ HasBody(r) /\ End(r) <= e /\ e <= Len(Text(r)) /\ e = Len(Text(r))
      BY <2>1, <2>3, <3>0, <3>1
    <3>4. f = Bodied(r.body)
      BY <3>2, <3>3, BodyFound
    <3> QED
      BY <3>1, <3>4
  <2>5. Meaning = Intended(asked, asked.body)
    <3>1. CASE asked.op # "SEARCH"
      BY <2>2, <3>1 DEF Intended
    <3>2. CASE asked.op = "SEARCH"
      <4>1. HasBody(asked)
        BY <3>2 DEF HasBody
      <4>2. asked.body \in Seq(Word)
        BY <2>1, <4>1, TextShape
      <4>3. IsPrefix(<<"q=">>, request.body) <=> IsPrefix(<<"q=">>, asked.body)
        BY <2>4, <4>1, <4>2, QueryKept
      <4> QED
        BY <2>2, <3>2, <4>3 DEF Intended
    <3> QED
      BY <3>1, <3>2
  <2> QED
    BY <2>2, <2>4, <2>5
<1> QED
  BY <1>1, Invariant, PTL

\* A request of which only the beginning has arrived ends the server, or is taken
\* for one to the same resource with less of a body (tokenizing_multi_character_delim).
THEOREM CutCorrect == Spec => []CutIsLessOrCrash
<1>1. IInv => CutIsLessOrCrash
  <2> SUFFICES ASSUME IInv PROVE CutIsLessOrCrash
    OBVIOUS
  <2>1. asked \in Asked /\ n \in Nat /\ n <= Len(Text(asked))
    <3>1. n \in 0 .. Len(T) /\ T \in Seq(Word) /\ asked \in Asked
      BY EndIn DEF IInv, T
    <3> QED
      BY <3>1 DEF T
  <2>2. Len(HeaderText(asked)) = End(asked)
    BY <2>1, HeaderShape
  <2>3. tpc = "crashed" => n < End(asked)
    BY DEF IInv, FieldInv
  <2>4. ASSUME tpc \in {"ready", "over"}
        PROVE  /\ n >= End(asked)
               /\ request.url = <<"/url">>
               /\ Meaning = Intended(asked, request.body)
               /\ HasBody(asked) => IsPrefix(request.body, Bodied(asked.body) \o <<"CR">>)
    <3>1. AllKnown /\ Len(headers) = Count(asked) /\ HeadersKnown
      BY <2>4 DEF IInv, SplitInv
    <3>2. Meaning = Intended(asked, request.body) /\ request.url = <<"/url">>
      BY <2>1, <3>1, MeaningIs
    <3>3. n >= End(asked) /\ End(asked) \in Nat
      BY <3>1, CutsOf DEF AllKnown
    <3>4. HasBody(asked) => IsPrefix(request.body, Bodied(asked.body) \o <<"CR">>)
      <4> SUFFICES ASSUME HasBody(asked)
                   PROVE  IsPrefix(request.body, Bodied(asked.body) \o <<"CR">>)
        OBVIOUS
      <4>0. PICK e \in Nat : e = n
        BY <2>1
      <4>1. PICK r, f : r = asked /\ f = request.body
        OBVIOUS
      <4>2. f = Before(SubSeq(Text(r), End(r) + 1, e), CrLf)
        BY <3>1, <4>0, <4>1 DEF AllKnown, BodyKnown, T
      <4>3. r \in Asked /\ HasBody(r) /\ End(r) <= e /\ e <= Len(Text(r))
        BY <2>1, <3>3, <4>0, <4>1
      <4>4. IsPrefix(f, Bodied(r.body) \o <<"CR">>)
        BY <4>2, <4>3, BodyFound
      <4> QED
        BY <4>1, <4>4
    <3> QED
      BY <3>2, <3>3, <3>4
  <2> QED
    BY <2>2, <2>3, <2>4 DEF CutIsLessOrCrash, n
<1> QED
  BY <1>1, Invariant, PTL

\* path[] of a handler of httpserver is left only by GET of a url of the longest
\* length that httpclient sends (process_request_get).
THEOREM OverrunCorrect == Spec => []OverrunOnlyByDot
<1>1. IInv => OverrunOnlyByDot
  <2> SUFFICES ASSUME IInv, tpc = "over"
               PROVE  Meaning = "GET" /\ length = UrlSize - 1
    BY DEF OverrunOnlyByDot
  <2>1. Needs > Room /\ length \in Lengths
    BY DEF IInv
  <2>2. /\ UrlSize \in Nat /\ GetSize \in Nat /\ PathSize \in Nat /\ NameSize \in Nat
        /\ length \in 1 .. (UrlSize - 1)
    BY <2>1, TextAssumption
  <2>3. CASE Meaning = "GET"
    <3>1. "GET" # "POST"
      OBVIOUS
    <3>2. Needs = length + 2 /\ Room = GetSize
      BY <2>2, <2>3, <3>1 DEF Needs, Room
    <3> QED
      BY <2>1, <2>2, <2>3, <3>2, SizeAssumption
  <2>4. CASE Meaning # "GET"
    <3>1. Room = PathSize /\ Needs \in Nat /\ Needs <= length + 2 + NameSize
      BY <2>2, <2>4 DEF Needs, Room
    <3> QED
      BY <2>1, <2>2, <3>1, SizeAssumption
  <2> QED
    BY <2>3, <2>4
<1> QED
  BY <1>1, Invariant, PTL
============================================================================
