---------------------------- MODULE LineIOProofs ----------------------------
(***************************************************************************)
(* read_line implements LineReader, for every alphabet, every buffer of at *)
(* least two bytes, and whatever the bounds on bytes and signals.          *)
(***************************************************************************)
EXTENDS LineIO, SequenceTheorems, TLAPS

NoLineEnd(s) == \A i \in 1 .. Len(s) : s[i] # NewLine

\* The buffer b after the bytes s of a line that has not ended.
Held(s, b) == NoLineEnd(s) /\ b = Handed(s, Len(s))

\* What the call under way has read, and what read() has told of the stream.
CallInv ==
  /\ rpc = "out" => taken = <<>>
  /\ rpc = "read" \/ (rpc = "look" /\ numRead # 1) => Held(taken, buffer)
  /\ rpc = "look" /\ numRead = 1 =>
       \E s \in Content : taken = Append(s, ch) /\ Held(s, buffer)
  /\ rpc = "look" /\ numRead = 0 => stream = <<>> /\ ended \in {"shutdown", "told"}
  /\ Telling => stream = <<>> /\ ended = "told"
  /\ rpc = "look" /\ numRead = -1 => errno \in {"EINTR", "ECONNRESET"}

IInv == TypeOK /\ CallInv

----------------------------------------------------------------------------
(* Bytes handed over.                                                      *)

\* The first MAX_LENGTH - 1 bytes of s: a sequence of bytes, and how many.
LEMMA HandedBytes ==
  ASSUME NEW s \in Content
  PROVE  /\ Handed(s, Len(s)) \in Content
         /\ Len(Handed(s, Len(s))) = IF Len(s) < MAX_LENGTH THEN Len(s) ELSE MAX_LENGTH - 1
         /\ \A i \in 1 .. Len(Handed(s, Len(s))) : Handed(s, Len(s))[i] = s[i]
<1> DEFINE n == IF Len(s) < MAX_LENGTH THEN Len(s) ELSE MAX_LENGTH - 1
<1>1. Len(s) \in Nat /\ n \in 0 .. Len(s) /\ n \in Int
  BY LengthAssumption, LenProperties DEF Content
<1>2. \A i \in 1 .. n : s[i] \in Block
  BY <1>1, ElementOfSeq DEF Content
<1>3. /\ SubSeq(s, 1, n) \in Content
      /\ Len(SubSeq(s, 1, n)) = IF 1 <= n THEN n - 1 + 1 ELSE 0
      /\ \A i \in 1 .. n - 1 + 1 : SubSeq(s, 1, n)[i] = s[1 + i - 1]
  <2> HIDE DEF n
  <2> QED BY <1>1, <1>2, SubSeqProperties DEF Content
<1> HIDE DEF n
<1>4. Len(SubSeq(s, 1, n)) = n /\ \A i \in 1 .. n : SubSeq(s, 1, n)[i] = s[i]
  BY <1>1, <1>3
<1>5. Handed(s, Len(s)) = SubSeq(s, 1, n)
  BY DEF Handed, n
<1> QED BY <1>3, <1>4, <1>5 DEF n

\* One more byte is handed over exactly while there is room for it.
LEMMA HandedNext ==
  ASSUME NEW s \in Content, NEW b \in Block
  PROVE  Handed(Append(s, b), Len(Append(s, b))) =
           IF Len(Handed(s, Len(s))) < MAX_LENGTH - 1
           THEN Append(Handed(s, Len(s)), b) ELSE Handed(s, Len(s))
<1> DEFINE a == Append(s, b)
           h == Handed(s, Len(s))
           g == Handed(a, Len(a))
<1>1. Len(s) \in Nat /\ a \in Content /\ Len(a) = Len(s) + 1
      /\ (\A i \in 1 .. Len(s) : a[i] = s[i]) /\ a[Len(s) + 1] = b
  BY AppendProperties, LenProperties DEF Content
<1>2. /\ h \in Content /\ Len(h) = IF Len(s) < MAX_LENGTH THEN Len(s) ELSE MAX_LENGTH - 1
      /\ \A i \in 1 .. Len(h) : h[i] = s[i]
  BY HandedBytes
<1>3. /\ g \in Content /\ Len(g) = IF Len(a) < MAX_LENGTH THEN Len(a) ELSE MAX_LENGTH - 1
      /\ \A i \in 1 .. Len(g) : g[i] = a[i]
  BY <1>1, HandedBytes
<1>4. /\ Append(h, b) \in Content /\ Len(Append(h, b)) = Len(h) + 1
      /\ (\A i \in 1 .. Len(h) : Append(h, b)[i] = h[i]) /\ Append(h, b)[Len(h) + 1] = b
  BY <1>2, AppendProperties DEF Content
<1> HIDE DEF a, h, g
<1>5. CASE Len(h) < MAX_LENGTH - 1
  <2>1. Len(g) = Len(Append(h, b)) /\ Len(h) = Len(s)
    BY <1>1, <1>2, <1>3, <1>4, <1>5, LengthAssumption
  <2>2. \A i \in 1 .. Len(g) : g[i] = Append(h, b)[i]
    BY <1>1, <1>2, <1>3, <1>4, <2>1
  <2>3. g = Append(h, b)
    BY <1>3, <1>4, <2>1, <2>2, SeqEqual DEF Content
  <2> QED BY <1>5, <2>3 DEF a, h, g
<1>6. CASE ~ (Len(h) < MAX_LENGTH - 1)
  <2>1. Len(g) = Len(h) /\ Len(h) <= Len(s)
    BY <1>1, <1>2, <1>3, <1>6, LengthAssumption
  <2>2. \A i \in 1 .. Len(g) : g[i] = h[i]
    BY <1>1, <1>2, <1>3, <2>1
  <2>3. g = h
    BY <1>2, <1>3, <2>1, <2>2, SeqEqual DEF Content
  <2> QED BY <1>6, <2>3 DEF a, h, g
<1> QED BY <1>5, <1>6

\* An empty buffer stands for nothing read.
LEMMA HeldNothing == Held(<<>>, <<>>)
<1>1. Len(<<>>) = 0 /\ <<>> \in Content
  BY EmptySeq DEF Content
<1>2. Handed(<<>>, Len(<<>>)) \in Content /\ Len(Handed(<<>>, Len(<<>>))) = 0
  BY <1>1, HandedBytes, LengthAssumption
<1>3. Handed(<<>>, Len(<<>>)) = <<>>
  BY <1>2, EmptySeq DEF Content
<1> QED BY <1>1, <1>3 DEF Held, NoLineEnd

\* A byte of the stream moves into the call, and the two together stay the same.
LEMMA MovesByte ==
  ASSUME NEW s \in Content, NEW t \in Content, t # <<>>
  PROVE  /\ Head(t) \in Block /\ Tail(t) \in Content
         /\ Append(s, Head(t)) \in Content
         /\ Append(s, Head(t)) \o Tail(t) = s \o t
<1>1. Head(t) \in Block /\ Tail(t) \in Content /\ Len(t) \in Nat \ {0}
  BY HeadTailProperties, EmptySeq DEF Content
<1>2. <<Head(t)>> \in Content
  BY <1>1 DEF Content
<1>3. t = <<Head(t)>> \o Tail(t)
  <2>1. 1 \in 1 .. Len(t) /\ Len(t) \in 1 .. Len(t)
    BY <1>1
  <2>2. SubSeq(t, 1, Len(t)) = <<t[1]>> \o SubSeq(t, 1 + 1, Len(t))
    BY <2>1, SubSeqRecursiveFirst DEF Content
  <2>3. SubSeq(t, 1, Len(t)) = t /\ Tail(t) = SubSeq(t, 2, Len(t))
    BY SubSeqFull, TailIsSubSeq DEF Content
  <2>4. Head(t) = t[1]
    BY <2>1, <2>3, HeadTailOfSubSeq DEF Content
  <2> QED BY <2>2, <2>3, <2>4
<1>4. Append(s, Head(t)) \in Content /\ Append(s, Head(t)) = s \o <<Head(t)>>
  BY <1>1, AppendProperties, AppendIsConcat DEF Content
<1>5. (s \o <<Head(t)>>) \o Tail(t) = s \o (<<Head(t)>> \o Tail(t))
  BY <1>1, <1>2, ConcatAssociative DEF Content
<1> QED BY <1>1, <1>3, <1>4, <1>5

\* A byte that arrives comes behind what is unread.
LEMMA ArrivesBehind ==
  ASSUME NEW s \in Content, NEW t \in Content, NEW b \in Block
  PROVE  s \o Append(t, b) = Append(s \o t, b)
<1>1. <<b>> \in Content /\ s \o t \in Content
  BY ConcatProperties DEF Content
<1>2. Append(t, b) = t \o <<b>> /\ Append(s \o t, b) = (s \o t) \o <<b>>
  BY <1>1, AppendIsConcat DEF Content
<1>3. (s \o t) \o <<b>> = s \o (t \o <<b>>)
  BY <1>1, ConcatAssociative DEF Content
<1> QED BY <1>2, <1>3

\* What a call has taken off the head of a stream, and what it leaves.
LEMMA TakenOff ==
  ASSUME NEW s \in Content, NEW t \in Content, s # <<>>
  PROVE  /\ Handed(s \o t, Len(s)) = Handed(s, Len(s))
         /\ SubSeq(s \o t, Len(s) + 1, Len(s \o t)) = t
<1> DEFINE n == IF Len(s) < MAX_LENGTH THEN Len(s) ELSE MAX_LENGTH - 1
           r == SubSeq(s \o t, Len(s) + 1, Len(s \o t))
<1>1. Len(s) \in Nat \ {0} /\ Len(t) \in Nat /\ n \in 1 .. Len(s)
  BY EmptySeq, LenProperties, LengthAssumption DEF Content
<1>2. SubSeq(s \o t, 1, n) = SubSeq(s, 1, n)
  <2> HIDE DEF n
  <2>1. 1 \in 1 .. Len(s)
    BY <1>1
  <2> QED BY <1>1, <2>1, SubSeqOfConcat1 DEF Content
<1>3. /\ s \o t \in Content /\ Len(s \o t) = Len(s) + Len(t)
      /\ \A i \in 1 .. Len(s) + Len(t) : (s \o t)[i] =
           IF i <= Len(s) THEN s[i] ELSE t[i - Len(s)]
  BY ConcatProperties DEF Content
<1>4. \A i \in (Len(s) + 1) .. Len(s \o t) : (s \o t)[i] \in Block
  <2> TAKE i \in (Len(s) + 1) .. Len(s \o t)
  <2>1. i \in 1 .. Len(s \o t)
    BY <1>1, <1>3
  <2> QED BY <1>3, <2>1, ElementOfSeq DEF Content
<1>5. Len(s) + 1 \in Int /\ Len(s \o t) \in Int
  BY <1>1, <1>3
<1>6. /\ r \in Content
      /\ Len(r) = IF Len(s) + 1 <= Len(s \o t) THEN Len(s \o t) - (Len(s) + 1) + 1 ELSE 0
      /\ \A i \in 1 .. Len(s \o t) - (Len(s) + 1) + 1 : r[i] = (s \o t)[Len(s) + 1 + i - 1]
  BY <1>4, <1>5, SubSeqProperties DEF Content
<1> HIDE DEF r
<1>7. Len(r) = Len(t) /\ \A i \in 1 .. Len(r) : r[i] = t[i]
  <2>1. Len(r) = Len(t)
    BY <1>1, <1>3, <1>6
  <2>2. ASSUME NEW i \in 1 .. Len(t)
        PROVE  r[i] = t[i]
    <3>1. r[i] = (s \o t)[Len(s) + 1 + i - 1] /\ Len(s) + 1 + i - 1 = Len(s) + i
      BY <1>1, <1>3, <1>6
    <3>2. Len(s) + i \in 1 .. Len(s) + Len(t) /\ ~ (Len(s) + i <= Len(s))
          /\ (Len(s) + i) - Len(s) = i
      BY <1>1
    <3> QED BY <1>3, <3>1, <3>2
  <2> QED BY <2>1, <2>2
<1>8. r = t
  BY <1>6, <1>7, SeqEqual DEF Content
<1> QED BY <1>2, <1>8 DEF Handed, n, r

----------------------------------------------------------------------------
(* The invariant: what the buffer holds is what the call has read.         *)

LEMMA InitInv == Init => IInv
<1> SUFFICES ASSUME Init PROVE IInv
  OBVIOUS
<1>1. <<>> \in Content /\ Len(<<>>) = 0
  BY EmptySeq DEF Content
<1>2. TypeOK
  BY <1>1, LengthAssumption, LineBoundAssumption DEF Init, TypeOK
<1>3. CallInv
  BY DEF Init, CallInv, Telling
<1> QED BY <1>2, <1>3 DEF IInv

\* The peer's steps leave the call alone, and end no stream twice.
LEMMA PeerInv ==
  ASSUME IInv, Arrive \/ End
  PROVE  IInv'
<1> USE DEF IInv
<1>1. ended = "no" /\ UNCHANGED <<callVars, taken, given>> /\ ended' \in {"no", "shutdown", "reset"}
  BY DEF Arrive, End
<1>2. stream' \in Content /\ sent' \in Content
  <2>1. CASE Arrive
    <3>1. PICK b \in Block : stream' = Append(stream, b) /\ sent' = Append(sent, b)
      BY <2>1 DEF Arrive
    <3> QED BY <3>1, AppendProperties DEF TypeOK, Content
  <2>2. CASE End
    BY <2>2 DEF End, TypeOK
  <2> QED BY <2>1, <2>2
<1>3. TypeOK'
  BY <1>1, <1>2 DEF TypeOK, callVars
<1>4. CallInv'
  BY <1>1 DEF CallInv, callVars, Telling
<1> QED BY <1>3, <1>4

LEMMA CallStart ==
  ASSUME IInv, Call
  PROVE  IInv'
<1> USE DEF IInv
<1>1. TypeOK'
  BY EmptySeq, LengthAssumption DEF Call, TypeOK, Content
<1>2. taken' = <<>> /\ buffer' = <<>> /\ rpc' = "read"
  BY DEF Call, CallInv
<1>3. CallInv'
  BY <1>2, HeldNothing DEF CallInv, Telling
<1> QED BY <1>1, <1>3

LEMMA ReadInv ==
  ASSUME IInv, Read
  PROVE  IInv'
<1> USE DEF IInv, Read
<1>1. rpc = "read" /\ rpc' = "look" /\ Held(taken, buffer) /\ taken \in Content /\ stream \in Content
  BY DEF CallInv, TypeOK
<1>2. CASE ReadByte
  <2>1. Head(stream) \in Block /\ Tail(stream) \in Content /\ Append(taken, Head(stream)) \in Content
    BY <1>1, <1>2, MovesByte DEF ReadByte
  <2>2. TypeOK'
    BY <1>2, <2>1 DEF TypeOK, ReadByte
  <2>3. CallInv'
    BY <1>1, <1>2 DEF CallInv, Telling, ReadByte
  <2> QED BY <2>2, <2>3
<1>3. CASE ReadEnd
  <2>1. TypeOK'
    BY <1>3 DEF TypeOK, ReadEnd
  <2>2. CallInv'
    BY <1>1, <1>3 DEF CallInv, Telling, ReadEnd
  <2> QED BY <2>1, <2>2
<1>4. CASE ReadReset
  <2>1. TypeOK'
    BY <1>4 DEF TypeOK, ReadReset
  <2>2. CallInv'
    BY <1>1, <1>4 DEF CallInv, Telling, ReadReset
  <2> QED BY <2>1, <2>2
<1>5. CASE ReadInterrupted
  <2>1. TypeOK'
    BY <1>5, LineBoundAssumption DEF TypeOK, ReadInterrupted
  <2>2. CallInv'
    BY <1>1, <1>5 DEF CallInv, Telling, ReadInterrupted
  <2> QED BY <2>1, <2>2
<1> QED BY <1>2, <1>3, <1>4, <1>5

LEMMA RetryInv ==
  ASSUME IInv, Retry
  PROVE  IInv'
<1> USE DEF IInv, Retry
<1>1. TypeOK'
  BY DEF TypeOK
<1>2. Held(taken, buffer)
  BY DEF CallInv
<1>3. CallInv'
  BY <1>2 DEF CallInv, Telling
<1> QED BY <1>1, <1>3

\* A call that returns leaves its buffer, and has nothing read.
LEMMA ReturnInv ==
  ASSUME IInv, NEW len \in Int, NEW bytes \in Content, Return(len, bytes),
         stream' \in Content, UNCHANGED <<ended, numRead, errno, ch, signals, sent>>,
         totRead' \in 0 .. (MAX_LENGTH - 1), buffer' \in Content, Len(buffer') = totRead'
  PROVE  IInv'
<1> USE DEF IInv, Return
<1>1. given' \in Content /\ taken' \in Content
  BY ConcatProperties, EmptySeq DEF TypeOK, Content
<1>2. TypeOK'
  BY <1>1 DEF TypeOK
<1>3. CallInv'
  BY DEF CallInv, Telling
<1> QED BY <1>2, <1>3

LEMMA FailInv ==
  ASSUME IInv, Fail
  PROVE  IInv'
<1>1. Return(-1, <<>>) /\ <<>> \in Content /\ -1 \in Int
  BY EmptySeq DEF Fail, Content
<1>2. /\ stream' \in Content /\ UNCHANGED <<ended, numRead, errno, ch, signals, sent>>
      /\ totRead' \in 0 .. (MAX_LENGTH - 1) /\ buffer' \in Content /\ Len(buffer') = totRead'
  BY DEF Fail, IInv, TypeOK
<1> QED BY <1>1, <1>2, ReturnInv

LEMMA AtEndInv ==
  ASSUME IInv, AtEnd
  PROVE  IInv'
<1>1. Return(totRead, buffer) /\ buffer \in Content /\ totRead \in Int
  BY LengthAssumption DEF AtEnd, IInv, TypeOK
<1>2. /\ stream' \in Content /\ UNCHANGED <<ended, numRead, errno, ch, signals, sent>>
      /\ totRead' \in 0 .. (MAX_LENGTH - 1) /\ buffer' \in Content /\ Len(buffer') = totRead'
  BY DEF AtEnd, IInv, TypeOK
<1> QED BY <1>1, <1>2, ReturnInv

\* The byte goes into the buffer while there is room, and is dropped after that:
\* either way the buffer holds what is handed over of all the bytes taken.
LEMMA AtByteBuffer ==
  ASSUME IInv, AtByte
  PROVE  /\ buffer' = Handed(taken, Len(taken)) /\ buffer' \in Content
         /\ Len(buffer') = totRead' /\ totRead' \in 0 .. (MAX_LENGTH - 1)
         /\ \E s \in Content : taken = Append(s, ch) /\ NoLineEnd(s)
<1>1. PICK s \in Content : taken = Append(s, ch) /\ Held(s, buffer)
  BY DEF IInv, CallInv, AtByte
<1>2. ch \in Block /\ buffer \in Content /\ Len(buffer) = totRead /\ totRead \in 0 .. (MAX_LENGTH - 1)
  BY DEF IInv, TypeOK
<1>3. Handed(taken, Len(taken)) = IF Len(buffer) < MAX_LENGTH - 1 THEN Append(buffer, ch) ELSE buffer
  BY <1>1, <1>2, HandedNext DEF Held
<1>4. buffer' = IF totRead < MAX_LENGTH - 1 THEN Append(buffer, ch) ELSE buffer
  BY DEF AtByte, Room
<1>5. totRead' = IF totRead < MAX_LENGTH - 1 THEN totRead + 1 ELSE totRead
  BY DEF AtByte, Room
<1>6. Append(buffer, ch) \in Content /\ Len(Append(buffer, ch)) = Len(buffer) + 1
  BY <1>2, AppendProperties DEF Content
<1> QED BY <1>1, <1>2, <1>3, <1>4, <1>5, <1>6, LengthAssumption DEF Held

LEMMA AtByteInv ==
  ASSUME IInv, AtByte
  PROVE  IInv'
<1>1. /\ buffer' = Handed(taken, Len(taken)) /\ buffer' \in Content
      /\ Len(buffer') = totRead' /\ totRead' \in 0 .. (MAX_LENGTH - 1)
      /\ \E s \in Content : taken = Append(s, ch) /\ NoLineEnd(s)
  BY AtByteBuffer
<1>2. stream' \in Content /\ UNCHANGED <<ended, numRead, errno, ch, signals, sent>>
  BY DEF AtByte, IInv, TypeOK
<1>3. CASE ch = NewLine
  <2>1. Return(totRead', buffer') /\ totRead' \in Int
    BY <1>1, <1>3, LengthAssumption DEF AtByte
  <2> QED BY <1>1, <1>2, <2>1, ReturnInv
<1>4. CASE ch # NewLine
  <2>1. rpc' = "read" /\ UNCHANGED <<stream, out, given, taken>>
    BY <1>4 DEF AtByte
  <2>2. TypeOK'
    BY <1>1, <1>2, <2>1 DEF IInv, TypeOK
  <2>3. NoLineEnd(taken)
    <3>1. PICK s \in Content : taken = Append(s, ch) /\ NoLineEnd(s)
      BY <1>1
    <3>2. /\ Len(taken) = Len(s) + 1 /\ Len(s) \in Nat /\ taken[Len(s) + 1] = ch
          /\ \A i \in 1 .. Len(s) : taken[i] = s[i]
      BY <3>1, AppendProperties, LenProperties DEF IInv, TypeOK, Content
    <3> QED BY <1>4, <3>1, <3>2 DEF NoLineEnd
  <2>4. CallInv'
    BY <1>1, <2>1, <2>3 DEF CallInv, Telling, Held
  <2> QED BY <2>2, <2>4 DEF IInv
<1> QED BY <1>3, <1>4

LEMMA NextInv ==
  ASSUME IInv, [Next]_vars
  PROVE  IInv'
<1>1. CASE UNCHANGED vars
  BY <1>1 DEF vars, callVars, IInv, TypeOK, CallInv, Telling
<1>2. CASE CallNext
  BY <1>2, CallStart, ReadInv, RetryInv, FailInv, AtEndInv, AtByteInv DEF CallNext
<1> QED BY <1>1, <1>2, PeerInv DEF Next

\* The buffer is never overrun, and every variable of the call keeps its type
\* (util.h's read_line), whatever the size of the buffer and of the stream.
THEOREM TypeCorrect == Spec => []TypeOK
<1>1. IInv => TypeOK
  BY DEF IInv
<1> QED BY <1>1, InitInv, NextInv, PTL DEF Spec

----------------------------------------------------------------------------
(* The refinement.                                                         *)

LEMMA InitReader == Init => Reader!Init
<1> SUFFICES ASSUME Init PROVE Reader!Init
  OBVIOUS
<1>1. <<>> \o <<>> = <<>> /\ Len(<<>>) = 0
  BY EmptySeq, ConcatEmptySeq
<1> QED BY <1>1 DEF Init, Reader!Init, Reader!Returned, Telling

LEMMA PeerReader ==
  ASSUME IInv, Arrive \/ End
  PROVE  Reader!Next
<1>1. ended = "no" /\ ~Telling /\ ~Telling' /\ taken' = taken /\ out' = out
  BY DEF Arrive, End, callVars, IInv, CallInv, Telling
<1>2. CASE Arrive
  <2>1. PICK b \in Block : stream' = Append(stream, b)
    BY <1>2 DEF Arrive
  <2>2. taken \o Append(stream, b) = Append(taken \o stream, b)
    BY ArrivesBehind DEF IInv, TypeOK
  <2>3. Reader!Arrive
    BY <1>1, <1>2, <2>1, <2>2 DEF Arrive, Reader!Arrive
  <2> QED BY <2>3 DEF Reader!Next
<1>3. CASE End
  <2>1. Reader!End
    BY <1>1, <1>3 DEF End, Reader!End
  <2> QED BY <2>1 DEF Reader!Next
<1> QED BY <1>2, <1>3

\* A step inside of a call: what is unread, and how it ends, stay the same.
LEMMA InsideReader ==
  ASSUME IInv, Call \/ Read \/ Retry
  PROVE  UNCHANGED Reader!readerVars
<1>1. CASE Call \/ Retry
  BY <1>1 DEF Call, Retry, Reader!readerVars, Telling
<1>2. CASE Read
  <2> USE <1>2 DEF Read
  <2>1. ~Telling /\ out' = out /\ rpc' = "look"
    BY DEF Telling
  <2>2. CASE ReadByte
    <3>1. taken' \o stream' = taken \o stream
      BY <2>2, MovesByte DEF ReadByte, IInv, TypeOK
    <3> QED BY <2>1, <2>2, <3>1 DEF ReadByte, Telling, Reader!readerVars
  <2>3. CASE ReadEnd
    BY <2>1, <2>3 DEF ReadEnd, Telling, Reader!readerVars
  <2>4. CASE ReadReset
    BY <2>1, <2>4 DEF ReadReset, Telling, Reader!readerVars
  <2>5. CASE ReadInterrupted
    BY <2>1, <2>5 DEF ReadInterrupted, Telling, Reader!readerVars
  <2> QED BY <2>2, <2>3, <2>4, <2>5
<1> QED BY <1>1, <1>2

LEMMA FailReader ==
  ASSUME IInv, Fail
  PROVE  Reader!TellError
<1>1. Telling /\ ~Telling' /\ stream = <<>> /\ ended = "told" /\ Held(taken, buffer)
  BY DEF Fail, Return, IInv, CallInv, Telling
<1>2. taken \o <<>> = taken /\ <<>> \o <<>> = <<>>
  BY ConcatEmptySeq, EmptySeq DEF IInv, TypeOK, Content
<1>3. stream' = <<>> /\ taken' = <<>> /\ ended' = "told" /\ out' = [len |-> -1, bytes |-> <<>>]
  BY <1>1 DEF Fail, Return
<1> QED BY <1>1, <1>2, <1>3 DEF Reader!TellError, Reader!Failed, Held, NoLineEnd

LEMMA AtEndReader ==
  ASSUME IInv, AtEnd
  PROVE  Reader!TakeLine \/ Reader!TellEnd
<1>1. /\ ~Telling /\ ~Telling' /\ stream = <<>> /\ ended \in {"shutdown", "told"}
      /\ NoLineEnd(taken) /\ buffer = Handed(taken, Len(taken))
  BY DEF AtEnd, Return, IInv, CallInv, Telling, Held
<1>2. taken \in Content /\ buffer \in Content /\ Len(buffer) = totRead
  BY DEF IInv, TypeOK
<1>3. taken \o <<>> = taken /\ <<>> \o <<>> = <<>>
  BY <1>2, ConcatEmptySeq, EmptySeq DEF Content
<1>4. /\ stream' = <<>> /\ taken' = <<>> /\ ended' = ended
      /\ out' = [len |-> Len(buffer), bytes |-> buffer]
  BY <1>1, <1>2 DEF AtEnd, Return
<1>5. CASE taken = <<>>
  <2>1. buffer = <<>>
    BY <1>1, <1>5, HeldNothing DEF Held
  <2>2. Reader!TellEnd
    BY <1>1, <1>3, <1>4, <1>5, <2>1 DEF Reader!TellEnd, Reader!Returned
  <2> QED BY <2>2
<1>6. CASE taken # <<>>
  <2>1. Len(taken) \in Nat \ {0} /\ Len(taken) \in 1 .. Len(taken)
    BY <1>2, <1>6, EmptySeq DEF Content
  <2>2. Reader!TakesBytes(taken, TRUE, Len(taken))
    BY <1>1, <2>1 DEF Reader!TakesBytes, NoLineEnd
  <2>3. SubSeq(taken, Len(taken) + 1, Len(taken)) = <<>>
    BY <2>1, SubSeqEmpty
  <2>4. Reader!Returned(Reader!Handed(taken, Len(taken))) = out'
    BY <1>1, <1>4 DEF Reader!Returned, Reader!Handed, Handed
  <2>5. Reader!TakeLine
    BY <1>1, <1>3, <1>4, <2>1, <2>2, <2>3, <2>4 DEF Reader!TakeLine
  <2> QED BY <2>5
<1> QED BY <1>5, <1>6

LEMMA AtByteReader ==
  ASSUME IInv, AtByte
  PROVE  [Reader!Next]_Reader!readerVars
<1>1. ~Telling /\ ~Telling' /\ stream' = stream /\ ended' = ended
  BY DEF AtByte, Return, Telling
<1>2. CASE ch # NewLine
  BY <1>1, <1>2 DEF AtByte, Reader!readerVars
<1>3. CASE ch = NewLine
  <2>1. PICK s \in Content : taken = Append(s, ch) /\ NoLineEnd(s)
    BY AtByteBuffer
  <2>2. /\ taken \in Content /\ stream \in Content /\ taken # <<>>
        /\ Len(taken) = Len(s) + 1 /\ Len(s) \in Nat /\ taken[Len(taken)] = NewLine
        /\ \A i \in 1 .. Len(s) : taken[i] = s[i]
    <3>1. taken \in Content /\ stream \in Content /\ NewLine \in Block
      BY <1>3 DEF IInv, TypeOK
    <3>2. Len(s) \in Nat /\ Len(taken) = Len(s) + 1
      BY <1>3, <2>1, <3>1, AppendProperties, LenProperties DEF Content
    <3>3. taken # <<>> /\ taken[Len(s) + 1] = NewLine /\ \A i \in 1 .. Len(s) : taken[i] = s[i]
      BY <1>3, <2>1, <3>1, AppendProperties DEF Content
    <3> QED BY <3>1, <3>2, <3>3
  <2>3. /\ Handed(taken \o stream, Len(taken)) = Handed(taken, Len(taken))
        /\ SubSeq(taken \o stream, Len(taken) + 1, Len(taken \o stream)) = stream
    BY <2>2, TakenOff
  <2>4. /\ Len(taken \o stream) = Len(taken) + Len(stream) /\ Len(stream) \in Nat
        /\ \A i \in 1 .. Len(taken) : (taken \o stream)[i] = taken[i]
    <3>1. Len(stream) \in Nat
      BY <2>2, LenProperties DEF Content
    <3>2. /\ Len(taken \o stream) = Len(taken) + Len(stream)
          /\ \A i \in 1 .. Len(taken) + Len(stream) : (taken \o stream)[i] =
               IF i <= Len(taken) THEN taken[i] ELSE stream[i - Len(taken)]
      BY <2>2, ConcatProperties DEF Content
    <3> QED BY <2>2, <3>1, <3>2
  <2>5. Len(taken) \in 1 .. Len(taken \o stream)
    BY <2>2, <2>4
  <2>6. ASSUME NEW e
        PROVE  Reader!TakesBytes(taken \o stream, e, Len(taken))
    <3>1. \A i \in 1 .. Len(s) : taken[i] # NewLine
      BY <2>1, <2>2 DEF NoLineEnd
    <3>2. \A i \in 1 .. Len(taken) : i \in 1 .. Len(s) \/ i = Len(taken)
      BY <2>2
    <3>3. \A i \in 1 .. Len(taken) : (taken \o stream)[i] = NewLine => i = Len(taken)
      BY <2>4, <3>1, <3>2
    <3>4. (taken \o stream)[Len(taken)] = NewLine
      BY <2>2, <2>4
    <3> QED BY <3>3, <3>4 DEF Reader!TakesBytes
  <2>7. buffer' = Handed(taken, Len(taken)) /\ Len(buffer') = totRead'
    BY AtByteBuffer
  <2>8. out' = [len |-> totRead', bytes |-> buffer'] /\ taken' = <<>>
    BY <1>3 DEF AtByte, Return
  <2>9. out' = Reader!Returned(Reader!Handed(taken \o stream, Len(taken)))
    BY <2>3, <2>7, <2>8 DEF Reader!Returned, Reader!Handed, Handed
  <2>10. taken' \o stream' = SubSeq(taken \o stream, Len(taken) + 1, Len(taken \o stream))
    BY <1>1, <2>2, <2>3, <2>8, ConcatEmptySeq DEF Content
  <2>11. Reader!TakeLine
    BY <1>1, <2>5, <2>6, <2>9, <2>10 DEF Reader!TakeLine
  <2> QED BY <2>11 DEF Reader!Next
<1> QED BY <1>2, <1>3

LEMMA NextReader ==
  ASSUME IInv, [Next]_vars
  PROVE  [Reader!Next]_Reader!readerVars
<1>1. CASE UNCHANGED vars
  BY <1>1 DEF vars, callVars, Reader!readerVars, Telling
<1>2. CASE Arrive \/ End
  BY <1>2, PeerReader
<1>3. CASE Call \/ Read \/ Retry
  BY <1>3, InsideReader
<1>4. CASE Fail
  BY <1>4, FailReader DEF Reader!Next
<1>5. CASE AtEnd
  BY <1>5, AtEndReader DEF Reader!Next
<1>6. CASE AtByte
  BY <1>6, AtByteReader
<1> QED BY <1>1, <1>2, <1>3, <1>4, <1>5, <1>6 DEF Next, CallNext

\* read_line's loop, a byte at a time and between signals, a shutdown and a
\* reset, takes lines off the stream as the rest of the project has it.
THEOREM ReaderCorrect == Spec => ImplementsReader
<1> QED BY InitInv, NextInv, InitReader, NextReader, PTL DEF Spec, ImplementsReader, Reader!Spec

----------------------------------------------------------------------------
(* Nothing is lost.                                                        *)

\* So far no reset has been told, and every line has fitted.
Kept == ended # "told" /\ \A i \in 1 .. Len(sent) : Keeps(sent, i)

\* What has been kept so far is not lost by what comes later.
LEMMA KeptBefore ==
  ASSUME IInv, [Next]_vars, Kept'
  PROVE  Kept
<1>1. ended # "told"
  BY DEF Next, CallNext, Arrive, End, Call, Read, ReadByte, ReadEnd, ReadReset, ReadInterrupted,
         Retry, Fail, AtEnd, AtByte, vars, Kept
<1>2. CASE sent' = sent
  BY <1>1, <1>2 DEF Kept, Keeps
<1>3. CASE \E b \in Block : sent' = Append(sent, b)
  <2>1. PICK b \in Block : sent' = Append(sent, b)
    BY <1>3
  <2>2. /\ Len(sent) \in Nat /\ Len(sent') = Len(sent) + 1
        /\ \A i \in 1 .. Len(sent) : sent'[i] = sent[i]
    BY <2>1, AppendProperties, LenProperties DEF IInv, TypeOK, Content
  <2>3. ASSUME NEW i \in 1 .. Len(sent)
        PROVE  Keeps(sent, i)
    <3>1. PICK j \in 1 .. (MAX_LENGTH - 1) : j = i \/ (j < i /\ sent'[i - j] = NewLine)
      BY <2>2 DEF Kept, Keeps
    <3>2. j < i => i - j \in 1 .. Len(sent)
      BY <2>2, <3>1, LengthAssumption
    <3> QED
      BY <2>2, <3>1, <3>2 DEF Keeps
  <2> QED
    BY <1>1, <2>3 DEF Kept
<1> QED
  BY <1>2, <1>3 DEF Next, CallNext, Arrive, End, Call, Read, Retry, Fail, AtEnd, AtByte, vars

\* A line of which all is kept is shorter than the buffer.
LEMMA LineFits ==
  ASSUME IInv, Lossless, Kept, \A n \in 1 .. (Len(taken) - 1) : taken[n] # NewLine
  PROVE  Handed(taken, Len(taken)) = taken
<1>1. /\ given \in Content /\ taken \in Content /\ stream \in Content
      /\ sent = given \o taken \o stream
  BY DEF IInv, TypeOK, Lossless, Kept
<1>2. Len(given) \in Nat /\ Len(taken) \in Nat /\ Len(stream) \in Nat
  BY <1>1, LenProperties DEF Content
<1>3. /\ Len(sent) = Len(given) + Len(taken) + Len(stream)
      /\ \A n \in 1 .. Len(taken) : sent[Len(given) + n] = taken[n]
  <2> DEFINE r == given \o taken
  <2>1. /\ r \in Content /\ Len(r) = Len(given) + Len(taken)
        /\ \A i \in 1 .. Len(given) + Len(taken) :
             r[i] = IF i <= Len(given) THEN given[i] ELSE taken[i - Len(given)]
    BY <1>1, ConcatProperties DEF Content
  <2>2. /\ sent = r \o stream
    BY <1>1
  <2> HIDE DEF r
  <2>3. /\ Len(sent) = Len(r) + Len(stream)
        /\ \A i \in 1 .. Len(r) + Len(stream) :
             sent[i] = IF i <= Len(r) THEN r[i] ELSE stream[i - Len(r)]
    BY <1>1, <2>1, <2>2, ConcatProperties DEF Content
  <2>4. ASSUME NEW n \in 1 .. Len(taken)
        PROVE  sent[Len(given) + n] = taken[n]
    <3>1. /\ Len(given) + n \in 1 .. Len(given) + Len(taken)
          /\ Len(given) + n \in 1 .. Len(r) + Len(stream)
          /\ Len(given) + n <= Len(r) /\ ~ (Len(given) + n <= Len(given))
          /\ (Len(given) + n) - Len(given) = n
      BY <1>2, <2>1
    <3> QED
      BY <2>1, <2>3, <3>1
  <2> QED
    BY <2>1, <2>3, <2>4
<1>4. Len(taken) < MAX_LENGTH
  <2> SUFFICES ASSUME ~ (Len(taken) < MAX_LENGTH)
               PROVE  FALSE
    OBVIOUS
  <2> DEFINE i == Len(given) + MAX_LENGTH
  <2>1. i \in 1 .. Len(sent)
    BY <1>2, <1>3, LengthAssumption
  <2>2. PICK j \in 1 .. (MAX_LENGTH - 1) : j = i \/ (j < i /\ sent[i - j] = NewLine)
    BY <2>1 DEF Kept, Keeps
  <2>3. /\ j # i
        /\ MAX_LENGTH - j \in 1 .. Len(taken) /\ MAX_LENGTH - j \in 1 .. (Len(taken) - 1)
        /\ i - j = Len(given) + (MAX_LENGTH - j)
    BY <1>2, LengthAssumption
  <2>4. sent[i - j] = taken[MAX_LENGTH - j]
    BY <1>3, <2>3
  <2> QED
    BY <2>2, <2>3, <2>4
<1>5. /\ Handed(taken, Len(taken)) \in Content
      /\ Len(Handed(taken, Len(taken))) = Len(taken)
      /\ \A i \in 1 .. Len(taken) : Handed(taken, Len(taken))[i] = taken[i]
  BY <1>1, <1>4, HandedBytes
<1> QED
  BY <1>1, <1>5, SeqEqual DEF Content

LEMMA NextLossless ==
  ASSUME IInv, Lossless, [Next]_vars
  PROVE  Lossless'
<1> SUFFICES ASSUME Kept'
             PROVE  (sent = given \o taken \o stream)'
  BY DEF Lossless, Kept
<1>1. Kept
  BY KeptBefore
<1>2. /\ given \in Content /\ taken \in Content /\ stream \in Content /\ ch \in Block
      /\ given \o taken \in Content /\ sent = given \o taken \o stream
  BY <1>1, ConcatProperties DEF IInv, TypeOK, Lossless, Kept, Content
<1>3. CASE Arrive
  <2>1. PICK b \in Block : stream' = Append(stream, b) /\ sent' = Append(sent, b)
    BY <1>3 DEF Arrive
  <2>2. (given \o taken) \o Append(stream, b) = Append(given \o taken \o stream, b)
    BY <1>2, ArrivesBehind
  <2> QED
    BY <1>2, <1>3, <2>1, <2>2 DEF Arrive
<1>4. CASE Read /\ ReadByte
  <2>1. /\ Head(stream) \in Block /\ Tail(stream) \in Content
        /\ Append(taken, Head(stream)) \in Content
        /\ Append(taken, Head(stream)) \o Tail(stream) = taken \o stream
    BY <1>2, <1>4, MovesByte DEF ReadByte
  <2>2. \A s, t \in Content : (given \o s) \o t = given \o (s \o t)
    BY <1>2, ConcatAssociative DEF Content
  <2>3. /\ taken' = Append(taken, Head(stream)) /\ stream' = Tail(stream)
        /\ given' = given /\ sent' = sent
    BY <1>4 DEF Read, ReadByte
  <2>4. (given \o taken') \o stream' = (given \o taken) \o stream
    <3>1. taken' \in Content /\ stream' \in Content /\ taken' \o stream' = taken \o stream
      BY <2>1, <2>3
    <3>2. (given \o taken') \o stream' = given \o (taken' \o stream')
      BY <2>2, <3>1
    <3>3. (given \o taken) \o stream = given \o (taken \o stream)
      BY <1>2, <2>2
    <3> QED
      BY <3>1, <3>2, <3>3
  <2> QED
    BY <1>2, <2>3, <2>4
<1>5. ASSUME given' = given \o taken, taken' = <<>>, UNCHANGED <<stream, sent>>
      PROVE  (sent = given \o taken \o stream)'
  <2>1. (given \o taken) \o <<>> = given \o taken
    BY <1>2, ConcatEmptySeq DEF Content
  <2> QED
    BY <1>2, <1>5, <2>1
<1>6. CASE AtEnd
  <2>1. Held(taken, buffer)
    BY <1>6 DEF AtEnd, IInv, CallInv
  <2>2. buffer = taken
    BY <1>1, <1>2, <2>1, LineFits, LenProperties DEF Held, NoLineEnd, Content
  <2> QED
    BY <1>5, <1>6, <2>2 DEF AtEnd, Return
<1>7. CASE AtByte /\ ch = NewLine
  <2>1. buffer' = Handed(taken, Len(taken))
    BY <1>7, AtByteBuffer
  <2>2. PICK s \in Content : taken = Append(s, ch) /\ NoLineEnd(s)
    BY <1>7, AtByteBuffer
  <2>3. /\ Len(taken) - 1 = Len(s)
        /\ \A n \in 1 .. Len(s) : taken[n] = s[n]
    BY <1>2, <2>2, AppendProperties, LenProperties DEF Content
  <2>4. buffer' = taken
    BY <1>1, <2>1, <2>2, <2>3, LineFits DEF NoLineEnd
  <2> QED
    BY <1>5, <1>7, <2>4 DEF AtByte, Return
<1>8. CASE UNCHANGED <<stream, sent, given, taken>>
  BY <1>2, <1>8
<1>9. ~ Fail
  BY <1>1 DEF Fail, IInv, CallInv, Telling, Kept
<1> QED
  BY <1>3, <1>4, <1>6, <1>7, <1>8, <1>9
     DEF Next, CallNext, End, Call, Read, ReadEnd, ReadReset, ReadInterrupted, Retry, AtByte, vars

\* What fits is not lost: a stream of lines shorter than the buffer comes out of
\* read_line as it was sent, whatever the times at which its bytes, signals and
\* its end reach the process, as long as no reset has been told.
THEOREM LosslessCorrect == Spec => []Lossless
<1>1. Init => Lossless
  <2>1. <<>> \o <<>> = <<>>
    BY EmptySeq, ConcatEmptySeq
  <2> QED
    BY <2>1 DEF Init, Lossless
<1> QED
  BY <1>1, InitInv, NextInv, NextLossless, PTL DEF Spec
=============================================================================
