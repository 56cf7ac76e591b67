------------------------------- MODULE LineIO -------------------------------
(***************************************************************************)
(* read_line(): a loop over read() of one byte at a time, on a stream that *)
(* its peer goes on writing to.                                            *)
(***************************************************************************)
EXTENDS Lines, Integers

CONSTANTS
  MaxBytes,   \* bound: bytes the peer writes
  MaxSignals  \* bound: signals that interrupt a read()

ASSUME LineBoundAssumption == MaxBytes \in Nat /\ MaxSignals \in Nat

VARIABLES
  stream,  \* what the kernel has received and read() has not returned
  ended,   \* the end the peer has put to it, or a reset read() has told of
  rpc,     \* before a call, before a read(), after a read()
  numRead, \* what read() returned,
  errno,   \*   why, if it is -1,
  ch,      \*   and the byte, if it is 1
  totRead, \* bytes in the buffer
  buffer,  \* the buffer up to totRead
  out,     \* what the latest call returned, and what is in its buffer then
  signals, \* signals so far
  taken,   \* history: bytes read by this call
  given,   \* history: all that calls have handed over
  sent     \* history: all that the peer has written

callVars == <<rpc, numRead, errno, ch, totRead, buffer, out, signals>>
vars == <<stream, ended, callVars, taken, given, sent>>

TypeOK ==
  /\ stream \in Content
  /\ ended \in {"no", "shutdown", "reset", "told"}
  /\ rpc \in {"out", "read", "look"}
  /\ numRead \in {-1, 0, 1}
  /\ errno \in {"none", "EINTR", "ECONNRESET"}
  /\ ch \in Block
  /\ totRead \in 0 .. (MAX_LENGTH - 1)
  /\ buffer \in Content /\ Len(buffer) = totRead
  /\ out \in [len : Int, bytes : Content]
  /\ signals \in 0 .. MaxSignals
  /\ taken \in Content /\ given \in Content /\ sent \in Content

Init ==
  /\ stream = <<>> /\ ended = "no"
  /\ rpc = "out"
  /\ numRead = 0 /\ errno = "none" /\ ch \in Block
  /\ totRead = 0 /\ buffer = <<>>
  /\ out = [len |-> 0, bytes |-> <<>>]
  /\ signals = 0
  /\ taken = <<>> /\ given = <<>> /\ sent = <<>>

----------------------------------------------------------------------------
(* The peer.                                                               *)

Arrive ==
  /\ ended = "no"
  /\ Len(sent) < MaxBytes
  /\ \E b \in Block :
       /\ stream' = Append(stream, b)
       /\ sent' = Append(sent, b)
  /\ UNCHANGED <<ended, callVars, taken, given>>

End ==
  /\ ended = "no"
  /\ ended' \in {"shutdown", "reset"}
  /\ UNCHANGED <<stream, callVars, taken, given, sent>>

----------------------------------------------------------------------------
(* One call.                                                               *)

Call ==
  /\ rpc = "out"
  /\ rpc' = "read"
  /\ totRead' = 0
  /\ buffer' = <<>>
  /\ UNCHANGED <<stream, ended, numRead, errno, ch, out, signals, taken, given, sent>>

\* read(fd, &ch, 1): external.  What has been received comes first; the reset
\* is told once, and then the stream has ended.
ReadByte ==
  /\ stream # <<>>
  /\ numRead' = 1
  /\ ch' = Head(stream)
  /\ stream' = Tail(stream)
  /\ taken' = Append(taken, Head(stream))
  /\ UNCHANGED <<ended, errno, signals>>

ReadEnd ==
  /\ stream = <<>>
  /\ ended \in {"shutdown", "told"}
  /\ numRead' = 0
  /\ UNCHANGED <<stream, ended, errno, ch, signals, taken>>

ReadReset ==
  /\ stream = <<>>
  /\ ended = "reset"
  /\ numRead' = -1
  /\ errno' = "ECONNRESET"
  /\ ended' = "told"
  /\ UNCHANGED <<stream, ch, signals, taken>>

ReadInterrupted ==
  /\ signals < MaxSignals
  /\ signals' = signals + 1
  /\ numRead' = -1
  /\ errno' = "EINTR"
  /\ UNCHANGED <<stream, ended, ch, taken>>

Read ==
  /\ rpc = "read"
  /\ rpc' = "look"
  /\ ReadByte \/ ReadEnd \/ ReadReset \/ ReadInterrupted
  /\ UNCHANGED <<totRead, buffer, out, given, sent>>

Return(len, bytes) ==
  /\ rpc' = "out"
  /\ out' = [len |-> len, bytes |-> bytes]
  /\ given' = given \o bytes
  /\ taken' = <<>>

\* Mistake: the call begins again, with an empty buffer.
Retry_anew ==
  /\ rpc = "look" /\ numRead = -1 /\ errno = "EINTR"
  /\ rpc' = "read"
  /\ totRead' = 0
  /\ buffer' = <<>>
  /\ UNCHANGED <<stream, ended, numRead, errno, ch, out, signals, taken, given, sent>>

Retry ==
  /\ rpc = "look" /\ numRead = -1 /\ errno = "EINTR"
  /\ rpc' = "read"
  /\ UNCHANGED <<stream, ended, numRead, errno, ch, totRead, buffer, out, signals,
                 taken, given, sent>>

Fail ==
  /\ rpc = "look" /\ numRead = -1 /\ errno # "EINTR"
  /\ Return(-1, <<>>)
  /\ UNCHANGED <<stream, ended, numRead, errno, ch, totRead, buffer, signals, sent>>

\* Mistake: the end of the stream taken for an empty read, and tried again.
AtEnd_retries ==
  /\ rpc = "look" /\ numRead = 0
  /\ IF totRead = 0 THEN Return(0, <<>>)
     ELSE rpc' = "read" /\ UNCHANGED <<out, given, taken>>
  /\ UNCHANGED <<stream, ended, numRead, errno, ch, totRead, buffer, signals, sent>>

AtEnd ==
  /\ rpc = "look" /\ numRead = 0
  /\ Return(totRead, buffer)
  /\ UNCHANGED <<stream, ended, numRead, errno, ch, totRead, buffer, signals, sent>>

\* Mistakes: no room left for the end of the string; one place too many.
Room_full == totRead < MAX_LENGTH
Room_less == totRead < MAX_LENGTH - 2

Room == totRead < MAX_LENGTH - 1

\* What finds no room is discarded, and the line goes on to its end.
AtByte ==
  /\ rpc = "look" /\ numRead = 1
  /\ totRead' = IF Room THEN totRead + 1 ELSE totRead
  /\ buffer' = IF Room THEN Append(buffer, ch) ELSE buffer
  /\ IF ch = NewLine THEN Return(totRead', buffer')
     ELSE rpc' = "read" /\ UNCHANGED <<out, given, taken>>
  /\ UNCHANGED <<stream, ended, numRead, errno, ch, signals, sent>>

CallNext == Call \/ Read \/ Retry \/ Fail \/ AtEnd \/ AtByte

Next == Arrive \/ End \/ CallNext

Spec == Init /\ [][Next]_vars

\* The process runs when it can; its peer may do nothing.
FairSpec == Spec /\ WF_vars(CallNext)

----------------------------------------------------------------------------
(* What a caller may rely on.  While a call is under way, what it has read *)
(* still counts as unread, and so does the error that it is about to tell. *)
Telling == rpc = "look" /\ numRead = -1 /\ errno = "ECONNRESET"

Reader ==
  INSTANCE LineReader WITH
    stream <- taken \o stream,
    ended <- IF Telling THEN "reset" ELSE ended

\* read_line takes a line, tells the end or tells an error, whatever the times
\* at which bytes, signals, a shutdown or a reset reach the process.
ImplementsReader == Reader!Spec

\* A stream of lines that fit the buffer with room for the terminator comes out
\* of read_line byte for byte, however it was split on its way, until a reset.
Lossless ==
  (ended # "told" /\ \A i \in 1 .. Len(sent) : Keeps(sent, i))
    => sent = given \o taken \o stream

\* A call returns, given a whole line or the end of the stream.
CallReturns ==
  (rpc # "out" /\ (ended # "no" \/ \E i \in 1 .. Len(stream) : stream[i] = NewLine))
    ~> (rpc = "out")
============================================================================
