----------------------------- MODULE LineReader -----------------------------
(***************************************************************************)
(* What a caller of read_line may rely on: one call takes one line, or     *)
(* tells the end of the stream, or an error.  The rest of the project uses *)
(* read_line in this form; LineIO shows that the code implements it.       *)
(***************************************************************************)
EXTENDS Lines, Integers

VARIABLES
  stream, \* what the kernel has received and no call has returned
  ended,  \* the end the peer has put to it, or a reset that a call has told of
  out     \* what the latest call returned, and what is in its buffer then

readerVars == <<stream, ended, out>>

Returned(bytes) == [len |-> Len(bytes), bytes |-> bytes]
Failed == [len |-> -1, bytes |-> <<>>]

Init ==
  /\ stream = <<>>
  /\ ended = "no"
  /\ out = Returned(<<>>)

Arrive ==
  /\ ended = "no"
  /\ \E b \in Block : stream' = Append(stream, b)
  /\ UNCHANGED <<ended, out>>

End ==
  /\ ended = "no"
  /\ ended' \in {"shutdown", "reset"}
  /\ UNCHANGED <<stream, out>>

TakeLine ==
  \E k \in 1 .. Len(stream) :
    /\ TakesBytes(stream, ended \in {"shutdown", "told"}, k)
    /\ out' = Returned(Handed(stream, k))
    /\ stream' = SubSeq(stream, k + 1, Len(stream))
    /\ UNCHANGED ended

TellEnd ==
  /\ stream = <<>>
  /\ ended \in {"shutdown", "told"}
  /\ out' = Returned(<<>>)
  /\ UNCHANGED <<stream, ended>>

\* An error takes with it the line that it cuts, and is told once.
TellError ==
  /\ ended = "reset"
  /\ \A i \in 1 .. Len(stream) : stream[i] # NewLine
  /\ out' = Failed
  /\ stream' = <<>>
  /\ ended' = "told"

Next == Arrive \/ End \/ TakeLine \/ TellEnd \/ TellError

Spec == Init /\ [][Next]_readerVars
============================================================================
