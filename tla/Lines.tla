------------------------------- MODULE Lines -------------------------------
(***************************************************************************)
(* Bytes in lines, as read_line sees them (util.h, the same file in all    *)
(* four programs).                                                         *)
(***************************************************************************)
EXTENDS Naturals, Sequences

CONSTANTS
  Block,      \* the bytes that files and streams are made of
  NewLine,    \* the byte a line ends with
  MAX_LENGTH  \* the size of every buffer

ASSUME LengthAssumption == MAX_LENGTH \in Nat /\ MAX_LENGTH >= 2

Content == Seq(Block)

\* read_line at the head of a stream of bytes takes k of them: everything
\* through the first newline or, once the stream has ended, whatever is left.
\* It hands over the first MAX_LENGTH - 1 of these and discards the others.
TakesBytes(s, ended, k) ==
  /\ \A i \in 1 .. k : s[i] = NewLine => i = k
  /\ s[k] = NewLine \/ (ended /\ k = Len(s))
Handed(s, k) == SubSeq(s, 1, IF k < MAX_LENGTH THEN k ELSE MAX_LENGTH - 1)

\* The reference: the byte at i stands in one of the first MAX_LENGTH - 1
\* places of its line.
Keeps(s, i) ==
  \E j \in 1 .. (MAX_LENGTH - 1) :
    j = i \/ (j < i /\ s[i - j] = NewLine)
============================================================================
