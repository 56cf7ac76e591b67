----------------------------- MODULE FtpListing -----------------------------
(***************************************************************************)
(* handle_command_nlst and handle_command_list: names put together in a    *)
(* buffer of MAX_LENGTH bytes, without a look at its bounds.               *)
(*                                                                         *)
(* FtpServer takes the reply for one line of text; here is the line.  What *)
(* is written outside of the buffer ends the behaviour: C says no more.    *)
(***************************************************************************)
EXTENDS Naturals, Sequences, SequencesExt

CONSTANTS
  Entry,       \* what a directory may hold
  Dot, DotDot, \* what every directory holds
  Kind,        \* d_type of each; unknown where the file system does not say
  Size,        \* strlen of each name
  MAX_LENGTH

ASSUME ListingAssumption ==
  /\ IsFiniteSet(Entry)
  /\ {Dot, DotDot} \subseteq Entry
  /\ Kind \in [Entry -> {"file", "dir", "unknown"}]
  /\ Kind[Dot] # "file" /\ Kind[DotDot] # "file"
  /\ Size \in [Entry -> Nat \ {0}]
  /\ MAX_LENGTH \in Nat \ {0}

VARIABLES
  op,     \* the request
  dir,    \* the directory, in the order of readdir()
  at,     \* entries read so far
  text,   \* response: names, separators, the end of the line
  length, \* strlen(response)
  lpc     \* in the loop, after it, or where the buffer was left

vars == <<op, dir, at, text, length, lpc>>

Separator == ", "
LineEnd == "\r\n"

TypeOK ==
  /\ op \in {"NLST", "LIST"}
  /\ dir \in Seq(Entry)
  /\ at \in 0 .. Len(dir)
  /\ text \in Seq(Entry \cup {Separator, LineEnd})
  /\ length \in 0 .. (MAX_LENGTH - 1)
  /\ lpc \in {"loop", "done", "over", "under"}

Init ==
  /\ op \in {"NLST", "LIST"}
  /\ \E S \in SUBSET Entry : {Dot, DotDot} \subseteq S /\ dir \in SetToSeqs(S)
  /\ at = 0
  /\ text = <<>>
  /\ length = 0
  /\ lpc = "loop"

\* is_file_for_dirent
IsRegular(e) == Kind[e] = "file"

\* Mistakes: the test of NLST without its negation; `continue` forgotten.
Wanted_files(e) == IsRegular(e)
Wanted_all(e) == TRUE

Wanted(e) == IF op = "NLST" THEN ~ IsRegular(e) ELSE IsRegular(e)

\* Mistake: readdir() again before `continue`.
Skip_twice ==
  /\ lpc = "loop"
  /\ at < Len(dir)
  /\ ~ Wanted(dir[at + 1])
  /\ at' = at + 2
  /\ UNCHANGED <<op, dir, text, length, lpc>>

Skip ==
  /\ lpc = "loop"
  /\ at < Len(dir)
  /\ ~ Wanted(dir[at + 1])
  /\ at' = at + 1
  /\ UNCHANGED <<op, dir, text, length, lpc>>

\* strcat() of the name and of the separator.
List ==
  /\ lpc = "loop"
  /\ at < Len(dir)
  /\ LET e == dir[at + 1]
         n == length + Size[e] + 2
     IN  /\ Wanted(e)
         /\ \/ /\ n < MAX_LENGTH
               /\ text' = text \o <<e, Separator>>
               /\ length' = n
               /\ lpc' = lpc
            \/ /\ n >= MAX_LENGTH
               /\ lpc' = "over"
               /\ UNCHANGED <<text, length>>
  /\ at' = at + 1
  /\ UNCHANGED <<op, dir>>

\* Mistake: the last separator stays.
Finish_uncut ==
  /\ lpc = "loop"
  /\ at = Len(dir)
  /\ lpc' = "done"
  /\ text' = Append(text, LineEnd)
  /\ UNCHANGED <<op, dir, at, length>>

\* response[strlen(response) - 2] = 0 and strcat() of the line's end: two bytes
\* for two others, unless there are none.
Finish ==
  /\ lpc = "loop"
  /\ at = Len(dir)
  /\ \/ text = <<>> /\ lpc' = "under" /\ text' = text
     \/ text # <<>> /\ lpc' = "done" /\ text' = Append(Front(text), LineEnd)
  /\ UNCHANGED <<op, dir, at, length>>

Next == Skip \/ List \/ Finish

Spec == Init /\ [][Next]_vars

----------------------------------------------------------------------------
\* What the two requests promise between them: every entry is listed by one of
\* them, regular files by LIST.
Lists(e) == Kind[e] = "file" <=> op = "LIST"

\* The entries promised among the first i, and the bytes that they take.
Promised[i \in 0 .. Len(dir)] ==
  IF i = 0 THEN <<>>
  ELSE IF Lists(dir[i]) THEN Append(Promised[i - 1], dir[i]) ELSE Promised[i - 1]
Needed[i \in 0 .. Len(dir)] ==
  IF i = 0 THEN 0
  ELSE IF Lists(dir[i]) THEN Needed[i - 1] + Size[dir[i]] + 2 ELSE Needed[i - 1]

\* A reply that has been finished is the entries promised, in the order of the
\* directory, with a separator between any two of them and one line end.
ReplyIsListing ==
  LET listing == Promised[Len(dir)]
  IN  lpc = "done" =>
        /\ Len(text) = 2 * Len(listing)
        /\ \A i \in 1 .. Len(listing) :
             /\ text[2 * i - 1] = listing[i]
             /\ text[2 * i] = IF i = Len(listing) THEN LineEnd ELSE Separator

\* What is cut off is always a separator, but in a LIST of a directory in which
\* readdir() tells of no regular file: "." and ".." save NLST from that.
UnderrunOnlyWithoutFiles ==
  lpc = "under" => op = "LIST" /\ \A i \in 1 .. Len(dir) : Kind[dir[i]] # "file"

\* The buffer is too short exactly for the directories whose listing is.
OverrunOnlyWhenLong ==
  /\ lpc = "over" => Needed[Len(dir)] >= MAX_LENGTH
  /\ lpc = "done" => Needed[Len(dir)] < MAX_LENGTH
============================================================================
