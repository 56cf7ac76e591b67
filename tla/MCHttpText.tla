----------------------------- MODULE MCHttpText -----------------------------
(* Values for the constants of HttpText: the sizes are those of the code.   *)
EXTENDS HttpText

\* What my_gets yields: a line with its end, which may hold a carriage return,
\* or nothing; what scanf("%s") yields: a word.
Bodies == {<<>>, <<"x", "LF">>, <<"x", "CR", "LF">>, <<"x", "y", "LF">>, <<"CR", "LF">>, <<"q=", "LF">>}
Words == {<<"x">>, <<"q=", "x">>, <<"q=">>}
Ask(op, b) == [op |-> op, body |-> b]

MCAsked ==
  {Ask(o, <<>>) : o \in {"GET", "DELETE"}} \cup {Ask("SEARCH", b) : b \in Words}
    \cup {Ask(o, b) : o \in {"POST", "PUT"}, b \in Bodies}

MCLengths == {1, 30, 31}
============================================================================
