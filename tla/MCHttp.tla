------------------------------- MODULE MCHttp -------------------------------
(***************************************************************************)
(* Values for the constants of HttpSystem.  The tree is                    *)
(*      /t        a directory                                              *)
(*      /o        a directory the server may not write to                  *)
(*      /o/f      a file                                                   *)
(*      /o/u      a file it may not open                                   *)
(* and R, S, T are what random_string yields.                              *)
(***************************************************************************)
EXTENDS HttpRefinement, TLC

MCName == {"t", "o", "f", "u", "R", "S", "T", "r"}
MCLower == [n \in MCName |-> IF n = "R" THEN "r" ELSE n]
MCWord == {"x", "y", "CR"}
MCDirs == {<<>>, <<"t">>, <<"o">>}
MCFiles == (<<"o", "f">> :> <<"x">> @@ <<"o", "u">> :> <<"x">>)
MCReadOnly == {<<"o">>}
MCSealed == {<<"o", "u">>}
MCRandom == <<"R", "S", "T">>

Ask(op, at, body) == [op |-> op, at |-> at, body |-> body]

\* Every branch of every handler: there and not there, file and directory, with
\* and without a body, below a file, in a directory that is not there or cannot
\* be written to; and a name of the server's choosing, which a client types
\* without reaching it.
AllRequests ==
  { Ask("GET", <<"t">>, <<>>), Ask("GET", <<"t", "f">>, <<>>),
    Ask("SEARCH", <<"t">>, <<"x">>), Ask("FORM", <<"t">>, <<"x">>),
    Ask("POST", <<"t">>, <<"x">>), Ask("POST", <<"o">>, <<"x">>),
    Ask("POST", <<"t", "f">>, <<"y">>), Ask("POST", <<"f", "f">>, <<"x">>),
    Ask("PUT", <<"t", "f">>, <<"x">>), Ask("PUT", <<"t", "f">>, <<>>),
    Ask("PUT", <<"f", "f">>, <<"x">>), Ask("PUT", <<"o", "t">>, <<>>),
    Ask("PUT", <<"t">>, <<"x">>), Ask("PUT", <<"t", "f", "t">>, <<>>),
    Ask("DELETE", <<"t", "f">>, <<>>), Ask("DELETE", <<"o", "f">>, <<>>),
    Ask("DELETE", <<"t">>, <<>>),
    Ask("GET", <<"o", "u">>, <<>>), Ask("SEARCH", <<"o">>, <<"x">>),
    Ask("POST", <<"o", "u">>, <<"x">>), Ask("PUT", <<"o", "u">>, <<>>),
    Ask("PUT", <<"t", "R">>, <<"x">>) }

RefusalRequests ==
  { Ask("POST", <<"t">>, <<"x">>), Ask("POST", <<"f", "f">>, <<"x">>) }

\* For requests that arrive in two segments: every method, on a place of which
\* the next request can tell what the last one has made of it.
CutRequests ==
  { Ask("GET", <<"t", "f">>, <<>>), Ask("SEARCH", <<"t">>, <<"x">>),
    Ask("POST", <<"t">>, <<"x">>), Ask("POST", <<"t", "f">>, <<"y">>),
    Ask("PUT", <<"t", "f">>, <<"x">>), Ask("PUT", <<"t", "f">>, <<>>),
    Ask("DELETE", <<"t", "f">>, <<>>) }

LiveRequests ==
  { Ask("GET", <<"o", "f">>, <<>>), Ask("SEARCH", <<"o">>, <<"x">>),
    Ask("POST", <<"t">>, <<"x">>),
    Ask("PUT", <<"f", "f">>, <<"x">>), Ask("POST", <<"f", "f">>, <<"x">>) }

\* What is asked does not matter to the queue, only that it can be answered, can
\* be the end of the server, and can arrive in two segments.
QueueRequests == { Ask("GET", <<"o", "u">>, <<>>) }

Symmetry == Permutations(Client)
============================================================================
