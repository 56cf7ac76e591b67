------------------------------ MODULE Sockets ------------------------------
(***************************************************************************)
(* A TCP connection as the programs use it.  TCP is external: two ordered  *)
(* streams without loss, each with an end.                                 *)
(***************************************************************************)
EXTENDS Naturals, Sequences

\* Both directions of a connection: what is sent and not yet read, and whether
\* the sender has shut its side down (up: from the client, down: to it).
Duplex(Up, Down) ==
  [up : Seq(Up), upEof : BOOLEAN, down : Seq(Down), downEof : BOOLEAN]
Fresh == [up |-> <<>>, upEof |-> FALSE, down |-> <<>>, downEof |-> FALSE]
============================================================================
