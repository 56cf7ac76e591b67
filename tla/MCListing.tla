----------------------------- MODULE MCListing -----------------------------
(* Values for the constants of FtpListing: files and directories, a name    *)
(* that nearly fills the buffer and one that does not fit at all.           *)
EXTENDS FtpListing

CONSTANTS d, u, f, g, h

MCEntry == {Dot, DotDot, d, u, f, g, h}
MCKind ==
  [e \in MCEntry |-> IF e \in {f, g, h} THEN "file" ELSE IF e = u THEN "unknown" ELSE "dir"]
MCSize == [e \in MCEntry |-> CASE e = g -> 5 [] e = h -> 10 [] e \in {DotDot, u} -> 2 [] OTHER -> 1]
============================================================================
