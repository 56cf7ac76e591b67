------------------------------- MODULE MCFtp -------------------------------
(***************************************************************************)
(* Values for the constants of FtpSystem.  The tree is                     *)
(*      /          not writable for the server                             *)
(*      /a         where the server is started                             *)
(*      /a/b       an empty directory                                      *)
(*      /a/f       a file                                                  *)
(***************************************************************************)
EXTENDS FtpSystem, TLC

MCName == {"a", "b", "f"}
MCBlock == {"x", "y", "nl"}
MCNewLine == "nl"
MCStart == <<"a">>
MCDirs == {<<>>, <<"a">>, <<"a", "b">>}
MCFiles == (<<"a", "f">> :> <<"x", "nl", "y">>)
MCReadOnly == {<<>>}
\* With buffers of three bytes the first line of "long" loses its newline.
MCLength == 3
MCLocal == ("long" :> <<"x", "x", "nl", "y">>) @@ ("none" :> <<>>)
MCLocalDirs == {"dir"}

MCSource == {"long", "none", "dir", "missing"}
MCNoSource == "-"

Rel(l) == [abs |-> FALSE, at |-> l]
Ask(op, arg) == [op |-> op, arg |-> arg, src |-> MCNoSource]
PutFile(arg, src) == [op |-> "STOR", arg |-> arg, src |-> src]

\* Removal of the directory in use, names that mean two things after a
\* relative CWD, and every errno: EEXIST and EACCES (handled by MKD), ENOENT,
\* ENOTDIR and ENOTEMPTY (handled by RMD), EBUSY.
RelativeRequests ==
  { Ask("NLST", NoPath), Ask("LIST", NoPath),
    Ask("CWD", Rel(<<"b">>)), Ask("CWD", Absolute(<<"a">>)),
    Ask("MKD", Rel(<<"b">>)), Ask("MKD", Rel(<<"f", "b">>)),
    Ask("RMD", Rel(<<"b">>)), Ask("RMD", Absolute(<<"a", "b">>)),
    Ask("RMD", Rel(<<"f">>)), Ask("RMD", Absolute(<<>>)),
    Ask("DELE", Rel(<<"b">>)) }

AbsoluteRequests ==
  { Ask("PWD", NoPath), Ask("LIST", NoPath),
    Ask("CWD", Absolute(<<>>)), Ask("CWD", Absolute(<<"a">>)),
    Ask("CWD", Absolute(<<"a", "b">>)),
    Ask("MKD", Rel(<<"b">>)), Ask("RMD", Absolute(<<"a">>)),
    Ask("RMD", Absolute(<<"a", "b">>)), Ask("DELE", Rel(<<"f">>)) }

\* A local file, an empty one, a directory and a missing one; a target that is
\* a directory, one that does not exist, one that does.
TransferRequests ==
  { Ask("PWD", NoPath),
    PutFile(Rel(<<"f">>), "long"), PutFile(Rel(<<"f">>), "none"),
    PutFile(Rel(<<"f">>), "missing"), PutFile(Rel(<<"f">>), "dir"),
    PutFile(Rel(<<"b">>), "long"),
    Ask("RETR", Rel(<<"f">>)), Ask("RETR", Rel(<<"b">>)),
    Ask("RETR", Rel(<<"a">>)) }

LiveRequests ==
  { PutFile(Rel(<<"f">>), "long"), PutFile(Rel(<<"b">>), "long"),
    PutFile(Rel(<<"f">>), "dir"), PutFile(Rel(<<"f">>), "missing"),
    Ask("RETR", Rel(<<"f">>)), Ask("RETR", Rel(<<"b">>)),
    Ask("RMD", Rel(<<"a">>)) }

Symmetry == Permutations(Client)
============================================================================
