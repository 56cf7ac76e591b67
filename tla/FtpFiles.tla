------------------------------ MODULE FtpFiles ------------------------------
(***************************************************************************)
(* The directory tree ftpserver works on, and the system calls by which it *)
(* does so: chdir, getcwd, mkdir, rmdir, remove, fopen.  The operating     *)
(* system is external; each call is modelled by the outcome the server     *)
(* distinguishes, errno included where the server looks at it.             *)
(*                                                                         *)
(* The process's current directory `cwd` is a directory, not a name: when  *)
(* the directory is removed it stays current but dead, relative names no   *)
(* longer resolve and getcwd() fails, even if the name is created again.   *)
(***************************************************************************)
EXTENDS FtpProtocol

CONSTANTS
  StartDir,  \* where the server is started
  InitDirs,  \* the tree it finds there
  InitFiles,
  ReadOnly   \* directories in which it may not create or remove entries

ASSUME TreeAssumption ==
  /\ InitDirs \subseteq Loc
  /\ StartDir \in InitDirs
  /\ DOMAIN InitFiles \subseteq Loc
  /\ InitFiles = [l \in DOMAIN InitFiles |-> InitFiles[l]]
  /\ \A l \in DOMAIN InitFiles : InitFiles[l] \in Content

VARIABLES dirs, files, cwd

fsVars == <<dirs, files, cwd>>

FsTypeOK ==
  /\ dirs \subseteq Loc
  /\ DOMAIN files \subseteq Loc
  /\ files = [l \in DOMAIN files |-> files[l]]
  /\ \A l \in DOMAIN files : files[l] \in Content
  /\ cwd \in [live : BOOLEAN, at : Loc]

FsInit ==
  /\ dirs = InitDirs
  /\ files = InitFiles
  /\ cwd = [live |-> TRUE, at |-> StartDir]

----------------------------------------------------------------------------
(* Name resolution.                                                        *)

Parent(l) == SubSeq(l, 1, Len(l) - 1)
Reachable(p) == p.abs \/ cwd.live
At(p) == IF p.abs THEN p.at ELSE cwd.at \o p.at
IsDir(p) == Reachable(p) /\ At(p) \in dirs
IsFile(p) == Reachable(p) /\ At(p) \in DOMAIN files
HasParent(p) == Reachable(p) /\ At(p) # <<>> /\ Parent(At(p)) \in dirs
Writable(p) == Parent(At(p)) \notin ReadOnly
ThroughFile(p) ==
  Reachable(p) /\ \E i \in 1 .. (Len(At(p)) - 1) :
                    SubSeq(At(p), 1, i) \in DOMAIN files
Empty(l) ==
  \A x \in (dirs \cup DOMAIN files) \ {<<>>} : Parent(x) # l

----------------------------------------------------------------------------
(* Outcomes of the calls, in the order in which Linux tests for them.      *)

\* Each test presumes that the ones before it failed, hence no CASE.
MkdirErrno(p) ==
  IF ThroughFile(p) THEN "ENOTDIR"
  ELSE IF IsDir(p) \/ IsFile(p) THEN "EEXIST"
  ELSE IF ~ HasParent(p) THEN "ENOENT"
  ELSE IF ~ Writable(p) THEN "EACCES"
  ELSE "none"

RmdirErrno(p) ==
  IF ThroughFile(p) THEN "ENOTDIR"
  ELSE IF ~ (IsDir(p) \/ IsFile(p)) THEN "ENOENT"
  ELSE IF At(p) = <<>> THEN "EBUSY"
  ELSE IF ~ Writable(p) THEN "EACCES"
  ELSE IF IsFile(p) THEN "ENOTDIR"
  ELSE IF ~ Empty(At(p)) THEN "ENOTEMPTY"
  ELSE "none"

CanRemove(p) ==
  /\ IsFile(p) \/ (IsDir(p) /\ At(p) # <<>> /\ Empty(At(p)))
  /\ Writable(p)
CanCreate(p) == ~ IsDir(p) /\ (IsFile(p) \/ (HasParent(p) /\ Writable(p)))

MakeDir(l) ==
  /\ dirs' = dirs \cup {l}
  /\ UNCHANGED <<files, cwd>>

\* unlink() or rmdir(): a directory that was current stays so, dead.
RemoveEntry(l) ==
  /\ dirs' = dirs \ {l}
  /\ files' = [x \in DOMAIN files \ {l} |-> files[x]]
  /\ cwd' = [cwd EXCEPT !.live = @ /\ cwd.at # l]

WriteFile(l, v) ==
  /\ files' = [x \in DOMAIN files \cup {l} |-> IF x = l THEN v ELSE files[x]]
  /\ UNCHANGED <<dirs, cwd>>
============================================================================
