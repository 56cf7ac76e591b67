----------------------------- MODULE HttpStore -----------------------------
(***************************************************************************)
(* The tree below the directory httpserver runs in, which is its database. *)
(* The operating system is external; a call is modelled by the outcome the *)
(* server distinguishes, and `mkdir -p` and `rm -f`, whose outcome it does *)
(* not look at, by what they do.                                           *)
(***************************************************************************)
EXTENDS HttpProtocol

CONSTANTS
  InitDirs,  \* the tree the first server finds
  InitFiles,
  ReadOnly,  \* directories in which the server may not create or remove
  Unreadable, Unwritable  \* files it finds there, and may not open

ASSUME TreeAssumption ==
  /\ InitDirs \subseteq Loc
  /\ <<>> \in InitDirs
  /\ DOMAIN InitFiles \subseteq Loc \ InitDirs
  /\ \A l \in DOMAIN InitFiles : InitFiles[l] \in Text
  /\ ReadOnly \subseteq InitDirs

VARIABLES dirs, files

treeVars == <<dirs, files>>

TreeTypeOK ==
  /\ dirs \subseteq Loc
  /\ DOMAIN files \subseteq Loc
  /\ \A l \in DOMAIN files : files[l] \in Text

TreeInit == dirs = InitDirs /\ files = InitFiles

Parent(l) == SubSeq(l, 1, Len(l) - 1)
IsDir(l) == l \in dirs
IsFile(l) == l \in DOMAIN files
Exists(l) == IsDir(l) \/ IsFile(l)

ASSUME SealedAssumption ==
  \A l \in Unreadable \cup Unwritable : l \in DOMAIN InitFiles /\ Parent(l) \in ReadOnly

CanMake(l) == l # <<>> /\ IsDir(Parent(l)) /\ Parent(l) \notin ReadOnly
CanRead(l) == l \notin Unreadable
CanOpen(l) ==
  IF IsFile(l) THEN l \notin Unwritable ELSE ~ IsDir(l) /\ CanMake(l)

Children(l) ==
  {x[Len(x)] : x \in {y \in dirs \cup DOMAIN files : y # <<>> /\ Parent(y) = l}}

Put(l, t) == [x \in DOMAIN files \cup {l} |-> IF x = l THEN t ELSE files[x]]

\* mkdir -p makes the missing directories from the top down, as far as it can.
Prefixes(l) == {SubSeq(l, 1, k) : k \in 1 .. Len(l)}
MkdirP(l) ==
  dirs \cup {p \in Prefixes(l) :
               \A q \in Prefixes(p) :
                 IsDir(q) \/ (~ IsFile(q) /\ Parent(q) \notin ReadOnly)}

CanRemove(l) == IsFile(l) /\ Parent(l) \notin ReadOnly
============================================================================
