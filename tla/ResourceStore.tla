--------------------------- MODULE ResourceStore ---------------------------
(***************************************************************************)
(* What httpserver promises of its tree: a request is carried out at most  *)
(* once, in one step, and touches nothing but its own place; a refused one *)
(* touches nothing; the code that a client reads is that of its request.   *)
(* What is written is safe once it is saved.  No sockets, no responses in  *)
(* pieces, no process that opens and closes files.                         *)
(***************************************************************************)
EXTENDS Naturals, Sequences, SequencesExt

CONSTANTS Client, Name, Request, Nobody, InitDirs, InitFiles

VARIABLES
  dirs, files,
  phase,   \* of a client's request
  asked,   \* the request
  code,    \* the outcome
  unsaved  \* the file that the last request has written, until it is saved

vars == <<dirs, files, phase, asked, code, unsaved>>

Init ==
  /\ dirs = InitDirs /\ files = InitFiles
  /\ phase = [c \in Client |-> "idle"]
  /\ asked = [c \in Client |-> Nobody]
  /\ code = [c \in Client |-> 0]
  /\ unsaved = {}

Ask(c) ==
  /\ phase[c] = "idle"
  /\ phase' = [phase EXCEPT ![c] = "asked"]
  /\ \E r \in Request : asked' = [asked EXCEPT ![c] = r]
  /\ UNCHANGED <<dirs, files, code, unsaved>>

----------------------------------------------------------------------------
Refused == {400, 404, 405}

\* Only the file at l is another afterwards, and it is to be saved.
Write(l) ==
  /\ DOMAIN files' = DOMAIN files \cup {l}
  /\ \A x \in DOMAIN files \ {l} : files'[x] = files[x]
  /\ dirs' = dirs
  /\ unsaved' = {l}

MakeDirs(l) ==
  /\ dirs \subseteq dirs'
  /\ dirs' \ dirs \subseteq {SubSeq(l, 1, k) : k \in 1 .. Len(l)}
  /\ files' = files
  /\ unsaved' = {}

Unlink(l) ==
  /\ files' \in {files, [x \in DOMAIN files \ {l} |-> files[x]]}
  /\ dirs' = dirs
  /\ unsaved' = {}

Nothing == dirs' = dirs /\ files' = files /\ unsaved' = {}

\* 200: added to a file; 201: a new file here, or one below.
Post(l, k) ==
  \/ k = 200 /\ l \in DOMAIN files /\ Write(l) /\ IsPrefix(files[l], files'[l])
  \/ k = 201 /\ l \notin DOMAIN files \cup dirs /\ Write(l)
  \/ k = 201 /\ l \in dirs /\ \E n \in Name : Write(Append(l, n))

Effect(r, k) ==
  \/ k \in Refused /\ Nothing
  \/ k = 200 /\ r.op \in {"GET", "SEARCH"} /\ Nothing
  \/ k = 200 /\ r.op = "PUT" /\ r.at \in DOMAIN files /\ Write(r.at)
  \/ k = 201 /\ r.op = "PUT" /\ r.at \notin DOMAIN files \cup dirs
       /\ (Write(r.at) \/ MakeDirs(r.at))
  \/ r.op = "POST" /\ Post(r.at, k)
  \/ k = 200 /\ r.op = "DELETE" /\ Unlink(r.at)

Perform(c) ==
  /\ phase[c] = "asked"
  /\ phase' = [phase EXCEPT ![c] = "served"]
  /\ \E k \in Refused \cup {200, 201} :
       /\ code' = [code EXCEPT ![c] = k]
       /\ Effect(asked[c], k)
  /\ asked' = asked

Save ==
  /\ unsaved # {}
  /\ unsaved' = {}
  /\ UNCHANGED <<dirs, files, phase, asked, code>>

----------------------------------------------------------------------------
Tell(c) ==
  /\ phase[c] = "served"
  /\ phase' = [phase EXCEPT ![c] = "told"]
  /\ UNCHANGED <<dirs, files, asked, code, unsaved>>

Forget(S) ==
  /\ phase' = [c \in Client |-> IF c \in S THEN "lost" ELSE phase[c]]
  /\ asked' = [c \in Client |-> IF c \in S THEN Nobody ELSE asked[c]]
  /\ code' = [c \in Client |-> IF c \in S THEN 0 ELSE code[c]]

\* A client asks nothing, or does not get what it has been told.
GiveUp(c) ==
  /\ phase[c] \in {"idle", "served"}
  /\ Forget({c})
  /\ UNCHANGED <<dirs, files, unsaved>>

\* The end of the server: requests and outcomes may be lost, and the end of the
\* file that has not been saved.
Crash ==
  /\ \E S \in SUBSET {c \in Client : phase[c] \in {"asked", "served"}} : Forget(S)
  /\ DOMAIN files' = DOMAIN files
  /\ \A l \in DOMAIN files :
       IF l \in unsaved THEN IsPrefix(files'[l], files[l]) ELSE files'[l] = files[l]
  /\ dirs' = dirs
  /\ unsaved' = {}

Next ==
  \/ \E c \in Client : Ask(c) \/ Perform(c) \/ Tell(c) \/ GiveUp(c)
  \/ Save \/ Crash

Spec == Init /\ [][Next]_vars
============================================================================
