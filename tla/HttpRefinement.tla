--------------------------- MODULE HttpRefinement ---------------------------
(***************************************************************************)
(* HttpSystem implements ResourceStore.  A request takes effect when the   *)
(* server has received it; a file that is open for writing stands for what *)
(* it is going to hold.                                                    *)
(***************************************************************************)
EXTENDS HttpSystem

\* The request of c has been sent, and the server has not received it.
Pending(c) == conn[c].up # <<>> /\ Head(conn[c].up) \notin {Coming, Ending}

Serving(c) == cur = c /\ spc \in {"write", "respond", "refuse"}

Phase(c) ==
  CASE got[c].code # 0 -> "told"
    [] got[c].code = 0 /\ Pending(c) -> "asked"
    [] got[c].code = 0 /\ ~ Pending(c) /\ (Serving(c) \/ conn[c].down # <<>>) -> "served"
    [] OTHER -> IF cpc[c] \in {"off", "prompt"} THEN "idle" ELSE "lost"

\* The first line of a response is on its way, unless it has still to be sent.
Outcome(c) ==
  CASE Phase(c) = "told" -> got[c].code
    [] Phase(c) = "served" ->
         IF conn[c].down # <<>> THEN conn[c].down[1].code ELSE out[1].code
    [] OTHER -> 0

\* The request, until it has been lost or its response has.
Asked(c) == IF Phase(c) \in {"asked", "served", "told"} THEN last[c] ELSE NoReq

Phases == [c \in Client |-> Phase(c)]
Requests == [c \in Client |-> Asked(c)]
Outcomes == [c \in Client |-> Outcome(c)]
Contents == IF spc = "write" THEN Put(todo.at, todo.text) ELSE files
Unsaved == IF spc = "write" THEN {todo.at} ELSE {}

Store == INSTANCE ResourceStore WITH
  Nobody <- NoReq,
  Request <- {Lowered(r) : r \in Request},
  files <- Contents,
  unsaved <- Unsaved,
  phase <- Phases,
  asked <- Requests,
  code <- Outcomes

\* Whatever is killed, lost or cut, httpserver does what ResourceStore says: no
\* request is carried out twice, none touches another's place, a
\* refusal leaves the tree alone, and no client reads another's outcome.
ImplementsStore == Store!Spec
============================================================================
