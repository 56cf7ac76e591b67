----------------------------- MODULE HttpClient -----------------------------
(***************************************************************************)
(* httpclient/main.c: rounds of connect, ask, send, read, shut down, read  *)
(* once more, close.                                                       *)
(***************************************************************************)
EXTENDS HttpProtocol

CONSTANT MaxKills  \* bound: clients killed

ASSUME KillAssumption == MaxKills \in Nat

VARIABLES
  cpc,   \* where the round stands
  last,  \* the request it has sent
  got,   \* the response it has read
  kills  \* clients killed so far

cliVars == <<cpc, last, got, kills>>

ClientPc == {"off", "prompt", "wait", "linger", "done", "dead"}

CliTypeOK ==
  /\ cpc \in [Client -> ClientPc]
  /\ last \in [Client -> Req]
  /\ got \in [Client -> [code : Nat, rest : Seq(Piece)]]
  /\ kills \in 0 .. MaxKills

\* The record that read_response fills, before it does: memset to zero.
Nothing == [code |-> 0, rest |-> <<>>]

CliInit ==
  /\ cpc = [c \in Client |-> "off"]
  /\ last = [c \in Client |-> NoReq]
  /\ got = [c \in Client |-> Nothing]
  /\ kills = 0

Goto(c, pc) == cpc' = [cpc EXCEPT ![c] = pc]

\* Ends its side: a shutdown, or the end of the process.
Leave(c, pc) ==
  /\ Goto(c, pc)
  /\ conn' = [conn EXCEPT ![c].upEof = TRUE]

\* Refused, it tries again a second later, on a new socket: no step here.
Connect(c) ==
  /\ cpc[c] = "off"
  /\ up
  /\ Goto(c, "prompt")
  /\ conn' = [conn EXCEPT ![c] = Fresh]
  /\ backlog' = Append(backlog, c)
  /\ UNCHANGED <<up, last, got, kills>>

\* The url is lowered, whatever it names.
Lowered(r) == [r EXCEPT !.at = [i \in 1 .. Len(r.at) |-> Lower[r.at[i]]]]

\* What is written to a server that has gone is lost, or raises SIGPIPE.
Type(c) ==
  /\ cpc[c] = "prompt"
  /\ \E r \in Request :
       /\ last' = [last EXCEPT ![c] = Lowered(r)]
       /\ \/ /\ IF conn[c].downEof THEN conn' = conn
                ELSE \E s \in Arrivals(Lowered(r)) : conn' = [conn EXCEPT ![c].up = s]
             /\ Goto(c, "wait")
          \/ conn[c].downEof /\ Leave(c, "dead")
  /\ UNCHANGED <<backlog, up, got, kills>>

\* The rest of its request gets to the server; if it catches up with the first
\* part, recv() finds the two of them.
Arrive(c) ==
  /\ conn[c].up # <<>>
  /\ conn[c].up[Len(conn[c].up)] = Coming
  /\ conn' = [conn EXCEPT ![c].up = IF Len(@) = 1 THEN <<Ending>> ELSE <<last[c]>>]
  /\ UNCHANGED <<backlog, up, cliVars>>

\* A command it does not know: work() returns and nothing has been sent.
TypeUnknown(c) ==
  /\ cpc[c] = "prompt"
  /\ Leave(c, "linger")
  /\ UNCHANGED <<backlog, up, last, got, kills>>

\* Reads to the end of the stream: a status line, headers to a blank line, a
\* body.  Without a status line strtok() is NULL; without a blank line the loop
\* over the headers runs out of the array.  Both are the end of the client.
Headed(s) == s # <<>> /\ \E i \in 1 .. Len(s) : s[i].is = "blank"

ReadResponse(c) ==
  /\ cpc[c] = "wait"
  /\ conn[c].downEof
  /\ LET s == conn[c].down
     IN  \/ /\ Headed(s)
            /\ \E i \in 1 .. Len(s) :
                 /\ s[i].is = "blank" /\ \A j \in 1 .. (i - 1) : s[j].is # "blank"
                 /\ got' = [got EXCEPT ![c] =
                      [code |-> s[1].code, rest |-> SubSeq(s, i + 1, Len(s))]]
            /\ cpc' = [cpc EXCEPT ![c] = "linger"]
         \/ /\ ~ Headed(s)
            /\ Goto(c, "dead")
            /\ got' = got
  /\ conn' = [conn EXCEPT ![c].down = <<>>, ![c].upEof = TRUE]
  /\ UNCHANGED <<backlog, up, last, kills>>

\* clear_recv_buffer() waits for the server's next byte, or for its end.
Linger(c) ==
  /\ cpc[c] = "linger"
  /\ conn[c].downEof
  /\ Goto(c, "done")
  /\ UNCHANGED <<netVars, last, got, kills>>

Kill(c) ==
  /\ cpc[c] \in {"prompt", "wait", "linger"}
  /\ kills < MaxKills
  /\ kills' = kills + 1
  /\ Leave(c, "dead")
  /\ UNCHANGED <<backlog, up, last, got>>

UserStep(c) == Connect(c) \/ Type(c) \/ TypeUnknown(c) \/ Kill(c)
ProgramStep(c) == ReadResponse(c) \/ Linger(c)
============================================================================
