------------------------ MODULE HttpRefinementProofs ------------------------
(***************************************************************************)
(* HttpSystem implements ResourceStore, step by step.                      *)
(*                                                                         *)
(* Beside what HttpReplyProofs says of requests and responses, this needs  *)
(* that at most one request is on its way from a client, that nothing is   *)
(* on its way to one that has not been received, and that the file open    *)
(* for writing holds the beginning of what it is going to hold.            *)
(***************************************************************************)
EXTENDS HttpRefinement, HttpReplyProofs

StreamInv(c) ==
  /\ Len(conn[c].up) > 1 => /\ Len(conn[c].up) = 2 /\ conn[c].up[2] = Coming
                            /\ conn[c].up[1] \notin {Coming, Ending}
  /\ Pending(c) \/ cpc[c] \in {"off", "prompt"} => conn[c].down = <<>>
  /\ conn[c].down # <<>> => conn[c].down[1].code \in Codes
  /\ Serving(c) => ~ Pending(c)

WriteInv ==
  spc = "write" =>
    /\ todo.at \in DOMAIN files
    /\ Store!IsPrefix(files[todo.at], todo.text)

\* No place is both a file and a directory.
TreeInv == \A l \in DOMAIN files : l \notin dirs

RefInv ==
  /\ IInv /\ ReplyInv
  /\ WriteInv /\ TreeInv
  /\ \A c \in Client : StreamInv(c)

----------------------------------------------------------------------------
(* The mapping.                                                            *)

\* What the abstract store sees of c.
View(c) ==
  /\ got[c].code # 0 => Phase(c) = "told" /\ Outcome(c) = got[c].code
  /\ got[c].code = 0 /\ Pending(c) => Phase(c) = "asked" /\ Outcome(c) = 0
  /\ got[c].code = 0 /\ ~ Pending(c) /\ conn[c].down # <<>> =>
       Phase(c) = "served" /\ Outcome(c) = conn[c].down[1].code
  /\ got[c].code = 0 /\ ~ Pending(c) /\ conn[c].down = <<>> /\ Serving(c) =>
       Phase(c) = "served" /\ Outcome(c) = out[1].code
  /\ got[c].code = 0 /\ ~ Pending(c) /\ conn[c].down = <<>> /\ ~ Serving(c) =>
       /\ Phase(c) = IF cpc[c] \in {"off", "prompt"} THEN "idle" ELSE "lost"
       /\ Outcome(c) = 0
  /\ Asked(c) = IF Phase(c) \in {"idle", "lost"} THEN NoReq ELSE last[c]

LEMMA ViewHolds == \A c : View(c)
<1> SUFFICES ASSUME NEW c PROVE View(c)
  OBVIOUS
<1>1. /\ got[c].code # 0 => Phase(c) = "told"
      /\ got[c].code = 0 /\ Pending(c) => Phase(c) = "asked"
      /\ got[c].code = 0 /\ ~ Pending(c) /\ (Serving(c) \/ conn[c].down # <<>>) =>
           Phase(c) = "served"
      /\ got[c].code = 0 /\ ~ Pending(c) /\ conn[c].down = <<>> /\ ~ Serving(c) =>
           Phase(c) = IF cpc[c] \in {"off", "prompt"} THEN "idle" ELSE "lost"
  BY DEF Phase
<1>2. /\ Phase(c) = "told" => Outcome(c) = got[c].code
      /\ Phase(c) = "served" =>
           Outcome(c) = IF conn[c].down # <<>> THEN conn[c].down[1].code ELSE out[1].code
      /\ Phase(c) \notin {"told", "served"} => Outcome(c) = 0
  BY DEF Outcome
<1>3. Asked(c) = IF Phase(c) \in {"idle", "lost"} THEN NoReq ELSE last[c]
  <2>1. Phase(c) \in {"idle", "lost", "asked", "served", "told"}
    BY <1>1
  <2> QED
    BY <2>1 DEF Asked
<1> QED
  BY <1>1, <1>2, <1>3 DEF View

LEMMA NextViewHolds == (\A c : View(c))'
  BY ViewHolds, PTL

\* The store sees nothing of a step, as far as c is concerned.
Unmoved(c) ==
  Phase(c)' = Phase(c) /\ Asked(c)' = Asked(c) /\ Outcome(c)' = Outcome(c)

TreeUnmoved == UNCHANGED <<dirs, Contents, Unsaved>>

LEMMA SameView ==
  ASSUME NEW c, got'[c] = got[c], last'[c] = last[c], Pending(c)' <=> Pending(c),
         ~ Pending(c) =>
           /\ conn'[c].down = <<>> <=> conn[c].down = <<>>
           /\ conn[c].down # <<>> => conn'[c].down[1].code = conn[c].down[1].code
           /\ conn[c].down = <<>> => /\ Serving(c)' <=> Serving(c)
                                     /\ Serving(c) => out'[1].code = out[1].code
           /\ cpc'[c] \in {"off", "prompt"} <=> cpc[c] \in {"off", "prompt"}
  PROVE  Unmoved(c)
<1>1. View(c) /\ View(c)'
  BY ViewHolds, NextViewHolds
<1>2. CASE got[c].code # 0
  BY <1>1, <1>2 DEF View, Unmoved
<1>3. CASE got[c].code = 0 /\ Pending(c)
  BY <1>1, <1>3 DEF View, Unmoved
<1>4. CASE got[c].code = 0 /\ ~ Pending(c) /\ conn[c].down # <<>>
  BY <1>1, <1>4 DEF View, Unmoved
<1>5. CASE got[c].code = 0 /\ ~ Pending(c) /\ conn[c].down = <<>> /\ Serving(c)
  BY <1>1, <1>5 DEF View, Unmoved
<1>6. CASE got[c].code = 0 /\ ~ Pending(c) /\ conn[c].down = <<>> /\ ~ Serving(c)
  BY <1>1, <1>6 DEF View, Unmoved
<1> QED
  BY <1>2, <1>3, <1>4, <1>5, <1>6

LEMMA SameTreeView ==
  ASSUME UNCHANGED treeVars, spc' = "write" <=> spc = "write",
         spc = "write" => todo' = todo
  PROVE  TreeUnmoved
  BY DEF TreeUnmoved, Contents, Unsaved, Put, treeVars

----------------------------------------------------------------------------
(* The steps of the abstract store, client by client.                      *)

LEMMA StutterStep ==
  ASSUME \A c \in Client : Unmoved(c), TreeUnmoved
  PROVE  UNCHANGED Store!vars
  BY DEF Unmoved, TreeUnmoved, Store!vars, Phases, Requests, Outcomes

\* A step of c alone.
Alone(c) == \A d \in Client : d # c => Unmoved(d)

LEMMA AloneMoves ==
  ASSUME NEW c \in Client, Alone(c)
  PROVE  /\ Phases' = [Phases EXCEPT ![c] = Phase(c)']
         /\ Requests' = [Requests EXCEPT ![c] = Asked(c)']
         /\ Outcomes' = [Outcomes EXCEPT ![c] = Outcome(c)']
         /\ Phases[c] = Phase(c) /\ Requests[c] = Asked(c) /\ Outcomes[c] = Outcome(c)
  BY DEF Alone, Unmoved, Phases, Requests, Outcomes

LEMMA AskStep ==
  ASSUME NEW c \in Client, Alone(c), TreeUnmoved, NEW r \in Request,
         Phase(c) = "idle", Phase(c)' = "asked", Asked(c)' = Lowered(r),
         Outcome(c)' = Outcome(c)
  PROVE  Store!Next
<1>1. Store!Ask(c)
  <2>1. Outcomes' = Outcomes
    BY DEF Alone, Unmoved, Outcomes
  <2> QED
    BY <2>1, AloneMoves DEF Store!Ask, TreeUnmoved
<1> QED
  BY <1>1 DEF Store!Next

LEMMA TellStep ==
  ASSUME NEW c \in Client, Alone(c), TreeUnmoved,
         Phase(c) = "served", Phase(c)' = "told", Asked(c)' = Asked(c),
         Outcome(c)' = Outcome(c)
  PROVE  Store!Next
<1>1. Store!Tell(c)
  <2>1. Outcomes' = Outcomes /\ Requests' = Requests
    BY DEF Alone, Unmoved, Outcomes, Requests
  <2> QED
    BY <2>1, AloneMoves DEF Store!Tell, TreeUnmoved
<1> QED
  BY <1>1 DEF Store!Next

\* What is lost is forgotten.
LEMMA ForgetStep ==
  ASSUME NEW S \in SUBSET Client,
         \A c \in Client : IF c \in S THEN Phase(c)' = "lost" ELSE Unmoved(c)
  PROVE  Store!Forget(S)
<1>1. ASSUME NEW c \in S
      PROVE  Asked(c)' = NoReq /\ Outcome(c)' = 0
  <2>1. Phase(c)' = "lost" /\ View(c)'
    BY NextViewHolds
  <2> QED
    BY <2>1 DEF View
<1>2. /\ Phases' = [c \in Client |-> IF c \in S THEN "lost" ELSE Phases[c]]
      /\ Requests' = [c \in Client |-> IF c \in S THEN NoReq ELSE Requests[c]]
      /\ Outcomes' = [c \in Client |-> IF c \in S THEN 0 ELSE Outcomes[c]]
  BY <1>1 DEF Phases, Requests, Outcomes, Unmoved
<1> QED
  BY <1>2 DEF Store!Forget

LEMMA GiveUpStep ==
  ASSUME NEW c \in Client, Alone(c), TreeUnmoved,
         Phase(c) \in {"idle", "served"}, Phase(c)' = "lost"
  PROVE  Store!Next
<1>1. Store!Forget({c})
  BY ForgetStep DEF Alone
<1>2. Store!GiveUp(c)
  BY <1>1, AloneMoves DEF Store!GiveUp, TreeUnmoved
<1> QED
  BY <1>2 DEF Store!Next

LEMMA PerformStep ==
  ASSUME NEW c \in Client, Alone(c), NEW k \in Codes,
         Phase(c) = "asked", Phase(c)' = "served", Asked(c) = last[c], last'[c] = last[c],
         Outcome(c)' = k, Store!Effect(last[c], k)
  PROVE  Store!Next
<1>1. Asked(c)' = Asked(c)
  BY NextViewHolds DEF View
<1>2. Requests' = Requests
  BY <1>1 DEF Alone, Unmoved, Requests
<1>3. Outcomes' = [Outcomes EXCEPT ![c] = k] /\ Phases' = [Phases EXCEPT ![c] = "served"]
      /\ Phases[c] = "asked" /\ Requests[c] = last[c]
  BY AloneMoves
<1>4. k \in Store!Refused \cup {200, 201}
  BY DEF Codes, Created, Store!Refused
<1>5. Store!Perform(c)
  BY <1>2, <1>3, <1>4 DEF Store!Perform
<1> QED
  BY <1>5 DEF Store!Next

----------------------------------------------------------------------------
(* A request is performed.                                                 *)

\* A response that has no extra header.
Plain(code, b) == Response(code, FALSE, b)

LEMMA CodeTold ==
  ASSUME NEW code \in Codes, NEW b \in Body, out' = Plain(code, b)
  PROVE  out'[1].code = code
<1>1. PICK located \in BOOLEAN : located = FALSE
  OBVIOUS
<1>2. out' = Response(code, located, b)
  BY <1>1 DEF Plain
<1> QED
  BY <1>2, ResponseIsRead

LEMMA GrownPrefix ==
  ASSUME NEW S, NEW s \in Seq(S), NEW t \in Seq(S)
  PROVE  Store!IsPrefix(s, s \o t)
<1>1. /\ Len(s) \in Nat /\ Len(t) \in Nat /\ Len(s \o t) = Len(s) + Len(t)
  BY ConcatProperties, LenProperties
<1>2. SubSeq(s \o t, 1, Len(s)) = SubSeq(s, 1, Len(s))
  BY <1>1, SubSeqOfConcat1
<1> QED
  BY <1>1, <1>2 DEF Store!IsPrefix

\* A file that is opened is as good as written.
LEMMA OpenWrites ==
  ASSUME NEW l, NEW keep, NEW code, NEW located, Open(l, keep, code, located), spc = "recv"
  PROVE  /\ Store!Write(l) /\ Contents = files
         /\ Contents'[l] = keep \o Job.body
<1>1. /\ files' = Put(l, keep) /\ dirs' = dirs
      /\ spc' = "write" /\ todo' = [at |-> l, text |-> keep \o Job.body]
  BY DEF Open
<1>2. Contents = files /\ Unsaved' = {l}
  BY <1>1 DEF Contents, Unsaved
<1>3. Contents' = [x \in DOMAIN files' \cup {l} |->
                     IF x = l THEN keep \o Job.body ELSE files'[x]]
  BY <1>1 DEF Contents, Put
<1>4. /\ DOMAIN files' = DOMAIN files \cup {l}
      /\ \A x \in DOMAIN files \ {l} : files'[x] = files[x]
  BY <1>1 DEF Put
<1> QED
  BY <1>1, <1>2, <1>3, <1>4 DEF Store!Write

\* What does not write leaves the tree alone, but for PutDir and Delete.
LEMMA RespondTree ==
  ASSUME spc = "recv", spc' # "write"
  PROVE  /\ Contents = files /\ Contents' = files' /\ Unsaved' = {}
         /\ UNCHANGED treeVars => Store!Nothing
  BY DEF Contents, Unsaved, treeVars, Store!Nothing

LEMMA ReadEffect ==
  ASSUME IInv, spc = "recv", NEW r, r.op = Job.op \/ Job.op = "FORM",
         Get \/ Search \/ Form \/ RefusePost \/ RefusePut
  PROVE  \E k \in Codes : out'[1].code = k /\ Store!Effect(r, k)
<1>1. Store!Nothing
  <2>1. spc' # "write" /\ UNCHANGED treeVars
    BY DEF Get, Search, Form, RefusePost, RefusePut, Respond
  <2> QED
    BY <2>1, RespondTree
<1>2. \A k \in Store!Refused : k \in Codes /\ Store!Effect(r, k)
  BY <1>1 DEF Store!Effect, Store!Refused, Codes
<1>3. NoBody \in Body
  BY BodyTypes
<1>4. 404 \in Store!Refused /\ 405 \in Store!Refused /\ 400 \in Store!Refused
  BY DEF Store!Refused
<1>5. CASE Form \/ RefusePost
  <2>1. out' = Plain(405, NoBody)
    BY <1>5 DEF Form, RefusePost, Respond, Plain
  <2>2. out'[1].code = 405
    BY <1>2, <1>3, <1>4, <2>1, CodeTold
  <2> QED
    BY <1>2, <1>4, <2>2
<1>6. CASE RefusePut
  <2>1. out' = Plain(400, NoBody)
    BY <1>6 DEF RefusePut, Plain
  <2>2. out'[1].code = 400
    BY <1>2, <1>3, <1>4, <2>1, CodeTold
  <2> QED
    BY <1>2, <1>4, <2>2
<1>7. CASE Get \/ Search
  <2>1. r.op \in {"GET", "SEARCH"}
    BY <1>7 DEF Get, Search, Handling
  <2>2. Store!Effect(r, 200) /\ 200 \in Codes
    BY <1>1, <2>1 DEF Store!Effect, Codes
  <2>3. PICK b \in Body : out' = Plain(200, b) \/ out' = Plain(404, b)
    <3>1. CASE Search
      <4>1. out' = Plain(200,
                     IF Sealed(Job.at) THEN NoBody ELSE ListBody(Found(Job.at, Job.body)))
        BY <3>1 DEF Search, Respond, Plain
      <4>2. ListBody(Found(Job.at, Job.body)) \in Body
        BY BodyTypes, ChildrenType DEF IInv, TypeOK
      <4> QED
        BY <1>3, <4>1, <4>2
    <3>2. CASE Get
      <4>1. out' = CASE IsDir(Job.at) -> Plain(200, ListBody(Children(Job.at)))
                     [] ~ IsDir(Job.at) /\ IsFile(Job.at) /\ CanRead(Job.at) ->
                          Plain(200, TextBody(files[Job.at]))
                     [] OTHER -> Plain(404, NoBody)
        BY <3>2 DEF Get, Respond, Plain
      <4>2. ListBody(Children(Job.at)) \in Body
        BY BodyTypes, ChildrenType DEF IInv, TypeOK
      <4>3. IsFile(Job.at) => TextBody(files[Job.at]) \in Body
        BY BodyTypes DEF IInv, TypeOK, TreeTypeOK, IsFile
      <4>4. \/ out' = Plain(200, ListBody(Children(Job.at)))
            \/ IsFile(Job.at) /\ out' = Plain(200, TextBody(files[Job.at]))
            \/ out' = Plain(404, NoBody)
        BY <4>1
      <4> QED
        BY <1>3, <4>2, <4>3, <4>4
    <3> QED
      BY <1>7, <3>1, <3>2
  <2>4. out'[1].code = 200 \/ out'[1].code = 404
    BY <1>2, <1>4, <2>2, <2>3, CodeTold
  <2> QED
    BY <1>2, <1>4, <2>2, <2>4
<1> QED
  BY <1>5, <1>6, <1>7

LEMMA MakeEffect ==
  ASSUME IInv, TreeInv, spc = "recv", NEW r, r.op = Job.op, r.at = Job.at, PutDir \/ Delete
  PROVE  \E k \in Codes : out'[1].code = k /\ Store!Effect(r, k)
<1>1. /\ Contents = files /\ Contents' = files' /\ Unsaved' = {}
      /\ UNCHANGED treeVars => Store!Nothing
  <2>1. spc' # "write"
    BY DEF PutDir, Delete, Respond
  <2> QED
    BY <2>1, RespondTree
<1>2. Store!Nothing => \A k \in Store!Refused : Store!Effect(r, k)
  BY DEF Store!Effect
<1>3. /\ NoBody \in Body /\ 404 \in Codes /\ 405 \in Codes /\ 400 \in Codes
      /\ 200 \in Codes /\ 201 \in Codes
  BY BodyTypes DEF Codes, Created
<1>4. 404 \in Store!Refused /\ 405 \in Store!Refused /\ 400 \in Store!Refused
  BY DEF Store!Refused
<1>5. CASE PutDir /\ IsDir(Job.at)
  <2>1. UNCHANGED treeVars /\ \/ out' = Plain(405, NoBody)
                              \/ out' = Plain(400, NoBody)
    BY <1>5 DEF PutDir, Respond, Plain, treeVars
  <2>2. out'[1].code = 405 \/ out'[1].code = 400
    BY <1>3, <2>1, CodeTold
  <2> QED
    BY <1>1, <1>2, <1>3, <1>4, <2>1, <2>2
<1>6. CASE PutDir /\ ~ IsDir(Job.at)
  <2>1. /\ r.op = "PUT" /\ r.at \notin DOMAIN files \cup dirs
        /\ out' = Plain(201, NoBody)
        /\ files' = files /\ dirs' = MkdirP(r.at)
    BY <1>6 DEF PutDir, Respond, Plain, Handling, IsFile, IsDir
  <2>2. Store!MakeDirs(r.at)
    BY <1>1, <2>1 DEF Store!MakeDirs, MkdirP, Prefixes
  <2>3. Store!Effect(r, 201)
    BY <1>1, <2>1, <2>2 DEF Store!Effect
  <2>4. out'[1].code = 201
    BY <1>3, <2>1, CodeTold
  <2> QED
    BY <1>3, <2>3, <2>4
<1>7. CASE Delete /\ CanRemove(Job.at)
  <2>1. r.at \in DOMAIN files /\ r.at \notin dirs
    BY <1>7 DEF CanRemove, IsFile, TreeInv
  <2>2. /\ r.op = "DELETE" /\ dirs' = dirs
        /\ files' = [x \in DOMAIN files \ {r.at} |-> files[x]]
        /\ out' = Plain(200, NoBody)
    BY <1>7, <2>1 DEF Delete, Handling, Respond, Plain, Exists, IsDir, IsFile
  <2>3. Store!Unlink(r.at)
    BY <1>1, <2>2 DEF Store!Unlink
  <2>4. Store!Effect(r, 200)
    BY <2>2, <2>3 DEF Store!Effect
  <2>5. out'[1].code = 200
    BY <1>3, <2>2, CodeTold
  <2> QED
    BY <1>3, <2>4, <2>5
<1>8. CASE Delete /\ ~ CanRemove(Job.at)
  <2>1. /\ r.op = "DELETE" /\ UNCHANGED treeVars
        /\ \/ out' = Plain(404, NoBody) \/ out' = Plain(400, NoBody)
           \/ out' = Plain(200, NoBody)
    BY <1>8 DEF Delete, Handling, Respond, Plain, treeVars
  <2>2. Store!Unlink(r.at)
    BY <1>1, <2>1 DEF Store!Unlink, treeVars
  <2>3. Store!Effect(r, 200)
    BY <2>1, <2>2 DEF Store!Effect
  <2>4. out'[1].code \in {404, 400, 200}
    BY <1>3, <2>1, CodeTold
  <2> QED
    BY <1>1, <1>2, <1>3, <1>4, <2>1, <2>3, <2>4
<1> QED
  BY <1>5, <1>6, <1>7, <1>8

LEMMA AppendIsNotEmpty ==
  ASSUME NEW S, NEW s \in Seq(S), NEW t \in Seq(S), t # <<>>
  PROVE  Append(s, Head(t)) # <<>>
<1>1. Head(t) \in S
  BY HeadTailProperties
<1> QED
  BY <1>1, AppendProperties

LEMMA FirstAppended ==
  ASSUME NEW S, NEW s, s = <<>>, NEW t \in Seq(S), t # <<>>
  PROVE  Append(s, Head(t))[1] = t[1]
<1>1. /\ Head(t) \in S /\ s \in Seq(S) /\ Len(s) = 0
  BY HeadTailProperties, EmptySeq
<1>2. Head(t) = t[1]
  OBVIOUS
<1>3. Append(s, Head(t))[Len(s) + 1] = Head(t)
  BY <1>1, AppendProperties
<1> QED
  BY <1>1, <1>2, <1>3

LEMMA FirstStays ==
  ASSUME NEW S, NEW s \in Seq(S), NEW t \in Seq(S), t # <<>>, s # <<>>
  PROVE  Append(s, Head(t))[1] = s[1]
<1>1. Head(t) \in S /\ Len(s) \in Nat \ {0}
  BY HeadTailProperties, EmptySeq
<1>2. 1 \in 1 .. Len(s)
  BY <1>1
<1> QED
  BY <1>1, <1>2, AppendProperties

LEMMA OpenTold ==
  ASSUME Job \in Req, NEW l, NEW keep, NEW k \in Codes, NEW located \in BOOLEAN,
         Open(l, keep, k, located)
  PROVE  out'[1].code = k
<1>1. TextBody(Job.body) \in Body
  BY BodyTypes DEF Req
<1>2. PICK b \in Body : b = TextBody(Job.body)
  BY <1>1
<1>3. out' = Response(k, located, b)
  BY <1>2 DEF Open
<1> QED
  BY <1>3, ResponseIsRead

LEMMA WriteEffect ==
  ASSUME IInv, spc = "recv", Job \in Req, NEW r, r.op = Job.op, r.at = Job.at,
         Post \/ PostBelow \/ PutFile
  PROVE  \E k \in Codes : out'[1].code = k /\ Store!Effect(r, k)
<1>1. PICK ok \in Codes : ok = 200
  BY DEF Codes
<1>2. PICK new \in Codes : new = 201
  BY DEF Codes, Created
<1>3. PICK yes \in BOOLEAN, no \in BOOLEAN : yes = TRUE /\ no = FALSE
  OBVIOUS
<1>4. CASE Post /\ ~ Exists(r.at)
  <2>1. r.op = "POST" /\ Open(r.at, <<>>, new, yes)
    BY <1>2, <1>3, <1>4 DEF Post, Handling, Exists
  <2>2. Store!Write(r.at) /\ Contents = files /\ out'[1].code = new
    BY <2>1, OpenWrites, OpenTold
  <2>3. r.at \notin DOMAIN files \cup dirs
    BY <1>4 DEF Exists, IsFile, IsDir
  <2>4. Store!Effect(r, new)
    BY <1>2, <2>1, <2>2, <2>3 DEF Store!Effect, Store!Post
  <2> QED
    BY <2>2, <2>4
<1>5. CASE Post /\ Exists(r.at)
  <2>1. /\ r.op = "POST" /\ IsFile(r.at)
        /\ Open(r.at, files[r.at], ok, no)
    BY <1>1, <1>3, <1>5 DEF Post, Handling
  <2>2. /\ Store!Write(r.at) /\ Contents = files /\ out'[1].code = ok
        /\ Contents'[r.at] = files[r.at] \o Job.body
    BY <2>1, OpenWrites, OpenTold
  <2>3. /\ files[r.at] \in Seq(Word) /\ Job.body \in Seq(Word) /\ r.at \in DOMAIN files
    BY <2>1 DEF IsFile, IInv, TypeOK, TreeTypeOK, Req, Text
  <2>4. Store!IsPrefix(files[r.at], Contents'[r.at])
    BY <2>2, <2>3, GrownPrefix
  <2>5. Store!Effect(r, ok)
    BY <1>1, <2>1, <2>2, <2>3, <2>4 DEF Store!Effect, Store!Post
  <2> QED
    BY <2>2, <2>5
<1>6. CASE PostBelow
  <2>1. /\ r.op = "POST" /\ r.at \in dirs /\ draws < Len(Random)
        /\ Open(Append(r.at, Random[draws + 1]), <<>>, new, yes)
    BY <1>2, <1>3, <1>6 DEF PostBelow, Handling, PostName, IsDir
  <2>2. /\ Store!Write(Append(r.at, Random[draws + 1])) /\ Contents = files
        /\ out'[1].code = new
    BY <2>1, OpenWrites, OpenTold
  <2>3. Random[draws + 1] \in Name
    <3>1. Len(Random) \in Nat /\ draws \in 0 .. Len(Random)
      BY ServerAssumption, LenProperties DEF IInv, TypeOK, SrvTypeOK
    <3>2. draws + 1 \in 1 .. Len(Random)
      BY <2>1, <3>1
    <3> QED
      BY <3>2, ServerAssumption, ElementOfSeq
  <2>4. Store!Effect(r, new)
    BY <1>2, <2>1, <2>2, <2>3 DEF Store!Effect, Store!Post
  <2> QED
    BY <2>2, <2>4
<1>7. CASE PutFile
  <2>1. PICK k \in Codes : k = IF IsFile(r.at) THEN ok ELSE new
    OBVIOUS
  <2>2. r.op = "PUT" /\ Open(r.at, <<>>, k, no) /\ CanOpen(r.at)
    BY <1>1, <1>2, <1>3, <1>7, <2>1 DEF PutFile, Handling
  <2>3. Store!Write(r.at) /\ Contents = files /\ out'[1].code = k
    BY <2>2, OpenWrites, OpenTold
  <2>4. \/ r.at \in DOMAIN files /\ k = 200
        \/ r.at \notin DOMAIN files \cup dirs /\ k = 201
    BY <1>1, <1>2, <2>1, <2>2 DEF CanOpen, IsFile, IsDir
  <2>5. Store!Effect(r, k)
    BY <2>2, <2>3, <2>4 DEF Store!Effect
  <2> QED
    BY <2>3, <2>5
<1> QED
  BY <1>4, <1>5, <1>6, <1>7

LEMMA SomeEffect ==
  ASSUME IInv, TreeInv, spc = "recv", Job \in Req, NEW r, r.at = Job.at,
         r.op = Job.op \/ Job.op = "FORM",
         \/ Get \/ Search \/ Form \/ Post \/ PostBelow \/ PutFile \/ PutDir \/ Delete
         \/ RefusePost \/ RefusePut
  PROVE  \E k \in Codes : out'[1].code = k /\ Store!Effect(r, k)
<1>1. CASE Get \/ Search \/ Form \/ RefusePost \/ RefusePut
  BY <1>1, ReadEffect
<1>2. CASE PutDir \/ Delete
  <2>1. r.op = Job.op
    BY <1>2 DEF PutDir, Delete, Handling
  <2> QED
    BY <1>2, <2>1, MakeEffect
<1>3. CASE Post \/ PostBelow \/ PutFile
  <2>1. r.op = Job.op
    BY <1>3 DEF Post, PostBelow, PutFile, Handling
  <2> QED
    BY <1>3, <2>1, WriteEffect
<1> QED
  BY <1>1, <1>2, <1>3

\* What the server handles is at the place its client has named.
LEMMA VersionOf ==
  ASSUME NEW r \in Req, NEW h \in Heads(r)
  PROVE  h.at = r.at /\ (h.op = r.op \/ h.op = "FORM")
  BY DEF Heads, Req

LEMMA SecondOfTwo ==
  ASSUME NEW S, NEW s \in Seq(S), s # <<>>, Tail(s) # <<>>
  PROVE  Len(s) > 1 /\ Head(Tail(s)) = s[2]
<1>1. /\ Tail(s) \in Seq(S) /\ Len(Tail(s)) = Len(s) - 1 /\ Len(s) \in Nat
      /\ \A i \in 1 .. Len(Tail(s)) : Tail(s)[i] = s[i + 1]
  BY HeadTailProperties, LenProperties
<1>2. Len(Tail(s)) \in Nat \ {0}
  BY <1>1, EmptySeq
<1>3. Head(Tail(s)) = Tail(s)[1]
  BY <1>1, <1>2
<1>4. 1 \in 1 .. Len(Tail(s)) /\ 1 + 1 = 2
  BY <1>2
<1>5. Tail(s)[1] = s[2]
  BY <1>1, <1>4
<1> QED
  BY <1>1, <1>2, <1>3, <1>5

\* In the middle of a request, nothing more of it can be received.
LEMMA HandlingView ==
  ASSUME RefInv, UNCHANGED cliVars, NEW c \in Client, c = cur,
         \/ Get \/ Search \/ Form \/ Post \/ PostBelow \/ PutFile \/ PutDir \/ Delete
         \/ RefusePost \/ RefusePut
  PROVE  /\ spc = "recv" /\ Job \in Req /\ Job \in Versions(c)
         /\ Pending(c) /\ ~ Pending(c)'
         /\ got[c] = Nothing /\ got'[c] = Nothing
         /\ conn'[c].down = <<>>
         /\ Serving(c)' /\ Alone(c)
<1>1. /\ UNCHANGED <<backlog, cur, last, got, cpc>> /\ Recv
      /\ spc = "recv" /\ spc' \in {"write", "respond", "refuse"}
      /\ conn[cur].up # <<>> /\ Job.op \in Methods
  BY DEF Get, Search, Form, Post, PostBelow, PutFile, PutDir, Delete, RefusePost, RefusePut,
         Handling, Respond, Open, cliVars, Methods
<1>2. Job \in Req /\ Job \in Versions(c)
  BY <1>1, JobVersion DEF RefInv
<1>3. conn \in [Client -> Duplex(Segment, Piece)]
  BY DEF RefInv, IInv, TypeOK, NetTypeOK
<1>4. /\ conn[c].up \in Seq(Segment)
      /\ conn'[c].up = Tail(conn[c].up) /\ conn'[c].down = conn[c].down
      /\ \A d \in Client : d # c => conn'[d] = conn[d]
  BY <1>1, <1>3 DEF Recv, Duplex
<1>5. /\ got[c] = Nothing /\ conn[c].down = <<>>
  BY <1>1 DEF RefInv, IInv, SessionInv, ReplyInv, ServingInv
<1>6. Pending(c)
  <2>1. Coming.op = "coming" /\ Ending.op = "ending"
    BY DEF Coming, Ending, Mark, NoReq
  <2>2. Job \notin {Coming, Ending}
    BY <1>1, <2>1 DEF Methods
  <2> QED
    BY <1>1, <2>2 DEF Pending, Job
<1>7. ~ Pending(c)'
  <2>1. ASSUME Tail(conn[c].up) # <<>>
        PROVE  Head(Tail(conn[c].up)) = Coming
    <3>1. /\ Len(conn[c].up) > 1
          /\ Head(Tail(conn[c].up)) = conn[c].up[2]
      BY <1>1, <1>4, <2>1, SecondOfTwo
    <3>2. conn[c].up[2] = Coming
      BY <3>1 DEF RefInv, StreamInv
    <3> QED
      BY <3>1, <3>2
  <2> QED
    BY <1>4, <2>1 DEF Pending
<1>8. Alone(c)
  <2>1. ASSUME NEW d \in Client, d # c
        PROVE  Unmoved(d)
    BY <1>1, <1>4, <2>1, SameView DEF Pending, Serving
  <2> QED
    BY <2>1 DEF Alone
<1> QED
  BY <1>1, <1>2, <1>4, <1>5, <1>6, <1>7, <1>8 DEF Serving

LEMMA HandlingStep ==
  ASSUME RefInv, UNCHANGED cliVars,
         \/ Get \/ Search \/ Form \/ Post \/ PostBelow \/ PutFile \/ PutDir \/ Delete
         \/ RefusePost \/ RefusePut
  PROVE  Store!Next
<1>1. PICK c \in Client : c = cur
  <2>1. spc = "recv"
    BY DEF Get, Search, Form, Post, PostBelow, PutFile, PutDir, Delete, RefusePost, RefusePut,
           Handling
  <2> QED
    BY <2>1 DEF RefInv, IInv, TypeOK, SrvTypeOK
<1>2. /\ spc = "recv" /\ Job \in Req /\ Job \in Versions(c)
      /\ Pending(c) /\ ~ Pending(c)' /\ got[c] = Nothing /\ got'[c] = Nothing
      /\ conn'[c].down = <<>> /\ Alone(c) /\ Serving(c)'
  BY <1>1, HandlingView
<1>3. Job.at = last[c].at /\ (last[c].op = Job.op \/ Job.op = "FORM")
  <2>1. last[c] \in Req
    BY VersionType DEF RefInv
  <2> QED
    BY <1>2, <2>1, VersionOf DEF Versions
<1>4. PICK k \in Codes : out'[1].code = k /\ Store!Effect(last[c], k)
  BY <1>2, <1>3, SomeEffect DEF RefInv
<1>5. got[c].code = 0 /\ got'[c].code = 0 /\ last' = last
  BY <1>2 DEF Nothing, cliVars
<1>6. Phase(c) = "asked" /\ Asked(c) = last[c]
  BY <1>2, <1>5, ViewHolds DEF View
<1>7. Phase(c)' = "served" /\ Outcome(c)' = k
  BY <1>2, <1>4, <1>5, NextViewHolds DEF View
<1> QED
  BY <1>2, <1>4, <1>5, <1>6, <1>7, PerformStep

----------------------------------------------------------------------------
(* The other steps of the server.                                          *)

\* A response is being sent, or has still to be.
LEMMA ServingResponds ==
  ASSUME RefInv, NEW c \in Client, Serving(c)
  PROVE  /\ cpc[c] \notin {"off", "prompt"} /\ got[c] = Nothing /\ ~ Pending(c)
         /\ conn[c].down = <<>> => out # <<>> /\ out[1].code \in Codes
<1>1. PICK code \in Codes, located \in BOOLEAN, b \in Body :
        conn[c].down \o out = Response(code, located, b) /\ got[c] = Nothing
  BY DEF RefInv, ReplyInv, ServingInv, Replies, Serving
<1>2. cpc[c] \notin {"off", "prompt"} /\ ~ Pending(c)
  BY DEF RefInv, ReplyInv, ServingInv, StreamInv, Serving
<1>3. ASSUME conn[c].down = <<>>
      PROVE  out = Response(code, located, b)
  <2>1. out \in Seq(Piece)
    BY DEF RefInv, IInv, TypeOK, SrvTypeOK
  <2> QED
    BY <1>1, <1>3, <2>1, ConcatEmptySeq
<1>4. ASSUME out = Response(code, located, b)
      PROVE  out # <<>> /\ out[1].code \in Codes
  BY <1>4, ResponseIsRead DEF Headed
<1> QED
  BY <1>1, <1>2, <1>3, <1>4

LEMMA IdleServer ==
  ASSUME RefInv, UNCHANGED cliVars, Accept \/ RecvNothing \/ Close \/ StartServer
  PROVE  UNCHANGED Store!vars
<1>1. /\ UNCHANGED <<conn, cpc, last, got>> /\ UNCHANGED treeVars
      /\ spc \notin {"write", "respond", "refuse"} /\ spc' \notin {"write", "respond", "refuse"}
  BY DEF Accept, RecvNothing, Close, StartServer, netVars, cliVars, Down
<1>2. TreeUnmoved
  BY <1>1, SameTreeView
<1>3. \A c \in Client : Unmoved(c)
  <2> SUFFICES ASSUME NEW c \in Client PROVE Unmoved(c)
    OBVIOUS
  <2> QED
    BY <1>1, SameView DEF Pending, Serving
<1> QED
  BY <1>2, <1>3, StutterStep

LEMMA WrittenStep ==
  ASSUME RefInv, UNCHANGED cliVars, Written
  PROVE  Store!Next
<1>1. /\ UNCHANGED <<conn, cpc, last, got, dirs, cur, out>>
      /\ spc = "write" /\ spc' = "respond" /\ files' = Put(todo.at, todo.text)
  BY DEF Written, netVars, cliVars
<1>2. \A c \in Client : Unmoved(c)
  <2> SUFFICES ASSUME NEW c \in Client PROVE Unmoved(c)
    OBVIOUS
  <2> QED
    BY <1>1, SameView DEF Pending, Serving
<1>3. UNCHANGED <<Phases, Requests, Outcomes>>
  BY <1>2 DEF Unmoved, Phases, Requests, Outcomes
<1>4. Contents' = Contents /\ Unsaved # {} /\ Unsaved' = {}
  BY <1>1 DEF Contents, Unsaved
<1>5. Store!Save
  BY <1>1, <1>3, <1>4 DEF Store!Save
<1> QED
  BY <1>5 DEF Store!Next

LEMMA SendStep ==
  ASSUME RefInv, UNCHANGED cliVars, Send, spc' # "broken"
  PROVE  UNCHANGED Store!vars
<1>1. /\ UNCHANGED <<cpc, last, got, cur, spc>> /\ UNCHANGED treeVars
      /\ spc \in {"respond", "refuse"} /\ out # <<>>
      /\ conn' = [conn EXCEPT ![cur].down = Append(@, Head(out))]
  BY DEF Send, Crash, cliVars
<1>2. TreeUnmoved
  BY <1>1, SameTreeView
<1>3. /\ conn \in [Client -> Duplex(Segment, Piece)] /\ out \in Seq(Piece)
  BY DEF RefInv, IInv, TypeOK, NetTypeOK, SrvTypeOK
<1>4. ASSUME NEW c \in Client, c # cur
      PROVE  Unmoved(c)
  <2>1. conn'[c] = conn[c]
    BY <1>1, <1>3, <1>4
  <2> QED
    BY <1>1, <1>4, <2>1, SameView DEF Pending, Serving
<1>5. ASSUME NEW c \in Client, c = cur
      PROVE  Unmoved(c)
  <2>1. /\ conn'[c].up = conn[c].up /\ conn'[c].down = Append(conn[c].down, Head(out))
        /\ conn[c].down \in Seq(Piece)
    BY <1>1, <1>3, <1>5 DEF Duplex
  <2>2. Serving(c) /\ Serving(c)' /\ ~ Pending(c) /\ ~ Pending(c)' /\ got[c] = Nothing
    BY <1>1, <1>5, <2>1, ServingResponds DEF Serving, Pending
  <2>3. got[c].code = 0 /\ got'[c].code = 0
    BY <1>1, <2>2 DEF Nothing
  <2>4. conn'[c].down # <<>> /\ Phase(c)' = "served" /\ Outcome(c)' = conn'[c].down[1].code
    <3>1. conn'[c].down # <<>>
      BY <1>1, <1>3, <2>1, AppendIsNotEmpty
    <3> QED
      BY <2>2, <2>3, <3>1, NextViewHolds DEF View
  <2>5. Phase(c) = "served" /\ Outcome(c) = conn'[c].down[1].code
    <3>1. CASE conn[c].down = <<>>
      <4>1. conn'[c].down[1] = out[1]
        BY <1>1, <1>3, <2>1, <3>1, FirstAppended
      <4> QED
        BY <2>2, <2>3, <3>1, <4>1, ViewHolds DEF View
    <3>2. CASE conn[c].down # <<>>
      <4>1. conn'[c].down[1] = conn[c].down[1]
        BY <1>1, <1>3, <2>1, <3>2, FirstStays
      <4> QED
        BY <2>2, <2>3, <3>2, <4>1, ViewHolds DEF View
    <3> QED
      BY <3>1, <3>2
  <2>6. Asked(c)' = Asked(c)
    BY <1>1, <2>4, <2>5, ViewHolds, NextViewHolds DEF View
  <2> QED
    BY <2>4, <2>5, <2>6 DEF Unmoved
<1> QED
  BY <1>2, <1>4, <1>5, StutterStep

LEMMA ShutStep ==
  ASSUME RefInv, UNCHANGED cliVars, Shut
  PROVE  UNCHANGED Store!vars
<1>1. /\ UNCHANGED <<cpc, last, got, cur, out>> /\ UNCHANGED treeVars
      /\ spc = "respond" /\ spc' = "linger" /\ out = <<>>
      /\ conn' = [conn EXCEPT ![cur].downEof = TRUE]
  BY DEF Shut, cliVars
<1>2. TreeUnmoved
  BY <1>1, SameTreeView
<1>3. ASSUME NEW c \in Client
      PROVE  Unmoved(c)
  <2>1. conn'[c].up = conn[c].up /\ conn'[c].down = conn[c].down
    BY <1>1 DEF RefInv, IInv, TypeOK, NetTypeOK, Duplex
  <2>2. Pending(c)' <=> Pending(c)
    BY <2>1 DEF Pending
  <2>3. conn[c].down = <<>> => ~ Serving(c)
    BY <1>1, ServingResponds
  <2>4. ~ Serving(c)'
    BY <1>1 DEF Serving
  <2> QED
    BY <1>1, <2>1, <2>2, <2>3, <2>4, SameView
<1> QED
  BY <1>2, <1>3, StutterStep

\* The end of the server: what has not been received, or answered in part, is
\* lost, and so is what has not been written.
LEMMA CrashStep ==
  ASSUME RefInv, UNCHANGED cliVars, NEW why \in Down, Crash(why)
  PROVE  Store!Next
<1>1. /\ UNCHANGED <<cpc, last, got, files, dirs>>
      /\ spc' \notin {"write", "respond", "refuse"}
      /\ \A c \in Client : conn'[c].up = <<>> /\ conn'[c].down = conn[c].down
  BY DEF Crash, treeVars, cliVars, Down, RefInv, IInv, TypeOK, NetTypeOK, Duplex
<1> DEFINE S == {c \in Client : Phase(c) \in {"asked", "served"} /\ Phase(c)' = "lost"}
<1>2. ASSUME NEW c \in Client, c \notin S
      PROVE  Unmoved(c)
  <2> DEFINE lost == Phase(c) \in {"asked", "served"} /\ Phase(c)' = "lost"
  <2>1. ~ lost
    BY <1>2
  <2>2. View(c) /\ View(c)' /\ ~ Pending(c)' /\ ~ Serving(c)'
    BY <1>1, ViewHolds, NextViewHolds DEF Pending, Serving
  <2>3. CASE got[c].code # 0
    BY <1>1, <2>2, <2>3 DEF View, Unmoved
  <2>4. CASE got[c].code = 0 /\ Pending(c)
    <3>1. conn[c].down = <<>> /\ cpc[c] \notin {"off", "prompt"}
      BY <2>4 DEF RefInv, ReplyInv, StreamInv, AskingInv, Pending
    <3>2. lost
      BY <1>1, <2>2, <2>4, <3>1 DEF View
    <3> QED
      BY <2>1, <3>2
  <2>5. CASE got[c].code = 0 /\ ~ Pending(c) /\ conn[c].down # <<>>
    BY <1>1, <2>2, <2>5 DEF View, Unmoved
  <2>6. CASE got[c].code = 0 /\ ~ Pending(c) /\ conn[c].down = <<>> /\ Serving(c)
    <3>1. cpc[c] \notin {"off", "prompt"}
      BY <2>6, ServingResponds
    <3>2. lost
      BY <1>1, <2>2, <2>6, <3>1 DEF View
    <3> QED
      BY <2>1, <3>2
  <2>7. CASE got[c].code = 0 /\ ~ Pending(c) /\ conn[c].down = <<>> /\ ~ Serving(c)
    BY <1>1, <2>2, <2>7 DEF View, Unmoved
  <2> QED
    BY <2>3, <2>4, <2>5, <2>6, <2>7
<1>3. Store!Forget(S)
  <2>1. \A c \in Client : IF c \in S THEN Phase(c)' = "lost" ELSE Unmoved(c)
    BY <1>2
  <2> QED
    BY <2>1, ForgetStep
<1>4. S \in SUBSET {c \in Client : Phases[c] \in {"asked", "served"}}
  BY DEF Phases
<1>5. /\ Contents' = files /\ Unsaved' = {}
  BY <1>1 DEF Contents, Unsaved
<1>6. /\ DOMAIN files = DOMAIN Contents
      /\ \A l \in DOMAIN Contents :
           IF l \in Unsaved THEN Store!IsPrefix(files[l], Contents[l])
           ELSE files[l] = Contents[l]
  BY DEF RefInv, WriteInv, Contents, Unsaved, Put
<1>7. Store!Crash
  BY <1>1, <1>3, <1>4, <1>5, <1>6 DEF Store!Crash
<1> QED
  BY <1>7 DEF Store!Next

LEMMA ServerRefines ==
  ASSUME RefInv, ServerStep \/ Operator
  PROVE  [Store!Next]_Store!vars
<1>1. UNCHANGED cliVars
  BY DEF ServerStep, Operator
<1>2. CASE \/ Get \/ Search \/ Form \/ Post \/ PostBelow \/ PutFile \/ PutDir \/ Delete
           \/ RefusePost \/ RefusePut
  BY <1>1, <1>2, HandlingStep
<1>3. CASE Accept \/ RecvNothing \/ Close \/ StartServer
  BY <1>1, <1>3, IdleServer
<1>4. CASE Written
  BY <1>1, <1>4, WrittenStep
<1>5. CASE Send /\ spc' # "broken"
  BY <1>1, <1>5, SendStep
<1>6. CASE Shut
  BY <1>1, <1>6, ShutStep
<1>7. CASE \E why \in Down : Crash(why)
  BY <1>1, <1>7, CrashStep
<1>8. CrashHandling \/ RefuseCrash \/ KillServer \/ (Send /\ spc' = "broken")
        => \E why \in Down : Crash(why)
  BY DEF CrashHandling, RefuseCrash, KillServer, Send, Down
<1> QED
  BY <1>2, <1>3, <1>4, <1>5, <1>6, <1>7, <1>8 DEF ServerStep, ServerNext, Operator

----------------------------------------------------------------------------
(* The steps of clients, users and the network.                            *)

LEMMA ClientAlone ==
  ASSUME RefInv, NEW c \in Client, ClientStep(c) \/ Typing(c) \/ Network(c)
  PROVE  /\ Alone(c) /\ TreeUnmoved /\ UNCHANGED srvVars
         /\ Serving(c)' <=> Serving(c)
<1>1. UNCHANGED treeVars /\ UNCHANGED srvVars
  BY DEF ClientStep, Typing, Network
<1>2. TreeUnmoved
  BY <1>1, SameTreeView DEF srvVars
<1>3. /\ conn \in [Client -> Duplex(Segment, Piece)] /\ cpc \in [Client -> ClientPc]
      /\ last \in [Client -> Req] /\ got \in [Client -> [code : Nat, rest : Seq(Piece)]]
  BY DEF RefInv, IInv, TypeOK, NetTypeOK, CliTypeOK
<1>4. ASSUME NEW d \in Client, d # c
      PROVE  Unmoved(d)
  <2>1. /\ conn'[d] = conn[d] /\ cpc'[d] = cpc[d] /\ last'[d] = last[d] /\ got'[d] = got[d]
    <3>1. CASE ClientStep(c)
      BY <1>3, <1>4, <3>1 DEF ClientStep, ProgramStep, ReadResponse, Linger, Goto, netVars
    <3>2. CASE Typing(c)
      BY <1>3, <1>4, <3>2 DEF Typing, UserStep, Connect, Type, TypeUnknown, Kill, Leave, Goto
    <3>3. CASE Network(c)
      BY <1>3, <1>4, <3>3 DEF Network, Arrive, cliVars
    <3> QED
      BY <3>1, <3>2, <3>3
  <2> QED
    BY <1>1, <2>1, SameView DEF Pending, Serving, srvVars
<1> QED
  BY <1>1, <1>2, <1>4 DEF Alone, Serving, srvVars

LEMMA AloneStutter ==
  ASSUME NEW c \in Client, Alone(c), TreeUnmoved, Unmoved(c)
  PROVE  [Store!Next]_Store!vars
<1>1. \A d \in Client : Unmoved(d)
  BY DEF Alone
<1> QED
  BY <1>1, StutterStep

\* Before it has sent a request, a client has nothing to receive.
LEMMA NothingAsked ==
  ASSUME RefInv, NEW c \in Client, cpc[c] \in {"off", "prompt"}
  PROVE  /\ conn[c].up = <<>> /\ ~ Pending(c) /\ conn[c].down = <<>> /\ ~ Serving(c)
         /\ got[c].code = 0 /\ Phase(c) = "idle" /\ Outcome(c) = 0
<1>1. conn[c].up = <<>> /\ conn[c].down = <<>> /\ got[c] = Nothing
  BY DEF RefInv, IInv, ReplyInv, AskingInv, SessionInv, StreamInv
<1>2. ~ Serving(c)
  BY ServingResponds
<1>3. ~ Pending(c) /\ got[c].code = 0
  BY <1>1 DEF Pending, Nothing
<1> QED
  BY <1>1, <1>2, <1>3, ViewHolds DEF View

LEMMA ConnectStep ==
  ASSUME RefInv, NEW c \in Client, Connect(c), Typing(c)
  PROVE  [Store!Next]_Store!vars
<1>1. /\ Alone(c) /\ TreeUnmoved
      /\ Serving(c)' <=> Serving(c)
  BY ClientAlone
<1>2. /\ cpc[c] = "off" /\ cpc'[c] = "prompt" /\ conn'[c] = Fresh /\ UNCHANGED <<last, got>>
  BY DEF Connect, Goto, RefInv, IInv, TypeOK, NetTypeOK, CliTypeOK
<1>3. ~ Pending(c)' /\ conn'[c].down = <<>>
  BY <1>2 DEF Pending, Fresh
<1>4. Unmoved(c)
  BY <1>1, <1>2, <1>3, NothingAsked, SameView
<1> QED
  BY <1>1, <1>4, AloneStutter

\* What a request arrives as begins with a request, or with a torn one.
LEMMA ArrivalBegins ==
  ASSUME NEW r \in Req, NEW s \in Arrivals(r)
  PROVE  /\ s # <<>> /\ s[1] = Head(s) /\ s[1] \notin {Coming, Ending}
         /\ Len(s) > 1 => Len(s) = 2 /\ s[2] = Coming
<1>1. /\ Coming.op = "coming" /\ Ending.op = "ending" /\ Torn.op = "torn"
      /\ \A q \in Req : q.op \in Methods
  BY DEF Coming, Ending, Torn, Mark, NoReq, Req
<1>2. \A q \in Req \cup {Torn} : q \notin {Coming, Ending}
  BY <1>1 DEF Methods
<1>3. PICK h \in Req \cup {Torn} : s = <<h>> \/ s = <<h, Coming>>
  BY HeadsType DEF Arrivals
<1>4. h \notin {Coming, Ending}
  BY <1>2
<1>5. /\ s # <<>> /\ s[1] = h /\ Head(s) = h
      /\ Len(s) > 1 => Len(s) = 2 /\ s[2] = Coming
  <2>1. CASE s = <<h>>
    BY <2>1
  <2>2. CASE s = <<h, Coming>>
    BY <2>2
  <2> QED
    BY <1>3, <2>1, <2>2
<1> QED
  BY <1>4, <1>5

LEMMA TypeStep ==
  ASSUME RefInv, NEW c \in Client, Type(c), Typing(c)
  PROVE  Store!Next
<1>1. /\ Alone(c) /\ TreeUnmoved
      /\ Serving(c)' <=> Serving(c)
  BY ClientAlone
<1>2. PICK r \in Request :
        /\ last' = [last EXCEPT ![c] = Lowered(r)]
        /\ \/ /\ IF conn[c].downEof THEN conn' = conn
                 ELSE \E s \in Arrivals(Lowered(r)) : conn' = [conn EXCEPT ![c].up = s]
              /\ Goto(c, "wait")
           \/ conn[c].downEof /\ Leave(c, "dead")
  BY DEF Type
<1>3. cpc[c] = "prompt" /\ UNCHANGED got
  BY DEF Type
<1>4. /\ conn[c].up = <<>> /\ conn[c].down = <<>> /\ ~ Serving(c)' /\ got'[c].code = 0
      /\ Phase(c) = "idle" /\ Outcome(c) = 0
  BY <1>1, <1>3, NothingAsked
<1>5. cpc'[c] \notin {"off", "prompt"} /\ last'[c] = Lowered(r) /\ conn'[c].down = <<>>
  BY <1>2, <1>4 DEF Goto, Leave, RefInv, IInv, TypeOK, NetTypeOK, CliTypeOK, Duplex
<1>6. CASE \E s \in Arrivals(Lowered(r)) : conn' = [conn EXCEPT ![c].up = s]
  <2>1. PICK s \in Arrivals(Lowered(r)) : conn' = [conn EXCEPT ![c].up = s]
    BY <1>6
  <2>2. conn'[c].up = s
    BY <2>1 DEF RefInv, IInv, TypeOK, NetTypeOK, Duplex
  <2>3. Pending(c)'
    BY <2>2, LoweredType, ArrivalBegins DEF Pending
  <2>4. Phase(c)' = "asked" /\ Outcome(c)' = 0 /\ Asked(c)' = Lowered(r)
    BY <1>4, <1>5, <2>3, NextViewHolds DEF View
  <2> QED
    BY <1>1, <1>4, <2>4, AskStep
<1>7. CASE conn'[c].up = <<>>
  <2>1. Phase(c)' = "lost"
    BY <1>4, <1>5, <1>7, NextViewHolds DEF View, Pending
  <2> QED
    BY <1>1, <1>4, <2>1, GiveUpStep
<1> QED
  BY <1>2, <1>4, <1>6, <1>7 DEF Leave, RefInv, IInv, TypeOK, NetTypeOK, Duplex

\* A client that ends its side without having asked has lost its turn; another
\* goes on as far as the store can see.
LEMMA LeaveStep ==
  ASSUME RefInv, NEW c \in Client, NEW pc \in {"linger", "dead"}, Leave(c, pc), Typing(c),
         UNCHANGED <<last, got>>
  PROVE  [Store!Next]_Store!vars
<1>1. /\ Alone(c) /\ TreeUnmoved
      /\ Serving(c)' <=> Serving(c)
  BY ClientAlone
<1>2. /\ conn'[c].up = conn[c].up /\ conn'[c].down = conn[c].down
      /\ cpc'[c] \notin {"off", "prompt"}
  BY DEF Leave, Goto, RefInv, IInv, TypeOK, NetTypeOK, CliTypeOK, Duplex
<1>3. Pending(c)' <=> Pending(c)
  BY <1>2 DEF Pending
<1>4. CASE cpc[c] \in {"off", "prompt"}
  <2>1. /\ ~ Pending(c) /\ conn[c].down = <<>> /\ ~ Serving(c)
        /\ got[c].code = 0 /\ Phase(c) = "idle"
    BY <1>4, NothingAsked
  <2>2. Phase(c)' = "lost"
    BY <1>1, <1>2, <1>3, <2>1, NextViewHolds DEF View
  <2> QED
    BY <1>1, <2>1, <2>2, GiveUpStep
<1>5. CASE cpc[c] \notin {"off", "prompt"}
  <2>1. out' = out
    BY ClientAlone DEF srvVars
  <2>2. Unmoved(c)
    BY <1>1, <1>2, <1>3, <1>5, <2>1, SameView
  <2> QED
    BY <1>1, <2>2, AloneStutter
<1> QED
  BY <1>4, <1>5

LEMMA ReadStep ==
  ASSUME RefInv, NEW c \in Client, ReadResponse(c), ClientStep(c)
  PROVE  [Store!Next]_Store!vars
<1>1. /\ Alone(c) /\ TreeUnmoved
      /\ Serving(c)' <=> Serving(c)
  BY ClientAlone
<1>2. /\ cpc[c] = "wait" /\ conn[c].downEof /\ last' = last
      /\ cpc'[c] \notin {"off", "prompt"}
      /\ conn'[c].up = conn[c].up /\ conn'[c].down = <<>>
  BY DEF ReadResponse, Goto, RefInv, IInv, TypeOK, NetTypeOK, CliTypeOK, Duplex
<1>3. got[c].code = 0
  BY <1>2 DEF RefInv, IInv, SessionInv, Nothing
<1>4. Pending(c)' <=> Pending(c)
  BY <1>2 DEF Pending
<1>5. CASE Headed(conn[c].down)
  <2>1. conn[c].down # <<>>
    BY <1>5 DEF Headed
  <2>2. ~ Pending(c) /\ conn[c].down[1].code \in Codes
    BY <2>1 DEF RefInv, StreamInv
  <2>3. got'[c].code = conn[c].down[1].code
    BY <1>5 DEF ReadResponse, RefInv, IInv, TypeOK, CliTypeOK
  <2>4. got'[c].code # 0
    BY <2>2, <2>3 DEF Codes, Created
  <2>5. Phase(c) = "served" /\ Asked(c) = last[c] /\ Outcome(c) = got'[c].code
    BY <1>3, <2>1, <2>2, <2>3, ViewHolds DEF View
  <2>6. Phase(c)' = "told" /\ Asked(c)' = last[c] /\ Outcome(c)' = got'[c].code
    BY <1>2, <2>4, NextViewHolds DEF View
  <2> QED
    BY <1>1, <2>5, <2>6, TellStep
<1>6. CASE ~ Headed(conn[c].down)
  <2>1. got' = got
    BY <1>6 DEF ReadResponse
  <2>2. CASE Pending(c)
    <3>1. Unmoved(c)
      BY <1>2, <1>4, <2>1, <2>2, SameView
    <3> QED
      BY <1>1, <3>1, AloneStutter
  <2>3. CASE ~ Pending(c) /\ conn[c].down = <<>>
    <3>1. Unmoved(c)
      <4>1. Serving(c) => out'[1].code = out[1].code
        BY ClientAlone DEF srvVars
      <4> QED
        BY <1>1, <1>2, <1>4, <2>1, <2>3, <4>1, SameView
    <3> QED
      BY <1>1, <3>1, AloneStutter
  <2>4. CASE ~ Pending(c) /\ conn[c].down # <<>>
    <3>1. ~ Serving(c)
      BY <1>2 DEF RefInv, IInv, SessionInv, Serving
    <3>2. Phase(c) = "served"
      BY <1>3, <2>4, ViewHolds DEF View
    <3>3. Phase(c)' = "lost"
      BY <1>1, <1>2, <1>3, <1>4, <2>1, <2>4, <3>1, NextViewHolds DEF View
    <3> QED
      BY <1>1, <3>2, <3>3, GiveUpStep
  <2> QED
    BY <2>2, <2>3, <2>4
<1> QED
  BY <1>5, <1>6

LEMMA LingerStep ==
  ASSUME RefInv, NEW c \in Client, Linger(c), ClientStep(c)
  PROVE  [Store!Next]_Store!vars
<1>1. Alone(c) /\ TreeUnmoved /\ UNCHANGED srvVars
  BY ClientAlone
<1>2. /\ UNCHANGED <<conn, last, got>> /\ cpc[c] = "linger" /\ cpc'[c] = "done"
  BY DEF Linger, Goto, netVars, RefInv, IInv, TypeOK, CliTypeOK
<1>3. Unmoved(c)
  BY <1>1, <1>2, SameView DEF Pending, Serving, srvVars
<1> QED
  BY <1>1, <1>3, AloneStutter

\* The second part of a request changes nothing before the first is received.
LEMMA ArriveView ==
  ASSUME RefInv, NEW c \in Client, Arrive(c)
  PROVE  /\ Len(conn'[c].up) = 1 /\ conn'[c].down = conn[c].down
         /\ Pending(c)' <=> Pending(c)
<1>1. /\ conn[c].up \in Seq(Segment) /\ conn[c].up # <<>> /\ conn[c].up[Len(conn[c].up)] = Coming
      /\ conn'[c].up = IF Len(conn[c].up) = 1 THEN <<Ending>> ELSE <<last[c]>>
      /\ conn'[c].down = conn[c].down
  BY DEF Arrive, RefInv, IInv, TypeOK, NetTypeOK, Duplex
<1>2. /\ Len(conn[c].up) \in Nat \ {0}
      /\ Head(conn[c].up) = conn[c].up[1]
  BY <1>1, EmptySeq
<1>3. last[c] \notin {Coming, Ending}
  <2>1. Coming.op = "coming" /\ Ending.op = "ending"
    BY DEF Coming, Ending, Mark, NoReq
  <2>2. last[c].op \in Methods
    BY DEF RefInv, IInv, TypeOK, CliTypeOK, Req
  <2> QED
    BY <2>1, <2>2 DEF Methods
<1>4. CASE Len(conn[c].up) = 1
  <2>1. ~ Pending(c)
    BY <1>1, <1>2, <1>4 DEF Pending
  <2>2. conn'[c].up = <<Ending>>
    BY <1>1, <1>4
  <2> QED
    BY <1>1, <2>1, <2>2 DEF Pending
<1>5. CASE Len(conn[c].up) # 1
  <2>1. Pending(c)
    <3>1. Len(conn[c].up) > 1
      <4>1. \A n \in Nat \ {0} : n # 1 => n > 1
        OBVIOUS
      <4> QED
        BY <1>2, <1>5, <4>1
    <3> QED
      BY <1>1, <1>2, <3>1 DEF RefInv, StreamInv, Pending
  <2>2. conn'[c].up = <<last[c]>>
    BY <1>1, <1>5
  <2> QED
    BY <1>1, <1>3, <2>1, <2>2 DEF Pending
<1> QED
  BY <1>4, <1>5

LEMMA ArriveStep ==
  ASSUME RefInv, NEW c \in Client, Network(c)
  PROVE  [Store!Next]_Store!vars
<1>1. Alone(c) /\ TreeUnmoved /\ UNCHANGED srvVars
  BY ClientAlone
<1>2. Arrive(c) /\ UNCHANGED <<cpc, last, got>>
  BY DEF Network, Arrive, cliVars
<1>3. /\ conn'[c].down = conn[c].down
      /\ Pending(c)' <=> Pending(c)
  BY <1>2, ArriveView
<1>4. Unmoved(c)
  BY <1>1, <1>2, <1>3, SameView DEF Serving, srvVars
<1> QED
  BY <1>1, <1>4, AloneStutter

LEMMA ClientRefines ==
  ASSUME RefInv, NEW c \in Client, ClientStep(c) \/ Typing(c) \/ Network(c)
  PROVE  [Store!Next]_Store!vars
<1>1. CASE ClientStep(c) /\ ReadResponse(c)
  BY <1>1, ReadStep
<1>2. CASE ClientStep(c) /\ Linger(c)
  BY <1>2, LingerStep
<1>3. CASE Typing(c) /\ Connect(c)
  BY <1>3, ConnectStep
<1>4. CASE Typing(c) /\ Type(c)
  BY <1>4, TypeStep
<1>5. CASE Typing(c) /\ (TypeUnknown(c) \/ Kill(c))
  <2>1. UNCHANGED <<last, got>> /\ \E pc \in {"linger", "dead"} : Leave(c, pc)
    BY <1>5 DEF TypeUnknown, Kill
  <2> QED
    BY <1>5, <2>1, LeaveStep
<1>6. CASE Network(c)
  BY <1>6, ArriveStep
<1> QED
  BY <1>1, <1>2, <1>3, <1>4, <1>5, <1>6 DEF ClientStep, Typing, ProgramStep, UserStep

----------------------------------------------------------------------------
(* The invariant.                                                          *)

LEMMA HandlingWrites ==
  ASSUME RefInv, UNCHANGED cliVars,
         \/ Get \/ Search \/ Form \/ Post \/ PostBelow \/ PutFile \/ PutDir \/ Delete
         \/ RefusePost \/ RefusePut
  PROVE  WriteInv'
<1>1. PICK c \in Client : c = cur
  <2>1. spc = "recv"
    BY DEF Get, Search, Form, Post, PostBelow, PutFile, PutDir, Delete, RefusePost, RefusePut,
           Handling
  <2> QED
    BY <2>1 DEF RefInv, IInv, TypeOK, SrvTypeOK
<1>2. Job \in Req
  BY <1>1, HandlingView
<1>3. ASSUME NEW l, NEW keep \in Text, NEW code, NEW located, Open(l, keep, code, located)
      PROVE  WriteInv'
  <2>1. /\ files' = Put(l, keep) /\ todo'.at = l /\ todo'.text = keep \o Job.body
    BY <1>3 DEF Open
  <2>2. l \in DOMAIN files' /\ files'[l] = keep
    BY <2>1 DEF Put
  <2>3. Store!IsPrefix(keep, keep \o Job.body)
    BY <1>2, GrownPrefix DEF Req, Text
  <2> QED
    BY <2>1, <2>2, <2>3 DEF WriteInv
<1>4. <<>> \in Text /\ \A l : IsFile(l) => files[l] \in Text
  BY DEF Text, IsFile, RefInv, IInv, TypeOK, TreeTypeOK
<1>5. CASE Post \/ PostBelow \/ PutFile
  BY <1>3, <1>4, <1>5 DEF Post, PostBelow, PutFile
<1>6. CASE Get \/ Search \/ Form \/ PutDir \/ Delete \/ RefusePost \/ RefusePut
  BY <1>6 DEF Get, Search, Form, PutDir, Delete, RefusePost, RefusePut, Respond, WriteInv
<1> QED
  BY <1>5, <1>6

LEMMA HandlingTree ==
  ASSUME RefInv, UNCHANGED cliVars,
         \/ Get \/ Search \/ Form \/ Post \/ PostBelow \/ PutFile \/ PutDir \/ Delete
         \/ RefusePost \/ RefusePut
  PROVE  TreeInv'
<1>1. PICK c \in Client : c = cur
  <2>1. spc = "recv"
    BY DEF Get, Search, Form, Post, PostBelow, PutFile, PutDir, Delete, RefusePost, RefusePut,
           Handling
  <2> QED
    BY <2>1 DEF RefInv, IInv, TypeOK, SrvTypeOK
<1>2. Job.at \in Loc
  BY <1>1, HandlingView DEF Req
<1>3. \A l \in DOMAIN files : l \notin dirs
  BY DEF RefInv, TreeInv
<1>4. ASSUME NEW l, l \notin dirs, NEW keep, NEW code, NEW located,
             Open(l, keep, code, located)
      PROVE  TreeInv'
  <2>1. DOMAIN files' = DOMAIN files \cup {l} /\ dirs' = dirs
    BY <1>4 DEF Open, Put
  <2> QED
    BY <1>3, <1>4, <2>1 DEF TreeInv
<1>5. \A l : CanOpen(l) \/ ~ Exists(l) \/ IsFile(l) => l \notin dirs
  BY <1>3 DEF CanOpen, Exists, IsFile, IsDir
<1>6. CASE Post \/ PostBelow \/ PutFile
  BY <1>4, <1>5, <1>6 DEF Post, PostBelow, PutFile
<1>7. CASE Get \/ Search \/ Form \/ RefusePost \/ RefusePut
  BY <1>3, <1>7 DEF Get, Search, Form, RefusePost, RefusePut, treeVars, TreeInv
<1>8. CASE Delete
  <2>1. DOMAIN files' \subseteq DOMAIN files /\ dirs' = dirs
    BY <1>8 DEF Delete
  <2> QED
    BY <1>3, <2>1 DEF TreeInv
<1>9. CASE PutDir
  <2>1. files' = files /\ (dirs' = dirs \/ dirs' = MkdirP(Job.at))
    BY <1>9 DEF PutDir
  <2>2. ASSUME NEW l \in DOMAIN files
        PROVE  l \notin MkdirP(Job.at)
    <3>1. l \in Prefixes(Job.at) => l \in Prefixes(l)
      BY <1>2, Prefixed
    <3>2. IsFile(l) /\ ~ IsDir(l) /\ l \notin dirs
      BY <1>3 DEF IsFile, IsDir
    <3> QED
      BY <3>1, <3>2 DEF MkdirP
  <2> QED
    BY <1>3, <2>1, <2>2 DEF TreeInv
<1> QED
  BY <1>6, <1>7, <1>8, <1>9

LEMMA ServerTree ==
  ASSUME RefInv, ServerStep \/ Operator
  PROVE  WriteInv' /\ TreeInv'
<1>1. UNCHANGED cliVars
  BY DEF ServerStep, Operator
<1>2. CASE \/ Get \/ Search \/ Form \/ Post \/ PostBelow \/ PutFile \/ PutDir \/ Delete
           \/ RefusePost \/ RefusePut
  BY <1>1, <1>2, HandlingWrites, HandlingTree
<1>3. CASE Written
  <2>1. DOMAIN files' = DOMAIN files /\ dirs' = dirs /\ spc' = "respond"
    BY <1>3 DEF Written, Put, RefInv, WriteInv
  <2> QED
    BY <2>1 DEF RefInv, WriteInv, TreeInv
<1>4. CASE UNCHANGED treeVars /\ spc' # "write"
  BY <1>4 DEF treeVars, RefInv, WriteInv, TreeInv
<1>5. CASE \/ Accept \/ RecvNothing \/ Close \/ StartServer \/ Send \/ Shut
           \/ CrashHandling \/ RefuseCrash \/ KillServer
  <2>1. UNCHANGED treeVars /\ spc' # "write"
    BY <1>5 DEF Accept, RecvNothing, Close, StartServer, Send, Shut, CrashHandling, RefuseCrash,
                KillServer, Crash
  <2> QED
    BY <1>4, <2>1
<1> QED
  BY <1>2, <1>3, <1>4, <1>5 DEF ServerStep, ServerNext, Operator

LEMMA SameStream ==
  ASSUME NEW c \in Client, StreamInv(c), conn'[c].up = conn[c].up,
         conn'[c].down = conn[c].down,
         cpc'[c] \in {"off", "prompt"} => cpc[c] \in {"off", "prompt"},
         Serving(c)' => Serving(c)
  PROVE  StreamInv(c)'
  BY DEF StreamInv, Pending

LEMMA ServerStream ==
  ASSUME RefInv, ServerStep \/ Operator
  PROVE  \A c \in Client : StreamInv(c)'
<1>1. UNCHANGED <<cpc, last, got>> /\ UNCHANGED cliVars
  BY DEF ServerStep, Operator, cliVars
<1>2. /\ conn \in [Client -> Duplex(Segment, Piece)] /\ out \in Seq(Piece)
      /\ \A c \in Client : StreamInv(c)
  BY DEF RefInv, IInv, TypeOK, NetTypeOK, SrvTypeOK
<1> SUFFICES ASSUME NEW c \in Client
             PROVE  StreamInv(c)'
  OBVIOUS
<1>3. CASE \/ Get \/ Search \/ Form \/ Post \/ PostBelow \/ PutFile \/ PutDir \/ Delete
           \/ RefusePost \/ RefusePut
  <2>1. /\ conn[cur].up # <<>> /\ Recv /\ cur' = cur /\ spc = "recv" /\ cur \in Client
    <3>1. conn[cur].up # <<>> /\ Recv /\ cur' = cur /\ spc = "recv"
      BY <1>3 DEF Get, Search, Form, Post, PostBelow, PutFile, PutDir, Delete, RefusePost,
                  RefusePut, Handling, Respond, Open
    <3> QED
      BY <3>1 DEF RefInv, IInv, TypeOK, SrvTypeOK
  <2>2. CASE c = cur
    <3>1. ~ Pending(c)' /\ conn'[c].down = <<>>
      BY <1>1, <1>3, <2>2, HandlingView
    <3>2. conn'[c].up = Tail(conn[c].up) /\ conn[c].up \in Seq(Segment)
      BY <1>2, <2>1, <2>2 DEF Recv, Duplex
    <3>3. Len(conn[c].up) \in Nat /\ Len(conn'[c].up) = Len(conn[c].up) - 1
      BY <2>1, <2>2, <3>2, HeadTailProperties, LenProperties
    <3>4. Len(conn[c].up) > 1 => Len(conn[c].up) = 2
      BY <1>2 DEF StreamInv
    <3>5. ~ (Len(conn'[c].up) > 1)
      <4>1. \A n \in Nat : (n > 1 => n = 2) => ~ (n - 1 > 1)
        OBVIOUS
      <4> QED
        BY <3>3, <3>4, <4>1
    <3> QED
      BY <3>1, <3>5 DEF StreamInv
  <2>3. CASE c # cur
    <3>1. conn'[c] = conn[c] /\ ~ Serving(c)'
      BY <1>2, <2>1, <2>3 DEF Recv, Serving
    <3> QED
      BY <1>1, <1>2, <3>1, SameStream
  <2> QED
    BY <2>2, <2>3
<1>4. CASE Accept \/ RecvNothing \/ Close \/ StartServer \/ Shut \/ Written
  <2>1. conn'[c].up = conn[c].up /\ conn'[c].down = conn[c].down
    <3>1. CASE Shut
      BY <1>2, <3>1 DEF Shut, Duplex
    <3>2. CASE Accept \/ RecvNothing \/ Close \/ StartServer \/ Written
      <4>1. conn' = conn
        BY <3>2 DEF Accept, RecvNothing, Close, StartServer, Written, netVars
      <4> QED
        BY <4>1
    <3> QED
      BY <1>4, <3>1, <3>2
  <2>2. Serving(c)' => Serving(c)
    BY <1>4 DEF Accept, RecvNothing, Close, StartServer, Shut, Written, Serving
  <2> QED
    BY <1>1, <1>2, <2>1, <2>2, SameStream
<1>5. CASE Send /\ spc' # "broken"
  <2>1. /\ UNCHANGED <<cur, spc>> /\ spc \in {"respond", "refuse"} /\ out # <<>>
        /\ conn' = [conn EXCEPT ![cur].down = Append(@, Head(out))]
    BY <1>5 DEF Send, Crash
  <2>2. CASE c # cur
    <3>1. conn'[c] = conn[c] /\ ~ Serving(c)'
      BY <1>2, <2>1, <2>2 DEF Serving
    <3> QED
      BY <1>1, <1>2, <3>1, SameStream
  <2>3. CASE c = cur
    <3>1. Serving(c)
      BY <2>1, <2>3 DEF Serving
    <3>2. /\ cpc'[c] \notin {"off", "prompt"} /\ ~ Pending(c)
          /\ conn[c].down = <<>> => out[1].code \in Codes
      BY <1>1, <3>1, ServingResponds
    <3>3. /\ conn'[c].up = conn[c].up /\ conn'[c].down = Append(conn[c].down, Head(out))
          /\ conn[c].down \in Seq(Piece)
      BY <1>2, <2>1, <2>3 DEF Duplex
    <3>4. ~ Pending(c)'
      BY <3>2, <3>3 DEF Pending
    <3>5. conn'[c].down[1].code \in Codes
      <4>1. CASE conn[c].down = <<>>
        <5>1. conn'[c].down[1] = out[1]
          BY <1>2, <2>1, <3>3, <4>1, FirstAppended
        <5> QED
          BY <3>2, <4>1, <5>1
      <4>2. CASE conn[c].down # <<>>
        <5>1. conn'[c].down[1] = conn[c].down[1]
          BY <1>2, <2>1, <3>3, <4>2, FirstStays
        <5> QED
          BY <1>2, <4>2, <5>1 DEF StreamInv
      <4> QED
        BY <4>1, <4>2
    <3> QED
      BY <1>2, <3>2, <3>3, <3>4, <3>5 DEF StreamInv
  <2> QED
    BY <2>2, <2>3
<1>6. CASE \E why \in Down : Crash(why)
  <2> PICK why \in Down : Crash(why)
    BY <1>6
  <2>1. /\ conn'[c].up = <<>> /\ conn'[c].down = conn[c].down /\ ~ Serving(c)'
    BY <1>2 DEF Crash, Duplex, Down, Serving
  <2>2. Len(conn'[c].up) = 0
    BY <2>1
  <2> QED
    BY <1>1, <1>2, <2>1, <2>2 DEF StreamInv, Pending
<1>7. CrashHandling \/ RefuseCrash \/ KillServer \/ (Send /\ spc' = "broken")
        => \E why \in Down : Crash(why)
  BY DEF CrashHandling, RefuseCrash, KillServer, Send, Down
<1> QED
  BY <1>3, <1>4, <1>5, <1>6, <1>7 DEF ServerStep, ServerNext, Operator

LEMMA ClientStream ==
  ASSUME RefInv, NEW c \in Client, ClientStep(c) \/ Typing(c) \/ Network(c)
  PROVE  \A d \in Client : StreamInv(d)'
<1>1. /\ conn \in [Client -> Duplex(Segment, Piece)] /\ cpc \in [Client -> ClientPc]
      /\ last \in [Client -> Req]
      /\ \A d \in Client : StreamInv(d)
  BY DEF RefInv, IInv, TypeOK, NetTypeOK, CliTypeOK
<1>2. UNCHANGED srvVars
  BY ClientAlone
<1>3. ASSUME NEW d \in Client, d # c
      PROVE  StreamInv(d)'
  <2>1. /\ conn'[d] = conn[d] /\ cpc'[d] = cpc[d]
    <3>1. CASE ClientStep(c)
      BY <1>1, <1>3, <3>1 DEF ClientStep, ProgramStep, ReadResponse, Linger, Goto, netVars
    <3>2. CASE Typing(c)
      BY <1>1, <1>3, <3>2 DEF Typing, UserStep, Connect, Type, TypeUnknown, Kill, Leave, Goto
    <3>3. CASE Network(c)
      BY <1>1, <1>3, <3>3 DEF Network, Arrive, cliVars
    <3> QED
      BY <3>1, <3>2, <3>3
  <2> QED
    BY <1>1, <1>2, <2>1, SameStream DEF Serving, srvVars
<1>4. StreamInv(c)'
  <2>1. CASE Connect(c)
    <3>1. /\ conn'[c].up = <<>> /\ conn'[c].down = <<>>
      BY <1>1, <2>1 DEF Connect, Fresh
    <3>2. Len(conn'[c].up) = 0
      BY <3>1
    <3> QED
      BY <3>1, <3>2 DEF StreamInv, Pending
  <2>2. CASE Type(c)
    <3>1. /\ conn[c].down = <<>> /\ ~ Serving(c)
      BY <2>2, NothingAsked DEF Type
    <3>2. ~ Serving(c)'
      BY <1>2, <3>1 DEF Serving, srvVars
    <3>3. PICK r \in Request :
            \/ conn'[c].up = conn[c].up /\ conn'[c].down = conn[c].down
            \/ \E s \in Arrivals(Lowered(r)) :
                 conn'[c].up = s /\ conn'[c].down = conn[c].down
      <4>1. PICK r \in Request :
              \/ conn' = conn
              \/ \E s \in Arrivals(Lowered(r)) : conn' = [conn EXCEPT ![c].up = s]
              \/ conn' = [conn EXCEPT ![c].upEof = TRUE]
        BY <2>2 DEF Type, Leave
      <4>2. CASE conn' = conn
        BY <4>2
      <4>3. CASE conn' = [conn EXCEPT ![c].upEof = TRUE]
        BY <1>1, <4>3 DEF Duplex
      <4>4. CASE \E s \in Arrivals(Lowered(r)) : conn' = [conn EXCEPT ![c].up = s]
        <5>1. PICK s \in Arrivals(Lowered(r)) : conn' = [conn EXCEPT ![c].up = s]
          BY <4>4
        <5>2. conn'[c].up = s /\ conn'[c].down = conn[c].down
          BY <1>1, <5>1 DEF Duplex
        <5> QED
          BY <5>2
      <4> QED
        BY <4>1, <4>2, <4>3, <4>4
    <3>4. CASE conn'[c].up = conn[c].up /\ conn'[c].down = conn[c].down
      BY <1>1, <3>1, <3>2, <3>4 DEF StreamInv, Pending
    <3>5. CASE \E s \in Arrivals(Lowered(r)) :
                 conn'[c].up = s /\ conn'[c].down = conn[c].down
      <4>1. PICK s \in Arrivals(Lowered(r)) : conn'[c].up = s /\ conn'[c].down = conn[c].down
        BY <3>5
      <4>2. /\ s[1] \notin {Coming, Ending}
            /\ Len(s) > 1 => Len(s) = 2 /\ s[2] = Coming
        BY LoweredType, ArrivalBegins
      <4> QED
        BY <3>1, <3>2, <4>1, <4>2 DEF StreamInv
    <3> QED
      BY <3>3, <3>4, <3>5
  <2>3. CASE TypeUnknown(c) \/ Kill(c) \/ Linger(c)
    <3>1. /\ conn'[c].up = conn[c].up /\ conn'[c].down = conn[c].down
          /\ cpc'[c] \notin {"off", "prompt"}
      BY <1>1, <2>3 DEF TypeUnknown, Kill, Linger, Leave, Goto, netVars, Duplex
    <3> QED
      BY <1>1, <1>2, <3>1, SameStream DEF Serving, srvVars
  <2>4. CASE ReadResponse(c)
    <3>1. conn'[c].up = conn[c].up /\ conn'[c].down = <<>>
      BY <1>1, <2>4 DEF ReadResponse, Duplex
    <3> QED
      BY <1>1, <1>2, <3>1 DEF StreamInv, Pending, Serving, srvVars
  <2>5. CASE Arrive(c)
    <3>1. /\ Len(conn'[c].up) = 1 /\ conn'[c].down = conn[c].down
          /\ Pending(c)' <=> Pending(c)
      BY <2>5, ArriveView
    <3>2. ~ (Len(conn'[c].up) > 1) /\ cpc' = cpc
      BY <2>5, <3>1 DEF Arrive, cliVars
    <3> QED
      BY <1>1, <1>2, <3>1, <3>2 DEF StreamInv, Serving, srvVars
  <2> QED
    BY <2>1, <2>2, <2>3, <2>4, <2>5 DEF ClientStep, Typing, Network, ProgramStep, UserStep
<1> QED
  BY <1>3, <1>4

LEMMA InitRef == Init => RefInv
<1> SUFFICES ASSUME Init
             PROVE  RefInv
  OBVIOUS
<1>1. /\ spc = "accept" /\ files = InitFiles /\ dirs = InitDirs
      /\ \A c \in Client : conn[c].up = <<>> /\ conn[c].down = <<>>
  BY DEF Init, NetInit, TreeInit, SrvInit, Fresh
<1>2. WriteInv /\ TreeInv
  BY <1>1, TreeAssumption DEF WriteInv, TreeInv
<1>3. ASSUME NEW c \in Client
      PROVE  StreamInv(c)
  <2>1. Len(conn[c].up) = 0
    BY <1>1
  <2> QED
    BY <1>1, <2>1 DEF StreamInv, Pending
<1> QED
  BY <1>2, <1>3, InitIInv, InitReply DEF RefInv

LEMMA NextRef == RefInv /\ [Next]_vars => RefInv'
<1> SUFFICES ASSUME RefInv, [Next]_vars
             PROVE  RefInv'
  OBVIOUS
<1>1. IInv' /\ ReplyInv'
  BY NextIInv, NextReply DEF RefInv
<1>2. CASE ServerStep \/ Operator
  BY <1>1, <1>2, ServerTree, ServerStream DEF RefInv
<1>3. CASE \E c \in Client : ClientStep(c) \/ Typing(c) \/ Network(c)
  <2>1. PICK c \in Client : ClientStep(c) \/ Typing(c) \/ Network(c)
    BY <1>3
  <2>2. WriteInv' /\ TreeInv'
    BY <2>1 DEF ClientStep, Typing, Network, RefInv, WriteInv, TreeInv, treeVars, srvVars
  <2> QED
    BY <1>1, <2>1, <2>2, ClientStream DEF RefInv
<1>4. CASE UNCHANGED vars
  <2>1. UNCHANGED <<spc, todo, files, dirs, conn, cpc, cur>>
    BY <1>4 DEF vars, netVars, treeVars, srvVars, cliVars
  <2>2. WriteInv' /\ TreeInv'
    BY <2>1 DEF RefInv, WriteInv, TreeInv
  <2>3. \A c \in Client : StreamInv(c)'
    BY <2>1 DEF RefInv, StreamInv, Pending, Serving
  <2> QED
    BY <1>1, <2>2, <2>3 DEF RefInv
<1> QED
  BY <1>2, <1>3, <1>4 DEF Next

----------------------------------------------------------------------------
(* The theorem.                                                            *)

LEMMA InitStore == Init => Store!Init
<1> SUFFICES ASSUME Init
             PROVE  Store!Init
  OBVIOUS
<1>1. /\ spc = "accept" /\ files = InitFiles /\ dirs = InitDirs
      /\ \A c \in Client : cpc[c] = "off"
  BY DEF Init, TreeInit, SrvInit, CliInit
<1>2. \A c \in Client : Phase(c) = "idle" /\ Asked(c) = NoReq /\ Outcome(c) = 0
  BY <1>1, InitRef, NothingAsked, ViewHolds DEF View
<1>3. Contents = InitFiles /\ Unsaved = {}
  BY <1>1 DEF Contents, Unsaved
<1> QED
  BY <1>1, <1>2, <1>3 DEF Store!Init, Phases, Requests, Outcomes

LEMMA NextStore == RefInv /\ [Next]_vars => [Store!Next]_Store!vars
<1> SUFFICES ASSUME RefInv, [Next]_vars
             PROVE  [Store!Next]_Store!vars
  OBVIOUS
<1>1. CASE UNCHANGED vars
  <2>1. /\ UNCHANGED <<conn, cpc, last, got, cur, spc, out, todo>> /\ UNCHANGED treeVars
    BY <1>1 DEF vars, netVars, srvVars, cliVars
  <2>2. TreeUnmoved
    BY <2>1, SameTreeView
  <2>3. \A c \in Client : Unmoved(c)
    <3> SUFFICES ASSUME NEW c \in Client PROVE Unmoved(c)
      OBVIOUS
    <3> QED
      BY <2>1, SameView DEF Pending, Serving
  <2> QED
    BY <2>2, <2>3, StutterStep
<1>2. CASE Next
  BY <1>2, ServerRefines, ClientRefines DEF Next
<1> QED
  BY <1>1, <1>2

\* Whatever the clients ask, in whatever pieces it arrives, whoever is killed:
\* every behaviour of the two programs is one of ResourceStore.  httpserver
\* carries a request out once, when it receives it, at its place alone, and the
\* code that the client reads is the outcome.
THEOREM StoreCorrect == Spec => ImplementsStore
<1>1. Init => Store!Init
  BY InitStore
<1>2. Init => RefInv
  BY InitRef
<1>3. RefInv /\ [Next]_vars => RefInv'
  BY NextRef
<1>4. RefInv /\ [Next]_vars => [Store!Next]_Store!vars
  BY NextStore
<1> QED
  BY <1>1, <1>2, <1>3, <1>4, PTL DEF Spec, ImplementsStore, Store!Spec
=============================================================================
