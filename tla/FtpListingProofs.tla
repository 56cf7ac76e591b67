-------------------------- MODULE FtpListingProofs --------------------------
(***************************************************************************)
(* Listings: what the reply to NLST and to LIST is, and when its buffer is *)
(* left.                                                                   *)
(*                                                                         *)
(* The reference is a recursive function of how much of the directory has  *)
(* been read.  That there is such a function, and what it yields, is       *)
(* proved by induction over a set of numbers.                              *)
(***************************************************************************)
EXTENDS FtpListing, FiniteSetTheorems, FunctionTheorems, SequenceTheorems,
        NaturalsInduction, WellFoundedInduction, TLAPS

Has(e) == \E i \in 1 .. Len(dir) : dir[i] = e

\* The text is a name and a separator for each entry of l.
Laid(l) ==
  /\ Len(text) = 2 * Len(l)
  /\ \A i \in 1 .. Len(l) : text[2 * i - 1] = l[i] /\ text[2 * i] = Separator

IInv ==
  /\ TypeOK
  /\ Has(Dot)
  /\ lpc = "loop" => Laid(Promised[at]) /\ length = Needed[at]
  /\ lpc = "under" => Promised[Len(dir)] = <<>>
  /\ ReplyIsListing
  /\ OverrunOnlyWhenLong

----------------------------------------------------------------------------
(* Induction and recursion up to a number.                                 *)

LEMMA UpTo ==
  ASSUME NEW n \in Nat, NEW G, 0 \in G, \A i \in 1 .. n : i - 1 \in G => i \in G
  PROVE  \A i \in 0 .. n : i \in G
<1> DEFINE R == {p \in Nat \X Nat : p[1] < p[2]}
           Bad == {i \in 0 .. n : i \notin G}
<1>1. IsWellFoundedOn(R, Nat)
  BY NatLessThanWellFounded DEF OpToRel
<1> SUFFICES ASSUME Bad # {} PROVE FALSE
  OBVIOUS
<1>2. Bad \subseteq Nat
  OBVIOUS
<1>3. PICK x \in Bad : \A y \in Bad : ~ (<<y, x>> \in R)
  <2> HIDE DEF R, Bad
  <2> QED
    BY <1>1, <1>2, WFMin
<1>4. x \in 1 .. n /\ x - 1 \notin G
  OBVIOUS
<1>5. x - 1 \in Bad /\ x - 1 \in Nat /\ x \in Nat /\ x - 1 < x
  BY <1>4
<1>6. <<x - 1, x>> \in R
  BY <1>5
<1> QED
  BY <1>3, <1>5, <1>6

\* A function by recursion: what it is at 0, and what it is at i given i - 1.
Recursion(f, n, base, g) ==
  /\ f[0] = base
  /\ \A i \in 1 .. n : f[i] = g[<<f[i - 1], i>>]

LEMMA RecursionExists ==
  ASSUME NEW n \in Nat, NEW V, NEW base \in V, NEW g \in [V \X (1 .. n) -> V]
  PROVE  \E f \in [0 .. n -> V] : Recursion(f, n, base, g)
<1> DEFINE G == {m \in 0 .. n : \E f \in [0 .. m -> V] : Recursion(f, m, base, g)}
<1>1. 0 \in G
  <2> DEFINE f == [i \in 0 .. 0 |-> base]
  <2>1. f \in [0 .. 0 -> V] /\ f[0] = base
    OBVIOUS
  <2>2. Recursion(f, 0, base, g)
    BY <2>1 DEF Recursion
  <2> QED
    BY <2>1, <2>2
<1>2. ASSUME NEW m \in 1 .. n, m - 1 \in G
      PROVE  m \in G
  <2>1. PICK e \in [0 .. (m - 1) -> V] : Recursion(e, m - 1, base, g)
    BY <1>2
  <2> DEFINE v == g[<<e[m - 1], m>>]
             f == [i \in 0 .. m |-> IF i = m THEN v ELSE e[i]]
  <2>2. v \in V
    <3>1. e[m - 1] \in V
      OBVIOUS
    <3> QED
      BY <3>1
  <2>3. f \in [0 .. m -> V]
    <3> HIDE DEF v
    <3> QED
      BY <2>2
  <2>4. f[0] = base
    BY <2>1 DEF Recursion
  <2>5. ASSUME NEW i \in 1 .. m
        PROVE  f[i] = g[<<f[i - 1], i>>]
    <3>1. f[i - 1] = e[i - 1] /\ (i # m => f[i] = e[i] /\ i \in 1 .. (m - 1))
      OBVIOUS
    <3>2. i = m => f[i] = v
      OBVIOUS
    <3> QED
      BY <2>1, <3>1, <3>2 DEF Recursion
  <2>6. Recursion(f, m, base, g)
    <3> HIDE DEF f
    <3> QED
      BY <2>4, <2>5 DEF Recursion
  <2> QED
    <3> HIDE DEF f
    <3> QED
      BY <2>3, <2>6
<1>3. n \in G
  <2> HIDE DEF G
  <2> QED
    BY <1>1, <1>2, UpTo
<1> QED
  BY <1>3

----------------------------------------------------------------------------
(* The reference.                                                          *)

\* What Promised and Needed are defined to be.
PromisedAt(f, i) ==
  IF i = 0 THEN <<>>
  ELSE IF Lists(dir[i]) THEN Append(f[i - 1], dir[i]) ELSE f[i - 1]
NeededAt(f, i) ==
  IF i = 0 THEN 0
  ELSE IF Lists(dir[i]) THEN f[i - 1] + Size[dir[i]] + 2 ELSE f[i - 1]

LEMMA PromisedIs ==
  ASSUME dir \in Seq(Entry)
  PROVE  Promised = [i \in 0 .. Len(dir) |-> PromisedAt(Promised, i)]
<1> DEFINE n == Len(dir)
           V == Seq(Entry)
           g == [p \in V \X (1 .. n) |->
                   IF Lists(dir[p[2]]) THEN Append(p[1], dir[p[2]]) ELSE p[1]]
<1>1. n \in Nat /\ \A i \in 1 .. n : dir[i] \in Entry
  BY LenProperties, ElementOfSeq
<1>2. g \in [V \X (1 .. n) -> V]
  <2>1. ASSUME NEW p \in V \X (1 .. n)
        PROVE  (IF Lists(dir[p[2]]) THEN Append(p[1], dir[p[2]]) ELSE p[1]) \in V
    <3>1. p[1] \in V /\ dir[p[2]] \in Entry
      BY <1>1
    <3>2. Append(p[1], dir[p[2]]) \in V
      BY <3>1, AppendProperties
    <3> QED
      BY <3>1, <3>2
  <2> QED
    BY <2>1
<1>3. <<>> \in V
  BY EmptySeq
<1>4. PICK f \in [0 .. n -> V] : Recursion(f, n, <<>>, g)
  <2> HIDE DEF n, g, V
  <2> QED
    BY <1>1, <1>2, <1>3, RecursionExists
<1>5. \A i \in 1 .. n : f[i] = IF Lists(dir[i]) THEN Append(f[i - 1], dir[i]) ELSE f[i - 1]
  <2>1. \A i \in 1 .. n : f[i - 1] \in V
    BY <1>1
  <2> QED
    BY <1>4, <2>1 DEF Recursion
<1>6. f = [i \in 0 .. n |-> PromisedAt(f, i)]
  <2>1. f[0] = PromisedAt(f, 0)
    BY <1>4 DEF Recursion, PromisedAt
  <2>2. \A i \in 1 .. n : i # 0 /\ f[i] = PromisedAt(f, i)
    BY <1>5 DEF PromisedAt
  <2>3. \A i \in 0 .. n : f[i] = PromisedAt(f, i)
    BY <1>1, <2>1, <2>2
  <2> QED
    BY <2>1
<1>7. \E h : h = [i \in 0 .. n |-> PromisedAt(h, i)]
  BY <1>6
<1>8. Promised = CHOOSE h : h = [i \in 0 .. n |-> PromisedAt(h, i)]
  BY DEF Promised, PromisedAt
<1> QED
  BY <1>7, <1>8

LEMMA NeededIs ==
  ASSUME ListingAssumption, dir \in Seq(Entry)
  PROVE  Needed = [i \in 0 .. Len(dir) |-> NeededAt(Needed, i)]
<1> DEFINE n == Len(dir)
           g == [p \in Nat \X (1 .. n) |->
                   IF Lists(dir[p[2]]) THEN p[1] + Size[dir[p[2]]] + 2 ELSE p[1]]
<1>1. n \in Nat /\ \A i \in 1 .. n : dir[i] \in Entry
  BY LenProperties, ElementOfSeq
<1>2. g \in [Nat \X (1 .. n) -> Nat]
  <2>1. ASSUME NEW p \in Nat \X (1 .. n)
        PROVE  (IF Lists(dir[p[2]]) THEN p[1] + Size[dir[p[2]]] + 2 ELSE p[1]) \in Nat
    <3>1. p[1] \in Nat /\ dir[p[2]] \in Entry
      BY <1>1
    <3>2. Size[dir[p[2]]] \in Nat
      BY <3>1 DEF ListingAssumption
    <3> QED
      BY <3>1, <3>2
  <2> QED
    BY <2>1
<1>3. 0 \in Nat
  OBVIOUS
<1>4. PICK f \in [0 .. n -> Nat] : Recursion(f, n, 0, g)
  <2> HIDE DEF n, g
  <2> QED
    BY <1>1, <1>2, <1>3, RecursionExists
<1>5. \A i \in 1 .. n :
        f[i] = IF Lists(dir[i]) THEN f[i - 1] + Size[dir[i]] + 2 ELSE f[i - 1]
  <2>1. \A i \in 1 .. n : f[i - 1] \in Nat
    <3> HIDE DEF n
    <3>1. \A i \in 1 .. n : i - 1 \in 0 .. n
      BY <1>1
    <3> QED
      BY <3>1
  <2>2. \A i \in 1 .. n : f[i] = g[<<f[i - 1], i>>]
    BY <1>4 DEF Recursion
  <2> QED
    BY <2>1, <2>2
<1>6. f = [i \in 0 .. n |-> NeededAt(f, i)]
  <2>1. f[0] = NeededAt(f, 0)
    BY <1>4 DEF Recursion, NeededAt
  <2>2. \A i \in 1 .. n : i # 0 /\ f[i] = NeededAt(f, i)
    BY <1>5 DEF NeededAt
  <2>3. \A i \in 0 .. n : f[i] = NeededAt(f, i)
    BY <1>1, <2>1, <2>2
  <2> QED
    BY <2>3
<1>7. \E h : h = [i \in 0 .. n |-> NeededAt(h, i)]
  BY <1>6
<1>8. Needed = CHOOSE h : h = [i \in 0 .. n |-> NeededAt(h, i)]
  BY DEF Needed, NeededAt
<1> QED
  BY <1>7, <1>8

\* One entry more.
LEMMA PromisedNext ==
  ASSUME dir \in Seq(Entry)
  PROVE  /\ Promised[0] = <<>>
         /\ \A i \in 1 .. Len(dir) :
              Promised[i] = IF Lists(dir[i]) THEN Append(Promised[i - 1], dir[i])
                            ELSE Promised[i - 1]
         /\ \A i \in 0 .. Len(dir) : Promised[i] \in Seq(Entry)
<1>1. Len(dir) \in Nat /\ \A i \in 1 .. Len(dir) : dir[i] \in Entry
  BY LenProperties, ElementOfSeq
<1>2. \A i \in 0 .. Len(dir) : Promised[i] = PromisedAt(Promised, i)
  BY PromisedIs
<1>3. Promised[0] = <<>>
  BY <1>1, <1>2 DEF PromisedAt
<1>4. ASSUME NEW i \in 1 .. Len(dir)
      PROVE  Promised[i] = IF Lists(dir[i]) THEN Append(Promised[i - 1], dir[i])
                           ELSE Promised[i - 1]
  <2>1. i \in 0 .. Len(dir) /\ i # 0
    BY <1>1
  <2> QED
    BY <1>2, <2>1 DEF PromisedAt
<1>5. \A i \in 0 .. Len(dir) : Promised[i] \in Seq(Entry)
  <2> DEFINE G == {i \in Nat : Promised[i] \in Seq(Entry)}
  <2>1. 0 \in G
    BY <1>3, EmptySeq
  <2>2. ASSUME NEW i \in 1 .. Len(dir), i - 1 \in G
        PROVE  i \in G
    <3>1. Promised[i - 1] \in Seq(Entry) /\ dir[i] \in Entry
      BY <1>1, <2>2
    <3>2. Append(Promised[i - 1], dir[i]) \in Seq(Entry)
      BY <3>1, AppendProperties
    <3>3. Promised[i] \in Seq(Entry)
      BY <1>4, <3>1, <3>2
    <3> QED
      BY <1>1, <3>3
  <2>3. \A i \in 0 .. Len(dir) : i \in G
    <3> HIDE DEF G
    <3> QED
      BY <1>1, <2>1, <2>2, UpTo
  <2> QED
    BY <2>3
<1> QED
  BY <1>3, <1>4, <1>5

LEMMA NeededNext ==
  ASSUME ListingAssumption, dir \in Seq(Entry)
  PROVE  /\ Needed[0] = 0
         /\ \A i \in 1 .. Len(dir) :
              Needed[i] = IF Lists(dir[i]) THEN Needed[i - 1] + Size[dir[i]] + 2
                          ELSE Needed[i - 1]
         /\ \A i \in 0 .. Len(dir) : Needed[i] \in Nat
<1>1. /\ Len(dir) \in Nat
      /\ \A i \in 1 .. Len(dir) : dir[i] \in Entry /\ Size[dir[i]] \in Nat
  BY LenProperties, ElementOfSeq DEF ListingAssumption
<1>2. \A i \in 0 .. Len(dir) : Needed[i] = NeededAt(Needed, i)
  BY NeededIs
<1>3. Needed[0] = 0
  BY <1>1, <1>2 DEF NeededAt
<1>4. ASSUME NEW i \in 1 .. Len(dir)
      PROVE  Needed[i] = IF Lists(dir[i]) THEN Needed[i - 1] + Size[dir[i]] + 2
                         ELSE Needed[i - 1]
  <2>1. i \in 0 .. Len(dir) /\ i # 0
    BY <1>1
  <2> QED
    BY <1>2, <2>1 DEF NeededAt
<1>5. \A i \in 0 .. Len(dir) : Needed[i] \in Nat
  <2> DEFINE G == {i \in Nat : Needed[i] \in Nat}
  <2>1. 0 \in G
    BY <1>3
  <2>2. ASSUME NEW i \in 1 .. Len(dir), i - 1 \in G
        PROVE  i \in G
    <3>1. Needed[i - 1] \in Nat /\ Size[dir[i]] \in Nat
      BY <1>1, <2>2
    <3>2. Needed[i] \in Nat
      BY <1>4, <3>1
    <3> QED
      BY <1>1, <3>2
  <2>3. \A i \in 0 .. Len(dir) : i \in G
    <3> HIDE DEF G
    <3> QED
      BY <1>1, <2>1, <2>2, UpTo
  <2> QED
    BY <2>3
<1> QED
  BY <1>3, <1>4, <1>5

\* A longer listing needs more room.
LEMMA NeededGrows ==
  ASSUME ListingAssumption, dir \in Seq(Entry), NEW i \in 0 .. Len(dir)
  PROVE  Needed[i] <= Needed[Len(dir)]
<1>1. /\ Len(dir) \in Nat
      /\ \A j \in 1 .. Len(dir) : Size[dir[j]] \in Nat
  BY LenProperties, ElementOfSeq DEF ListingAssumption
<1> DEFINE G == {j \in Nat : i <= j => Needed[i] <= Needed[j]}
<1>2. Needed[i] \in Nat
  BY NeededNext
<1>3. 0 \in G
  BY <1>2
<1>4. ASSUME NEW j \in 1 .. Len(dir), j - 1 \in G
      PROVE  j \in G
  <2>1. Needed[j - 1] \in Nat /\ Needed[j] \in Nat /\ Needed[j - 1] <= Needed[j]
    <3>1. j - 1 \in 0 .. Len(dir) /\ j \in 0 .. Len(dir)
      BY <1>1
    <3>2. /\ Needed[j - 1] \in Nat /\ Needed[j] \in Nat
          /\ Needed[j] = IF Lists(dir[j]) THEN Needed[j - 1] + Size[dir[j]] + 2
                         ELSE Needed[j - 1]
      BY <3>1, NeededNext
    <3>3. Size[dir[j]] \in Nat
      BY <1>1
    <3> QED
      BY <3>2, <3>3
  <2> QED
    BY <1>1, <1>2, <1>4, <2>1
<1>5. Len(dir) \in G
  <2> HIDE DEF G
  <2>1. \A j \in 0 .. Len(dir) : j \in G
    BY <1>1, <1>3, <1>4, UpTo
  <2>2. Len(dir) \in 0 .. Len(dir)
    BY <1>1
  <2> QED
    BY <2>1, <2>2
<1> QED
  BY <1>1, <1>5

\* Nothing is promised only of directories in which there is nothing to promise.
LEMMA NothingPromised ==
  ASSUME dir \in Seq(Entry), Promised[Len(dir)] = <<>>
  PROVE  \A i \in 1 .. Len(dir) : ~ Lists(dir[i])
<1>1. Len(dir) \in Nat /\ \A i \in 1 .. Len(dir) : dir[i] \in Entry
  BY LenProperties, ElementOfSeq
<1> DEFINE G == {i \in Nat : Promised[i] = <<>> => \A j \in 1 .. i : ~ Lists(dir[j])}
<1>2. 0 \in G
  OBVIOUS
<1>3. ASSUME NEW i \in 1 .. Len(dir), i - 1 \in G
      PROVE  i \in G
  <2>1. /\ i - 1 \in 0 .. Len(dir) /\ dir[i] \in Entry
        /\ \A j \in 1 .. i : j = i \/ j \in 1 .. (i - 1)
    BY <1>1
  <2>2. Promised[i - 1] \in Seq(Entry)
    BY <2>1, PromisedNext
  <2>3. Append(Promised[i - 1], dir[i]) # <<>>
    BY <2>1, <2>2, AppendProperties
  <2> SUFFICES ASSUME Promised[i] = <<>> PROVE \A j \in 1 .. i : ~ Lists(dir[j])
    BY <1>1
  <2>4. ~ Lists(dir[i]) /\ Promised[i - 1] = <<>>
    BY <2>3, PromisedNext
  <2> QED
    BY <1>3, <2>1, <2>4
<1>4. Len(dir) \in G
  <2> HIDE DEF G
  <2>1. \A j \in 0 .. Len(dir) : j \in G
    BY <1>1, <1>2, <1>3, UpTo
  <2>2. Len(dir) \in 0 .. Len(dir)
    BY <1>1
  <2> QED
    BY <2>1, <2>2
<1> QED
  BY <1>4

----------------------------------------------------------------------------
(* The loop.                                                               *)

\* The directory is read in some order, every entry of it, "." among them.
LEMMA InitDir ==
  ASSUME ListingAssumption, NEW S \in SUBSET Entry, Dot \in S, dir \in SetToSeqs(S)
  PROVE  dir \in Seq(Entry) /\ Has(Dot)
<1> DEFINE n == Cardinality(S)
<1>1. IsFiniteSet(S) /\ n \in Nat
  BY FS_Subset, FS_CardinalityType DEF ListingAssumption
<1>2. dir \in [1 .. n -> S] /\ \A i, j \in 1 .. n : i # j => dir[i] # dir[j]
  BY DEF SetToSeqs
<1> HIDE DEF n
<1>3. dir \in Injection(1 .. n, S)
  BY <1>2, Fun_IsInj
<1>4. Cardinality(1 .. n) = n
  BY <1>1, FS_Interval
<1>5. dir \in Surjection(1 .. n, S)
  BY <1>1, <1>3, <1>4, FS_Injection DEF n
<1>6. dir \in Seq(S) /\ Len(dir) = n
  BY <1>1, <1>2
<1>7. dir \in Seq(Entry)
  BY <1>6, SeqMonotonic
<1>8. \E i \in 1 .. n : dir[i] = Dot
  BY <1>5 DEF Surjection
<1> QED
  BY <1>6, <1>7, <1>8 DEF Has

LEMMA InitListing == Init => IInv
<1> SUFFICES ASSUME Init PROVE IInv
  OBVIOUS
<1>1. dir \in Seq(Entry) /\ Has(Dot)
  BY InitDir, ListingAssumption DEF Init
<1>2. Len(dir) \in Nat /\ Len(<<>>) = 0 /\ <<>> \in Seq(Entry \cup {Separator, LineEnd})
  BY <1>1, LenProperties, EmptySeq
<1>3. TypeOK
  BY <1>1, <1>2, ListingAssumption DEF Init, TypeOK, ListingAssumption
<1>4. Laid(Promised[at]) /\ length = Needed[at]
  <2>1. Promised[0] = <<>> /\ Needed[0] = 0
    BY <1>1, PromisedNext, NeededNext, ListingAssumption
  <2>2. Laid(<<>>)
    BY <1>2 DEF Init, Laid
  <2> QED
    BY <2>1, <2>2 DEF Init
<1> QED
  BY <1>1, <1>3, <1>4 DEF Init, IInv, ReplyIsListing, OverrunOnlyWhenLong

\* The two tests come to the same.
LEMMA WantedIs == \A e : op \in {"NLST", "LIST"} => (Wanted(e) <=> Lists(e))
  BY DEF Wanted, IsRegular, Lists

\* The reference depends on the request and the directory.
LEMMA SameReference ==
  ASSUME UNCHANGED <<op, dir>>
  PROVE  Promised' = Promised /\ Needed' = Needed /\ Has(Dot)' = Has(Dot)
  BY DEF Promised, Needed, Lists, Has

LEMMA SkipListing == IInv /\ Skip => IInv'
<1> SUFFICES ASSUME IInv, Skip PROVE IInv'
  OBVIOUS
<1>1. /\ UNCHANGED <<op, dir, text, length, lpc>> /\ lpc = "loop" /\ at' = at + 1
      /\ at < Len(dir) /\ ~ Wanted(dir[at + 1])
  BY DEF Skip
<1>2. TypeOK /\ Len(dir) \in Nat /\ at \in 0 .. Len(dir) /\ dir \in Seq(Entry)
  BY LenProperties DEF IInv, TypeOK
<1>3. at + 1 \in 1 .. Len(dir) /\ (at + 1) - 1 = at /\ at + 1 \in 0 .. Len(dir)
  BY <1>1, <1>2
<1>4. TypeOK'
  BY <1>1, <1>2, <1>3 DEF TypeOK
<1>5. Promised' = Promised /\ Needed' = Needed /\ Has(Dot)' = Has(Dot)
  BY <1>1, SameReference
<1>6. ~ Lists(dir[at + 1])
  BY <1>1, <1>2, WantedIs DEF TypeOK
<1>7. Promised[at + 1] = Promised[at]
  BY <1>2, <1>3, <1>6, PromisedNext
<1>8. Needed[at + 1] = Needed[at]
  BY <1>2, <1>3, <1>6, NeededNext, ListingAssumption
<1>9. Laid(Promised[at])' /\ length' = Needed'[at']
  BY <1>1, <1>5, <1>7, <1>8 DEF IInv, Laid
<1> QED
  BY <1>1, <1>4, <1>5, <1>9 DEF IInv, ReplyIsListing, OverrunOnlyWhenLong

\* A name and a separator more.
LEMMA LaidNext ==
  ASSUME NEW l \in Seq(Entry), NEW e \in Entry, Laid(l),
         text \in Seq(Entry \cup {Separator, LineEnd}), text' = text \o <<e, Separator>>
  PROVE  Laid(Append(l, e))' /\ text' \in Seq(Entry \cup {Separator, LineEnd})
<1> DEFINE V == Entry \cup {Separator, LineEnd}
           n == Len(l)
           two == <<e, Separator>>
<1>1. Len(text) = 2 * n /\ \A i \in 1 .. n : text[2 * i - 1] = l[i] /\ text[2 * i] = Separator
  BY DEF Laid
<1>2. n \in Nat
  BY LenProperties
<1>3. two \in Seq(V) /\ Len(two) = 2 /\ two[1] = e /\ two[2] = Separator
  OBVIOUS
<1>4. /\ Len(Append(l, e)) = n + 1 /\ Append(l, e)[n + 1] = e
      /\ \A i \in 1 .. n : Append(l, e)[i] = l[i]
  BY AppendProperties
<1> HIDE DEF n, two, V
<1>5. /\ text' \in Seq(V) /\ Len(text') = Len(text) + Len(two)
      /\ \A i \in 1 .. Len(text) + Len(two) :
           text'[i] = IF i <= Len(text) THEN text[i] ELSE two[i - Len(text)]
  BY <1>3, ConcatProperties DEF two, V
<1>6. /\ Len(text') = 2 * (n + 1)
      /\ \A i \in 1 .. 2 * n + 2 : text'[i] = IF i <= 2 * n THEN text[i] ELSE two[i - 2 * n]
  BY <1>1, <1>2, <1>3, <1>5
<1>7. ASSUME NEW i \in 1 .. (n + 1)
      PROVE  text'[2 * i - 1] = Append(l, e)[i] /\ text'[2 * i] = Separator
  <2>1. CASE i \in 1 .. n
    <3>1. /\ 2 * i - 1 \in 1 .. 2 * n + 2 /\ 2 * i - 1 <= 2 * n
          /\ 2 * i \in 1 .. 2 * n + 2 /\ 2 * i <= 2 * n
      BY <1>2, <2>1
    <3> QED
      BY <1>1, <1>4, <1>6, <2>1, <3>1
  <2>2. CASE i = n + 1
    <3>1. /\ 2 * i - 1 \in 1 .. 2 * n + 2 /\ ~ (2 * i - 1 <= 2 * n) /\ 2 * i - 1 - 2 * n = 1
          /\ 2 * i \in 1 .. 2 * n + 2 /\ ~ (2 * i <= 2 * n) /\ 2 * i - 2 * n = 2
      BY <1>2, <2>2
    <3> QED
      BY <1>3, <1>4, <1>6, <2>2, <3>1
  <2>3. i \in 1 .. n \/ i = n + 1
    BY <1>2
  <2> QED
    BY <2>1, <2>2, <2>3
<1>8. Laid(Append(l, e))'
  BY <1>4, <1>6, <1>7 DEF Laid
<1> QED
  BY <1>5, <1>8 DEF V

LEMMA ListListing == IInv /\ List => IInv'
<1> SUFFICES ASSUME IInv, List PROVE IInv'
  OBVIOUS
<1> DEFINE e == dir[at + 1]
           n == length + Size[e] + 2
<1>1. /\ UNCHANGED <<op, dir>> /\ lpc = "loop" /\ at' = at + 1
      /\ at < Len(dir) /\ Wanted(e)
      /\ \/ n < MAX_LENGTH /\ text' = text \o <<e, Separator>> /\ length' = n /\ lpc' = lpc
         \/ n >= MAX_LENGTH /\ lpc' = "over" /\ UNCHANGED <<text, length>>
  BY DEF List
<1>2. TypeOK /\ Len(dir) \in Nat /\ at \in 0 .. Len(dir) /\ dir \in Seq(Entry)
  BY LenProperties DEF IInv, TypeOK
<1>3. at + 1 \in 1 .. Len(dir) /\ (at + 1) - 1 = at /\ at + 1 \in 0 .. Len(dir)
  BY <1>1, <1>2
<1>4. e \in Entry /\ Size[e] \in Nat /\ MAX_LENGTH \in Nat \ {0}
  BY <1>2, <1>3, ElementOfSeq, ListingAssumption DEF ListingAssumption
<1>5. Promised' = Promised /\ Needed' = Needed /\ Has(Dot)' = Has(Dot)
  BY <1>1, SameReference
<1>6. Lists(e)
  BY <1>1, <1>2, WantedIs DEF TypeOK
<1>7. Promised[at + 1] = Append(Promised[at], e) /\ Promised[at] \in Seq(Entry)
  BY <1>2, <1>3, <1>6, PromisedNext
<1>8. Needed[at + 1] = n
  <2>1. Needed[at + 1] = Needed[at] + Size[e] + 2
    BY <1>2, <1>3, <1>6, NeededNext, ListingAssumption
  <2> QED
    BY <1>1, <2>1 DEF IInv
<1>9. Laid(Promised[at])
  BY <1>1 DEF IInv
<1> HIDE DEF e
<1>10. PICK x, l : x = e /\ l = Promised[at]
  OBVIOUS
<1>11. CASE n < MAX_LENGTH /\ text' = text \o <<e, Separator>> /\ length' = n /\ lpc' = lpc
  <2>1. Laid(Append(l, x))' /\ text' \in Seq(Entry \cup {Separator, LineEnd})
    <3>1. /\ l \in Seq(Entry) /\ x \in Entry /\ Laid(l)
          /\ text \in Seq(Entry \cup {Separator, LineEnd})
          /\ text' = text \o <<x, Separator>>
      BY <1>2, <1>4, <1>7, <1>9, <1>10, <1>11 DEF TypeOK
    <3> QED
      BY <3>1, LaidNext
  <2>2. Laid(Promised[at])'
    <3>1. Promised'[at'] = Append(l, x)
      BY <1>1, <1>5, <1>7, <1>10
    <3> QED
      BY <2>1, <3>1 DEF Laid
  <2>3. length' \in 0 .. (MAX_LENGTH - 1)
    BY <1>2, <1>4, <1>11 DEF TypeOK
  <2>4. TypeOK'
    BY <1>1, <1>2, <1>3, <1>11, <2>1, <2>3 DEF TypeOK
  <2> QED
    BY <1>1, <1>5, <1>8, <1>11, <2>2, <2>4 DEF IInv, ReplyIsListing, OverrunOnlyWhenLong
<1>12. CASE n >= MAX_LENGTH /\ lpc' = "over" /\ UNCHANGED <<text, length>>
  <2>1. TypeOK'
    BY <1>1, <1>2, <1>3, <1>12 DEF TypeOK
  <2>2. Needed[at + 1] <= Needed[Len(dir)]
    BY <1>2, <1>3, NeededGrows, ListingAssumption
  <2>3. Needed[Len(dir)] \in Nat
    BY <1>2, NeededNext, ListingAssumption
  <2>4. Needed[Len(dir)] >= MAX_LENGTH
    <3>1. n \in Nat
      BY <1>2, <1>4 DEF TypeOK
    <3> HIDE DEF n
    <3> QED
      BY <1>4, <1>8, <1>12, <2>2, <2>3, <3>1
  <2> QED
    BY <1>1, <1>5, <1>12, <2>1, <2>4 DEF IInv, ReplyIsListing, OverrunOnlyWhenLong
<1> QED
  BY <1>1, <1>11, <1>12 DEF e

\* The last separator makes way for the end of the line.
LEMMA FinishText ==
  ASSUME NEW l \in Seq(Entry), Laid(l), text # <<>>,
         text \in Seq(Entry \cup {Separator, LineEnd}),
         text' = Append(Front(text), LineEnd)
  PROVE  /\ text' \in Seq(Entry \cup {Separator, LineEnd})
         /\ Len(text') = 2 * Len(l)
         /\ \A i \in 1 .. Len(l) :
              /\ text'[2 * i - 1] = l[i]
              /\ text'[2 * i] = IF i = Len(l) THEN LineEnd ELSE Separator
<1> DEFINE V == Entry \cup {Separator, LineEnd}
           n == Len(l)
           front == Front(text)
<1>1. Len(text) = 2 * n /\ \A i \in 1 .. n : text[2 * i - 1] = l[i] /\ text[2 * i] = Separator
  BY DEF Laid
<1>2. n \in Nat /\ n >= 1
  <2>1. n \in Nat /\ Len(text) \in Nat \ {0}
    BY LenProperties, EmptySeq
  <2> QED
    BY <1>1, <2>1
<1>3. \A i \in 1 .. (2 * n - 1) : text[i] \in V
  <2>1. \A i \in 1 .. Len(text) : text[i] \in V
    BY ElementOfSeq
  <2> QED
    BY <1>1, <1>2, <2>1
<1>4. /\ front \in Seq(V) /\ Len(front) = 2 * n - 1
      /\ \A i \in 1 .. (2 * n - 1) : front[i] = text[i]
  <2> DEFINE m == 2 * n - 1
  <2>1. m \in Int /\ 1 \in Int /\ 1 <= m /\ m - 1 + 1 = m /\ \A i \in 1 .. m : 1 + i - 1 = i
    BY <1>2
  <2>2. front = SubSeq(text, 1, m)
    BY <1>1 DEF Front
  <2> HIDE DEF m, front, V, n
  <2>3. /\ SubSeq(text, 1, m) \in Seq(V)
        /\ Len(SubSeq(text, 1, m)) = m
        /\ \A i \in 1 .. m : SubSeq(text, 1, m)[i] = text[i]
    <3>1. \A i \in 1 .. m : text[i] \in V
      BY <1>3 DEF m
    <3>2. /\ SubSeq(text, 1, m) \in Seq(V)
          /\ Len(SubSeq(text, 1, m)) = IF 1 <= m THEN m - 1 + 1 ELSE 0
          /\ \A i \in 1 .. m - 1 + 1 : SubSeq(text, 1, m)[i] = text[1 + i - 1]
      BY <2>1, <3>1, SubSeqProperties
    <3> QED
      BY <2>1, <3>2
  <2> QED
    BY <2>2, <2>3 DEF m
<1> HIDE DEF front, n, V
<1>5. /\ text' \in Seq(V) /\ Len(text') = Len(front) + 1 /\ text'[Len(front) + 1] = LineEnd
      /\ \A i \in 1 .. Len(front) : text'[i] = front[i]
  <2>1. LineEnd \in V
    BY DEF V
  <2> QED
    BY <1>4, <2>1, AppendProperties DEF front
<1>6. /\ Len(text') = 2 * n /\ text'[2 * n] = LineEnd
      /\ \A i \in 1 .. (2 * n - 1) : text'[i] = text[i]
  <2>1. 2 * n - 1 + 1 = 2 * n
    BY <1>2
  <2> QED
    BY <1>4, <1>5, <2>1
<1>7. ASSUME NEW i \in 1 .. n
      PROVE  /\ text'[2 * i - 1] = l[i]
             /\ text'[2 * i] = IF i = n THEN LineEnd ELSE Separator
  <2>1. 2 * i - 1 \in 1 .. (2 * n - 1) /\ (i # n => 2 * i \in 1 .. (2 * n - 1))
    BY <1>2
  <2> QED
    BY <1>1, <1>6, <2>1
<1> QED
  BY <1>5, <1>6, <1>7 DEF n, V

LEMMA FinishListing == IInv /\ Finish => IInv'
<1> SUFFICES ASSUME IInv, Finish PROVE IInv'
  OBVIOUS
<1>1. UNCHANGED <<op, dir, at, length>> /\ lpc = "loop" /\ at = Len(dir)
  BY DEF Finish
<1>2. TypeOK /\ Len(dir) \in Nat /\ dir \in Seq(Entry)
  BY LenProperties DEF IInv, TypeOK
<1>3. Promised' = Promised /\ Needed' = Needed /\ Has(Dot)' = Has(Dot)
  BY <1>1, SameReference
<1>4. Laid(Promised[Len(dir)]) /\ length = Needed[Len(dir)]
  BY <1>1 DEF IInv
<1>5. Promised[Len(dir)] \in Seq(Entry)
  BY <1>2, PromisedNext
<1>6. CASE text = <<>> /\ lpc' = "under" /\ text' = text
  <2>1. Len(Promised[Len(dir)]) = 0
    <3>1. Len(Promised[Len(dir)]) \in Nat /\ Len(text) = 0
      BY <1>5, <1>6, LenProperties, EmptySeq
    <3>2. PICK n \in Nat : n = Len(Promised[Len(dir)])
      BY <3>1
    <3>3. 2 * n = 0
      BY <1>4, <3>1, <3>2 DEF Laid
    <3>4. n = 0
      BY <3>3
    <3> QED
      BY <3>2, <3>4
  <2>2. Promised[Len(dir)] = <<>>
    BY <1>5, <2>1, EmptySeq
  <2>3. TypeOK'
    BY <1>1, <1>2, <1>6 DEF TypeOK
  <2> QED
    BY <1>1, <1>3, <1>6, <2>2, <2>3 DEF IInv, ReplyIsListing, OverrunOnlyWhenLong
<1>7. CASE text # <<>> /\ lpc' = "done" /\ text' = Append(Front(text), LineEnd)
  <2> DEFINE l == Promised[Len(dir)]
  <2>1. /\ text' \in Seq(Entry \cup {Separator, LineEnd})
        /\ Len(text') = 2 * Len(l)
        /\ \A i \in 1 .. Len(l) :
             /\ text'[2 * i - 1] = l[i]
             /\ text'[2 * i] = IF i = Len(l) THEN LineEnd ELSE Separator
    BY <1>2, <1>4, <1>5, <1>7, FinishText DEF TypeOK
  <2>2. TypeOK'
    BY <1>1, <1>2, <1>7, <2>1 DEF TypeOK
  <2>3. l = Promised'[Len(dir')]
    BY <1>1, <1>3
  <2>4. ReplyIsListing'
    BY <2>1, <2>3 DEF ReplyIsListing
  <2>5. Needed[Len(dir)] < MAX_LENGTH
    BY <1>2, <1>4, ListingAssumption DEF TypeOK, ListingAssumption
  <2>6. OverrunOnlyWhenLong'
    BY <1>1, <1>3, <1>7, <2>5 DEF OverrunOnlyWhenLong
  <2> QED
    BY <1>1, <1>3, <1>7, <2>2, <2>4, <2>6 DEF IInv
<1> QED
  BY <1>6, <1>7 DEF Finish

LEMMA NextListing == IInv /\ [Next]_vars => IInv'
<1> SUFFICES ASSUME IInv, [Next]_vars PROVE IInv'
  OBVIOUS
<1>1. CASE UNCHANGED vars
  <2>1. UNCHANGED <<op, dir>> /\ UNCHANGED <<at, text, length, lpc>>
    BY <1>1 DEF vars
  <2>2. Promised' = Promised /\ Needed' = Needed /\ Has(Dot)' = Has(Dot)
    BY <2>1, SameReference
  <2> QED
    BY <2>1, <2>2 DEF IInv, TypeOK, Laid, ReplyIsListing, OverrunOnlyWhenLong
<1> QED
  BY <1>1, SkipListing, ListListing, FinishListing DEF Next

----------------------------------------------------------------------------
\* The place in the directory and the length of the text keep within bounds.
THEOREM TypeCorrect == Spec => []TypeOK
<1>1. IInv => TypeOK
  BY DEF IInv
<1> QED
  BY <1>1, InitListing, NextListing, PTL DEF Spec

\* A reply that has been finished is the entries promised, in order, with a
\* separator between any two of them and one line end.
THEOREM ListingCorrect == Spec => []ReplyIsListing
<1>1. IInv => ReplyIsListing
  BY DEF IInv
<1> QED
  BY <1>1, InitListing, NextListing, PTL DEF Spec

\* Bytes before the buffer are written only for a LIST without a regular file.
THEOREM UnderrunCorrect == Spec => []UnderrunOnlyWithoutFiles
<1>1. IInv => UnderrunOnlyWithoutFiles
  <2> SUFFICES ASSUME IInv, lpc = "under"
               PROVE  op = "LIST" /\ \A i \in 1 .. Len(dir) : Kind[dir[i]] # "file"
    BY DEF UnderrunOnlyWithoutFiles
  <2>1. \A i \in 1 .. Len(dir) : ~ Lists(dir[i])
    BY NothingPromised DEF IInv, TypeOK
  <2>2. PICK i \in 1 .. Len(dir) : dir[i] = Dot
    BY DEF IInv, Has
  <2>3. op = "LIST"
    BY <2>1, <2>2, ListingAssumption DEF ListingAssumption, Lists
  <2> QED
    BY <2>1, <2>3 DEF Lists
<1> QED
  BY <1>1, InitListing, NextListing, PTL DEF Spec

\* The buffer is left at its end exactly for listings that it cannot hold.
THEOREM OverrunCorrect == Spec => []OverrunOnlyWhenLong
<1>1. IInv => OverrunOnlyWhenLong
  BY DEF IInv
<1> QED
  BY <1>1, InitListing, NextListing, PTL DEF Spec
============================================================================
