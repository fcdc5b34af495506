--------------------------- MODULE ChannelProofs ---------------------------
(***************************************************************************)
(* That the messages sent through a Channel are handled in their order and *)
(* with their bodies as long as no packet ends where the PacketReader      *)
(* loses its place, proved for all handlers, messages, sizes of packets,   *)
(* windows and numbers of messages and connections.                        *)
(***************************************************************************)
EXTENDS Channel, SequenceTheorems, FiniteSetTheorems, TLAPS

(***************************************************************************)
(* Induction. The induction theorem of the library takes a predicate; this *)
(* one takes a set, from the well-foundedness of finite sets by inclusion. *)
(***************************************************************************)

\* A set of natural numbers that is not empty has a least one: the intervals from 1 to them
\* are finite sets, and those are well founded by inclusion.
LEMMA Least ==
    ASSUME NEW B \in SUBSET Nat, B # {}
    PROVE  \E m \in B : \A k \in B : m <= k
<1>1. PICK R : R = StrictSubsetOrdering(Nat)
  OBVIOUS
<1>2. PICK F : F = FiniteSubsetsOf(Nat)
  OBVIOUS
<1>3. IsWellFoundedOn(R, F)
  BY <1>1, <1>2, FS_StrictSubsetOrderingWellFounded
<1>4. PICK T : T = {1 .. n : n \in B}
  OBVIOUS
<1>5. T \subseteq F /\ T # {}
  <2>1. \A n \in B : 1 .. n \in SUBSET Nat /\ IsFiniteSet(1 .. n)
    BY FS_Interval
  <2> QED  BY <1>2, <1>4, <2>1 DEF FiniteSubsetsOf
<1>6. PICK x \in T : \A y \in T : ~(<<y, x>> \in R)
  BY <1>3, <1>5, WFMin
<1>7. PICK m \in B : x = 1 .. m
  BY <1>4
<1>8. ASSUME NEW k \in B, k < m  PROVE FALSE
  <2>1. 1 .. k \in T
    BY <1>4
  <2>2. 1 .. k \in SUBSET Nat /\ 1 .. m \in SUBSET Nat
    OBVIOUS
  <2>3. 1 .. k \subseteq 1 .. m /\ 1 .. k # 1 .. m
    <3>1. m \in 1 .. m /\ m \notin 1 .. k
      BY <1>8
    <3> QED  BY <1>8, <3>1
  <2>4. <<1 .. k, 1 .. m>> \in R
    BY <1>1, <2>2, <2>3 DEF StrictSubsetOrdering
  <2> QED  BY <1>6, <1>7, <2>1, <2>4
<1> QED  BY <1>7, <1>8

\* Induction over the natural numbers, for a set in the place of a predicate.
LEMMA Induction ==
    ASSUME NEW G \in SUBSET Nat, 0 \in G, \A n \in G : n + 1 \in G
    PROVE  G = Nat
<1> SUFFICES ASSUME Nat \ G # {}  PROVE FALSE
  OBVIOUS
<1>1. PICK m \in Nat \ G : \A k \in Nat \ G : m <= k
  <2>1. PICK B : B = Nat \ G
    OBVIOUS
  <2>2. B \in SUBSET Nat /\ B # {}
    BY <2>1
  <2> QED  BY <2>1, <2>2, Least
<1>2. m - 1 \in G
  BY <1>1
<1> QED  BY <1>1, <1>2

(***************************************************************************)
(* Sequences put one behind the other: FlattenSeq, which is defined by a   *)
(* recursive function.                                                     *)
(***************************************************************************)

\* Two functions with the same values are the same.
LEMMA SameFunction ==
    ASSUME NEW D, NEW f, NEW g,
           f = [x \in D |-> f[x]], g = [x \in D |-> g[x]], \A x \in D : f[x] = g[x]
    PROVE  f = g
  OBVIOUS

Builds(f, s, n) ==
    f = [i \in 1 .. n |-> IF i = 1 THEN s[i] ELSE f[i - 1] \o s[i]]

\* The function by which FlattenSeq is defined exists for every length.
LEMMA BuildExists == \A s : \A n \in Nat : \E f : Builds(f, s, n)
<1> SUFFICES ASSUME NEW s  PROVE \A n \in Nat : \E f : Builds(f, s, n)
  OBVIOUS
<1>1. PICK G : G = {n \in Nat : \E f : Builds(f, s, n)}
  OBVIOUS
<1>2. 0 \in G
  <2>1. Builds([i \in 1 .. 0 |-> s], s, 0)
    BY DEF Builds
  <2> QED  BY <1>1, <2>1
<1>3. ASSUME NEW n \in G  PROVE n + 1 \in G
  <2>1. n \in Nat
    BY <1>1
  <2>2. PICK f : Builds(f, s, n)
    BY <1>1
  <2>3. PICK g : g = [i \in 1 .. n + 1 |-> IF i = n + 1 THEN (IF n = 0 THEN s[1] ELSE f[n] \o s[n + 1])
                                         ELSE f[i]]
    OBVIOUS
  <2>4. ASSUME NEW i \in 1 .. n + 1
        PROVE  g[i] = IF i = 1 THEN s[i] ELSE g[i - 1] \o s[i]
    <3>1. CASE i = n + 1 /\ n = 0
      BY <2>3, <3>1
    <3>2. CASE i = n + 1 /\ n # 0
      <4>1. n \in 1 .. n + 1 /\ n # n + 1 /\ i - 1 = n
        BY <2>1, <3>2
      <4>2. g[n] = f[n] /\ g[i] = f[n] \o s[n + 1]
        BY <2>3, <3>2, <4>1
      <4>3. i # 1 /\ g[i - 1] = f[n] /\ s[i] = s[n + 1]
        BY <4>1, <4>2, <3>2, <2>1
      <4> QED  BY <4>2, <4>3
    <3>3. CASE i # n + 1
      <4>1. i \in 1 .. n
        BY <2>1, <3>3
      <4>2. f[i] = IF i = 1 THEN s[i] ELSE f[i - 1] \o s[i]
        BY <2>2, <4>1 DEF Builds
      <4>3. i # 1 => (i - 1 \in 1 .. n + 1 /\ i - 1 # n + 1)
        BY <2>1, <4>1
      <4> QED  BY <2>3, <4>1, <4>2, <4>3, <3>3
    <3> QED  BY <3>1, <3>2, <3>3
  <2>5. Builds(g, s, n + 1)
    <3>1. PICK g2 : g2 = [i \in 1 .. n + 1 |-> IF i = 1 THEN s[i] ELSE g[i - 1] \o s[i]]
      OBVIOUS
    <3>2. \A i \in 1 .. n + 1 : g2[i] = g[i]
      BY <3>1, <2>4
    <3>3. g = [i \in 1 .. n + 1 |-> g[i]]
      BY <2>3
    <3>4. g2 = [i \in 1 .. n + 1 |-> g2[i]]
      BY <3>1
    <3>5. g = g2
      BY <3>2, <3>3, <3>4, SameFunction
    <3> QED  BY <3>1, <3>5 DEF Builds
  <2> QED  BY <1>1, <2>1, <2>5
<1>4. G \in SUBSET Nat
  BY <1>1
<1>5. G = Nat
  BY <1>2, <1>3, <1>4, Induction
<1> QED  BY <1>1, <1>5

\* FlattenSeq is the last value of that function.
LEMMA FlattenBuilt ==
    ASSUME NEW s, Len(s) \in Nat \ {0}
    PROVE  \E f : Builds(f, s, Len(s)) /\ FlattenSeq(s) = f[Len(s)]
<1> DEFINE F == CHOOSE f : f = [i \in 1 .. Len(s) |-> IF i = 1 THEN s[i] ELSE f[i - 1] \o s[i]]
<1>1. FlattenSeq(s) = F[Len(s)]
  BY DEF FlattenSeq
<1>2. \E f : f = [i \in 1 .. Len(s) |-> IF i = 1 THEN s[i] ELSE f[i - 1] \o s[i]]
  BY BuildExists DEF Builds
<1>3. F = [i \in 1 .. Len(s) |-> IF i = 1 THEN s[i] ELSE F[i - 1] \o s[i]]
  BY <1>2
<1>4. Builds(F, s, Len(s))
  BY <1>3 DEF Builds
<1> QED  BY <1>1, <1>4

\* What that function is at each place.
LEMMA BuildAt ==
    ASSUME NEW s, NEW n \in Nat, NEW f, Builds(f, s, n), NEW i \in 1 .. n
    PROVE  f[i] = IF i = 1 THEN s[i] ELSE f[i - 1] \o s[i]
  BY DEF Builds

\* There is nothing in no sequences.
LEMMA FlattenEmpty == FlattenSeq(<<>>) = <<>>
  BY DEF FlattenSeq

\* Sequences one behind the other are a sequence.
LEMMA FlattenType ==
    ASSUME NEW S, NEW s \in Seq(Seq(S))
    PROVE  FlattenSeq(s) \in Seq(S)
<1>1. CASE Len(s) = 0
  <2>1. s = <<>>
    BY <1>1
  <2>2. <<>> \in Seq(S)
    OBVIOUS
  <2> QED  BY <2>1, <2>2, FlattenEmpty
<1>2. CASE Len(s) # 0
  <2>1. PICK f : Builds(f, s, Len(s)) /\ FlattenSeq(s) = f[Len(s)]
    BY <1>2, FlattenBuilt, LenProperties
  <2>2. PICK G : G = {n \in Nat : n \in 1 .. Len(s) => f[n] \in Seq(S)}
    OBVIOUS
  <2>3. 0 \in G
    BY <2>2
  <2>4. ASSUME NEW n \in G  PROVE n + 1 \in G
    <3> SUFFICES ASSUME n + 1 \in 1 .. Len(s)  PROVE f[n + 1] \in Seq(S)
      BY <2>2
    <3>1. s[n + 1] \in Seq(S)
      BY ElementOfSeq
    <3>2. f[n + 1] = IF n + 1 = 1 THEN s[n + 1] ELSE f[(n + 1) - 1] \o s[n + 1]
      BY <2>1, BuildAt
    <3>3. CASE n = 0
      <4>1. n + 1 = 1
        BY <3>3
      <4>2. f[n + 1] = s[n + 1]
        BY <3>2, <4>1
      <4> QED  BY <3>1, <4>2
    <3>4. CASE n # 0
      <4>1. f[n] \in Seq(S)
        BY <2>2, <3>4
      <4>2. f[n + 1] = f[n] \o s[n + 1]
        <5>1. n + 1 # 1 /\ (n + 1) - 1 = n
          BY <2>2, <3>4
        <5> QED  BY <3>2, <5>1
      <4> QED  BY <4>1, <4>2, <3>1, ConcatProperties
    <3> QED  BY <3>3, <3>4
  <2>5. G \in SUBSET Nat
    BY <2>2
  <2>6. G = Nat
    BY <2>3, <2>4, <2>5, Induction
  <2>7. Len(s) \in Nat /\ Len(s) \in 1 .. Len(s)
    BY <1>2, LenProperties
  <2> QED  BY <2>1, <2>2, <2>6, <2>7
<1> QED  BY <1>1, <1>2

\* A sequence put behind the others comes last.
LEMMA FlattenAppend ==
    ASSUME NEW S, NEW s \in Seq(Seq(S)), NEW x \in Seq(S)
    PROVE  FlattenSeq(Append(s, x)) = FlattenSeq(s) \o x
<1>1. PICK t : t = Append(s, x)
  OBVIOUS
<1>2. /\ Len(t) = Len(s) + 1 /\ Len(s) \in Nat
      /\ \A i \in 1 .. Len(s) : t[i] = s[i]
      /\ t[Len(s) + 1] = x
  BY <1>1, AppendProperties, LenProperties
<1>3. PICK g : Builds(g, t, Len(t)) /\ FlattenSeq(t) = g[Len(t)]
  BY <1>2, FlattenBuilt
<1>4. CASE Len(s) = 0
  <2>1. s = <<>>
    BY <1>4
  <2>2. g[1] = x
    BY <1>2, <1>3, <1>4, BuildAt
  <2> QED  BY <1>1, <1>2, <1>3, <1>4, <2>1, <2>2, FlattenEmpty, ConcatEmptySeq
<1>5. CASE Len(s) # 0
  <2>1. PICK f : Builds(f, s, Len(s)) /\ FlattenSeq(s) = f[Len(s)]
    BY <1>2, <1>5, FlattenBuilt
  <2>2. PICK G : G = {n \in Nat : n \in 1 .. Len(s) => f[n] = g[n]}
    OBVIOUS
  <2>3. 0 \in G
    BY <2>2
  <2>4. ASSUME NEW n \in G  PROVE n + 1 \in G
    <3> SUFFICES ASSUME n + 1 \in 1 .. Len(s)  PROVE f[n + 1] = g[n + 1]
      BY <2>2
    <3>1. t[n + 1] = s[n + 1] /\ n + 1 \in 1 .. Len(t) /\ n \in Nat
      BY <1>2, <2>2
    <3>2. f[n + 1] = IF n + 1 = 1 THEN s[n + 1] ELSE f[(n + 1) - 1] \o s[n + 1]
      BY <1>2, <2>1, BuildAt
    <3>3. g[n + 1] = IF n + 1 = 1 THEN t[n + 1] ELSE g[(n + 1) - 1] \o t[n + 1]
      <4>1. Len(t) \in Nat
        BY <1>2
      <4>2. PICK k \in 1 .. Len(t) : k = n + 1
        BY <3>1
      <4>3. g[k] = IF k = 1 THEN t[k] ELSE g[k - 1] \o t[k]
        BY <1>3, <4>1, BuildAt
      <4> QED  BY <4>2, <4>3
    <3>4. n # 0 => f[(n + 1) - 1] = g[(n + 1) - 1]
      BY <1>2, <2>2, <3>1
    <3> QED  BY <3>1, <3>2, <3>3, <3>4
  <2>5. G \in SUBSET Nat
    BY <2>2
  <2>6. G = Nat
    BY <2>3, <2>4, <2>5, Induction
  <2>7. f[Len(s)] = g[Len(s)]
    BY <1>2, <1>5, <2>2, <2>6
  <2>8. g[Len(s) + 1] = g[Len(s)] \o t[Len(s) + 1]
    <3>1. Len(s) + 1 \in 1 .. Len(t) /\ Len(s) + 1 # 1 /\ (Len(s) + 1) - 1 = Len(s) /\ Len(t) \in Nat
      BY <1>2, <1>5
    <3>2. Len(t) = Len(s) + 1
      BY <1>2
    <3>3. g[Len(s) + 1] = IF Len(s) + 1 = 1 THEN t[Len(s) + 1] ELSE g[(Len(s) + 1) - 1] \o t[Len(s) + 1]
      <4>1. Builds(g, t, Len(t)) /\ Len(t) \in Nat /\ Len(s) + 1 \in 1 .. Len(t)
        BY <1>3, <3>1
      <4>2. PICK k \in 1 .. Len(t) : k = Len(s) + 1
        BY <4>1
      <4>3. g[k] = IF k = 1 THEN t[k] ELSE g[k - 1] \o t[k]
        BY <4>1, BuildAt
      <4> QED  BY <4>2, <4>3
    <3> QED  BY <3>1, <3>3
  <2> QED  BY <1>1, <1>2, <1>3, <2>1, <2>7, <2>8
<1> QED  BY <1>4, <1>5

\* Flattening goes through concatenation.
LEMMA FlattenConcat ==
    ASSUME NEW S, NEW s \in Seq(Seq(S)), NEW t \in Seq(Seq(S))
    PROVE  FlattenSeq(s \o t) = FlattenSeq(s) \o FlattenSeq(t)
<1>1. PICK G : G = {n \in Nat : \A u \in Seq(Seq(S)) :
                        Len(u) = n => FlattenSeq(s \o u) = FlattenSeq(s) \o FlattenSeq(u)}
  OBVIOUS
<1>2. 0 \in G
  <2> SUFFICES ASSUME NEW u \in Seq(Seq(S)), Len(u) = 0
               PROVE  FlattenSeq(s \o u) = FlattenSeq(s) \o FlattenSeq(u)
    BY <1>1
  <2>1. u = <<>>
    OBVIOUS
  <2>2. s \o <<>> = s
    OBVIOUS
  <2>3. FlattenSeq(s) \in Seq(S)
    BY FlattenType
  <2>4. FlattenSeq(s) \o <<>> = FlattenSeq(s)
    BY <2>3, ConcatEmptySeq
  <2> QED  BY <2>1, <2>2, <2>4, FlattenEmpty
<1>3. ASSUME NEW n \in G  PROVE n + 1 \in G
  <2> SUFFICES ASSUME NEW u \in Seq(Seq(S)), Len(u) = n + 1
               PROVE  FlattenSeq(s \o u) = FlattenSeq(s) \o FlattenSeq(u)
    BY <1>1
  <2>1. n \in Nat /\ u # <<>>
    BY <1>1
  <2>2. PICK v \in Seq(Seq(S)), x \in Seq(S) : u = Append(v, x)
    BY <2>1, SequenceEmptyOrAppend
  <2>3. Len(v) = n
    BY <2>1, <2>2
  <2>4. s \o v \in Seq(Seq(S)) /\ s \o Append(v, x) = Append(s \o v, x)
    OBVIOUS
  <2>5. FlattenSeq(s \o u) = FlattenSeq(s \o v) \o x
    BY <2>2, <2>4, FlattenAppend
  <2>6. FlattenSeq(s \o v) = FlattenSeq(s) \o FlattenSeq(v)
    BY <1>1, <2>3
  <2>7. FlattenSeq(u) = FlattenSeq(v) \o x
    BY <2>2, FlattenAppend
  <2>8. FlattenSeq(s) \in Seq(S) /\ FlattenSeq(v) \in Seq(S)
    BY FlattenType
  <2>9. (FlattenSeq(s) \o FlattenSeq(v)) \o x = FlattenSeq(s) \o (FlattenSeq(v) \o x)
    BY <2>8, ConcatAssociative, SMTT(30)
  <2> QED  BY <2>5, <2>6, <2>7, <2>9
<1>4. G \in SUBSET Nat
  BY <1>1
<1>5. G = Nat
  BY <1>2, <1>3, <1>4, Induction
<1>6. Len(t) \in Nat
  OBVIOUS
<1> QED  BY <1>1, <1>5, <1>6

\* One sequence is what it is.
LEMMA FlattenOne ==
    ASSUME NEW S, NEW x \in Seq(S)
    PROVE  FlattenSeq(<<x>>) = x
<1>1. <<>> \in Seq(Seq(S)) /\ <<x>> = Append(<<>>, x)
  OBVIOUS
<1>2. FlattenSeq(<<x>>) = <<>> \o x
  BY <1>1, FlattenAppend, FlattenEmpty
<1> QED  BY <1>2, ConcatEmptySeq

\* The first sequence comes first.
LEMMA FlattenTail ==
    ASSUME NEW S, NEW s \in Seq(Seq(S)), s # <<>>
    PROVE  /\ Head(s) \in Seq(S) /\ Tail(s) \in Seq(Seq(S))
           /\ FlattenSeq(s) = Head(s) \o FlattenSeq(Tail(s))
<1>1. Head(s) \in Seq(S) /\ Tail(s) \in Seq(Seq(S))
  BY HeadTailProperties
<1>2. <<Head(s)>> \in Seq(Seq(S)) /\ s = <<Head(s)>> \o Tail(s)
  BY <1>1
<1>3. FlattenSeq(s) = FlattenSeq(<<Head(s)>>) \o FlattenSeq(Tail(s))
  BY <1>1, <1>2, FlattenConcat
<1> QED  BY <1>1, <1>3, FlattenOne

\* Concatenation is associative.
LEMMA Regroup ==
    ASSUME NEW a \in Seq(Bytes), NEW b \in Seq(Bytes), NEW c \in Seq(Bytes)
    PROVE  a \o (b \o c) = (a \o b) \o c
  BY ConcatAssociative

(***************************************************************************)
(* Pieces and ends of sequences.                                           *)
(***************************************************************************)

\* What is behind the first n elements.
LEMMA BehindType ==
    ASSUME NEW S, NEW s \in Seq(S), NEW n \in 0 .. Len(s)
    PROVE  /\ Behind(s, n) \in Seq(S)
           /\ Len(Behind(s, n)) = Len(s) - n
           /\ \A i \in 1 .. Len(s) - n : Behind(s, n)[i] = s[n + i]
<1>1. Len(s) \in Nat /\ n + 1 \in Int /\ \A i \in n + 1 .. Len(s) : s[i] \in S
  OBVIOUS
<1>2. /\ SubSeq(s, n + 1, Len(s)) \in Seq(S)
      /\ Len(SubSeq(s, n + 1, Len(s))) = IF n + 1 <= Len(s) THEN Len(s) - (n + 1) + 1 ELSE 0
      /\ \A i \in 1 .. Len(s) - (n + 1) + 1 : SubSeq(s, n + 1, Len(s))[i] = s[n + 1 + i - 1]
  BY <1>1, SubSeqProperties
<1>3. ASSUME NEW i \in 1 .. Len(s) - n  PROVE SubSeq(s, n + 1, Len(s))[i] = s[n + i]
  <2>1. i \in 1 .. Len(s) - (n + 1) + 1 /\ n + 1 + i - 1 = n + i
    BY <1>1
  <2> QED  BY <1>2, <2>1
<1> QED  BY <1>1, <1>2, <1>3 DEF Behind

\* A piece of a sequence.
LEMMA PieceType ==
    ASSUME NEW S, NEW s \in Seq(S), NEW m \in 0 .. Len(s), NEW n \in m .. Len(s)
    PROVE  /\ SubSeq(s, m + 1, n) \in Seq(S)
           /\ Len(SubSeq(s, m + 1, n)) = n - m
           /\ \A i \in 1 .. n - m : SubSeq(s, m + 1, n)[i] = s[m + i]
<1>1. Len(s) \in Nat /\ n \in Int /\ m + 1 \in Int /\ \A i \in m + 1 .. n : s[i] \in S
  OBVIOUS
<1>2. /\ SubSeq(s, m + 1, n) \in Seq(S)
      /\ Len(SubSeq(s, m + 1, n)) = IF m + 1 <= n THEN n - (m + 1) + 1 ELSE 0
      /\ \A i \in 1 .. n - (m + 1) + 1 : SubSeq(s, m + 1, n)[i] = s[m + 1 + i - 1]
  BY <1>1, SubSeqProperties
<1>3. ASSUME NEW i \in 1 .. n - m  PROVE SubSeq(s, m + 1, n)[i] = s[m + i]
  <2>1. i \in 1 .. n - (m + 1) + 1 /\ m + 1 + i - 1 = m + i
    BY <1>1
  <2> QED  BY <1>2, <2>1
<1> QED  BY <1>1, <1>2, <1>3

\* Leaving out twice is leaving out the sum.
LEMMA BehindBehind ==
    ASSUME NEW S, NEW s \in Seq(S), NEW m \in 0 .. Len(s), NEW n \in 0 .. Len(s) - m
    PROVE  Behind(Behind(s, m), n) = Behind(s, m + n)
<1>1. Len(s) \in Nat
  OBVIOUS
<1>2. PICK b : b = Behind(s, m)
  OBVIOUS
<1>3. b \in Seq(S) /\ Len(b) = Len(s) - m /\ \A i \in 1 .. Len(s) - m : b[i] = s[m + i]
  BY <1>2, BehindType
<1>4. n \in 0 .. Len(b)
  BY <1>3
<1>5. PICK c : c = Behind(b, n)
  OBVIOUS
<1>6. c \in Seq(S) /\ Len(c) = Len(b) - n /\ \A i \in 1 .. Len(b) - n : c[i] = b[n + i]
  BY <1>3, <1>4, <1>5, BehindType
<1>7. PICK k \in 0 .. Len(s) : k = m + n
  BY <1>1
<1>8. PICK d : d = Behind(s, k)
  OBVIOUS
<1>9. d \in Seq(S) /\ Len(d) = Len(s) - k /\ \A i \in 1 .. Len(s) - k : d[i] = s[k + i]
  BY <1>8, BehindType
<1>10. ASSUME NEW i \in 1 .. Len(c)  PROVE c[i] = d[i]
  <2>1. i \in 1 .. Len(b) - n /\ n + i \in 1 .. Len(s) - m /\ i \in 1 .. Len(s) - k
    BY <1>1, <1>3, <1>6, <1>7
  <2>2. m + (n + i) = k + i
    BY <1>1, <1>7, <2>1
  <2> QED  BY <1>3, <1>6, <1>9, <2>1, <2>2
<1>11. c = d
  <2>1. Len(c) = Len(d)
    BY <1>1, <1>3, <1>6, <1>7, <1>9
  <2> QED  BY <1>6, <1>9, <1>10, <2>1, SeqEqual
<1> QED  BY <1>2, <1>5, <1>7, <1>8, <1>11

\* Sequence a is the last part of b.
EndsWith(a, b) ==
    /\ Len(a) <= Len(b)
    /\ \A i \in 1 .. Len(a) : a[i] = b[Len(b) - Len(a) + i]

\* A sequence whose end is another one has that as a suffix: IsSuffix compares them reversed.
LEMMA EndsWithIsSuffix ==
    ASSUME NEW S, NEW a \in Seq(S), NEW b \in Seq(S), EndsWith(a, b)
    PROVE  IsSuffix(a, b)
<1>1. Len(a) \in Nat /\ Len(b) \in Nat /\ Len(a) <= Len(b)
  BY DEF EndsWith
<1>2. PICK ra : ra = Reverse(a)
  OBVIOUS
<1>3. PICK rb : rb = Reverse(b)
  OBVIOUS
<1>4. ra \in Seq(S) /\ Len(ra) = Len(a) /\ \A i \in 1 .. Len(a) : ra[i] = a[Len(a) - i + 1]
  BY <1>1, <1>2 DEF Reverse
<1>5. rb \in Seq(S) /\ Len(rb) = Len(b) /\ \A i \in 1 .. Len(b) : rb[i] = b[Len(b) - i + 1]
  BY <1>1, <1>3 DEF Reverse
<1>6. ASSUME NEW i \in 1 .. Len(a)  PROVE ra[i] = rb[i]
  <2>0. Len(a) - i + 1 \in 1 .. Len(a)
    BY <1>1
  <2>1. PICK k \in 1 .. Len(a) : k = Len(a) - i + 1
    BY <2>0
  <2>2. a[k] = b[Len(b) - Len(a) + k]
    BY DEF EndsWith
  <2>3. Len(b) - Len(a) + k = Len(b) - i + 1 /\ i \in 1 .. Len(b)
    BY <1>1, <2>1
  <2> QED  BY <1>4, <1>5, <2>1, <2>2, <2>3
<1>7. SubSeq(ra, 1, Len(ra)) = ra
  BY <1>4, SubSeqFull
<1>8. PICK c : c = SubSeq(rb, 1, Len(ra))
  OBVIOUS
<1>9. c \in Seq(S) /\ Len(c) = Len(ra) /\ \A i \in 1 .. Len(ra) : c[i] = rb[i]
  <2>1. 0 \in 0 .. Len(rb) /\ Len(ra) \in 0 .. Len(rb)
    BY <1>1, <1>4, <1>5
  <2>2. /\ SubSeq(rb, 0 + 1, Len(ra)) \in Seq(S)
        /\ Len(SubSeq(rb, 0 + 1, Len(ra))) = Len(ra) - 0
        /\ \A i \in 1 .. Len(ra) - 0 : SubSeq(rb, 0 + 1, Len(ra))[i] = rb[0 + i]
    BY <1>5, <2>1, PieceType
  <2> QED  BY <1>1, <1>4, <1>8, <2>2
<1>10. ra = c
  BY <1>4, <1>6, <1>9, SeqEqual
<1>11. Len(ra) <= Len(rb) /\ SubSeq(ra, 1, Len(ra)) = SubSeq(rb, 1, Len(ra))
  BY <1>1, <1>4, <1>5, <1>7, <1>8, <1>10
<1> QED  BY <1>2, <1>3, <1>11 DEF IsSuffix, IsPrefix

\* The end of a sequence ends with each end of itself.
LEMMA EndsWithRest ==
    ASSUME NEW S, NEW a \in Seq(S), NEW b \in Seq(S), NEW c \in Seq(S), EndsWith(a \o b, c)
    PROVE  EndsWith(b, c)
<1>1. PICK ab : ab = a \o b
  OBVIOUS
<1>2. /\ Len(a) \in Nat /\ Len(b) \in Nat /\ Len(c) \in Nat /\ Len(ab) = Len(a) + Len(b)
      /\ \A i \in 1 .. Len(a) + Len(b) : ab[i] = IF i <= Len(a) THEN a[i] ELSE b[i - Len(a)]
  BY <1>1, ConcatProperties
<1>3. Len(ab) <= Len(c) /\ \A i \in 1 .. Len(ab) : ab[i] = c[Len(c) - Len(ab) + i]
  BY <1>1 DEF EndsWith
<1>4. ASSUME NEW i \in 1 .. Len(b)  PROVE b[i] = c[Len(c) - Len(b) + i]
  <2>1. PICK k \in 1 .. Len(ab) : k = Len(a) + i
    BY <1>2
  <2>2. ab[k] = b[i]
    <3>1. k \in 1 .. Len(a) + Len(b) /\ ~(k <= Len(a)) /\ k - Len(a) = i
      BY <1>2, <2>1
    <3> QED  BY <1>2, <3>1
  <2>3. Len(c) - Len(ab) + k = Len(c) - Len(b) + i
    BY <1>2, <2>1
  <2> QED  BY <1>3, <2>2, <2>3
<1> QED  BY <1>2, <1>3, <1>4 DEF EndsWith

\* The same put behind both keeps one the end of the other.
LEMMA EndsWithBoth ==
    ASSUME NEW S, NEW a \in Seq(S), NEW b \in Seq(S), NEW c \in Seq(S), EndsWith(a, b)
    PROVE  EndsWith(a \o c, b \o c)
<1>1. PICK ac : ac = a \o c
  OBVIOUS
<1>2. PICK bc : bc = b \o c
  OBVIOUS
<1>3. /\ Len(a) \in Nat /\ Len(b) \in Nat /\ Len(c) \in Nat
      /\ Len(ac) = Len(a) + Len(c) /\ Len(bc) = Len(b) + Len(c)
      /\ \A i \in 1 .. Len(a) + Len(c) : ac[i] = IF i <= Len(a) THEN a[i] ELSE c[i - Len(a)]
      /\ \A i \in 1 .. Len(b) + Len(c) : bc[i] = IF i <= Len(b) THEN b[i] ELSE c[i - Len(b)]
  BY <1>1, <1>2, ConcatProperties
<1>4. Len(a) <= Len(b) /\ \A i \in 1 .. Len(a) : a[i] = b[Len(b) - Len(a) + i]
  BY DEF EndsWith
<1>5. ASSUME NEW i \in 1 .. Len(ac)  PROVE ac[i] = bc[Len(bc) - Len(ac) + i]
  <2>0. Len(bc) - Len(ac) + i \in 1 .. Len(bc)
    BY <1>3, <1>4
  <2>1. PICK k \in 1 .. Len(bc) : k = Len(bc) - Len(ac) + i
    BY <2>0
  <2>2. CASE i <= Len(a)
    <3>1. k = Len(b) - Len(a) + i /\ k <= Len(b) /\ i \in 1 .. Len(a)
      BY <1>3, <2>1, <2>2
    <3>2. ac[i] = a[i] /\ bc[k] = b[k]
      BY <1>3, <2>2, <3>1
    <3> QED  BY <1>4, <2>1, <3>1, <3>2
  <2>3. CASE ~(i <= Len(a))
    <3>1. ac[i] = c[i - Len(a)]
      BY <1>3, <2>3
    <3>2. bc[k] = c[k - Len(b)]
      <4>1. k \in 1 .. Len(b) + Len(c) /\ ~(k <= Len(b))
        BY <1>3, <2>1, <2>3
      <4> QED  BY <1>3, <4>1
    <3>3. k - Len(b) = i - Len(a)
      BY <1>3, <2>1
    <3> QED  BY <2>1, <3>1, <3>2, <3>3
  <2> QED  BY <2>2, <2>3
<1>6. EndsWith(ac, bc)
  BY <1>3, <1>4, <1>5 DEF EndsWith
<1> QED  BY <1>1, <1>2, <1>6

(***************************************************************************)
(* The messages and the stream of their bytes.                             *)
(***************************************************************************)

\* The assumptions on the constants, once more.
LEMMA Constants ==
    /\ Handlers \subseteq (Byte \ {0}) \X Byte /\ Stale \subseteq Byte
    /\ Messages \subseteq [id : Handlers, body : Seq(Byte)]
    /\ \A m \in Messages : Len(m.body) < 256 * 256
    /\ MaxSent \in Nat \ {0} /\ MaxConnections \in Nat \ {0}
    /\ NULL \notin Seq(Bytes)
  BY ReaderAssumption, ChannelAssumption

\* A pair is a sequence of two.
LEMMA PairIsSeq ==
    ASSUME NEW S, NEW p \in S \X S
    PROVE  p \in Seq(S) /\ Len(p) = 2 /\ p[1] \in S /\ p[2] \in S
<1>1. PICK a \in S, b \in S : p = <<a, b>>
  OBVIOUS
<1>2. <<a, b>> \in Seq(S)
  OBVIOUS
<1>3. Len(<<a, b>>) = 2 /\ <<a, b>>[1] = a /\ <<a, b>>[2] = b
  OBVIOUS
<1> QED  BY <1>1, <1>2, <1>3

\* The two bytes of a length give the length.
LEMMA LengthBytes ==
    ASSUME NEW n \in Nat, n < 256 * 256
    PROVE  /\ n % 256 \in Byte /\ n \div 256 \in Byte
           /\ (n % 256) + 256 * (n \div 256) = n
  BY DEF Byte

\* The bytes of a message: its id, its length and its body, and where they are cut.
LEMMA EncodeFacts ==
    ASSUME NEW m \in Messages, NEW i \in 1 .. MaxSent
    PROVE  /\ Encode(m, i) \in Seq(Bytes)
           /\ Len(m.body) \in Nat
           /\ Len(Encode(m, i)) = 4 + Len(m.body)
           /\ \A k \in 1 .. 4 + Len(m.body) :
                 /\ Encode(m, i)[k].msg = i
                 /\ Encode(m, i)[k].cut = Place(k, Len(m.body))
           /\ Encode(m, i)[1].value = m.id[1]
           /\ Encode(m, i)[2].value = m.id[2]
           /\ Encode(m, i)[3].value = Len(m.body) % 256
           /\ Encode(m, i)[4].value = Len(m.body) \div 256
           /\ \A k \in 1 .. Len(m.body) : Encode(m, i)[4 + k].value = m.body[k]
<1>1. m.id \in Byte \X Byte /\ m.body \in Seq(Byte) /\ Len(m.body) < 256 * 256
  BY Constants
<1>2. PICK id : id = m.id
  OBVIOUS
<1>3. PICK body : body = m.body
  OBVIOUS
<1>4. PICK n : n = Len(body)
  OBVIOUS
<1>5. body \in Seq(Byte) /\ n \in Nat
  BY <1>1, <1>3, <1>4
<1>6. id \in Seq(Byte) /\ Len(id) = 2
  BY <1>1, <1>2, PairIsSeq
<1>7. PICK len : len = <<n % 256, n \div 256>>
  OBVIOUS
<1>8. len \in Seq(Byte) /\ Len(len) = 2 /\ len[1] = n % 256 /\ len[2] = n \div 256
  <2>1. n % 256 \in Byte /\ n \div 256 \in Byte
    BY <1>1, <1>3, <1>4, <1>5, LengthBytes
  <2>2. PICK lo \in Byte, hi \in Byte : lo = n % 256 /\ hi = n \div 256
    BY <2>1
  <2>3. len = <<lo, hi>>
    BY <1>7, <2>2
  <2>4. len \in Byte \X Byte /\ len[1] = lo /\ len[2] = hi
    BY <2>3
  <2> QED  BY <2>2, <2>4, PairIsSeq
<1>9. PICK head : head = id \o len
  OBVIOUS
<1>10. /\ head \in Seq(Byte) /\ Len(head) = 4
       /\ head[1] = id[1] /\ head[2] = id[2] /\ head[3] = len[1] /\ head[4] = len[2]
  <2>1. /\ head \in Seq(Byte) /\ Len(head) = Len(id) + Len(len)
        /\ \A k \in 1 .. Len(id) + Len(len) :
              head[k] = IF k <= Len(id) THEN id[k] ELSE len[k - Len(id)]
    BY <1>6, <1>8, <1>9, ConcatProperties, SMTT(30)
  <2> QED  BY <1>6, <1>8, <2>1
<1>11. PICK values : values = head \o body
  OBVIOUS
<1>12. /\ values \in Seq(Byte) /\ Len(values) = 4 + n /\ DOMAIN values = 1 .. 4 + n
       /\ \A k \in 1 .. 4 : values[k] = head[k]
       /\ \A k \in 1 .. n : values[4 + k] = body[k]
  <2>1. /\ values \in Seq(Byte) /\ Len(values) = Len(head) + Len(body)
        /\ \A k \in 1 .. Len(head) + Len(body) :
              values[k] = IF k <= Len(head) THEN head[k] ELSE body[k - Len(head)]
    BY <1>5, <1>10, <1>11, ConcatProperties
  <2>2. ASSUME NEW k \in 1 .. n  PROVE values[4 + k] = body[k]
    <3>1. 4 + k \in 1 .. Len(head) + Len(body) /\ ~(4 + k <= Len(head)) /\ (4 + k) - Len(head) = k
      BY <1>4, <1>5, <1>10
    <3> QED  BY <2>1, <3>1
  <2>3. ASSUME NEW k \in 1 .. 4  PROVE values[k] = head[k]
    <3>1. k \in 1 .. Len(head) + Len(body) /\ k <= Len(head)
      BY <1>4, <1>5, <1>10
    <3> QED  BY <2>1, <3>1
  <2>4. DOMAIN values = 1 .. Len(values)
    BY <2>1, LenProperties
  <2> QED  BY <1>4, <1>10, <2>1, <2>2, <2>3, <2>4
<1>13. PICK e : e = Encode(m, i)
  OBVIOUS
<1>14. e = [k \in 1 .. 4 + n |-> [value |-> values[k], msg |-> i, cut |-> Place(k, n)]]
  BY <1>2, <1>3, <1>4, <1>7, <1>9, <1>11, <1>12, <1>13, ZenonT(40) DEF Encode
<1>15. ASSUME NEW k \in 1 .. 4 + n  PROVE e[k] \in Bytes
  <2>1. Place(k, n) \in Cuts \cup {"end"}
    BY DEF Place, Cuts
  <2>2. values[k] \in Byte
    BY <1>12
  <2> QED  BY <1>14, <2>1, <2>2 DEF Bytes
<1>16. e \in Seq(Bytes) /\ Len(e) = 4 + n
  <2>1. e \in [1 .. 4 + n -> Bytes] /\ 4 + n \in Nat
    BY <1>5, <1>14, <1>15
  <2> QED  BY <2>1
<1>17. \A k \in 1 .. 4 + n : e[k].value = values[k] /\ e[k].msg = i /\ e[k].cut = Place(k, n)
  BY <1>14
<1>18. /\ e[1].value = id[1] /\ e[2].value = id[2]
       /\ e[3].value = n % 256 /\ e[4].value = n \div 256
  BY <1>5, <1>8, <1>10, <1>12, <1>17
<1>19. \A k \in 1 .. n : e[4 + k].value = body[k]
  BY <1>5, <1>12, <1>17
<1> QED  BY <1>2, <1>3, <1>4, <1>5, <1>13, <1>16, <1>17, <1>18, <1>19

\* What is sent altogether, and where in it the m-th message begins.
Encoded(s) == [i \in DOMAIN s |-> Encode(s[i], i)]
Stream(s) == FlattenSeq(Encoded(s))
Begin(s, m) == Len(FlattenSeq(SubSeq(Encoded(s), 1, m - 1)))
Size(s, m) == 4 + Len(s[m].body)

\* The messages encoded are sequences of bytes, as long as their bodies and four bytes more.
LEMMA EncodedType ==
    ASSUME NEW s \in Seq(Messages), Len(s) <= MaxSent
    PROVE  /\ Encoded(s) \in Seq(Seq(Bytes)) /\ Len(Encoded(s)) = Len(s)
           /\ \A i \in 1 .. Len(s) : Encoded(s)[i] = Encode(s[i], i)
           /\ \A i \in 1 .. Len(s) : Size(s, i) \in Nat /\ Len(Encoded(s)[i]) = Size(s, i)
<1>1. Len(s) \in Nat /\ DOMAIN s = 1 .. Len(s) /\ MaxSent \in Nat
  BY Constants
<1>2. ASSUME NEW i \in 1 .. Len(s)
      PROVE  /\ Encode(s[i], i) \in Seq(Bytes)
             /\ Size(s, i) \in Nat /\ Len(Encode(s[i], i)) = Size(s, i)
  <2>1. s[i] \in Messages /\ i \in 1 .. MaxSent
    BY <1>1
  <2>2. PICK m \in Messages : m = s[i]
    BY <2>1
  <2>3. Encode(m, i) \in Seq(Bytes) /\ Len(m.body) \in Nat /\ Len(Encode(m, i)) = 4 + Len(m.body)
    <3>1. PICK j \in 1 .. MaxSent : j = i
      BY <2>1
    <3>2. Encode(m, j) \in Seq(Bytes) /\ Len(m.body) \in Nat /\ Len(Encode(m, j)) = 4 + Len(m.body)
      BY EncodeFacts, ZenonT(40)
    <3> QED  BY <3>1, <3>2
  <2>4. Size(s, i) = 4 + Len(m.body)
    BY <2>2 DEF Size
  <2> QED  BY <2>2, <2>3, <2>4
<1>3. PICK e : e = Encoded(s)
  OBVIOUS
<1>4. e = [i \in 1 .. Len(s) |-> Encode(s[i], i)]
  BY <1>1, <1>3 DEF Encoded
<1>5. e \in [1 .. Len(s) -> Seq(Bytes)]
  BY <1>2, <1>4
<1>6. e \in Seq(Seq(Bytes)) /\ Len(e) = Len(s)
  BY <1>1, <1>5
<1>7. \A i \in 1 .. Len(s) : e[i] = Encode(s[i], i)
  BY <1>4
<1> QED  BY <1>2, <1>3, <1>6, <1>7

\* The stream sent is a sequence of bytes.
LEMMA StreamType ==
    ASSUME NEW s \in Seq(Messages), Len(s) <= MaxSent
    PROVE  Stream(s) \in Seq(Bytes) /\ Len(Stream(s)) \in Nat
<1>1. Stream(s) \in Seq(Bytes)
  BY EncodedType, FlattenType DEF Stream
<1> QED  BY <1>1

\* The messages in front of the m-th.
LEMMA EncodedFront ==
    ASSUME NEW s \in Seq(Messages), Len(s) <= MaxSent, NEW m \in 1 .. Len(s) + 1
    PROVE  /\ SubSeq(Encoded(s), 1, m - 1) \in Seq(Seq(Bytes))
           /\ FlattenSeq(SubSeq(Encoded(s), 1, m - 1)) \in Seq(Bytes)
           /\ Begin(s, m) \in Nat
           /\ m <= Len(s) =>
                SubSeq(Encoded(s), 1, (m + 1) - 1) = Append(SubSeq(Encoded(s), 1, m - 1), Encoded(s)[m])
<1>1. PICK e : e = Encoded(s)
  OBVIOUS
<1>2. e \in Seq(Seq(Bytes)) /\ Len(e) = Len(s) /\ Len(s) \in Nat
  BY <1>1, EncodedType
<1>3. PICK f : f = SubSeq(e, 1, m - 1)
  OBVIOUS
<1>4. f \in Seq(Seq(Bytes))
  <2>1. 0 \in 0 .. Len(e) /\ m - 1 \in 0 .. Len(e) /\ 0 + 1 = 1
    BY <1>2
  <2>2. PICK k \in 0 .. Len(e) : k = m - 1
    BY <2>1
  <2>3. SubSeq(e, 0 + 1, k) \in Seq(Seq(Bytes))
    BY <1>2, <2>1, PieceType
  <2> QED  BY <1>3, <2>1, <2>2, <2>3
<1>5. FlattenSeq(f) \in Seq(Bytes)
  BY <1>4, FlattenType
<1>6. Len(FlattenSeq(f)) \in Nat
  BY <1>5
<1>7. ASSUME m <= Len(s)  PROVE SubSeq(e, 1, (m + 1) - 1) = Append(f, e[m])
  <2>1. (m + 1) - 1 = m /\ 1 \in 1 .. Len(e) /\ m \in 1 .. Len(e)
    BY <1>2, <1>7
  <2>2. SubSeq(e, 1, m) = SubSeq(e, 1, m - 1) \o <<e[m]>>
    BY <1>2, <2>1, SubSeqRecursiveSecond
  <2>3. e[m] \in Seq(Bytes)
    BY <1>2, <2>1
  <2>4. Append(f, e[m]) = f \o <<e[m]>>
    BY <1>4, <2>3, AppendIsConcat
  <2> QED  BY <1>3, <2>1, <2>2, <2>4
<1> QED  BY <1>1, <1>3, <1>4, <1>5, <1>6, <1>7 DEF Begin

\* A message begins where the one before it ends.
LEMMA BeginNext ==
    ASSUME NEW s \in Seq(Messages), Len(s) <= MaxSent, NEW m \in 1 .. Len(s)
    PROVE  Begin(s, m + 1) = Begin(s, m) + Size(s, m)
<1>1. Len(s) \in Nat /\ m \in 1 .. Len(s) + 1
  OBVIOUS
<1>2. PICK f : f = SubSeq(Encoded(s), 1, m - 1)
  OBVIOUS
<1>3. /\ f \in Seq(Seq(Bytes)) /\ FlattenSeq(f) \in Seq(Bytes)
      /\ SubSeq(Encoded(s), 1, (m + 1) - 1) = Append(f, Encoded(s)[m])
  BY <1>1, <1>2, EncodedFront
<1>4. Encoded(s)[m] \in Seq(Bytes) /\ Len(Encoded(s)[m]) = Size(s, m)
  BY EncodedType
<1>5. FlattenSeq(Append(f, Encoded(s)[m])) = FlattenSeq(f) \o Encoded(s)[m]
  BY <1>3, <1>4, FlattenAppend
<1>6. Len(FlattenSeq(f) \o Encoded(s)[m]) = Len(FlattenSeq(f)) + Len(Encoded(s)[m])
  BY <1>3, <1>4, ConcatProperties
<1> QED  BY <1>2, <1>3, <1>4, <1>5, <1>6 DEF Begin

\* The first message begins at the start of the stream.
LEMMA BeginFirst == \A s : Begin(s, 1) = 0
<1> SUFFICES ASSUME NEW s  PROVE Begin(s, 1) = 0
  OBVIOUS
<1>1. SubSeq(Encoded(s), 1, 0) = <<>>
  BY SubSeqEmpty
<1>2. PICK f : f = SubSeq(Encoded(s), 1, 1 - 1)
  OBVIOUS
<1>3. f = <<>>
  BY <1>1, <1>2
<1>4. Len(FlattenSeq(f)) = 0
  BY <1>3, FlattenEmpty
<1> QED  BY <1>2, <1>4 DEF Begin

\* Behind the last message is the end of the stream.
LEMMA BeginLast ==
    ASSUME NEW s \in Seq(Messages), Len(s) <= MaxSent
    PROVE  Begin(s, Len(s) + 1) = Len(Stream(s))
<1>1. Encoded(s) \in Seq(Seq(Bytes)) /\ Len(Encoded(s)) = Len(s) /\ Len(s) \in Nat
  BY EncodedType
<1>2. SubSeq(Encoded(s), 1, Len(Encoded(s))) = Encoded(s)
  BY <1>1, SubSeqFull
<1>3. (Len(s) + 1) - 1 = Len(Encoded(s))
  BY <1>1
<1> QED  BY <1>2, <1>3 DEF Begin, Stream

\* The bytes of the m-th message stand behind its beginning.
LEMMA StreamAt ==
    ASSUME NEW s \in Seq(Messages), Len(s) <= MaxSent, NEW m \in 1 .. Len(s),
           NEW k \in 1 .. Size(s, m)
    PROVE  /\ Begin(s, m) + k \in 1 .. Len(Stream(s))
           /\ Stream(s)[Begin(s, m) + k] = Encode(s[m], m)[k]
<1>1. PICK e : e = Encoded(s)
  OBVIOUS
<1>2. /\ e \in Seq(Seq(Bytes)) /\ Len(e) = Len(s) /\ Len(s) \in Nat
      /\ e[m] = Encode(s[m], m) /\ Size(s, m) \in Nat /\ Len(e[m]) = Size(s, m)
  BY <1>1, EncodedType
<1>3. PICK f : f = SubSeq(e, 1, m)
  OBVIOUS
<1>4. PICK g : g = SubSeq(e, m + 1, Len(e))
  OBVIOUS
<1>5. f \in Seq(Seq(Bytes)) /\ FlattenSeq(f) \in Seq(Bytes) /\ Begin(s, m + 1) = Len(FlattenSeq(f))
  <2>1. m + 1 \in 1 .. Len(s) + 1 /\ (m + 1) - 1 = m
    BY <1>2
  <2>2. PICK k2 \in 1 .. Len(s) + 1 : k2 = m + 1
    BY <2>1
  <2>3. SubSeq(Encoded(s), 1, k2 - 1) \in Seq(Seq(Bytes)) /\ FlattenSeq(SubSeq(Encoded(s), 1, k2 - 1)) \in Seq(Bytes)
    BY EncodedFront
  <2> QED  BY <1>1, <1>3, <2>1, <2>2, <2>3 DEF Begin
<1>6. g \in Seq(Seq(Bytes)) /\ FlattenSeq(g) \in Seq(Bytes)
  <2>1. m \in 0 .. Len(e)
    BY <1>2
  <2>2. Behind(e, m) \in Seq(Seq(Bytes))
    BY <1>2, <2>1, BehindType
  <2> QED  BY <1>4, <2>2, FlattenType DEF Behind
<1>7. e = f \o g
  <2>1. 1 \in 1 .. Len(e) + 1 /\ m \in 1 - 1 .. Len(e) /\ Len(e) \in m .. Len(e)
    BY <1>2
  <2>2. SubSeq(e, 1, m) \o SubSeq(e, m + 1, Len(e)) = SubSeq(e, 1, Len(e))
    BY <1>2, <2>1, ConcatAdjacentSubSeq
  <2>3. SubSeq(e, 1, Len(e)) = e
    BY <1>2, SubSeqFull
  <2> QED  BY <1>3, <1>4, <2>2, <2>3
<1>8. Stream(s) = FlattenSeq(f) \o FlattenSeq(g)
  BY <1>1, <1>5, <1>6, <1>7, FlattenConcat DEF Stream
<1>9. PICK h : h = SubSeq(e, 1, m - 1)
  OBVIOUS
<1>10. /\ h \in Seq(Seq(Bytes)) /\ FlattenSeq(h) \in Seq(Bytes) /\ f = Append(h, e[m])
       /\ Begin(s, m) = Len(FlattenSeq(h)) /\ Begin(s, m) \in Nat
  <2>1. m \in 1 .. Len(s) + 1 /\ m <= Len(s) /\ (m + 1) - 1 = m
    BY <1>2
  <2>2. /\ h \in Seq(Seq(Bytes)) /\ FlattenSeq(h) \in Seq(Bytes) /\ Begin(s, m) \in Nat
        /\ SubSeq(e, 1, (m + 1) - 1) = Append(h, e[m])
    BY <1>1, <1>9, <2>1, EncodedFront
  <2> QED  BY <1>1, <1>3, <1>9, <2>1, <2>2 DEF Begin
<1>11. PICK a : a = FlattenSeq(h)
  OBVIOUS
<1>12. PICK b : b = FlattenSeq(f)
  OBVIOUS
<1>13. PICK c : c = FlattenSeq(g)
  OBVIOUS
<1>14. a \in Seq(Bytes) /\ b \in Seq(Bytes) /\ c \in Seq(Bytes) /\ e[m] \in Seq(Bytes)
  BY <1>2, <1>5, <1>6, <1>10, <1>11, <1>12, <1>13
<1>15. b = a \o e[m]
  BY <1>10, <1>11, <1>12, <1>14, FlattenAppend
<1>16. PICK p : p = Len(a) + k
  OBVIOUS
<1>17. Len(b) = Len(a) + Size(s, m) /\ p \in 1 .. Len(b) /\ ~(p <= Len(a)) /\ p - Len(a) = k /\ Len(a) \in Nat
  <2>1. Len(b) = Len(a) + Len(e[m])
    BY <1>14, <1>15, ConcatProperties
  <2>2. Len(a) \in Nat
    BY <1>14
  <2> QED  BY <1>2, <1>16, <2>1, <2>2
<1>18. b[p] = e[m][k]
  <2>1. \A i \in 1 .. Len(a) + Len(e[m]) : (a \o e[m])[i] = IF i <= Len(a) THEN a[i] ELSE e[m][i - Len(a)]
    BY <1>14, ConcatProperties
  <2> QED  BY <1>2, <1>15, <1>17, <2>1
<1>19. Len(b \o c) = Len(b) + Len(c) /\ (b \o c)[p] = b[p] /\ Len(c) \in Nat /\ Len(b) \in Nat
  <2>1. \A i \in 1 .. Len(b) + Len(c) : (b \o c)[i] = IF i <= Len(b) THEN b[i] ELSE c[i - Len(b)]
    BY <1>14, ConcatProperties
  <2>2. Len(b \o c) = Len(b) + Len(c) /\ Len(c) \in Nat /\ Len(b) \in Nat
    BY <1>14, ConcatProperties
  <2>3. p \in 1 .. Len(b) + Len(c) /\ p <= Len(b)
    BY <1>17, <2>2
  <2> QED  BY <2>1, <2>2, <2>3
<1> QED  BY <1>2, <1>8, <1>10, <1>11, <1>12, <1>13, <1>16, <1>17, <1>18, <1>19

\* Where a message begins is a number.
LEMMA BeginType ==
    ASSUME NEW s \in Seq(Messages), Len(s) <= MaxSent, NEW m \in 1 .. Len(s) + 1
    PROVE  Begin(s, m) \in Nat
  BY EncodedFront

\* Later messages do not begin before earlier ones.
LEMMA BeginGrows ==
    ASSUME NEW s \in Seq(Messages), Len(s) <= MaxSent,
           NEW m \in 1 .. Len(s) + 1, NEW n \in m .. Len(s) + 1
    PROVE  Begin(s, m) <= Begin(s, n)
<1>1. Len(s) \in Nat
  OBVIOUS
<1>2. PICK G : G = {d \in Nat : m + d <= Len(s) + 1 => Begin(s, m) <= Begin(s, m + d)}
  OBVIOUS
<1>3. 0 \in G
  <2>1. Begin(s, m) \in Nat /\ m + 0 = m
    BY BeginType
  <2>2. Begin(s, m) <= Begin(s, m + 0)
    BY <2>1
  <2> QED  BY <1>2, <2>2
<1>4. ASSUME NEW d \in G  PROVE d + 1 \in G
  <2> SUFFICES ASSUME m + (d + 1) <= Len(s) + 1
               PROVE  Begin(s, m) <= Begin(s, m + (d + 1))
    BY <1>2
  <2>1. d \in Nat
    BY <1>2
  <2>2. m + d \in 1 .. Len(s) /\ m + (d + 1) = (m + d) + 1 /\ m + d <= Len(s) + 1
    BY <1>1, <2>1
  <2>3. PICK k \in 1 .. Len(s) : k = m + d
    BY <2>2
  <2>4. Begin(s, m) <= Begin(s, k)
    BY <1>2, <2>2, <2>3
  <2>5. Begin(s, k + 1) = Begin(s, k) + Size(s, k) /\ Size(s, k) \in Nat
    BY BeginNext, EncodedType
  <2>6. Begin(s, m) \in Nat /\ Begin(s, k) \in Nat
    <3>1. k \in 1 .. Len(s) + 1
      BY <1>1
    <3> QED  BY <3>1, BeginType
  <2>7. Begin(s, m) <= Begin(s, k + 1)
    BY <2>4, <2>5, <2>6
  <2> QED  BY <2>2, <2>3, <2>7
<1>5. G \in SUBSET Nat
  BY <1>2
<1>6. G = Nat
  BY <1>3, <1>4, <1>5, Induction
<1>7. n - m \in Nat /\ m + (n - m) = n
  BY <1>1
<1>8. PICK d \in Nat : d = n - m
  BY <1>7
<1>9. m + d = n
  BY <1>7, <1>8
<1>10. m + d <= Len(s) + 1 => Begin(s, m) <= Begin(s, m + d)
  BY <1>2, <1>6
<1>11. n <= Len(s) + 1
  BY <1>1
<1> QED  BY <1>9, <1>10, <1>11

\* Every byte of the stream is one of a message.
LEMMA StreamByte ==
    ASSUME NEW s \in Seq(Messages), Len(s) <= MaxSent, NEW p \in 1 .. Len(Stream(s))
    PROVE  \E m \in 1 .. Len(s) : \E k \in 1 .. Size(s, m) : p = Begin(s, m) + k
<1>1. Len(s) \in Nat
  OBVIOUS
<1> DEFINE Found(n) == \A q \in 1 .. Begin(s, n + 1) :
              \E m \in 1 .. Len(s) : \E k \in 1 .. Size(s, m) : q = Begin(s, m) + k
<1>2. PICK G : G = {n \in Nat : n <= Len(s) => Found(n)}
  OBVIOUS
<1>3. 0 \in G
  <2>1. Begin(s, 0 + 1) = 0
    BY BeginFirst
  <2>2. Found(0)
    BY <2>1
  <2> QED  BY <1>2, <2>2
<1>4. ASSUME NEW n \in G  PROVE n + 1 \in G
  <2>1. n \in Nat /\ (n <= Len(s) => Found(n))
    BY <1>2
  <2> SUFFICES ASSUME n + 1 <= Len(s), NEW q \in 1 .. Begin(s, (n + 1) + 1)
               PROVE  \E m \in 1 .. Len(s) : \E k \in 1 .. Size(s, m) : q = Begin(s, m) + k
    BY <1>2, <2>1
  <2>2. n + 1 \in 1 .. Len(s)
    BY <1>1, <2>1
  <2>3. PICK i \in 1 .. Len(s) : i = n + 1
    BY <2>2
  <2>4. /\ Begin(s, i + 1) = Begin(s, i) + Size(s, i) /\ Size(s, i) \in Nat
        /\ Begin(s, i) \in Nat
    <3>1. i \in 1 .. Len(s) + 1
      BY <1>1
    <3> QED  BY <3>1, BeginNext, EncodedType, BeginType
  <2>5. q \in 1 .. Begin(s, i) + Size(s, i)
    BY <2>3, <2>4
  <2>6. CASE q <= Begin(s, i)
    <3>1. q \in 1 .. Begin(s, n + 1)
      BY <2>3, <2>4, <2>5, <2>6
    <3>2. Found(n)
      BY <1>1, <2>1
    <3> QED  BY <3>1, <3>2
  <2>7. CASE ~(q <= Begin(s, i))
    <3>1. q - Begin(s, i) \in 1 .. Size(s, i)
      BY <2>4, <2>5, <2>7
    <3>2. q = Begin(s, i) + (q - Begin(s, i))
      BY <2>4, <2>5
    <3> QED  BY <3>1, <3>2
  <2> QED  BY <2>6, <2>7
<1>5. G \in SUBSET Nat
  BY <1>2
<1>6. G = Nat
  BY <1>3, <1>4, <1>5, Induction
<1>7. Found(Len(s))
  BY <1>1, <1>2, <1>6
<1>8. Begin(s, Len(s) + 1) = Len(Stream(s))
  BY BeginLast
<1> QED  BY <1>7, <1>8

\* A message sent is put behind the stream, and changes nothing of what is there.
LEMMA StreamGrows ==
    ASSUME NEW s \in Seq(Messages), Len(s) < MaxSent, NEW x \in Messages
    PROVE  /\ Append(s, x) \in Seq(Messages) /\ Len(Append(s, x)) = Len(s) + 1
           /\ Encode(x, Len(s) + 1) \in Seq(Bytes)
           /\ Stream(Append(s, x)) = Stream(s) \o Encode(x, Len(s) + 1)
           /\ \A m \in 1 .. Len(s) + 1 : Begin(Append(s, x), m) = Begin(s, m)
           /\ \A m \in 1 .. Len(s) : Append(s, x)[m] = s[m]
<1>1. PICK t : t = Append(s, x)
  OBVIOUS
<1>2. /\ t \in Seq(Messages) /\ Len(t) = Len(s) + 1 /\ Len(s) \in Nat /\ Len(t) <= MaxSent
      /\ \A m \in 1 .. Len(s) : t[m] = s[m]
      /\ t[Len(s) + 1] = x
  <2>1. /\ t \in Seq(Messages) /\ Len(t) = Len(s) + 1 /\ Len(s) \in Nat
        /\ \A m \in 1 .. Len(s) : t[m] = s[m]
        /\ t[Len(s) + 1] = x
    BY <1>1, AppendProperties, LenProperties
  <2>2. MaxSent \in Nat
    BY Constants
  <2> QED  BY <2>1, <2>2
<1>3. /\ Encoded(t) \in Seq(Seq(Bytes)) /\ Len(Encoded(t)) = Len(t)
      /\ \A i \in 1 .. Len(t) : Encoded(t)[i] = Encode(t[i], i)
  BY <1>2, EncodedType
<1>4. /\ Encoded(s) \in Seq(Seq(Bytes)) /\ Len(Encoded(s)) = Len(s)
      /\ \A i \in 1 .. Len(s) : Encoded(s)[i] = Encode(s[i], i)
  <2>1. Len(s) <= MaxSent
    BY <1>2, Constants
  <2> QED  BY <2>1, EncodedType
<1>5. PICK e : e = Encode(x, Len(s) + 1)
  OBVIOUS
<1>6. e \in Seq(Bytes)
  <2>1. Len(s) + 1 \in 1 .. MaxSent
    BY <1>2, Constants
  <2> QED  BY <1>5, <2>1, EncodeFacts
<1>7. PICK a : a = Append(Encoded(s), e)
  OBVIOUS
<1>8. /\ a \in Seq(Seq(Bytes)) /\ Len(a) = Len(s) + 1
      /\ \A i \in 1 .. Len(s) : a[i] = Encoded(s)[i]
      /\ a[Len(s) + 1] = e
  BY <1>4, <1>6, <1>7, AppendProperties
<1>9. Encoded(t) = a
  <2>1. ASSUME NEW i \in 1 .. Len(t)  PROVE Encoded(t)[i] = a[i]
    <3>1. CASE i \in 1 .. Len(s)
      BY <1>2, <1>3, <1>4, <1>8, <3>1
    <3>2. CASE i = Len(s) + 1
      BY <1>2, <1>3, <1>5, <1>8, <3>2
    <3> QED  BY <1>2, <3>1, <3>2
  <2> QED  BY <1>2, <1>3, <1>8, <2>1, SeqEqual
<1>10. Stream(t) = Stream(s) \o e
  BY <1>4, <1>6, <1>7, <1>9, FlattenAppend DEF Stream
<1>11. ASSUME NEW m \in 1 .. Len(s) + 1  PROVE Begin(t, m) = Begin(s, m)
  <2>1. PICK k \in 0 .. Len(s) : k = m - 1
    <3>1. m - 1 \in 0 .. Len(s)
      BY <1>2
    <3> QED  BY <3>1
  <2>2. PICK u : u = SubSeq(a, 1, k)
    OBVIOUS
  <2>3. PICK v : v = SubSeq(Encoded(s), 1, k)
    OBVIOUS
  <2>4. 0 \in 0 .. Len(a) /\ k \in 0 .. Len(a) /\ 0 \in 0 .. Len(Encoded(s)) /\ k \in 0 .. Len(Encoded(s))
        /\ 0 + 1 = 1 /\ k - 0 = k
    BY <1>2, <1>4, <1>8
  <2>5. /\ SubSeq(a, 0 + 1, k) \in Seq(Seq(Bytes)) /\ Len(SubSeq(a, 0 + 1, k)) = k - 0
        /\ \A i \in 1 .. k - 0 : SubSeq(a, 0 + 1, k)[i] = a[0 + i]
    BY <1>8, <2>4, PieceType
  <2>6. /\ SubSeq(Encoded(s), 0 + 1, k) \in Seq(Seq(Bytes)) /\ Len(SubSeq(Encoded(s), 0 + 1, k)) = k - 0
        /\ \A i \in 1 .. k - 0 : SubSeq(Encoded(s), 0 + 1, k)[i] = Encoded(s)[0 + i]
    BY <1>4, <2>4, PieceType
  <2>7. /\ u \in Seq(Seq(Bytes)) /\ Len(u) = k /\ \A i \in 1 .. k : u[i] = a[i]
    BY <2>2, <2>4, <2>5
  <2>8. /\ v \in Seq(Seq(Bytes)) /\ Len(v) = k /\ \A i \in 1 .. k : v[i] = Encoded(s)[i]
    BY <2>3, <2>4, <2>6
  <2>9. ASSUME NEW i \in 1 .. k  PROVE u[i] = v[i]
    <3>1. i \in 1 .. Len(s)
      BY <1>2
    <3> QED  BY <1>8, <2>7, <2>8, <3>1
  <2>10. u = v
    BY <2>7, <2>8, <2>9, SeqEqual
  <2> QED  BY <1>9, <2>1, <2>2, <2>3, <2>10 DEF Begin
<1> QED  BY <1>1, <1>2, <1>5, <1>6, <1>10, <1>11

\* What the bytes of the m-th message are.
MessageAt(s, m) ==
    /\ s[m] \in Messages /\ m \in 1 .. MaxSent
    /\ Len(s[m].body) \in Nat /\ Size(s, m) = 4 + Len(s[m].body)
    /\ Begin(s, m) \in Nat /\ Begin(s, m + 1) = Begin(s, m) + 4 + Len(s[m].body)
    /\ Begin(s, m + 1) <= Len(Stream(s)) /\ Len(Stream(s)) \in Nat
    /\ \A k \in 1 .. 4 + Len(s[m].body) :
          /\ Stream(s)[Begin(s, m) + k].msg = m
          /\ Stream(s)[Begin(s, m) + k].cut = Place(k, Len(s[m].body))
    /\ Stream(s)[Begin(s, m) + 1].value = s[m].id[1]
    /\ Stream(s)[Begin(s, m) + 2].value = s[m].id[2]
    /\ Stream(s)[Begin(s, m) + 3].value = Len(s[m].body) % 256
    /\ Stream(s)[Begin(s, m) + 4].value = Len(s[m].body) \div 256
    /\ \A k \in 1 .. Len(s[m].body) :
          Stream(s)[Begin(s, m) + (4 + k)].value = s[m].body[k]

\* What is in the stream where the m-th message is: MessageAt.
LEMMA StreamBytes ==
    ASSUME NEW s \in Seq(Messages), Len(s) <= MaxSent, NEW m \in 1 .. Len(s)
    PROVE  MessageAt(s, m)
<1>1. Len(s) \in Nat /\ s[m] \in Messages /\ m \in 1 .. MaxSent /\ m \in 1 .. Len(s) + 1 /\ m + 1 \in 1 .. Len(s) + 1
  BY Constants
<1>2. PICK x \in Messages : x = s[m]
  BY <1>1
<1>3. PICK n : n = Len(x.body)
  OBVIOUS
<1>4. /\ Encode(x, m) \in Seq(Bytes)
      /\ n \in Nat
      /\ Len(Encode(x, m)) = 4 + n
      /\ \A k \in 1 .. 4 + n : Encode(x, m)[k].msg = m /\ Encode(x, m)[k].cut = Place(k, n)
      /\ Encode(x, m)[1].value = x.id[1]
      /\ Encode(x, m)[2].value = x.id[2]
      /\ Encode(x, m)[3].value = n % 256
      /\ Encode(x, m)[4].value = n \div 256
      /\ \A k \in 1 .. n : Encode(x, m)[4 + k].value = x.body[k]
  <2>1. /\ Encode(x, m) \in Seq(Bytes)
        /\ Len(x.body) \in Nat
        /\ Len(Encode(x, m)) = 4 + Len(x.body)
        /\ \A k \in 1 .. 4 + Len(x.body) :
              /\ Encode(x, m)[k].msg = m
              /\ Encode(x, m)[k].cut = Place(k, Len(x.body))
        /\ Encode(x, m)[1].value = x.id[1]
        /\ Encode(x, m)[2].value = x.id[2]
        /\ Encode(x, m)[3].value = Len(x.body) % 256
        /\ Encode(x, m)[4].value = Len(x.body) \div 256
        /\ \A k \in 1 .. Len(x.body) : Encode(x, m)[4 + k].value = x.body[k]
    <3>1. m \in 1 .. MaxSent
      BY <1>1
    <3> QED  BY <3>1, EncodeFacts, ZenonT(40)
  <2> QED  BY <1>3, <2>1, Zenon
<1>5. Size(s, m) = 4 + n
  BY <1>2, <1>3 DEF Size
<1>6. \A k \in 1 .. 4 + n : Stream(s)[Begin(s, m) + k] = Encode(x, m)[k]
  BY <1>2, <1>5, StreamAt
<1>7. Begin(s, m) \in Nat /\ Begin(s, m + 1) \in Nat
  BY <1>1, BeginType
<1>8. Begin(s, m + 1) = Begin(s, m) + 4 + n
  <2>1. Begin(s, m + 1) = Begin(s, m) + Size(s, m)
    BY BeginNext
  <2>2. PICK b \in Nat, c \in Nat : b = Begin(s, m) /\ c = Begin(s, m + 1)
    BY <1>7
  <2>3. c = b + (4 + n)
    BY <1>5, <2>1, <2>2
  <2>4. c = b + 4 + n
    BY <1>4, <2>3
  <2> QED  BY <2>2, <2>4
<1>9. Begin(s, m + 1) <= Len(Stream(s)) /\ Len(Stream(s)) \in Nat
  <2>1. PICK j \in 1 .. Len(s) + 1 : j = m + 1
    BY <1>1
  <2>2. PICK l \in j .. Len(s) + 1 : l = Len(s) + 1
    BY <1>1, <2>1
  <2>3. Begin(s, j) <= Begin(s, l)
    BY BeginGrows
  <2> QED  BY <2>1, <2>2, <2>3, BeginLast, StreamType
<1>10. \A k \in 1 .. 4 + n :
          /\ Stream(s)[Begin(s, m) + k].msg = m
          /\ Stream(s)[Begin(s, m) + k].cut = Place(k, n)
  BY <1>4, <1>6
<1>11. /\ Stream(s)[Begin(s, m) + 1].value = x.id[1]
       /\ Stream(s)[Begin(s, m) + 2].value = x.id[2]
       /\ Stream(s)[Begin(s, m) + 3].value = n % 256
       /\ Stream(s)[Begin(s, m) + 4].value = n \div 256
  <2>1. 1 \in 1 .. 4 + n /\ 2 \in 1 .. 4 + n /\ 3 \in 1 .. 4 + n /\ 4 \in 1 .. 4 + n
    BY <1>4
  <2> QED  BY <1>4, <1>6, <2>1
<1>12. ASSUME NEW k \in 1 .. n  PROVE Stream(s)[Begin(s, m) + (4 + k)].value = x.body[k]
  <2>1. PICK j \in 1 .. 4 + n : j = 4 + k
    <3>1. 4 + k \in 1 .. 4 + n
      BY <1>4
    <3> QED  BY <3>1
  <2>2. Stream(s)[Begin(s, m) + j].value = Encode(x, m)[j].value
    BY <1>6
  <2> QED  BY <1>4, <2>1, <2>2
<1> QED  BY <1>1, <1>2, <1>3, <1>4, <1>5, <1>7, <1>8, <1>9, <1>10, <1>11, <1>12 DEF MessageAt

(***************************************************************************)
(* The invariant. The stream of all bytes sent is cut by the state into    *)
(* what was consumed, what is left of the packet in hand, the packets      *)
(* buffered, the network and what is still to be sent. Three parts:        *)
(* StreamInv, where the bytes are and that each end of a packet inside a   *)
(* message is noted in cuts; ReaderInTurn, where in the message that is    *)
(* next the reader is, as long as it was kept in step; HandledRight, that  *)
(* the handlers were called right.                                         *)
(***************************************************************************)

\* The bytes that have been sent and are in no packet taken yet.
Coming == wire \o Unsent
Pending == FlattenSeq(buffered) \o wire \o Unsent

\* How many bytes have been received; have been in packets taken; have been consumed.
Received == Len(Stream(sent)) - Len(Coming)
Taken == Len(Stream(sent)) - Len(Pending)
Consumed == IF packet = NULL THEN Taken ELSE Taken - (Len(packet) - rpos)

InHand == IF packet = NULL THEN <<>> ELSE packet

\* The packet being processed and what is still to come are the end of what was sent.
InOrder == EndsWith(InHand \o Pending, Stream(sent))

\* A packet has bytes, and where it ends is noted.
Noted(bytes, noted) ==
    /\ bytes # <<>>
    /\ bytes[Len(bytes)].cut \in Cuts =>
           <<bytes[Len(bytes)].msg, bytes[Len(bytes)].cut>> \in noted

PacketsNoted ==
    /\ packet # NULL => Noted(packet, cuts)
    /\ \A i \in DOMAIN buffered : Noted(buffered[i], cuts)

CompleteExact ==
    /\ complete \in 0 .. Len(sent)
    /\ Begin(sent, complete + 1) <= Received
    /\ complete < Len(sent) => Received < Begin(sent, complete + 2)

\* Nothing is processed on a condemned channel, nor before the first packet.
Quiet ==
    /\ condemned => packet = NULL
    /\ ~handshaken => packet = NULL /\ handled = <<>> /\ Taken = 0

LengthFits == fragmentFlag = "length" => Len(fragmentDatas) + fragmentRemain >= 2

\* Where the reader is in the m-th message while those before it kept it in step.
Clean == currId = NoId /\ currMsgLen = 0 /\ fragmentStream = NULL
Known == currId[1] # 0 /\ fragmentStream = NULL
BodyLen(m) == Len(sent[m].body)

AtStart(m) == fragmentFlag = "unknown" /\ Clean /\ Consumed = Begin(sent, m)

InId(m) ==
    /\ fragmentFlag = "id" /\ Clean /\ Consumed = Begin(sent, m) + 1
    /\ Len(fragmentDatas) = 1 /\ fragmentRemain = 1
    /\ fragmentDatas[1].value = sent[m].id[1]
    /\ <<m, "id">> \in cuts

IdRead(m) ==
    /\ fragmentFlag = "unknown" /\ Known /\ currMsgLen = 0
    /\ Consumed = Begin(sent, m) + 2
    /\ <<m, "id">> \in cuts

InLength(m) ==
    /\ fragmentFlag = "length" /\ Known /\ currMsgLen = 0
    /\ Len(fragmentDatas) + fragmentRemain = 2
    /\ \A j \in 1 .. Len(fragmentDatas) :
          fragmentDatas[j].value = Stream(sent)[Begin(sent, m) + (2 + j)].value
    /\ Consumed = Begin(sent, m) + 2 + Len(fragmentDatas)
    /\ InStep(m) => /\ currId = sent[m].id /\ Len(fragmentDatas) = 0
                    /\ BodyLen(m) # 0 /\ <<m, "between">> \in cuts
                    /\ packet # NULL => rpos \in {0, Len(packet)}

LengthRead(m) ==
    /\ fragmentFlag = "unknown" /\ Known
    /\ currMsgLen = BodyLen(m) /\ BodyLen(m) # 0
    /\ Consumed = Begin(sent, m) + 4
    /\ InStep(m) => currId = sent[m].id /\ packet # NULL /\ rpos = 2 /\ rpos < Len(packet)

InBody(m) ==
    /\ fragmentFlag = "body" /\ Known /\ currMsgLen = BodyLen(m)
    /\ Len(fragmentDatas) + fragmentRemain = BodyLen(m)
    /\ Consumed = Begin(sent, m) + 4 + Len(fragmentDatas)
    /\ ~WholeBody(m)
    /\ InStep(m) => currId = sent[m].id

BodyRead(m) ==
    /\ fragmentFlag = "unknown" /\ currId = sent[m].id
    /\ currMsgLen = BodyLen(m) /\ BodyLen(m) # 0
    /\ packet # NULL /\ fragmentStream # NULL
    /\ Consumed = Begin(sent, m) + 4 + BodyLen(m)
    /\ ~WholeBody(m)

InMessage(m) ==
    m <= Len(sent) /\ (InId(m) \/ IdRead(m) \/ InLength(m) \/ LengthRead(m) \/ InBody(m) \/ BodyRead(m))

\* A reader out of step does not get to the next message before this one is all there.
Lost(m) == m <= Len(sent) /\ ~InStep(m) /\ Begin(sent, m + 1) <= Taken

InTurn(m) ==
    \/ (packet # NULL => rpos <= Len(packet)) /\ (AtStart(m) \/ InMessage(m))
    \/ Lost(m)

ReaderInTurn ==
    handshaken /\ ~condemned /\ InStep(Len(handled)) => InTurn(Len(handled) + 1)

HandledRight ==
    \A i \in DOMAIN handled :
        /\ InStep(i - 1) => i <= complete
        /\ InStep(i) => /\ handled[i].id = sent[i].id
                        /\ WholeBody(i) => handled[i].body = sent[i].body

Types ==
    /\ bundles \in Seq(Seq(Bytes)) /\ sentSize \in 0 .. Len(FlattenSeq(bundles))
    /\ {sending, broken, handshaken, condemned} \subseteq BOOLEAN
    /\ wire \in Seq(Bytes) /\ buffered \in Seq(Seq(Bytes))
    /\ connection \in 1 .. MaxConnections
    /\ sent \in Seq(Messages) /\ Len(sent) <= MaxSent
    /\ cuts \subseteq (1 .. MaxSent) \X Cuts
    /\ {packet, fragmentStream} \subseteq Seq(Bytes) \cup {NULL}
    /\ rpos \in Nat /\ currId \in Byte \X Byte /\ currMsgLen \in Nat
    /\ fragmentFlag \in {"unknown", "id", "length", "body"}
    /\ fragmentDatas \in Seq(Bytes) /\ fragmentRemain \in Nat
    /\ fragmentFlag = "unknown" <=> fragmentRemain = 0
    /\ handled \in Seq([id : Handlers, body : Seq(Byte)])

StreamInv == Types /\ LengthFits /\ InOrder /\ PacketsNoted /\ CompleteExact /\ Quiet
ChannelInv == StreamInv /\ ReaderInTurn /\ HandledRight

Measured ==
    /\ Stream(sent) \in Seq(Bytes) /\ Len(Stream(sent)) \in Nat
    /\ FlattenSeq(bundles) \in Seq(Bytes)
    /\ Unsent \in Seq(Bytes) /\ Len(Unsent) = Len(FlattenSeq(bundles)) - sentSize
    /\ Coming \in Seq(Bytes) /\ Len(Coming) \in Nat
    /\ FlattenSeq(buffered) \in Seq(Bytes) /\ Len(FlattenSeq(buffered)) \in Nat
    /\ Pending = FlattenSeq(buffered) \o Coming
    /\ Pending \in Seq(Bytes)
    /\ Len(Pending) = Len(FlattenSeq(buffered)) + Len(Coming)
    /\ InHand \in Seq(Bytes)
    /\ packet # NULL => packet \in Seq(Bytes) /\ Len(packet) \in Nat

\* The amounts the invariant speaks of are numbers of bytes.
LEMMA Amounts == Types => Measured
<1> SUFFICES ASSUME Types  PROVE Measured
  OBVIOUS
<1>1. Stream(sent) \in Seq(Bytes) /\ Len(Stream(sent)) \in Nat
  BY StreamType DEF Types
<1>2. FlattenSeq(bundles) \in Seq(Bytes) /\ sentSize \in 0 .. Len(FlattenSeq(bundles))
  BY FlattenType DEF Types
<1>3. Unsent \in Seq(Bytes) /\ Len(Unsent) = Len(FlattenSeq(bundles)) - sentSize
  BY <1>2, BehindType DEF Unsent
<1>4. wire \in Seq(Bytes)
  BY DEF Types
<1>5. Coming \in Seq(Bytes)
  BY <1>3, <1>4, ConcatProperties DEF Coming
<1>6. FlattenSeq(buffered) \in Seq(Bytes)
  BY FlattenType DEF Types
<1>7. Pending = FlattenSeq(buffered) \o Coming
  <2>1. PICK f \in Seq(Bytes) : f = FlattenSeq(buffered)
    BY <1>6
  <2>2. PICK w \in Seq(Bytes) : w = wire
    BY <1>4
  <2>3. PICK u \in Seq(Bytes) : u = Unsent
    BY <1>3
  <2>4. f \o (w \o u) = (f \o w) \o u
    BY Regroup
  <2> QED  BY <2>1, <2>2, <2>3, <2>4 DEF Pending, Coming
<1>8. Pending \in Seq(Bytes) /\ Len(Pending) = Len(FlattenSeq(buffered)) + Len(Coming)
  BY <1>5, <1>6, <1>7, ConcatProperties
<1>9. packet # NULL => packet \in Seq(Bytes)
  BY DEF Types
<1>10. InHand \in Seq(Bytes)
  BY <1>9 DEF InHand
<1>11. Len(Coming) \in Nat /\ Len(FlattenSeq(buffered)) \in Nat /\ (packet # NULL => Len(packet) \in Nat)
  BY <1>5, <1>6, <1>9
<1> QED  BY <1>1, <1>2, <1>3, <1>5, <1>6, <1>7, <1>8, <1>9, <1>10, <1>11 DEF Measured

\* The same after a step.
LEMMA AmountsNext == Types' => Measured'
  BY Amounts, PTL

Ordered ==
    /\ EndsWith(Pending, Stream(sent)) /\ EndsWith(Coming, Stream(sent))
    /\ Taken \in Nat /\ Received \in Nat /\ Taken <= Received
    /\ Received = Taken + Len(FlattenSeq(buffered))
    /\ Received + Len(Coming) = Len(Stream(sent))
    /\ packet # NULL =>
          /\ Len(packet) <= Taken
          /\ \A i \in 1 .. Len(packet) :
                packet[i] = Stream(sent)[Taken - Len(packet) + i]

\* The order of the bytes, spelled out for what is pending, coming and in the packet.
LEMMA Order == Types /\ InOrder => Ordered
<1> SUFFICES ASSUME Types, InOrder  PROVE Ordered
  OBVIOUS
<1>1. /\ Stream(sent) \in Seq(Bytes) /\ Len(Stream(sent)) \in Nat
      /\ Coming \in Seq(Bytes) /\ Len(Coming) \in Nat
      /\ FlattenSeq(buffered) \in Seq(Bytes) /\ Len(FlattenSeq(buffered)) \in Nat
      /\ Pending = FlattenSeq(buffered) \o Coming
      /\ Pending \in Seq(Bytes)
      /\ Len(Pending) = Len(FlattenSeq(buffered)) + Len(Coming)
      /\ InHand \in Seq(Bytes)
  BY Amounts DEF Measured
<1>2. EndsWith(Pending, Stream(sent))
  BY <1>1, EndsWithRest DEF InOrder
<1>3. EndsWith(Coming, Stream(sent))
  BY <1>1, <1>2, EndsWithRest
<1>4. Len(Pending) <= Len(Stream(sent)) /\ Len(Coming) <= Len(Stream(sent)) /\ Len(Pending) \in Nat
  BY <1>1, <1>2, <1>3 DEF EndsWith
<1>5. /\ Taken \in Nat /\ Received \in Nat /\ Taken <= Received
      /\ Received = Taken + Len(FlattenSeq(buffered))
      /\ Received + Len(Coming) = Len(Stream(sent))
  BY <1>1, <1>4 DEF Taken, Received
<1>6. ASSUME packet # NULL
      PROVE  /\ Len(packet) <= Taken
             /\ \A i \in 1 .. Len(packet) : packet[i] = Stream(sent)[Taken - Len(packet) + i]
  <2>1. packet \in Seq(Bytes) /\ Len(packet) \in Nat /\ InHand = packet
    BY <1>6, Amounts DEF Measured, InHand
  <2>2. PICK all : all = packet \o Pending
    OBVIOUS
  <2>3. EndsWith(all, Stream(sent))
    BY <2>1, <2>2 DEF InOrder
  <2>4. /\ Len(all) = Len(packet) + Len(Pending)
        /\ \A i \in 1 .. Len(packet) + Len(Pending) :
              all[i] = IF i <= Len(packet) THEN packet[i] ELSE Pending[i - Len(packet)]
    BY <1>1, <2>1, <2>2, ConcatProperties
  <2>5. Len(packet) <= Taken
    BY <1>1, <1>4, <2>1, <2>3, <2>4 DEF EndsWith, Taken
  <2>6. ASSUME NEW i \in 1 .. Len(packet)
        PROVE  packet[i] = Stream(sent)[Taken - Len(packet) + i]
    <3>1. i \in 1 .. Len(all) /\ i \in 1 .. Len(packet) + Len(Pending) /\ i <= Len(packet)
      BY <1>4, <2>1, <2>4
    <3>2. all[i] = packet[i]
      BY <2>4, <3>1
    <3>3. all[i] = Stream(sent)[Len(Stream(sent)) - Len(all) + i]
      BY <2>3, <3>1 DEF EndsWith
    <3>4. Len(Stream(sent)) - Len(all) + i = Taken - Len(packet) + i
      BY <1>1, <1>4, <2>1, <2>4 DEF Taken
    <3> QED  BY <3>2, <3>3, <3>4
  <2> QED  BY <2>5, <2>6
<1> QED  BY <1>2, <1>3, <1>5, <1>6 DEF Ordered

\* What is behind the first elements of the first of two sequences.
LEMMA BehindConcat ==
    ASSUME NEW S, NEW a \in Seq(S), NEW b \in Seq(S), NEW n \in 0 .. Len(a)
    PROVE  Behind(a \o b, n) = Behind(a, n) \o b
<1>1. Len(a) \in Nat /\ Len(b) \in Nat
  OBVIOUS
<1>2. PICK ab : ab = a \o b
  OBVIOUS
<1>3. /\ ab \in Seq(S) /\ Len(ab) = Len(a) + Len(b)
      /\ \A i \in 1 .. Len(a) + Len(b) : ab[i] = IF i <= Len(a) THEN a[i] ELSE b[i - Len(a)]
  BY <1>2, ConcatProperties
<1>4. PICK c : c = Behind(ab, n)
  OBVIOUS
<1>5. c \in Seq(S) /\ Len(c) = Len(ab) - n /\ \A i \in 1 .. Len(ab) - n : c[i] = ab[n + i]
  <2>1. n \in 0 .. Len(ab)
    BY <1>1, <1>3
  <2> QED  BY <1>3, <1>4, <2>1, BehindType
<1>6. PICK d : d = Behind(a, n)
  OBVIOUS
<1>7. d \in Seq(S) /\ Len(d) = Len(a) - n /\ \A i \in 1 .. Len(a) - n : d[i] = a[n + i]
  BY <1>6, BehindType
<1>8. PICK e : e = d \o b
  OBVIOUS
<1>9. /\ e \in Seq(S) /\ Len(e) = Len(d) + Len(b)
      /\ \A i \in 1 .. Len(d) + Len(b) : e[i] = IF i <= Len(d) THEN d[i] ELSE b[i - Len(d)]
  BY <1>7, <1>8, ConcatProperties
<1>10. ASSUME NEW i \in 1 .. Len(c)  PROVE c[i] = e[i]
  <2>1. i \in 1 .. Len(ab) - n /\ n + i \in 1 .. Len(a) + Len(b) /\ i \in 1 .. Len(d) + Len(b)
    BY <1>1, <1>3, <1>5, <1>7
  <2>2. c[i] = ab[n + i]
    BY <1>5, <2>1
  <2>3. CASE i <= Len(d)
    <3>1. n + i <= Len(a) /\ i \in 1 .. Len(a) - n
      BY <1>1, <1>7, <2>1, <2>3
    <3>2. ab[n + i] = a[n + i]
      BY <1>3, <2>1, <3>1
    <3> QED  BY <1>7, <1>9, <2>1, <2>2, <2>3, <3>1, <3>2
  <2>4. CASE ~(i <= Len(d))
    <3>1. ~(n + i <= Len(a)) /\ (n + i) - Len(a) = i - Len(d)
      BY <1>1, <1>7, <2>1, <2>4
    <3>2. ab[n + i] = b[(n + i) - Len(a)]
      BY <1>3, <2>1, <3>1
    <3> QED  BY <1>9, <2>1, <2>2, <2>4, <3>1, <3>2
  <2> QED  BY <2>3, <2>4
<1>11. c = e
  <2>1. Len(c) = Len(e)
    BY <1>1, <1>3, <1>5, <1>7, <1>9
  <2> QED  BY <1>5, <1>9, <1>10, <2>1, SeqEqual
<1> QED  BY <1>2, <1>4, <1>6, <1>8, <1>11

\* The bundles behind the first j hold the bytes behind theirs.
LEMMA FlattenBehind ==
    ASSUME NEW S, NEW s \in Seq(Seq(S)), NEW j \in 0 .. Len(s)
    PROVE  /\ Behind(s, j) \in Seq(Seq(S))
           /\ FlattenSeq(SubSeq(s, 1, j)) \in Seq(S)
           /\ FlattenSeq(s) \in Seq(S)
           /\ Len(FlattenSeq(SubSeq(s, 1, j))) \in 0 .. Len(FlattenSeq(s))
           /\ FlattenSeq(Behind(s, j)) = Behind(FlattenSeq(s), Len(FlattenSeq(SubSeq(s, 1, j))))
<1>1. Len(s) \in Nat
  OBVIOUS
<1>2. PICK f : f = SubSeq(s, 1, j)
  OBVIOUS
<1>3. f \in Seq(Seq(S))
  <2>1. 0 \in 0 .. Len(s) /\ j \in 0 .. Len(s) /\ 0 + 1 = 1
    BY <1>1
  <2>2. SubSeq(s, 0 + 1, j) \in Seq(Seq(S))
    BY <2>1, PieceType
  <2> QED  BY <1>2, <2>1, <2>2
<1>4. PICK g : g = Behind(s, j)
  OBVIOUS
<1>5. g \in Seq(Seq(S))
  BY <1>4, BehindType
<1>6. s = f \o g
  <2>1. 1 \in 1 .. Len(s) + 1 /\ j \in 1 - 1 .. Len(s) /\ Len(s) \in j .. Len(s)
    BY <1>1
  <2>2. SubSeq(s, 1, j) \o SubSeq(s, j + 1, Len(s)) = SubSeq(s, 1, Len(s))
    BY <2>1, ConcatAdjacentSubSeq
  <2>3. SubSeq(s, 1, Len(s)) = s
    BY SubSeqFull
  <2> QED  BY <1>2, <1>4, <2>2, <2>3 DEF Behind
<1>7. PICK a : a = FlattenSeq(f)
  OBVIOUS
<1>8. PICK b : b = FlattenSeq(g)
  OBVIOUS
<1>9. a \in Seq(S) /\ b \in Seq(S) /\ Len(a) \in Nat
  BY <1>3, <1>5, <1>7, <1>8, FlattenType
<1>10. FlattenSeq(s) = a \o b
  BY <1>3, <1>5, <1>6, <1>7, <1>8, FlattenConcat
<1>11. Behind(a \o b, Len(a)) = Behind(a, Len(a)) \o b
  <2>1. Len(a) \in 0 .. Len(a)
    BY <1>9
  <2> QED  BY <1>9, <2>1, BehindConcat
<1>12. Behind(a, Len(a)) = <<>>
  <2>1. Len(a) + 1 \in Int /\ Len(a) \in Int /\ Len(a) < Len(a) + 1
    BY <1>9
  <2> QED  BY <2>1, SubSeqEmpty DEF Behind
<1>13. <<>> \o b = b
  BY <1>9, ConcatEmptySeq
<1>14. FlattenSeq(s) \in Seq(S) /\ Len(a) \in 0 .. Len(FlattenSeq(s))
  <2>1. FlattenSeq(s) \in Seq(S) /\ Len(FlattenSeq(s)) = Len(a) + Len(b)
    BY <1>9, <1>10, ConcatProperties
  <2>2. Len(b) \in Nat
    BY <1>9
  <2> QED  BY <1>9, <2>1, <2>2
<1> QED  BY <1>2, <1>4, <1>5, <1>7, <1>8, <1>9, <1>10, <1>11, <1>12, <1>13, <1>14

\* However much the socket takes, what is in the network and what is still to be sent are what
\* they were together: processSend neither loses, repeats nor reorders a byte.
LEMMA SendsInOrder ==
    ASSUME NEW queue \in Seq(Seq(Bytes)), sentSize \in 0 .. Len(FlattenSeq(queue)),
           NEW n \in 0 .. Len(FlattenSeq(queue)) - sentSize, wire \in Seq(Bytes),
           ProcessSend(queue, n)
    PROVE  /\ bundles' \in Seq(Seq(Bytes)) /\ sentSize' \in 0 .. Len(FlattenSeq(bundles'))
           /\ wire' \in Seq(Bytes)
           /\ Coming' = wire \o Behind(FlattenSeq(queue), sentSize)
<1>1. PICK all : all = FlattenSeq(queue)
  OBVIOUS
<1>2. all \in Seq(Bytes) /\ Len(all) \in Nat /\ sentSize \in 0 .. Len(all) /\ n \in 0 .. Len(all) - sentSize
  BY <1>1, FlattenType
<1>3. PICK gone : gone = sentSize + n
  OBVIOUS
<1>4. gone \in sentSize .. Len(all) /\ sentSize \in Nat /\ gone \in Nat
  BY <1>2, <1>3
<1>5. PICK out : out = SubSeq(all, sentSize + 1, gone)
  OBVIOUS
<1>6. out \in Seq(Bytes)
  BY <1>2, <1>4, <1>5, PieceType
<1>7. wire' = wire \o out
  BY <1>1, <1>3, <1>5 DEF ProcessSend
<1>8. wire' \in Seq(Bytes)
  BY <1>6, <1>7, ConcatProperties
<1>9. out \o Behind(all, gone) = Behind(all, sentSize) /\ Behind(all, gone) \in Seq(Bytes)
  <2>1. /\ sentSize + 1 \in 1 .. Len(all) + 1 /\ gone \in (sentSize + 1) - 1 .. Len(all)
        /\ Len(all) \in gone .. Len(all) /\ gone \in 0 .. Len(all)
    BY <1>2, <1>4
  <2>2. PICK p \in 1 .. Len(all) + 1 : p = sentSize + 1
    BY <2>1
  <2>3. SubSeq(all, p, gone) \o SubSeq(all, gone + 1, Len(all)) = SubSeq(all, p, Len(all))
    BY <1>2, <2>1, <2>2, ConcatAdjacentSubSeq
  <2>4. Behind(all, gone) \in Seq(Bytes)
    BY <1>2, <2>1, BehindType
  <2> QED  BY <1>5, <2>2, <2>3, <2>4 DEF Behind
<1>10. ASSUME Behind(FlattenSeq(bundles'), sentSize') = Behind(all, gone)
       PROVE  Coming' = wire \o Behind(all, sentSize)
  <2>1. Unsent' = Behind(all, gone)
    BY <1>10 DEF Unsent
  <2>2. Coming' = wire' \o Behind(all, gone)
    BY <2>1 DEF Coming
  <2>3. (wire \o out) \o Behind(all, gone) = wire \o (out \o Behind(all, gone))
    <3>1. PICK rest \in Seq(Bytes) : rest = Behind(all, gone)
      BY <1>9
    <3>2. PICK w \in Seq(Bytes) : w = wire
      OBVIOUS
    <3>3. PICK o \in Seq(Bytes) : o = out
      BY <1>6
    <3>4. w \o (o \o rest) = (w \o o) \o rest
      BY Regroup
    <3> QED  BY <3>1, <3>2, <3>3, <3>4
  <2> QED  BY <1>7, <1>9, <2>2, <2>3
<1>11. CASE gone = Len(all)
  <2>1. bundles' = <<>> /\ sentSize' = 0
    BY <1>1, <1>3, <1>11 DEF ProcessSend
  <2>2. FlattenSeq(bundles') = <<>>
    BY <2>1, FlattenEmpty
  <2>3. bundles' \in Seq(Seq(Bytes)) /\ sentSize' \in 0 .. Len(FlattenSeq(bundles'))
    BY <2>1, <2>2
  <2>4. Behind(FlattenSeq(bundles'), sentSize') = <<>>
    <3>1. SubSeq(<<>>, 0 + 1, 0) = <<>> /\ Len(<<>>) = 0
      BY SubSeqEmpty
    <3> QED  BY <2>1, <2>2, <3>1 DEF Behind
  <2>5. Behind(all, gone) = <<>>
    <3>1. Len(all) + 1 \in Int /\ Len(all) \in Int /\ Len(all) < Len(all) + 1
      BY <1>2
    <3> QED  BY <1>11, <3>1, SubSeqEmpty DEF Behind
  <2> QED  BY <1>1, <1>8, <1>10, <2>3, <2>4, <2>5
<1>12. CASE gone # Len(all)
  <2> DEFINE before(j) == FlattenSeq(SubSeq(queue, 1, j))
  <2>1. PICK j \in DOMAIN queue :
            /\ Len(before(j - 1)) <= gone /\ gone < Len(before(j))
            /\ bundles' = Behind(queue, j - 1)
            /\ sentSize' = gone - Len(before(j - 1))
    BY <1>1, <1>3, <1>12 DEF ProcessSend
  <2>2. j \in 1 .. Len(queue) /\ Len(queue) \in Nat
    OBVIOUS
  <2>3. j - 1 \in 0 .. Len(queue)
    BY <2>2
  <2>4. PICK k \in 0 .. Len(queue) : k = j - 1
    BY <2>3
  <2>5. PICK b : b = Len(before(k))
    OBVIOUS
  <2>6. /\ bundles' \in Seq(Seq(Bytes)) /\ b \in 0 .. Len(all)
        /\ FlattenSeq(bundles') = Behind(all, b)
    BY <1>1, <2>1, <2>4, <2>5, FlattenBehind
  <2>7. b <= gone /\ sentSize' = gone - b
    BY <2>1, <2>4, <2>5
  <2>8. Behind(all, b) \in Seq(Bytes) /\ Len(Behind(all, b)) = Len(all) - b
    BY <1>2, <2>6, BehindType
  <2>9. sentSize' \in 0 .. Len(FlattenSeq(bundles'))
    BY <1>2, <1>4, <2>6, <2>7, <2>8
  <2>10. PICK d \in 0 .. Len(all) - b : d = gone - b
    <3>1. gone - b \in 0 .. Len(all) - b
      BY <1>2, <1>4, <2>6, <2>7
    <3> QED  BY <3>1
  <2>11. Behind(Behind(all, b), d) = Behind(all, b + d)
    BY <1>2, <2>6, BehindBehind
  <2>12. b + d = gone
    BY <1>2, <1>4, <2>6, <2>10
  <2>13. Behind(FlattenSeq(bundles'), sentSize') = Behind(all, gone)
    BY <2>6, <2>7, <2>10, <2>11, <2>12
  <2> QED  BY <1>1, <1>8, <1>10, <2>6, <2>9, <2>13
<1> QED  BY <1>11, <1>12

(***************************************************************************)
(* What the sender does.                                                   *)
(***************************************************************************)

\* What sending leaves to the receiver's side.
ReceiverUnchanged ==
    UNCHANGED <<readerVars, receiveVars, connection, cuts, complete>>

Sends(m) ==
    /\ Types' /\ ReceiverUnchanged
    /\ Len(sent) < MaxSent /\ sent' = Append(sent, m)
    /\ Coming' = Coming \o Encode(m, Len(sent) + 1)

\* Bytes queued come behind those that are coming.
LEMMA BehindComing ==
    ASSUME NEW e \in Seq(Bytes), wire \in Seq(Bytes), Unsent \in Seq(Bytes)
    PROVE  wire \o (Unsent \o e) = Coming \o e
<1>1. PICK w \in Seq(Bytes) : w = wire
  OBVIOUS
<1>2. PICK u \in Seq(Bytes) : u = Unsent
  OBVIOUS
<1>3. w \o (u \o e) = (w \o u) \o e
  BY Regroup
<1> QED  BY <1>1, <1>2, <1>3 DEF Coming

\* Channel::send on an idle channel puts the message behind the stream.
LEMMA SendNowSends ==
    ASSUME Types, NEW m \in Messages, SendNow(m)
    PROVE  Sends(m)
<1>1. /\ bundles \in Seq(Seq(Bytes)) /\ sentSize \in 0 .. Len(FlattenSeq(bundles))
      /\ wire \in Seq(Bytes) /\ sent \in Seq(Messages) /\ Len(sent) < MaxSent
  BY DEF Types, SendNow
<1>2. PICK e : e = Encode(m, Len(sent) + 1)
  OBVIOUS
<1>3. /\ Append(sent, m) \in Seq(Messages) /\ Len(Append(sent, m)) = Len(sent) + 1
      /\ e \in Seq(Bytes)
  BY <1>1, <1>2, StreamGrows
<1>4. PICK queue : queue = Append(bundles, e)
  OBVIOUS
<1>5. queue \in Seq(Seq(Bytes)) /\ FlattenSeq(queue) = FlattenSeq(bundles) \o e
  BY <1>1, <1>3, <1>4, FlattenAppend, AppendProperties
<1>6. FlattenSeq(bundles) \in Seq(Bytes) /\ Len(FlattenSeq(bundles)) \in Nat /\ Len(e) \in Nat
  BY <1>1, <1>3, FlattenType
<1>7. Len(FlattenSeq(queue)) = Len(FlattenSeq(bundles)) + Len(e)
  BY <1>3, <1>5, <1>6, ConcatProperties
<1>8. sentSize \in 0 .. Len(FlattenSeq(queue))
  BY <1>1, <1>6, <1>7
<1>9. PICK n \in 0 .. Len(FlattenSeq(queue)) - sentSize :
          ProcessSend(queue, n) /\ SendOutcome(queue, n)
  BY <1>2, <1>4 DEF SendNow
<1>10. /\ bundles' \in Seq(Seq(Bytes)) /\ sentSize' \in 0 .. Len(FlattenSeq(bundles'))
       /\ wire' \in Seq(Bytes)
       /\ Coming' = wire \o Behind(FlattenSeq(queue), sentSize)
  BY <1>1, <1>5, <1>8, <1>9, SendsInOrder
<1>11. Behind(FlattenSeq(queue), sentSize) = Unsent \o e
  BY <1>1, <1>3, <1>5, <1>6, BehindConcat DEF Unsent
<1>12. wire \o (Unsent \o e) = Coming \o e
  <2>1. Unsent \in Seq(Bytes)
    BY Amounts DEF Measured
  <2> QED  BY <1>1, <1>3, <2>1, BehindComing
<1>13. {sending', broken'} \subseteq BOOLEAN
  BY <1>9 DEF SendOutcome, Types
<1>14. ReceiverUnchanged /\ sent' = Append(sent, m)
  BY DEF SendNow, ReceiverUnchanged
<1>15. Len(sent') <= MaxSent
  BY <1>1, <1>3, <1>14, Constants
<1>16. Types'
  BY <1>3, <1>10, <1>13, <1>14, <1>15 DEF Types, ReceiverUnchanged, readerVars, receiveVars, fragmentVars
<1> QED  BY <1>1, <1>2, <1>10, <1>11, <1>12, <1>14, <1>16 DEF Sends

\* Channel::send while the poller is at it does so, too.
LEMMA SendLaterSends ==
    ASSUME Types, NEW m \in Messages, SendLater(m)
    PROVE  Sends(m)
<1>1. /\ bundles \in Seq(Seq(Bytes)) /\ sentSize \in 0 .. Len(FlattenSeq(bundles))
      /\ wire \in Seq(Bytes) /\ sent \in Seq(Messages) /\ Len(sent) < MaxSent
  BY DEF Types, SendLater
<1>2. PICK e : e = Encode(m, Len(sent) + 1)
  OBVIOUS
<1>3. /\ Append(sent, m) \in Seq(Messages) /\ Len(Append(sent, m)) = Len(sent) + 1
      /\ e \in Seq(Bytes)
  BY <1>1, <1>2, StreamGrows
<1>4. bundles' = Append(bundles, e) /\ UNCHANGED <<sentSize, sending, wire>>
  BY <1>2 DEF SendLater
<1>5. bundles' \in Seq(Seq(Bytes)) /\ FlattenSeq(bundles') = FlattenSeq(bundles) \o e
  BY <1>1, <1>3, <1>4, FlattenAppend, AppendProperties
<1>6. FlattenSeq(bundles) \in Seq(Bytes) /\ Len(FlattenSeq(bundles)) \in Nat /\ Len(e) \in Nat
  BY <1>1, <1>3, FlattenType
<1>7. Len(FlattenSeq(bundles) \o e) = Len(FlattenSeq(bundles)) + Len(e)
  BY <1>3, <1>6, ConcatProperties
<1>8. sentSize' \in 0 .. Len(FlattenSeq(bundles'))
  BY <1>1, <1>4, <1>5, <1>6, <1>7
<1>9. Unsent' = Unsent \o e
  <2>1. Behind(FlattenSeq(bundles) \o e, sentSize) = Behind(FlattenSeq(bundles), sentSize) \o e
    BY <1>1, <1>3, <1>6, BehindConcat
  <2>2. Unsent' = Behind(FlattenSeq(bundles'), sentSize')
    BY DEF Unsent
  <2> QED  BY <1>4, <1>5, <2>1, <2>2 DEF Unsent
<1>10. Coming' = Coming \o e
  <2>1. Unsent \in Seq(Bytes)
    BY Amounts DEF Measured
  <2>2. wire \o (Unsent \o e) = Coming \o e
    BY <1>1, <1>3, <2>1, BehindComing
  <2> QED  BY <1>4, <1>9, <2>2 DEF Coming
<1>11. broken' \in BOOLEAN
  BY DEF SendLater
<1>12. ReceiverUnchanged /\ sent' = Append(sent, m)
  BY DEF SendLater, ReceiverUnchanged
<1>13. Len(sent') <= MaxSent
  BY <1>1, <1>3, <1>12, Constants
<1>14. Types'
  BY <1>3, <1>4, <1>5, <1>8, <1>11, <1>12, <1>13
     DEF Types, ReceiverUnchanged, readerVars, receiveVars, fragmentVars
<1> QED  BY <1>1, <1>2, <1>10, <1>12, <1>14 DEF Sends

\* The poller sends nothing new.
LEMMA PollerSendSends ==
    ASSUME Types, PollerSend
    PROVE  Types' /\ ReceiverUnchanged /\ UNCHANGED sent /\ Coming' = Coming
<1>1. /\ bundles \in Seq(Seq(Bytes)) /\ sentSize \in 0 .. Len(FlattenSeq(bundles))
      /\ wire \in Seq(Bytes)
  BY DEF Types
<1>2. PICK n \in 0 .. Len(Unsent) : ProcessSend(bundles, n) /\ SendOutcome(bundles, n)
  BY DEF PollerSend
<1>3. n \in 0 .. Len(FlattenSeq(bundles)) - sentSize
  BY Amounts DEF Measured
<1>4. /\ bundles' \in Seq(Seq(Bytes)) /\ sentSize' \in 0 .. Len(FlattenSeq(bundles'))
      /\ wire' \in Seq(Bytes)
      /\ Coming' = wire \o Behind(FlattenSeq(bundles), sentSize)
  BY <1>1, <1>2, <1>3, SendsInOrder
<1>5. {sending', broken'} \subseteq BOOLEAN
  BY <1>2 DEF SendOutcome, Types
<1>6. ReceiverUnchanged /\ UNCHANGED sent
  BY DEF PollerSend, ReceiverUnchanged, history
<1>7. Types'
  BY <1>4, <1>5, <1>6 DEF Types, ReceiverUnchanged, readerVars, receiveVars, fragmentVars
<1> QED  BY <1>4, <1>6, <1>7 DEF Coming, Unsent

(***************************************************************************)
(* What the reader and the handlers have done stays right when more is     *)
(* sent.                                                                   *)
(***************************************************************************)

\* Of a length that is cut at most one byte is there.
LEMMA OneOrNone ==
    ASSUME NEW a \in Nat, NEW b \in Nat \ {0}, a + b = 2
    PROVE  a \in {0, 1}
  OBVIOUS

\* Which is its first.
LEMMA OneInOne ==
    ASSUME NEW a \in {0, 1}, NEW j \in 1 .. a
    PROVE  j = 1 /\ 2 + j = 3
  OBVIOUS

\* A reader that does not move is where it was, however much has been sent or received.
LEMMA TurnKept ==
    ASSUME NEW m, m <= Len(sent) + 1, InTurn(m),
           UNCHANGED readerVars, Taken' = Taken, cuts \subseteq cuts',
           Begin(sent', m) = Begin(sent, m),
           m <= Len(sent) =>
               /\ m <= Len(sent') /\ sent'[m] = sent[m]
               /\ Begin(sent', m + 1) = Begin(sent, m + 1)
               /\ Stream(sent')[Begin(sent, m) + 3] = Stream(sent)[Begin(sent, m) + 3]
               /\ Stream(sent')[Begin(sent, m) + 4] = Stream(sent)[Begin(sent, m) + 4],
           fragmentDatas \in Seq(Bytes), fragmentRemain \in Nat, fragmentFlag = "unknown" <=> fragmentRemain = 0
    PROVE  InTurn(m)'
<1>1. /\ UNCHANGED <<packet, rpos, currId, currMsgLen, fragmentFlag, fragmentDatas, fragmentRemain, fragmentStream>>
  BY DEF readerVars, fragmentVars
<1>2. Consumed' = Consumed
  BY <1>1 DEF Consumed
<1>3. InStep(m)' => InStep(m)
  BY DEF InStep
<1>4. ~WholeBody(m) => ~WholeBody(m)'
  BY DEF WholeBody
<1>5. CASE (packet # NULL => rpos <= Len(packet)) /\ AtStart(m)
  <2>1. AtStart(m)'
    BY <1>1, <1>2, <1>5 DEF AtStart, Clean
  <2> QED  BY <1>1, <1>5, <2>1 DEF InTurn
<1>6. CASE (packet # NULL => rpos <= Len(packet)) /\ InMessage(m)
  <2>1. m <= Len(sent) /\ m <= Len(sent') /\ sent'[m] = sent[m] /\ BodyLen(m)' = BodyLen(m)
    BY <1>6 DEF InMessage, BodyLen
  <2>2. InId(m) => InId(m)'
    BY <1>1, <1>2, <2>1 DEF InId, Clean
  <2>3. IdRead(m) => IdRead(m)'
    BY <1>1, <1>2, <2>1 DEF IdRead, Known
  <2>4. InLength(m) => InLength(m)'
    <3> SUFFICES ASSUME InLength(m)  PROVE InLength(m)'
      OBVIOUS
    <3>1. Len(fragmentDatas) \in {0, 1}
      <4>1. fragmentFlag # "unknown" /\ Len(fragmentDatas) + fragmentRemain = 2
        BY DEF InLength
      <4>2. PICK a \in Nat : a = Len(fragmentDatas)
        OBVIOUS
      <4>3. PICK b \in Nat \ {0} : b = fragmentRemain
        BY <4>1
      <4>4. a + b = 2
        BY <4>1, <4>2, <4>3
      <4> QED  BY <4>2, <4>4, OneOrNone
    <3>2. \A j \in 1 .. Len(fragmentDatas) :
              fragmentDatas[j].value = Stream(sent')[Begin(sent, m) + (2 + j)].value
      <4> SUFFICES ASSUME NEW j \in 1 .. Len(fragmentDatas)
                   PROVE  fragmentDatas[j].value = Stream(sent')[Begin(sent, m) + (2 + j)].value
        OBVIOUS
      <4>1. j = 1 /\ 2 + j = 3
        BY <3>1, OneInOne
      <4>2. fragmentDatas[j].value = Stream(sent)[Begin(sent, m) + (2 + j)].value
        BY DEF InLength
      <4> QED  BY <2>1, <4>1, <4>2
    <3> QED  BY <1>1, <1>2, <1>3, <2>1, <3>2 DEF InLength, Known
  <2>5. LengthRead(m) => LengthRead(m)'
    BY <1>1, <1>2, <1>3, <2>1 DEF LengthRead, Known
  <2>6. InBody(m) => InBody(m)'
    BY <1>1, <1>2, <1>3, <1>4, <2>1 DEF InBody, Known
  <2>7. BodyRead(m) => BodyRead(m)'
    BY <1>1, <1>2, <1>4, <2>1 DEF BodyRead
  <2> QED  BY <1>1, <1>6, <2>1, <2>2, <2>3, <2>4, <2>5, <2>6, <2>7 DEF InTurn, InMessage
<1>7. CASE Lost(m)
  <2>1. Lost(m)'
    BY <1>3, <1>7 DEF Lost
  <2> QED  BY <2>1 DEF InTurn
<1> QED  BY <1>5, <1>6, <1>7 DEF InTurn

\* What has been handled right stays so when more is sent or received.
LEMMA HandledKept ==
    ASSUME HandledRight, UNCHANGED handled, cuts \subseteq cuts', complete <= complete',
           complete \in Nat, complete' \in Nat, handled \in Seq([id : Handlers, body : Seq(Byte)]),
           \A i \in 1 .. complete : sent'[i] = sent[i]
    PROVE  HandledRight'
<1> SUFFICES ASSUME NEW i \in DOMAIN handled'
             PROVE  /\ InStep(i - 1)' => i <= complete'
                    /\ InStep(i)' => /\ handled'[i].id = sent'[i].id
                                     /\ WholeBody(i)' => handled'[i].body = sent'[i].body
  BY DEF HandledRight
<1>1. i \in DOMAIN handled /\ i \in 1 .. Len(handled) /\ Len(handled) \in Nat
  OBVIOUS
<1>2. InStep(i - 1)' => InStep(i - 1)
  BY DEF InStep
<1>3. InStep(i)' => InStep(i) /\ InStep(i - 1)
  <2>1. \A k \in 1 .. i - 1 : k \in 1 .. i
    BY <1>1
  <2>2. InStep(i)' => InStep(i)
    BY DEF InStep
  <2>3. InStep(i) => InStep(i - 1)
    BY <2>1 DEF InStep
  <2> QED  BY <2>2, <2>3
<1>4. WholeBody(i)' => WholeBody(i)
  BY DEF WholeBody
<1>5. InStep(i - 1) => i <= complete
  BY <1>1 DEF HandledRight
<1>6. InStep(i) => /\ handled[i].id = sent[i].id
                   /\ WholeBody(i) => handled[i].body = sent[i].body
  BY <1>1 DEF HandledRight
<1>7. InStep(i - 1)' => i <= complete'
  BY <1>1, <1>2, <1>5
<1>8. InStep(i)' => sent'[i] = sent[i]
  BY <1>1, <1>3, <1>5
<1> QED  BY <1>3, <1>4, <1>6, <1>7, <1>8

\* A reader in step has handled no more than is complete.
LEMMA HandledBound ==
    ASSUME HandledRight, InStep(Len(handled)), complete \in Nat,
           handled \in Seq([id : Handlers, body : Seq(Byte)])
    PROVE  Len(handled) \in 0 .. complete
<1>1. PICK h \in Nat : h = Len(handled)
  OBVIOUS
<1>2. CASE h = 0
  BY <1>1, <1>2
<1>3. CASE h # 0
  <2>1. h \in DOMAIN handled /\ h - 1 \in Nat /\ \A k \in 1 .. h - 1 : k \in 1 .. h
    BY <1>1, <1>3
  <2>2. InStep(h - 1)
    BY <1>1, <2>1 DEF InStep
  <2>3. h <= complete
    BY <2>1, <2>2 DEF HandledRight
  <2> QED  BY <1>1, <2>3
<1> QED  BY <1>2, <1>3

\* One more message leaves the others where they are in the stream.
LEMMA SentGrows ==
    ASSUME sent \in Seq(Messages), Len(sent) < MaxSent, NEW x \in Messages,
           sent' = Append(sent, x)
    PROVE  /\ Encode(x, Len(sent) + 1) \in Seq(Bytes)
           /\ Len(sent) \in Nat
           /\ sent' \in Seq(Messages) /\ Len(sent') = Len(sent) + 1 /\ Len(sent') <= MaxSent
           /\ Stream(sent') = Stream(sent) \o Encode(x, Len(sent) + 1)
           /\ \A m \in 1 .. Len(sent) + 1 : Begin(sent', m) = Begin(sent, m)
           /\ \A m \in 1 .. Len(sent) : sent'[m] = sent[m]
           /\ \A p \in 1 .. Len(Stream(sent)) : Stream(sent')[p] = Stream(sent)[p]
<1>1. PICK s \in Seq(Messages) : s = sent
  OBVIOUS
<1>2. Len(s) < MaxSent /\ Len(s) \in Nat
  BY <1>1
<1>3. PICK t : t = Append(s, x)
  OBVIOUS
<1>4. PICK e : e = Encode(x, Len(s) + 1)
  OBVIOUS
<1>5. /\ t \in Seq(Messages) /\ Len(t) = Len(s) + 1
      /\ e \in Seq(Bytes)
      /\ Stream(t) = Stream(s) \o e
      /\ \A m \in 1 .. Len(s) + 1 : Begin(t, m) = Begin(s, m)
      /\ \A m \in 1 .. Len(s) : t[m] = s[m]
  BY <1>2, <1>3, <1>4, StreamGrows
<1>6. Len(t) <= MaxSent
  BY <1>2, <1>5, Constants
<1>7. PICK a \in Seq(Bytes) : a = Stream(s)
  <2>1. Len(s) <= MaxSent
    BY <1>2, Constants
  <2> QED  BY <2>1, StreamType
<1>8. \A p \in 1 .. Len(a) : (a \o e)[p] = a[p]
  <2> SUFFICES ASSUME NEW p \in 1 .. Len(a)  PROVE (a \o e)[p] = a[p]
    OBVIOUS
  <2>1. p \in 1 .. Len(a) + Len(e) /\ p <= Len(a)
    BY <1>5
  <2> QED  BY <1>5, <2>1, ConcatProperties
<1> QED  BY <1>1, <1>2, <1>3, <1>4, <1>5, <1>6, <1>7, <1>8

\* A message sent keeps the invariant.
LEMMA SentMore ==
    ASSUME ChannelInv, NEW m \in Messages, Sends(m)
    PROVE  ChannelInv'
<1>1. Types /\ Types' /\ InOrder /\ Measured /\ Measured' /\ Ordered
  BY Amounts, AmountsNext, Order DEF ChannelInv, StreamInv, Sends
<1>2. PICK e : e = Encode(m, Len(sent) + 1)
  OBVIOUS
<1>3. /\ e \in Seq(Bytes) /\ Len(e) \in Nat
      /\ Len(sent) \in Nat /\ Len(sent) < MaxSent
      /\ sent \in Seq(Messages) /\ Len(sent) <= MaxSent
      /\ sent' \in Seq(Messages) /\ Len(sent') = Len(sent) + 1 /\ Len(sent') <= MaxSent
      /\ Stream(sent') = Stream(sent) \o e
      /\ \A n \in 1 .. Len(sent) + 1 : Begin(sent', n) = Begin(sent, n)
      /\ \A n \in 1 .. Len(sent) : sent'[n] = sent[n]
      /\ \A p \in 1 .. Len(Stream(sent)) : Stream(sent')[p] = Stream(sent)[p]
  <2>1. sent \in Seq(Messages) /\ Len(sent) <= MaxSent
    BY <1>1 DEF Types
  <2>2. Len(sent) < MaxSent /\ sent' = Append(sent, m)
    BY DEF Sends
  <2>3. /\ e \in Seq(Bytes)
        /\ Len(sent) \in Nat
        /\ sent' \in Seq(Messages) /\ Len(sent') = Len(sent) + 1 /\ Len(sent') <= MaxSent
        /\ Stream(sent') = Stream(sent) \o e
        /\ \A n \in 1 .. Len(sent) + 1 : Begin(sent', n) = Begin(sent, n)
        /\ \A n \in 1 .. Len(sent) : sent'[n] = sent[n]
        /\ \A p \in 1 .. Len(Stream(sent)) : Stream(sent')[p] = Stream(sent)[p]
    BY <1>2, <2>1, <2>2, SentGrows, Zenon
  <2>4. Len(e) \in Nat
    BY <2>3
  <2> QED  BY <2>1, <2>2, <2>3, <2>4
<1>4. /\ UNCHANGED <<packet, rpos, fragmentFlag, fragmentDatas, fragmentRemain, handled>>
      /\ UNCHANGED <<buffered, handshaken, condemned, cuts, complete>>
      /\ UNCHANGED readerVars
  BY DEF Sends, ReceiverUnchanged, readerVars, receiveVars, fragmentVars
<1>5. Coming' = Coming \o e
  BY <1>2 DEF Sends
<1>6. Pending' = Pending \o e
  <2>1. PICK f \in Seq(Bytes) : f = FlattenSeq(buffered)
    BY <1>1 DEF Measured
  <2>2. PICK c \in Seq(Bytes) : c = Coming
    BY <1>1 DEF Measured
  <2>3. Pending' = FlattenSeq(buffered') \o Coming'
    BY <1>1 DEF Measured
  <2>4. Pending' = f \o (c \o e) /\ Pending = f \o c
    BY <1>1, <1>4, <1>5, <2>1, <2>2, <2>3 DEF Measured
  <2>5. f \o (c \o e) = (f \o c) \o e
    <3>1. PICK ee \in Seq(Bytes) : ee = e
      BY <1>3
    <3>2. f \o (c \o ee) = (f \o c) \o ee
      BY Regroup
    <3> QED  BY <3>1, <3>2
  <2> QED  BY <2>4, <2>5
<1>7. /\ Len(Pending') = Len(Pending) + Len(e)
      /\ Len(Coming') = Len(Coming) + Len(e)
      /\ Len(Stream(sent')) = Len(Stream(sent)) + Len(e)
  <2>1. Pending \in Seq(Bytes) /\ Coming \in Seq(Bytes) /\ Stream(sent) \in Seq(Bytes)
    BY <1>1 DEF Measured
  <2>2. Len(Pending \o e) = Len(Pending) + Len(e)
    BY <1>3, <2>1, ConcatProperties
  <2>3. Len(Coming \o e) = Len(Coming) + Len(e)
    BY <1>3, <2>1, ConcatProperties
  <2>4. Len(Stream(sent) \o e) = Len(Stream(sent)) + Len(e)
    BY <1>3, <2>1, ConcatProperties
  <2> QED  BY <1>3, <1>5, <1>6, <2>2, <2>3, <2>4
<1>8. Taken' = Taken /\ Received' = Received /\ Received <= Len(Stream(sent))
  <2>1. Len(Pending) \in Nat /\ Len(Coming) \in Nat /\ Len(Stream(sent)) \in Nat
    BY <1>1 DEF Measured
  <2>2. Received + Len(Coming) = Len(Stream(sent)) /\ Received \in Nat
    BY <1>1 DEF Ordered
  <2> QED  BY <1>3, <1>7, <2>1, <2>2 DEF Taken, Received
<1>9. InOrder'
  <2>1. PICK h \in Seq(Bytes) : h = InHand
    BY <1>1 DEF Measured
  <2>2. PICK p \in Seq(Bytes) : p = Pending
    BY <1>1 DEF Measured
  <2>3. PICK a \in Seq(Bytes) : a = Stream(sent)
    BY <1>1 DEF Measured
  <2>4. PICK hp : hp = h \o p
    OBVIOUS
  <2>5. hp \in Seq(Bytes) /\ EndsWith(hp, a)
    BY <1>1, <2>1, <2>2, <2>3, <2>4, ConcatProperties DEF InOrder
  <2>6. EndsWith(hp \o e, a \o e)
    BY <1>3, <2>5, EndsWithBoth
  <2>7. hp \o e = h \o (p \o e)
    <3>1. PICK ee \in Seq(Bytes) : ee = e
      BY <1>3
    <3>2. h \o (p \o ee) = (h \o p) \o ee
      BY Regroup
    <3> QED  BY <2>4, <3>1, <3>2
  <2>8. InHand' = h
    BY <1>4, <2>1 DEF InHand
  <2> QED  BY <1>3, <1>6, <2>2, <2>3, <2>6, <2>7, <2>8 DEF InOrder
<1>10. PacketsNoted' /\ LengthFits'
  BY <1>4 DEF ChannelInv, StreamInv, PacketsNoted, LengthFits
<1>11. Quiet'
  BY <1>4, <1>8 DEF ChannelInv, StreamInv, Quiet
<1>12. complete \in 0 .. Len(sent) /\ complete \in Nat /\ complete <= Len(sent)
  BY <1>3 DEF ChannelInv, StreamInv, CompleteExact
<1>13. CompleteExact'
  <2>1. complete' \in 0 .. Len(sent')
    BY <1>3, <1>4, <1>12
  <2>2. Begin(sent', complete' + 1) <= Received'
    <3>1. complete + 1 \in 1 .. Len(sent) + 1
      BY <1>3, <1>12
    <3>2. Begin(sent', complete + 1) = Begin(sent, complete + 1)
      BY <1>3, <3>1
    <3> QED  BY <1>4, <1>8, <3>2 DEF ChannelInv, StreamInv, CompleteExact
  <2>3. CASE complete < Len(sent)
    <3>1. complete + 2 \in 1 .. Len(sent) + 1
      BY <1>3, <1>12, <2>3
    <3>2. Begin(sent', complete + 2) = Begin(sent, complete + 2)
      BY <1>3, <3>1
    <3> QED  BY <1>4, <1>8, <2>1, <2>2, <2>3, <3>2 DEF ChannelInv, StreamInv, CompleteExact
  <2>4. CASE ~(complete < Len(sent))
    <3>1. complete = Len(sent)
      BY <1>3, <1>12, <2>4
    <3>2. PICK n \in 1 .. Len(sent') : n = Len(sent) + 1
      BY <1>3
    <3>3. Begin(sent', n) = Len(Stream(sent))
      <4>1. Len(sent) + 1 \in 1 .. Len(sent) + 1
        BY <1>3
      <4>2. Begin(sent', Len(sent) + 1) = Begin(sent, Len(sent) + 1)
        BY <1>3, <4>1
      <4>3. Begin(sent, Len(sent) + 1) = Len(Stream(sent))
        BY <1>3, BeginLast
      <4> QED  BY <3>2, <4>2, <4>3
    <3>4. /\ Begin(sent', n + 1) = Begin(sent', n) + 4 + Len(sent'[n].body)
          /\ Len(sent'[n].body) \in Nat
      <4>1. PICK s : s = sent'
        OBVIOUS
      <4>2. s \in Seq(Messages) /\ Len(s) <= MaxSent /\ n \in 1 .. Len(s)
        BY <1>3, <4>1
      <4>3. MessageAt(s, n)
        BY <4>2, StreamBytes
      <4> QED  BY <4>1, <4>3 DEF MessageAt
    <3>5. n + 1 = complete + 2
      BY <1>3, <3>1, <3>2
    <3>6. Len(Stream(sent)) \in Nat /\ Received \in Nat
      BY <1>1 DEF Measured, Ordered
    <3>7. PICK c \in Nat : c = Len(sent'[n].body)
      BY <3>4
    <3>8. PICK l \in Nat : l = Len(Stream(sent))
      BY <3>6
    <3>10. Begin(sent', complete + 2) = l + 4 + c
      BY <3>3, <3>4, <3>5, <3>7, <3>8
    <3>11. Received <= l /\ Received \in Nat
      BY <1>8, <3>6, <3>8
    <3>9. Received < Begin(sent', complete + 2)
      BY <3>10, <3>11
    <3> QED  BY <1>4, <1>8, <2>1, <2>2, <3>9 DEF CompleteExact
  <2> QED  BY <2>3, <2>4
<1>14. handled \in Seq([id : Handlers, body : Seq(Byte)])
  BY <1>1 DEF Types
<1>15. HandledRight'
  <2>1. \A i \in 1 .. complete : sent'[i] = sent[i]
    BY <1>3, <1>12
  <2>2. cuts \subseteq cuts' /\ complete <= complete' /\ complete' \in Nat /\ UNCHANGED handled
    BY <1>4, <1>12
  <2> QED  BY <1>12, <1>14, <2>1, <2>2, HandledKept DEF ChannelInv
<1>16. ReaderInTurn'
  <2> SUFFICES ASSUME handshaken, ~condemned, InStep(Len(handled))
               PROVE  InTurn(Len(handled) + 1)'
    BY <1>4 DEF ReaderInTurn, InStep
  <2>1. Len(handled) \in 0 .. complete
    BY <1>12, <1>14, HandledBound DEF ChannelInv
  <2>2. PICK n \in Nat : n = Len(handled) + 1
    BY <2>1
  <2>3. n \in 1 .. Len(sent) + 1
    BY <1>3, <1>12, <2>1, <2>2
  <2>4. InTurn(n)
    BY <2>2 DEF ChannelInv, ReaderInTurn
  <2>5. InTurn(n)'
    <3>1. Begin(sent', n) = Begin(sent, n) /\ n <= Len(sent) + 1
      BY <1>3, <2>3
    <3>2. ASSUME n <= Len(sent)
          PROVE  /\ n <= Len(sent') /\ sent'[n] = sent[n]
                 /\ Begin(sent', n + 1) = Begin(sent, n + 1)
                 /\ Stream(sent')[Begin(sent, n) + 3] = Stream(sent)[Begin(sent, n) + 3]
                 /\ Stream(sent')[Begin(sent, n) + 4] = Stream(sent)[Begin(sent, n) + 4]
      <4>1. n \in 1 .. Len(sent) /\ n + 1 \in 1 .. Len(sent) + 1 /\ n <= Len(sent')
        BY <1>3, <2>3, <3>2
      <4>2. /\ Begin(sent, n) \in Nat /\ Len(sent[n].body) \in Nat
            /\ Begin(sent, n + 1) = Begin(sent, n) + 4 + Len(sent[n].body)
            /\ Begin(sent, n + 1) <= Len(Stream(sent)) /\ Len(Stream(sent)) \in Nat
        <5>1. MessageAt(sent, n)
          BY <1>3, <4>1, StreamBytes
        <5> QED  BY <5>1 DEF MessageAt
      <4>3. Begin(sent, n) + 3 \in 1 .. Len(Stream(sent)) /\ Begin(sent, n) + 4 \in 1 .. Len(Stream(sent))
        BY <4>2, SMTT(30)
      <4> QED  BY <1>3, <4>1, <4>3
    <3>3. /\ fragmentDatas \in Seq(Bytes) /\ fragmentRemain \in Nat
          /\ fragmentFlag = "unknown" <=> fragmentRemain = 0
      BY <1>1 DEF Types
    <3>4. cuts \subseteq cuts'
      BY <1>4
    <3> QED  BY <1>4, <1>8, <2>4, <3>1, <3>2, <3>3, <3>4, TurnKept
  <2> QED  BY <1>4, <2>2, <2>5
<1> QED  BY <1>1, <1>9, <1>10, <1>11, <1>13, <1>15, <1>16 DEF ChannelInv, StreamInv

\* The receiver's side as it was, and no byte sent or received.
LEMMA SentSame ==
    ASSUME ChannelInv, Types', ReceiverUnchanged, UNCHANGED sent, Coming' = Coming
    PROVE  ChannelInv'
<1>1. Types /\ Measured /\ Measured'
  BY Amounts, AmountsNext DEF ChannelInv, StreamInv
<1>2. /\ UNCHANGED <<packet, rpos, currId, currMsgLen, fragmentFlag, fragmentDatas,
                     fragmentRemain, fragmentStream, handled>>
      /\ UNCHANGED <<buffered, handshaken, condemned, cuts, complete>>
  BY DEF ReceiverUnchanged, readerVars, receiveVars, fragmentVars
<1>3. Pending' = Pending
  BY <1>1, <1>2 DEF Measured
<1>4. Taken' = Taken /\ Received' = Received /\ InHand' = InHand
  BY <1>2, <1>3 DEF Taken, Received, InHand
<1>5. InOrder'
  BY <1>3, <1>4 DEF ChannelInv, StreamInv, InOrder
<1>6. LengthFits' /\ PacketsNoted' /\ CompleteExact' /\ Quiet'
  BY <1>2, <1>4 DEF ChannelInv, StreamInv, LengthFits, PacketsNoted, CompleteExact, Quiet
<1>7. HandledRight'
  BY <1>2 DEF ChannelInv, HandledRight, InStep, WholeBody
<1>8. Consumed' = Consumed
  BY <1>2, <1>4 DEF Consumed
<1>9. ReaderInTurn'
  <2> SUFFICES ASSUME handshaken, ~condemned, InStep(Len(handled))
               PROVE  InTurn(Len(handled) + 1)'
    BY <1>2 DEF ReaderInTurn, InStep
  <2>1. PICK n : n = Len(handled) + 1
    OBVIOUS
  <2>2. InTurn(n)
    BY <2>1 DEF ChannelInv, ReaderInTurn
  <2>3. InTurn(n)'
    BY <1>2, <1>4, <1>8, <2>2, SMTT(30)
       DEF InTurn, AtStart, InMessage, Lost, InId, IdRead, InLength, LengthRead, InBody,
           BodyRead, Clean, Known, BodyLen, InStep, WholeBody
  <2> QED  BY <1>2, <2>1, <2>3
<1> QED  BY <1>5, <1>6, <1>7, <1>9 DEF ChannelInv, StreamInv

\* A step of which the receiver's reader notices nothing keeps it where it is.
LEMMA ReaderStays ==
    ASSUME ReaderInTurn, HandledRight, complete \in 0 .. Len(sent), Len(sent) \in Nat,
           handled \in Seq([id : Handlers, body : Seq(Byte)]),
           UNCHANGED <<readerVars, handshaken, sent>>, condemned => condemned',
           Taken' = Taken, cuts \subseteq cuts',
           fragmentDatas \in Seq(Bytes), fragmentRemain \in Nat,
           fragmentFlag = "unknown" <=> fragmentRemain = 0
    PROVE  ReaderInTurn'
<1>1. UNCHANGED handled
  BY DEF readerVars
<1> SUFFICES ASSUME handshaken, ~condemned, InStep(Len(handled))
             PROVE  InTurn(Len(handled) + 1)'
  BY <1>1 DEF ReaderInTurn, InStep
<1>2. Len(handled) \in 0 .. complete /\ complete \in Nat
  BY HandledBound
<1>3. PICK n \in Nat : n = Len(handled) + 1
  BY <1>2
<1>4. n <= Len(sent) + 1
  BY <1>2, <1>3
<1>5. InTurn(n)
  BY <1>3 DEF ReaderInTurn
<1>6. Begin(sent', n) = Begin(sent, n) /\ Begin(sent', n + 1) = Begin(sent, n + 1)
  OBVIOUS
<1>7. n <= Len(sent) =>
          /\ n <= Len(sent') /\ sent'[n] = sent[n]
          /\ Begin(sent', n + 1) = Begin(sent, n + 1)
          /\ Stream(sent')[Begin(sent, n) + 3] = Stream(sent)[Begin(sent, n) + 3]
          /\ Stream(sent')[Begin(sent, n) + 4] = Stream(sent)[Begin(sent, n) + 4]
  BY <1>6
<1>8. UNCHANGED readerVars
  OBVIOUS
<1>9. InTurn(n)'
  BY <1>4, <1>5, <1>6, <1>7, <1>8, TurnKept
<1> QED  BY <1>1, <1>3, <1>9

\* A packet ends at the end of a message or cuts it.
LEMMA PlaceEnd ==
    ASSUME NEW n \in Nat, NEW k \in 1 .. 4 + n
    PROVE  /\ Place(k, n) = "end" <=> k = 4 + n
           /\ Place(k, n) \in Cuts <=> k # 4 + n
  BY DEF Place, Cuts, ID_SIZE, LENGTH_SIZE

\* What a packet takes from the network.
LEMMA ReceiveMoves ==
    ASSUME Types, InOrder, NEW n \in 1 .. Len(wire), buffered' = Append(buffered, SubSeq(wire, 1, n)),
           wire' = Behind(wire, n), UNCHANGED <<bundles, sentSize, sent>>
    PROVE  /\ wire' \in Seq(Bytes) /\ buffered' \in Seq(Seq(Bytes))
           /\ SubSeq(wire, 1, n) \in Seq(Bytes) /\ Len(SubSeq(wire, 1, n)) = n
           /\ SubSeq(wire, 1, n)[n] = wire[n]
           /\ Pending' = Pending
           /\ Taken' = Taken /\ Received' = Received + n
           /\ Received' \in 1 .. Len(Stream(sent))
           /\ wire[n] \in Bytes /\ wire[n] = Stream(sent)[Received']
<1>1. Measured /\ Ordered
  BY Amounts, Order
<1>2. PICK w \in Seq(Bytes) : w = wire
  BY DEF Types
<1>3. n \in 1 .. Len(w) /\ Len(w) \in Nat /\ 0 \in 0 .. Len(w) /\ n \in 0 .. Len(w) /\ 0 + 1 = 1 /\ n - 0 = n
  BY <1>2
<1>4. PICK p \in Seq(Bytes) : p = SubSeq(w, 1, n)
  <2>1. SubSeq(w, 0 + 1, n) \in Seq(Bytes)
    BY <1>3, PieceType
  <2> QED  BY <1>3, <2>1
<1>5. p \in Seq(Bytes) /\ Len(p) = n /\ p[n] = w[n]
  <2>1. SubSeq(w, 0 + 1, n) \in Seq(Bytes) /\ Len(SubSeq(w, 0 + 1, n)) = n - 0
        /\ \A i \in 1 .. n - 0 : SubSeq(w, 0 + 1, n)[i] = w[0 + i]
    BY <1>3, PieceType
  <2>2. n \in 1 .. n - 0 /\ 0 + n = n
    BY <1>3
  <2> QED  BY <1>3, <1>4, <2>1, <2>2
<1>6. PICK r \in Seq(Bytes) : r = Behind(w, n)
  BY <1>3, BehindType
<1>7. r \in Seq(Bytes) /\ Len(r) = Len(w) - n
  BY <1>3, <1>6, BehindType
<1>8. p \o r = w
  <2>1. 1 \in 1 .. Len(w) + 1 /\ n \in 1 - 1 .. Len(w) /\ Len(w) \in n .. Len(w)
    BY <1>3
  <2>2. SubSeq(w, 1, n) \o SubSeq(w, n + 1, Len(w)) = SubSeq(w, 1, Len(w))
    BY <2>1, ConcatAdjacentSubSeq
  <2>3. SubSeq(w, 1, Len(w)) = w
    BY SubSeqFull
  <2> QED  BY <1>4, <1>6, <2>2, <2>3 DEF Behind
<1>9. PICK b \in Seq(Seq(Bytes)) : b = buffered
  BY DEF Types
<1>10. PICK f \in Seq(Bytes) : f = FlattenSeq(buffered)
  BY <1>1 DEF Measured
<1>11. buffered' \in Seq(Seq(Bytes)) /\ FlattenSeq(buffered') = f \o p
  <2>1. buffered' = Append(b, p)
    BY <1>2, <1>4, <1>9
  <2>2. Append(b, p) \in Seq(Seq(Bytes))
    OBVIOUS
  <2>3. FlattenSeq(Append(b, p)) = FlattenSeq(b) \o p
    BY FlattenAppend
  <2> QED  BY <1>9, <1>10, <2>1, <2>2, <2>3
<1>12. PICK u \in Seq(Bytes) : u = Unsent
  BY <1>1 DEF Measured
<1>13. Coming = w \o u /\ Coming' = r \o u
  BY <1>2, <1>6, <1>12 DEF Coming, Unsent
<1>14. Pending = f \o (w \o u) /\ Pending' = (f \o p) \o (r \o u)
  <2>1. Pending = f \o Coming
    BY <1>1, <1>10 DEF Measured
  <2>2. Pending' = (FlattenSeq(buffered') \o r) \o u
    BY <1>2, <1>6, <1>12 DEF Pending, Unsent
  <2>3. f \o p \in Seq(Bytes)
    BY <1>5, ConcatProperties
  <2>4. PICK fp \in Seq(Bytes) : fp = f \o p
    BY <2>3
  <2>5. (fp \o r) \o u = fp \o (r \o u)
    BY Regroup, Zenon
  <2> QED  BY <1>11, <1>13, <2>1, <2>2, <2>4, <2>5
<1>15. Pending' = Pending
  <2>1. PICK ru \in Seq(Bytes) : ru = r \o u
    BY <1>7, ConcatProperties
  <2>2. (f \o p) \o ru = f \o (p \o ru)
    BY Regroup, Zenon
  <2>3. p \o (r \o u) = (p \o r) \o u
    BY Regroup, ZenonT(40)
  <2> QED  BY <1>8, <1>14, <2>1, <2>2, <2>3
<1>16. Taken' = Taken
  BY <1>15 DEF Taken
<1>17. Len(Coming) = Len(w) + Len(u) /\ Len(Coming') = Len(w) - n + Len(u) /\ Len(u) \in Nat
       /\ \A i \in 1 .. Len(w) : Coming[i] = w[i]
  <2>1. /\ Len(w \o u) = Len(w) + Len(u)
        /\ \A i \in 1 .. Len(w) + Len(u) : (w \o u)[i] = IF i <= Len(w) THEN w[i] ELSE u[i - Len(w)]
    BY ConcatProperties
  <2>2. Len(r \o u) = Len(r) + Len(u)
    BY <1>7, ConcatProperties
  <2>3. Len(u) \in Nat
    OBVIOUS
  <2>4. ASSUME NEW i \in 1 .. Len(w)  PROVE (w \o u)[i] = w[i]
    <3>1. i \in 1 .. Len(w) + Len(u) /\ i <= Len(w)
      BY <1>3, <2>3
    <3> QED  BY <2>1, <3>1
  <2> QED  BY <1>7, <1>13, <2>1, <2>2, <2>3, <2>4
<1>18. Received' = Received + n /\ Received' \in 1 .. Len(Stream(sent))
  <2>1. /\ Received = Len(Stream(sent)) - Len(Coming) /\ Received' = Len(Stream(sent)) - Len(Coming')
        /\ Len(Stream(sent)) \in Nat /\ Received \in Nat
    BY <1>1 DEF Received, Measured, Ordered
  <2>2. PICK c \in Nat : c = Len(Coming)
    BY <1>1 DEF Measured
  <2>3. PICK l \in Nat : l = Len(Stream(sent))
    BY <1>1 DEF Measured
  <2> QED  BY <1>3, <1>17, <2>1, <2>2, <2>3
<1>19. w[n] \in Bytes
  BY <1>3
<1>20. w[n] = Stream(sent)[Received + n]
  <2>1. n \in 1 .. Len(Coming)
    BY <1>3, <1>17
  <2>2. Coming[n] = Stream(sent)[Len(Stream(sent)) - Len(Coming) + n]
    BY <1>1, <2>1 DEF Ordered, EndsWith
  <2> QED  BY <1>3, <1>17, <2>2 DEF Received
<1> QED  BY <1>2, <1>4, <1>5, <1>6, <1>7, <1>11, <1>15, <1>16, <1>18, <1>19, <1>20

(***************************************************************************)
(* What the receiver is given; connections that end and begin.             *)
(***************************************************************************)

\* The messages complete when this byte is the last to come.
Done(byte) == IF byte.cut = "end" THEN byte.msg ELSE byte.msg - 1

\* So many messages end in the first p bytes.
EndIn(s, d, p) ==
    /\ d \in 0 .. Len(s)
    /\ Begin(s, d + 1) <= p
    /\ d < Len(s) => p < Begin(s, d + 2)

\* The last byte of a packet tells which message it ends in, or at the end of which.
LEMMA LastByte ==
    ASSUME NEW s \in Seq(Messages), Len(s) <= MaxSent, NEW p \in 1 .. Len(Stream(s))
    PROVE  /\ Stream(s)[p].msg \in 1 .. Len(s)
           /\ EndIn(s, Done(Stream(s)[p]), p)
<1>0. PICK m \in 1 .. Len(s) : \E k \in 1 .. Size(s, m) : p = Begin(s, m) + k
  BY StreamByte
<1>1. PICK k \in 1 .. Size(s, m) : p = Begin(s, m) + k
  BY <1>0
<1>2. MessageAt(s, m) /\ Len(s) \in Nat
  BY StreamBytes
<1>3. PICK n \in Nat : n = Len(s[m].body)
  BY <1>2 DEF MessageAt
<1>4. PICK b \in Nat : b = Begin(s, m)
  BY <1>2 DEF MessageAt
<1>5. k \in 1 .. 4 + n /\ p = b + k /\ Begin(s, m + 1) = b + 4 + n
  BY <1>1, <1>2, <1>3, <1>4 DEF MessageAt
<1>6. Stream(s)[p].msg = m /\ Stream(s)[p].cut = Place(k, n)
  BY <1>1, <1>2, <1>3, <1>5, ZenonT(40) DEF MessageAt
<1>7. Place(k, n) = "end" <=> k = 4 + n
  BY <1>5, PlaceEnd
<1>8. CASE k = 4 + n
  <2>1. Stream(s)[p].cut = "end" /\ p = Begin(s, m + 1)
    BY <1>5, <1>6, <1>7, <1>8
  <2>2. ASSUME m < Len(s)  PROVE p < Begin(s, m + 2)
    <3>1. PICK j \in 1 .. Len(s) : j = m + 1
      BY <1>2, <2>2
    <3>2. MessageAt(s, j)
      BY StreamBytes
    <3>3. Begin(s, j) \in Nat /\ Len(s[j].body) \in Nat /\ Begin(s, j + 1) = Begin(s, j) + 4 + Len(s[j].body)
      BY <3>2 DEF MessageAt
    <3>4. j + 1 = m + 2
      BY <1>2, <3>1
    <3>5. PICK c \in Nat, l \in Nat : c = Begin(s, j) /\ l = Len(s[j].body)
      BY <3>3
    <3>6. Begin(s, m + 2) = c + 4 + l /\ p = c
      BY <2>1, <3>1, <3>3, <3>4, <3>5
    <3> QED  BY <3>6
  <2>3. Done(Stream(s)[p]) = m
    BY <1>6, <2>1 DEF Done
  <2> QED  BY <1>2, <1>6, <2>1, <2>2, <2>3 DEF EndIn
<1>9. CASE k # 4 + n
  <2>1. Stream(s)[p].cut # "end" /\ p < Begin(s, m + 1)
    BY <1>5, <1>6, <1>7, <1>9
  <2>2. (m - 1) + 1 = m /\ (m - 1) + 2 = m + 1 /\ m - 1 \in 0 .. Len(s) /\ b <= p
    BY <1>2, <1>5
  <2>3. Begin(s, (m - 1) + 1) <= p /\ p < Begin(s, (m - 1) + 2)
    BY <1>4, <2>1, <2>2
  <2>4. Done(Stream(s)[p]) = m - 1
    BY <1>6, <2>1 DEF Done
  <2> QED  BY <1>6, <2>2, <2>3, <2>4 DEF EndIn
<1> QED  BY <1>8, <1>9

\* TCPPacketReceiver::processRecv: what the last byte of the packet says is noted, and keeps
\* the invariant.
LEMMA ReceiveKeeps ==
    ASSUME ChannelInv, Receive
    PROVE  ChannelInv'
<1>1. Types /\ InOrder /\ Measured /\ Ordered
  BY Amounts, Order DEF ChannelInv, StreamInv
<1>2. PICK n \in 1 .. Len(wire) :
          /\ LET last == wire[n]
             IN  /\ cuts' = IF last.cut \in Cuts THEN cuts \cup {<<last.msg, last.cut>>} ELSE cuts
                 /\ complete' = IF last.cut = "end" THEN last.msg ELSE last.msg - 1
          /\ buffered' = Append(buffered, SubSeq(wire, 1, n))
          /\ wire' = Behind(wire, n)
  BY DEF Receive
<1>3. /\ UNCHANGED <<packet, rpos, currId, currMsgLen, fragmentFlag, fragmentDatas,
                     fragmentRemain, fragmentStream, handled>>
      /\ UNCHANGED <<bundles, sentSize, sending, broken, handshaken, connection, sent>>
      /\ UNCHANGED readerVars
      /\ packet = NULL /\ ~condemned /\ condemned' \in BOOLEAN
  BY DEF Receive, readerVars, fragmentVars, sendVars, Polling
<1>4. PICK last \in Bytes : last = wire[n]
  BY DEF ChannelInv, StreamInv, Types
<1>5. PICK piece \in Seq(Bytes) : piece = SubSeq(wire, 1, n)
  BY <1>1, <1>2, <1>3, ReceiveMoves
<1>6. /\ wire' \in Seq(Bytes) /\ buffered' \in Seq(Seq(Bytes))
      /\ Len(piece) = n /\ piece[n] = last
      /\ Pending' = Pending
      /\ Taken' = Taken /\ Received' = Received + n
      /\ Received' \in 1 .. Len(Stream(sent))
      /\ last = Stream(sent)[Received']
  BY <1>1, <1>2, <1>3, <1>4, <1>5, ReceiveMoves
<1>7. sent \in Seq(Messages) /\ Len(sent) <= MaxSent /\ Len(sent) \in Nat
  BY DEF ChannelInv, StreamInv, Types
<1>8. /\ last.msg \in 1 .. Len(sent)
      /\ complete' \in 0 .. Len(sent)
      /\ Begin(sent, complete' + 1) <= Received'
      /\ complete' < Len(sent) => Received' < Begin(sent, complete' + 2)
  <2>1. PICK p \in 1 .. Len(Stream(sent)) : p = Received'
    BY <1>6
  <2>2. complete' = IF last.cut = "end" THEN last.msg ELSE last.msg - 1
    BY <1>2, <1>4
  <2>3. Stream(sent)[p].msg \in 1 .. Len(sent) /\ EndIn(sent, Done(Stream(sent)[p]), p)
    BY <1>7, LastByte
  <2>4. last = Stream(sent)[p] /\ complete' = Done(last)
    BY <1>6, <2>1, <2>2 DEF Done
  <2>5. last.msg \in 1 .. Len(sent) /\ EndIn(sent, complete', Received')
    BY <2>1, <2>3, <2>4
  <2> QED  BY <2>5 DEF EndIn
<1>9. CompleteExact'
  BY <1>3, <1>8 DEF CompleteExact
<1>10. /\ cuts \subseteq cuts'
       /\ cuts' \subseteq (1 .. MaxSent) \X Cuts
       /\ last.cut \in Cuts => <<last.msg, last.cut>> \in cuts'
  <2>1. last.msg \in 1 .. MaxSent /\ cuts \subseteq (1 .. MaxSent) \X Cuts
    BY DEF Bytes, ChannelInv, StreamInv, Types
  <2> QED  BY <1>2, <1>4, <2>1
<1>11. PacketsNoted'
  <2>1. PICK b \in Seq(Seq(Bytes)) : b = buffered
    BY DEF ChannelInv, StreamInv, Types
  <2>2. buffered' = Append(b, piece)
    BY <1>2, <1>5, <2>1
  <2>3. \A i \in DOMAIN buffered' : (i \in DOMAIN b /\ buffered'[i] = b[i]) \/ buffered'[i] = piece
    BY <2>2
  <2>4. \A i \in DOMAIN b : Noted(b[i], cuts)
    BY <2>1 DEF ChannelInv, StreamInv, PacketsNoted
  <2>5. ASSUME NEW q, Noted(q, cuts)  PROVE Noted(q, cuts')
    BY <1>10, <2>5 DEF Noted
  <2>6. Noted(piece, cuts')
    <3>1. piece # <<>>
      BY <1>6
    <3> QED  BY <1>6, <1>10, <3>1 DEF Noted
  <2>7. \A i \in DOMAIN buffered' : Noted(buffered'[i], cuts')
    BY <2>3, <2>4, <2>5, <2>6
  <2>8. packet' = NULL
    BY <1>3
  <2> QED  BY <2>7, <2>8 DEF PacketsNoted
<1>12. InOrder'
  BY <1>1, <1>3, <1>6 DEF InOrder, InHand
<1>13. Quiet'
  BY <1>3, <1>6 DEF ChannelInv, StreamInv, Quiet
<1>14. Types' /\ LengthFits'
  BY <1>3, <1>6, <1>10 DEF ChannelInv, StreamInv, Types, LengthFits
<1>15. complete \in Nat /\ complete' \in Nat /\ complete <= complete'
  <2>1. /\ complete \in 0 .. Len(sent) /\ Begin(sent, complete + 1) <= Received
    BY DEF ChannelInv, StreamInv, CompleteExact
  <2>2. ASSUME complete' < complete  PROVE FALSE
    <3>0. complete' + 2 \in 1 .. Len(sent) + 1 /\ complete + 1 \in complete' + 2 .. Len(sent) + 1
      <4>1. PICK l \in Nat : l = Len(sent)
        BY <1>7
      <4>2. PICK c \in 0 .. l : c = complete
        BY <2>1, <4>1
      <4>3. PICK d \in 0 .. l : d = complete'
        BY <1>8, <4>1
      <4>4. d + 2 \in 1 .. l + 1 /\ c + 1 \in d + 2 .. l + 1
        <5>1. d < c /\ c \in Nat /\ d \in Nat /\ c <= l
          BY <2>2, <4>2, <4>3
        <5> QED  BY <5>1
      <4> QED  BY <4>1, <4>2, <4>3, <4>4
    <3>1. PICK i \in 1 .. Len(sent) + 1 : i = complete' + 2
      BY <3>0
    <3>2. PICK j \in i .. Len(sent) + 1 : j = complete + 1
      BY <3>0, <3>1
    <3>3. Begin(sent, i) <= Begin(sent, j) /\ Begin(sent, i) \in Nat /\ Begin(sent, j) \in Nat
      <4>1. j \in 1 .. Len(sent) + 1
        BY <1>7, <3>1, <3>2
      <4> QED  BY <1>7, <4>1, BeginGrows, BeginType
    <3>4. Received' < Begin(sent, i) /\ Begin(sent, j) <= Received
      BY <1>7, <1>8, <2>1, <2>2, <3>1, <3>2
    <3>5. PICK x \in Nat, y \in Nat, r \in Nat : x = Begin(sent, i) /\ y = Begin(sent, j) /\ r = Received
      BY <1>1, <3>3 DEF Ordered
    <3>6. x <= y /\ r + n < x /\ y <= r
      BY <1>6, <3>3, <3>4, <3>5
    <3> QED  BY <3>6
  <2> QED  BY <1>7, <1>8, <2>1, <2>2
<1>16. HandledRight'
  <2>1. \A i \in 1 .. complete : sent'[i] = sent[i]
    BY <1>3
  <2>2. HandledRight /\ handled \in Seq([id : Handlers, body : Seq(Byte)]) /\ UNCHANGED handled
    BY <1>3 DEF ChannelInv, StreamInv, Types
  <2> QED  BY <1>10, <1>15, <2>1, <2>2, HandledKept
<1>17. ReaderInTurn'
  <2>1. /\ ReaderInTurn /\ HandledRight /\ complete \in 0 .. Len(sent) /\ Len(sent) \in Nat
        /\ handled \in Seq([id : Handlers, body : Seq(Byte)])
        /\ fragmentDatas \in Seq(Bytes) /\ fragmentRemain \in Nat
        /\ fragmentFlag = "unknown" <=> fragmentRemain = 0
    BY <1>7 DEF ChannelInv, StreamInv, Types, CompleteExact
  <2>2. UNCHANGED <<readerVars, handshaken, sent>> /\ (condemned => condemned')
    BY <1>3
  <2> QED  BY <1>6, <1>10, <2>1, <2>2, ReaderStays
<1> QED  BY <1>9, <1>11, <1>12, <1>13, <1>14, <1>16, <1>17 DEF ChannelInv, StreamInv

\* The connection lost.
LEMMA LostKeeps ==
    ASSUME ChannelInv, ConnectionLost
    PROVE  ChannelInv'
<1>1. /\ UNCHANGED <<packet, rpos, currId, currMsgLen, fragmentFlag, fragmentDatas,
                     fragmentRemain, fragmentStream, handled>>
      /\ UNCHANGED <<bundles, sentSize, sending, broken, handshaken, connection, sent, cuts, complete>>
      /\ UNCHANGED <<wire, buffered>> /\ packet = NULL /\ condemned' = TRUE
  BY DEF ConnectionLost, readerVars, fragmentVars, sendVars, history, Polling
<1>2. Coming' = Coming /\ Pending' = Pending
  BY <1>1 DEF Coming, Pending, Unsent
<1>3. Taken' = Taken /\ Received' = Received /\ InHand' = InHand
  BY <1>1, <1>2 DEF Taken, Received, InHand
<1>4. Types' /\ LengthFits' /\ PacketsNoted' /\ CompleteExact' /\ Quiet'
  BY <1>1, <1>3 DEF ChannelInv, StreamInv, Types, LengthFits, PacketsNoted, CompleteExact, Quiet
<1>5. InOrder'
  BY <1>1, <1>2, <1>3 DEF ChannelInv, StreamInv, InOrder
<1>6. HandledRight' /\ ReaderInTurn'
  BY <1>1 DEF ChannelInv, HandledRight, InStep, WholeBody, ReaderInTurn
<1> QED  BY <1>4, <1>5, <1>6 DEF ChannelInv, StreamInv

\* No messages, no stream.
LEMMA NothingSent == Stream(<<>>) = <<>>
<1>1. Encoded(<<>>) = <<>>
  BY DEF Encoded
<1> QED  BY <1>1, FlattenEmpty DEF Stream

\* A connection on which nothing has happened yet.
Fresh ==
    /\ bundles = <<>> /\ sentSize = 0 /\ wire = <<>> /\ buffered = <<>>
    /\ sent = <<>> /\ cuts = {} /\ complete = 0 /\ handled = <<>>
    /\ packet = NULL /\ ~handshaken /\ LengthFits

\* A new connection has the invariant.
LEMMA FreshHolds == Types /\ Fresh => ChannelInv
<1> SUFFICES ASSUME Types, Fresh  PROVE ChannelInv
  OBVIOUS
<1>1. FlattenSeq(bundles) = <<>> /\ FlattenSeq(buffered) = <<>> /\ Stream(sent) = <<>>
  BY FlattenEmpty, NothingSent DEF Fresh
<1>2. Unsent = <<>>
  <2>1. SubSeq(<<>>, 0 + 1, 0) = <<>> /\ Len(<<>>) = 0
    BY SubSeqEmpty
  <2> QED  BY <1>1, <2>1 DEF Unsent, Behind, Fresh
<1>3. Coming = <<>> /\ Pending = <<>> /\ InHand = <<>>
  <2>1. <<>> \o <<>> = <<>>
    OBVIOUS
  <2> QED  BY <1>1, <1>2, <2>1 DEF Coming, Pending, InHand, Fresh
<1>4. Taken = 0 /\ Received = 0
  BY <1>1, <1>3 DEF Taken, Received
<1>5. InOrder
  <2>1. <<>> \o <<>> = <<>>
    OBVIOUS
  <2> QED  BY <1>1, <1>3, <2>1 DEF InOrder, EndsWith
<1>6. CompleteExact
  <2>1. Len(sent) = 0 /\ Begin(sent, 0 + 1) = 0
    BY BeginFirst DEF Fresh
  <2> QED  BY <1>4, <2>1 DEF CompleteExact, Fresh
<1>7. PacketsNoted /\ Quiet /\ ReaderInTurn /\ HandledRight
  BY <1>4 DEF Fresh, PacketsNoted, Quiet, ReaderInTurn, HandledRight
<1> QED  BY <1>5, <1>6, <1>7 DEF ChannelInv, StreamInv, Fresh

FreshTyped ==
    /\ bundles \in Seq(Seq(Bytes)) /\ sentSize \in 0 .. Len(FlattenSeq(bundles))
    /\ wire \in Seq(Bytes) /\ buffered \in Seq(Seq(Bytes))
    /\ sent \in Seq(Messages) /\ Len(sent) <= MaxSent
    /\ cuts \subseteq (1 .. MaxSent) \X Cuts
    /\ handled \in Seq([id : Handlers, body : Seq(Byte)])

\* A new connection has its types.
LEMMA FreshTypes == Fresh => FreshTyped
<1> SUFFICES ASSUME Fresh  PROVE FreshTyped
  OBVIOUS
<1>1. Len(FlattenSeq(bundles)) = 0 /\ sentSize = 0
  BY FlattenEmpty DEF Fresh
<1>2. sentSize \in 0 .. Len(FlattenSeq(bundles))
  BY <1>1
<1>3. Len(sent) <= MaxSent
  BY Constants DEF Fresh
<1>4. /\ bundles \in Seq(Seq(Bytes)) /\ wire \in Seq(Bytes) /\ buffered \in Seq(Seq(Bytes))
      /\ sent \in Seq(Messages) /\ cuts \subseteq (1 .. MaxSent) \X Cuts
      /\ handled \in Seq([id : Handlers, body : Seq(Byte)])
  BY DEF Fresh
<1> QED  BY <1>2, <1>3, <1>4 DEF FreshTyped

\* So has the first one.
LEMMA InitHolds == Init => ChannelInv
<1> SUFFICES ASSUME Init  PROVE ChannelInv
  OBVIOUS
<1>1. FlattenSeq(bundles) = <<>> /\ Len(<<>>) = 0
  BY FlattenEmpty DEF Init
<1>2. Fresh
  BY DEF Init, ReaderInit, Fresh, LengthFits
<1>3. FreshTyped
  BY <1>2, FreshTypes
<1>4. connection \in 1 .. MaxConnections
  BY Constants DEF Init
<1>5. /\ {sending, broken, handshaken, condemned} \subseteq BOOLEAN
      /\ {packet, fragmentStream} \subseteq Seq(Bytes) \cup {NULL}
      /\ rpos \in Nat /\ currMsgLen \in Nat
      /\ fragmentFlag \in {"unknown", "id", "length", "body"}
      /\ fragmentDatas \in Seq(Bytes) /\ fragmentRemain \in Nat
      /\ fragmentFlag = "unknown" <=> fragmentRemain = 0
  <2>1. {sending, broken, handshaken, condemned} \subseteq BOOLEAN
    BY DEF Init
  <2>2. {packet, fragmentStream} \subseteq Seq(Bytes) \cup {NULL}
    BY DEF Init, ReaderInit
  <2>3. fragmentDatas \in Seq(Bytes) /\ rpos \in Nat /\ currMsgLen \in Nat /\ fragmentRemain \in Nat
    BY DEF Init, ReaderInit
  <2>4. fragmentFlag = "unknown" /\ fragmentRemain = 0
    BY DEF Init, ReaderInit
  <2> QED  BY <2>1, <2>2, <2>3, <2>4
<1>6. currId \in Byte \X Byte
  BY DEF Init, ReaderInit, NoId, Byte
<1>7. Types
  BY <1>3, <1>4, <1>5, <1>6 DEF Types, FreshTyped
<1> QED  BY <1>2, <1>7, FreshHolds

\* The next connection, on the channel from the pool and with its PacketReader as it was left,
\* has it again.
LEMMA ReconnectKeeps ==
    ASSUME ChannelInv, Reconnect
    PROVE  ChannelInv'
<1>1. FlattenSeq(bundles') = <<>> /\ Len(<<>>) = 0
  BY FlattenEmpty DEF Reconnect
<1>2. packet = NULL
  BY DEF ChannelInv, StreamInv, Quiet, Reconnect
<1>3. connection' \in 1 .. MaxConnections
  BY Constants DEF ChannelInv, StreamInv, Types, Reconnect
<1>4. /\ {sending', broken', handshaken', condemned'} \subseteq BOOLEAN
      /\ {packet', fragmentStream'} \subseteq Seq(Bytes) \cup {NULL}
      /\ rpos' \in Nat /\ currId' \in Byte \X Byte /\ currMsgLen' \in Nat
      /\ fragmentFlag' \in {"unknown", "id", "length", "body"}
      /\ fragmentDatas' \in Seq(Bytes) /\ fragmentRemain' \in Nat
      /\ fragmentFlag' = "unknown" <=> fragmentRemain' = 0
  BY DEF ChannelInv, StreamInv, Types, Reconnect, fragmentVars
<1>5. Fresh'
  BY <1>2 DEF ChannelInv, StreamInv, Reconnect, Fresh, LengthFits, fragmentVars
<1>6. Fresh' => FreshTyped'
  BY FreshTypes, PTL
<1>7. Types'
  BY <1>3, <1>4, <1>5, <1>6 DEF Types, FreshTyped
<1>8. Types' /\ Fresh' => ChannelInv'
  BY FreshHolds, PTL
<1> QED  BY <1>5, <1>7, <1>8

(***************************************************************************)
(* The packets taken.                                                      *)
(***************************************************************************)

\* The packet taken is the first of what was pending.
Takes ==
    /\ buffered' \in Seq(Seq(Bytes))
    /\ packet' \in Seq(Bytes) \cup {NULL}
    /\ InHand' \o Pending' = Pending
    /\ Received' = Received
    /\ Taken' \in Nat /\ Taken <= Taken'
    /\ packet' = NULL => Taken' = Taken
    /\ packet' # NULL => packet' \in Seq(Bytes) /\ packet' # <<>> /\ Taken' - Len(packet') = Taken
    /\ PacketsNoted'

\* A packet taken is the next piece of the stream.
LEMMA TakeTakes ==
    ASSUME Types, InOrder, PacketsNoted, TakePacket(buffered),
           UNCHANGED <<wire, bundles, sentSize, sent, cuts>>
    PROVE  Takes
<1>1. Measured /\ Ordered
  BY Amounts, Order
<1>2. PICK c \in Seq(Bytes) : c = Coming
  BY <1>1 DEF Measured
<1>3. PICK b \in Seq(Seq(Bytes)) : b = buffered
  BY DEF Types
<1>4. PICK f \in Seq(Bytes) : f = FlattenSeq(b)
  BY FlattenType
<1>5. Pending = f \o c
  BY <1>1, <1>2, <1>3, <1>4 DEF Measured
<1>6. Unsent' = Unsent /\ Coming' = c
  BY <1>2 DEF Unsent, Coming
<1>7. Received' = Received
  BY <1>2, <1>6 DEF Received
<1>8. PICK u \in Seq(Bytes) : u = Unsent
  BY <1>1 DEF Measured
<1>9. PICK w \in Seq(Bytes) : w = wire
  BY DEF Types
<1>10. ASSUME NEW g \in Seq(Bytes), FlattenSeq(buffered') = g
       PROVE  Pending' = g \o c
  <2>1. Pending' = (g \o w) \o u
    BY <1>6, <1>8, <1>9, <1>10 DEF Pending
  <2>2. c = w \o u
    BY <1>2, <1>8, <1>9 DEF Coming
  <2>3. g \o (w \o u) = (g \o w) \o u
    BY Regroup, Zenon
  <2> QED  BY <2>1, <2>2, <2>3
<1>11. CASE b = <<>>
  <2>1. packet' = NULL /\ buffered' = b
    BY <1>3, <1>11 DEF TakePacket
  <2>2. Pending' = f \o c
    BY <1>4, <1>10, <2>1
  <2>3. Taken' = Taken
    BY <1>5, <2>2 DEF Taken
  <2>4. InHand' = <<>>
    BY <2>1 DEF InHand
  <2>5. f \o c \in Seq(Bytes)
    BY ConcatProperties
  <2>6. <<>> \o (f \o c) = f \o c
    BY <2>5, ConcatEmptySeq
  <2>7. PacketsNoted'
    BY <1>3, <2>1 DEF PacketsNoted
  <2>8. Taken \in Nat
    BY <1>1 DEF Ordered
  <2> QED  BY <1>5, <1>7, <2>1, <2>2, <2>3, <2>4, <2>6, <2>7, <2>8 DEF Takes
<1>12. CASE b # <<>>
  <2>1. packet' = Head(b) /\ buffered' = Tail(b)
    BY <1>3, <1>12 DEF TakePacket
  <2>2. Head(b) \in Seq(Bytes) /\ Tail(b) \in Seq(Seq(Bytes)) /\ FlattenSeq(b) = Head(b) \o FlattenSeq(Tail(b))
    BY <1>12, FlattenTail
  <2>3. PICK h \in Seq(Bytes) : h = Head(b)
    BY <2>2
  <2>4. PICK t \in Seq(Seq(Bytes)) : t = Tail(b)
    BY <2>2
  <2>5. PICK g \in Seq(Bytes) : g = FlattenSeq(t)
    BY FlattenType
  <2>6. f = h \o g /\ packet' = h /\ FlattenSeq(buffered') = g /\ buffered' = t
    BY <1>4, <2>1, <2>2, <2>3, <2>4, <2>5
  <2>7. Pending' = g \o c
    BY <1>10, <2>6
  <2>8. h \o (g \o c) = (h \o g) \o c
    BY Regroup, Zenon
  <2>9. packet' # NULL
    BY <2>6, Constants
  <2>10. InHand' = h
    BY <2>6, <2>9 DEF InHand
  <2>11. InHand' \o Pending' = Pending
    BY <1>5, <2>6, <2>7, <2>8, <2>10
  <2>12. Len(Pending) = Len(h) + Len(Pending')
    <3>1. PICK gc \in Seq(Bytes) : gc = g \o c
      BY ConcatProperties
    <3>2. Len(h \o gc) = Len(h) + Len(gc)
      BY ConcatProperties
    <3> QED  BY <2>7, <2>10, <2>11, <3>1, <3>2
  <2>13. Pending' \in Seq(Bytes)
    BY <2>7, ConcatProperties
  <2>14. Noted(h, cuts)
    <3>1. 1 \in DOMAIN b /\ b[1] = h
      BY <1>12, <2>3
    <3> QED  BY <1>3, <3>1 DEF PacketsNoted
  <2>15. \A i \in DOMAIN t : i + 1 \in DOMAIN b /\ t[i] = b[i + 1]
    BY <1>12, <2>4
  <2>16. PacketsNoted'
    BY <1>3, <2>6, <2>14, <2>15 DEF PacketsNoted
  <2>17. h # <<>>
    BY <2>14 DEF Noted
  <2>18. Taken' = Taken + Len(h)
    <3>1. Len(Stream(sent)) \in Nat /\ Len(Pending') \in Nat /\ Len(h) \in Nat
      BY <1>1, <2>13 DEF Measured
    <3>2. PICK l \in Nat : l = Len(Stream(sent))
      BY <3>1
    <3> QED  BY <2>12, <3>1, <3>2 DEF Taken
  <2>19. Taken \in Nat /\ Len(h) \in Nat
    BY <1>1 DEF Ordered
  <2> QED  BY <1>7, <2>6, <2>9, <2>11, <2>16, <2>17, <2>18, <2>19 DEF Takes
<1> QED  BY <1>11, <1>12

\* All is kept but the reader's turn when a packet is taken.
LEMMA TakeKeeps ==
    ASSUME ChannelInv, Takes, Types', LengthFits', handshaken', ~condemned',
           UNCHANGED <<handled, sent, cuts, complete>>
    PROVE  StreamInv' /\ HandledRight'
<1>1. Types /\ InOrder /\ Measured /\ Ordered
  BY Amounts, Order DEF ChannelInv, StreamInv
<1>2. InOrder'
  <2>1. EndsWith(Pending, Stream(sent))
    BY <1>1 DEF Ordered
  <2>2. InHand' \o Pending' = Pending
    BY DEF Takes
  <2> QED  BY <2>1, <2>2 DEF InOrder
<1>3. CompleteExact'
  BY DEF Takes, ChannelInv, StreamInv, CompleteExact
<1>4. Quiet'
  BY DEF Quiet
<1>5. HandledRight'
  BY DEF ChannelInv, HandledRight, InStep, WholeBody
<1> QED  BY <1>2, <1>3, <1>4, <1>5 DEF StreamInv, Takes

\* The reader goes on with the next packet where the one before it ended.
LEMMA TurnGoesOn ==
    ASSUME NEW m, InTurn(m), Takes, rpos' = 0, Taken \in Nat,
           UNCHANGED <<currId, currMsgLen, fragmentFlag, fragmentDatas, fragmentRemain, fragmentStream>>,
           UNCHANGED <<sent, cuts>>,
           Lost(m) => Begin(sent, m + 1) \in Nat,
           packet = NULL \/ (rpos >= Len(packet) /\ fragmentStream = NULL),
           packet # NULL => rpos \in Nat /\ Len(packet) \in Nat
    PROVE  InTurn(m)'
<1>1. Consumed' = Taken
  <2>1. CASE packet' = NULL
    BY <2>1 DEF Takes, Consumed
  <2>2. CASE packet' # NULL
    <3>1. Len(packet') \in Nat /\ Taken' \in Nat /\ Taken' - Len(packet') = Taken
      BY <2>2 DEF Takes
    <3>2. Consumed' = Taken' - (Len(packet') - 0)
      BY <2>2 DEF Consumed
    <3> QED  BY <3>1, <3>2
  <2> QED  BY <2>1, <2>2
<1>2. packet' # NULL => rpos' <= Len(packet')
  BY DEF Takes
<1>3. CASE Lost(m)
  <2>1. Lost(m)'
    BY <1>3 DEF Lost, InStep, Takes
  <2> QED  BY <2>1 DEF InTurn
<1>4. CASE ~Lost(m)
  <2>1. packet # NULL => rpos = Len(packet)
    BY <1>4 DEF InTurn
  <2>2. Consumed' = Consumed
    BY <1>1, <2>1 DEF Consumed
  <2>3. AtStart(m) => AtStart(m)'
    BY <2>2 DEF AtStart, Clean
  <2>4. /\ BodyLen(m)' = BodyLen(m) /\ (InStep(m)' <=> InStep(m)) /\ (WholeBody(m)' <=> WholeBody(m))
        /\ (m <= Len(sent))' <=> m <= Len(sent)
    BY DEF BodyLen, InStep, WholeBody
  <2>5. InId(m) => InId(m)'
    BY <2>2, <2>4 DEF InId, Clean
  <2>6. IdRead(m) => IdRead(m)'
    BY <2>2, <2>4 DEF IdRead, Known
  <2>7. InLength(m) => InLength(m)'
    BY <2>2, <2>4 DEF InLength, Known
  <2>8. LengthRead(m) => LengthRead(m)'
    BY <2>1, <2>2, <2>4 DEF LengthRead, Known
  <2>9. InBody(m) => InBody(m)'
    BY <2>2, <2>4 DEF InBody, Known
  <2>10. ~BodyRead(m)
    BY DEF BodyRead
  <2> QED  BY <1>2, <1>4, <2>3, <2>4, <2>5, <2>6, <2>7, <2>8, <2>9, <2>10 DEF InTurn, InMessage
<1> QED  BY <1>3, <1>4

\* A lost reader is lost in a message sent.
LEMMA LostBegin ==
    ASSUME NEW n, sent \in Seq(Messages), Len(sent) <= MaxSent, n = Len(handled) + 1, Lost(n),
           handled \in Seq([id : Handlers, body : Seq(Byte)])
    PROVE  Begin(sent, n + 1) \in Nat
<1>1. PICK m \in 1 .. Len(sent) : m = n
  BY DEF Lost
<1>2. PICK s \in Seq(Messages) : s = sent
  OBVIOUS
<1>3. m + 1 \in 1 .. Len(s) + 1 /\ Len(s) <= MaxSent
  BY <1>2
<1>4. Begin(s, m + 1) \in Nat
  BY <1>3, BeginType
<1> QED  BY <1>1, <1>2, <1>4

\* The id a turn works with is a pair of bytes.
LEMMA MsgIdType ==
    ASSUME Types, HasId
    PROVE  MsgId \in Byte \X Byte
<1>1. CASE IdKnown
  BY <1>1 DEF MsgId, Types
<1>2. CASE ~IdKnown
  <2>1. packet # NULL /\ packet \in Seq(Bytes) \cup {NULL} /\ rpos \in Nat /\ Left(rpos) >= 2
    BY <1>2 DEF HasId, Reading, Looping, ID_SIZE, Types
  <2>2. PICK p \in Seq(Bytes) : p = packet
    BY <2>1
  <2>3. rpos + 1 \in 1 .. Len(p) /\ rpos + 2 \in 1 .. Len(p)
    BY <2>1, <2>2 DEF Left
  <2>4. p[rpos + 1] \in Bytes /\ p[rpos + 2] \in Bytes
    BY <2>3
  <2>5. p[rpos + 1].value \in Byte /\ p[rpos + 2].value \in Byte
    BY <2>4 DEF Bytes
  <2> QED  BY <1>2, <2>2, <2>5 DEF MsgId
<1> QED  BY <1>1, <1>2

\* The tick begins with the first packet, on a new channel with a reader that is reset.
LEMMA ProcessPacketsKeeps ==
    ASSUME ChannelInv, ProcessPackets
    PROVE  ChannelInv'
<1>1. Types /\ InOrder /\ PacketsNoted /\ Measured /\ Ordered
  BY Amounts, Order DEF ChannelInv, StreamInv
<1>2. /\ packet = NULL /\ ~condemned /\ TakePacket(buffered) /\ rpos' = 0 /\ handshaken'
      /\ UNCHANGED <<bundles, sentSize, sending, broken, wire, condemned, connection>>
      /\ UNCHANGED <<handled, sent, cuts, complete>>
  BY DEF ProcessPackets, Polling, sendVars, history
<1>3. Takes
  BY <1>1, <1>2, TakeTakes
<1>4. \/ /\ handshaken
         /\ UNCHANGED <<currId, currMsgLen, fragmentFlag, fragmentDatas, fragmentRemain, fragmentStream>>
      \/ ~handshaken /\ Reset
  BY DEF ProcessPackets, fragmentVars
<1>5. Types' /\ LengthFits'
  <2>1. /\ buffered' \in Seq(Seq(Bytes)) /\ packet' \in Seq(Bytes) \cup {NULL}
    BY <1>3 DEF Takes
  <2>2. /\ bundles' \in Seq(Seq(Bytes)) /\ sentSize' \in 0 .. Len(FlattenSeq(bundles'))
        /\ {sending', broken', handshaken', condemned'} \subseteq BOOLEAN
        /\ wire' \in Seq(Bytes)
        /\ connection' \in 1 .. MaxConnections
        /\ sent' \in Seq(Messages) /\ Len(sent') <= MaxSent
        /\ cuts' \subseteq (1 .. MaxSent) \X Cuts
        /\ handled' \in Seq([id : Handlers, body : Seq(Byte)])
        /\ rpos' \in Nat
    <3>1. handshaken' = TRUE
      BY DEF ProcessPackets
    <3> QED  BY <1>1, <1>2, <3>1 DEF Types
  <2>3. /\ fragmentStream' \in Seq(Bytes) \cup {NULL}
        /\ currId' \in Byte \X Byte /\ currMsgLen' \in Nat
        /\ fragmentFlag' \in {"unknown", "id", "length", "body"}
        /\ fragmentDatas' \in Seq(Bytes) /\ fragmentRemain' \in Nat
        /\ fragmentFlag' = "unknown" <=> fragmentRemain' = 0
        /\ LengthFits'
    <3>1. CASE handshaken /\ UNCHANGED <<currId, currMsgLen, fragmentFlag, fragmentDatas, fragmentRemain, fragmentStream>>
      BY <1>1, <3>1 DEF Types, LengthFits, ChannelInv, StreamInv
    <3>2. CASE Reset
      <4>1. currId' = <<0, 0>> /\ currMsgLen' = 0 /\ fragmentStream' = NULL
        BY <3>2 DEF Reset, NoId
      <4>2. fragmentFlag' = "unknown" /\ fragmentDatas' = <<>> /\ fragmentRemain' = 0
        BY <3>2 DEF Reset
      <4>3. LengthFits'
        BY <4>2 DEF LengthFits
      <4>4. currId' \in Byte \X Byte
        BY <4>1 DEF Byte
      <4> QED  BY <4>1, <4>2, <4>3, <4>4
    <3> QED  BY <1>4, <3>1, <3>2
  <2> QED  BY <2>1, <2>2, <2>3 DEF Types
<1>6. StreamInv' /\ HandledRight'
  BY <1>2, <1>3, <1>5, TakeKeeps
<1>7. ReaderInTurn'
  <2> SUFFICES ASSUME InStep(Len(handled))
               PROVE  InTurn(Len(handled) + 1)'
    BY <1>2 DEF ReaderInTurn, InStep
  <2>1. CASE /\ handshaken
             /\ UNCHANGED <<currId, currMsgLen, fragmentFlag, fragmentDatas, fragmentRemain, fragmentStream>>
    <3>1. PICK n : n = Len(handled) + 1
      OBVIOUS
    <3>2. InTurn(n)
      BY <1>2, <2>1, <3>1 DEF ChannelInv, ReaderInTurn
    <3>3. Lost(n) => Begin(sent, n + 1) \in Nat
      BY <1>1, <3>1, LostBegin DEF Types
    <3>4. Taken \in Nat
      BY <1>1 DEF Ordered
    <3>5. InTurn(n)'
      BY <1>2, <1>3, <2>1, <3>2, <3>3, <3>4, TurnGoesOn
    <3> QED  BY <1>2, <3>1, <3>5
  <2>2. CASE ~handshaken /\ Reset
    <3>1. handled = <<>> /\ Taken = 0
      BY <2>2 DEF ChannelInv, StreamInv, Quiet
    <3>2. Len(handled') = 0
      BY <1>2, <3>1
    <3>3. Consumed' = 0
      <4>1. CASE packet' = NULL
        BY <1>3, <3>1, <4>1 DEF Takes, Consumed
      <4>2. CASE packet' # NULL
        <5>1. Len(packet') \in Nat /\ Taken' \in Nat /\ Taken' - Len(packet') = 0
          BY <1>3, <3>1, <4>2 DEF Takes
        <5>2. Consumed' = Taken' - (Len(packet') - 0)
          BY <1>2, <4>2 DEF Consumed
        <5> QED  BY <5>1, <5>2
      <4> QED  BY <4>1, <4>2
    <3>4. Begin(sent', 1) = 0
      BY BeginFirst
    <3>5. AtStart(1)'
      BY <2>2, <3>3, <3>4 DEF AtStart, Clean, Reset
    <3>6. packet' # NULL => rpos' <= Len(packet')
      BY <1>2, <1>3 DEF Takes
    <3>7. InTurn(1)'
      BY <3>5, <3>6 DEF InTurn
    <3> QED  BY <3>2, <3>7
  <2> QED  BY <1>4, <2>1, <2>2
<1> QED  BY <1>6, <1>7 DEF ChannelInv

\* processPackets goes on to the next packet.
LEMMA NextPacketKeeps ==
    ASSUME ChannelInv, NextPacket
    PROVE  ChannelInv'
<1>1. Types /\ InOrder /\ PacketsNoted /\ Measured /\ Ordered
  BY Amounts, Order DEF ChannelInv, StreamInv
<1>2. /\ packet # NULL /\ ~Looping /\ TakePacket(buffered) /\ rpos' = 0
      /\ UNCHANGED <<currId, currMsgLen, fragmentFlag, fragmentDatas, fragmentRemain, fragmentStream>>
      /\ UNCHANGED <<bundles, sentSize, sending, broken, wire, handshaken, condemned, connection>>
      /\ UNCHANGED <<handled, sent, cuts, complete>>
  BY DEF NextPacket, sendVars, history, fragmentVars
<1>3. Takes
  BY <1>1, <1>2, TakeTakes
<1>4. handshaken /\ ~condemned /\ handshaken' /\ ~condemned'
  BY <1>2 DEF ChannelInv, StreamInv, Quiet
<1>5. Types' /\ LengthFits'
  <2>1. buffered' \in Seq(Seq(Bytes)) /\ packet' \in Seq(Bytes) \cup {NULL}
    BY <1>3 DEF Takes
  <2> QED  BY <1>2, <2>1 DEF ChannelInv, StreamInv, Types, LengthFits
<1>6. StreamInv' /\ HandledRight'
  BY <1>2, <1>3, <1>4, <1>5, TakeKeeps
<1>7. ReaderInTurn'
  <2> SUFFICES ASSUME InStep(Len(handled))
               PROVE  InTurn(Len(handled) + 1)'
    BY <1>2 DEF ReaderInTurn, InStep
  <2>1. PICK n : n = Len(handled) + 1
    OBVIOUS
  <2>2. InTurn(n)
    BY <1>4, <2>1 DEF ChannelInv, ReaderInTurn
  <2>3. Lost(n) => Begin(sent, n + 1) \in Nat
    BY <1>1, <2>1, LostBegin DEF Types
  <2>4. Taken \in Nat
    BY <1>1 DEF Ordered
  <2>5. packet # NULL => rpos \in Nat /\ Len(packet) \in Nat
    BY <1>1 DEF Measured, Types
  <2>6. rpos >= Len(packet) /\ fragmentStream = NULL
    BY <1>2, <2>5 DEF Looping
  <2>7. InTurn(n)'
    BY <1>2, <1>3, <2>2, <2>3, <2>4, <2>5, <2>6, TurnGoesOn
  <2> QED  BY <1>2, <2>1, <2>7
<1> QED  BY <1>6, <1>7 DEF ChannelInv

\* What condemns the channel ends its processing.
LEMMA FailKeeps ==
    ASSUME ChannelInv, packet' = NULL, rpos' = 0, condemned' = TRUE, buffered' = <<>>,
           currId' \in Byte \X Byte, currMsgLen' = 0,
           UNCHANGED <<fragmentFlag, fragmentDatas, fragmentRemain, fragmentStream, handled>>,
           UNCHANGED <<bundles, sentSize, sending, broken, wire, handshaken, connection>>,
           UNCHANGED <<sent, cuts, complete>>, handshaken
    PROVE  ChannelInv'
<1>1. Types /\ InOrder /\ PacketsNoted /\ Measured /\ Ordered
  BY Amounts, Order DEF ChannelInv, StreamInv
<1>2. Types' /\ LengthFits'
  <2>1. buffered' \in Seq(Seq(Bytes)) /\ packet' \in Seq(Bytes) \cup {NULL}
    OBVIOUS
  <2>2. condemned' \in BOOLEAN /\ currMsgLen' \in Nat /\ rpos' \in Nat
    OBVIOUS
  <2> QED  BY <2>1, <2>2 DEF ChannelInv, StreamInv, Types, LengthFits
<1>3. Coming' = Coming
  BY DEF Coming, Unsent
<1>4. Pending' = Coming
  <2>1. Measured'
    BY <1>2, AmountsNext
  <2>2. Pending' = FlattenSeq(buffered') \o Coming'
    BY <2>1 DEF Measured
  <2>3. FlattenSeq(buffered') = <<>>
    BY FlattenEmpty
  <2>4. Coming \in Seq(Bytes)
    BY <1>1 DEF Measured
  <2>5. <<>> \o Coming = Coming
    BY <2>4, ConcatEmptySeq
  <2> QED  BY <1>3, <2>2, <2>3, <2>5
<1>5. InOrder'
  <2>1. InHand' = <<>>
    BY DEF InHand
  <2>2. <<>> \o Coming = Coming
    BY <1>1, ConcatEmptySeq DEF Measured
  <2> QED  BY <1>1, <1>4, <2>1, <2>2 DEF InOrder, Ordered
<1>6. Received' = Received
  BY <1>3 DEF Received
<1>7. CompleteExact' /\ Quiet' /\ PacketsNoted'
  BY <1>6 DEF ChannelInv, StreamInv, CompleteExact, Quiet, PacketsNoted
<1>8. HandledRight' /\ ReaderInTurn'
  BY DEF ChannelInv, HandledRight, InStep, WholeBody, ReaderInTurn
<1> QED  BY <1>2, <1>5, <1>7, <1>8 DEF ChannelInv, StreamInv

\* A turn that condemns the channel ends all processing.
LEMMA ReaderFailsKeeps ==
    ASSUME ChannelInv, ReaderFails, condemned' = TRUE, buffered' = <<>>,
           UNCHANGED <<sendVars, wire, handshaken, connection, history>>
    PROVE  ChannelInv'
<1>1. /\ UNCHANGED <<fragmentFlag, fragmentDatas, fragmentRemain, fragmentStream, handled>>
      /\ packet' = NULL /\ rpos' = 0 /\ currMsgLen' = 0
  BY DEF ReaderFails, NoHandler, FragmentTooShort, fragmentVars
<1>2. packet # NULL
  BY DEF ReaderFails, NoHandler, FragmentTooShort, HasId, HasLength, HasHandler, Reading, Looping
<1>3. handshaken
  BY <1>2 DEF ChannelInv, StreamInv, Quiet
<1>4. UNCHANGED <<bundles, sentSize, sending, broken, wire, handshaken, connection>> /\ UNCHANGED <<sent, cuts, complete>>
  BY DEF sendVars, history
<1>5. currId' \in Byte \X Byte
  <2>1. CASE NoHandler
    <3>1. HasId /\ currId' = MsgId
      BY <2>1 DEF NoHandler
    <3> QED  BY <1>2, <3>1, MsgIdType DEF ChannelInv, StreamInv
  <2>2. CASE FragmentTooShort
    BY <2>2 DEF FragmentTooShort, NoId, Byte
  <2> QED  BY <2>1, <2>2 DEF ReaderFails
<1> QED  BY <1>1, <1>3, <1>4, <1>5, FailKeeps

(***************************************************************************)
(* A turn of the reader: the packet and the stream, and what a turn must   *)
(* do to keep the invariant.                                               *)
(***************************************************************************)

\* Where the bytes of the packet being processed are in the stream.
PacketFacts ==
    /\ packet \in Seq(Bytes) /\ Len(packet) \in Nat \ {0} /\ rpos \in Nat
    /\ Taken \in Nat /\ Len(packet) <= Taken /\ Taken <= Len(Stream(sent)) /\ Len(Stream(sent)) \in Nat
    /\ Consumed = Taken - Len(packet) + rpos
    /\ \A i \in 1 .. Len(packet) : packet[i] = Stream(sent)[Taken - Len(packet) + i]
    /\ sent \in Seq(Messages) /\ Len(sent) \in Nat /\ Len(sent) <= MaxSent
    /\ Noted(packet, cuts)

\* The invariant says so of every packet processed.
LEMMA PacketHas ==
    ASSUME StreamInv, packet # NULL
    PROVE  PacketFacts
<1>1. Types /\ InOrder /\ Measured /\ Ordered
  BY Amounts, Order DEF StreamInv
<1>2. packet \in Seq(Bytes) /\ Noted(packet, cuts)
  BY <1>1 DEF Measured, StreamInv, PacketsNoted
<1>3. Len(packet) \in Nat \ {0}
  BY <1>2 DEF Noted
<1>4. /\ Taken \in Nat /\ Received \in Nat /\ Taken <= Received /\ Len(packet) <= Taken
      /\ Received + Len(Coming) = Len(Stream(sent)) /\ Len(Coming) \in Nat /\ Len(Stream(sent)) \in Nat
      /\ \A i \in 1 .. Len(packet) : packet[i] = Stream(sent)[Taken - Len(packet) + i]
  BY <1>1 DEF Measured, Ordered
<1>5. Taken <= Len(Stream(sent))
  BY <1>4
<1>6. rpos \in Nat /\ sent \in Seq(Messages) /\ Len(sent) <= MaxSent /\ Len(sent) \in Nat
  BY <1>1 DEF Types
<1>7. Consumed = Taken - Len(packet) + rpos
  BY <1>3, <1>4, <1>6 DEF Consumed
<1> QED  BY <1>2, <1>3, <1>4, <1>5, <1>6, <1>7 DEF PacketFacts

\* A byte of the packet is a byte of the stream.
LEMMA PacketByte ==
    ASSUME PacketFacts, NEW q \in Nat, NEW i \in Nat, q + i \in 1 .. Len(packet),
           NEW x \in Nat, x = Taken - Len(packet) + q
    PROVE  packet[q + i] = Stream(sent)[x + i] /\ packet[q + i] \in Bytes
<1>1. PICK j \in 1 .. Len(packet) : j = q + i
  OBVIOUS
<1>2. PICK t \in Nat, l \in Nat : t = Taken /\ l = Len(packet) /\ l <= t
  BY DEF PacketFacts
<1>3. t - l + j = x + i
  BY <1>1, <1>2
<1>4. packet[j] = Stream(sent)[t - l + j]
  BY <1>1, <1>2 DEF PacketFacts
<1>5. packet[j] \in Bytes
  BY <1>1 DEF PacketFacts
<1> QED  BY <1>1, <1>3, <1>4, <1>5

\* What is taken beyond the beginning of a message is of a message sent.
LEMMA WithinSent ==
    ASSUME PacketFacts, NEW m \in 1 .. Len(sent) + 1, Begin(sent, m) < Taken
    PROVE  m \in 1 .. Len(sent)
<1>1. PICK s \in Seq(Messages) : s = sent
  BY DEF PacketFacts
<1>2. Len(s) <= MaxSent /\ Len(s) \in Nat /\ Taken <= Len(Stream(s)) /\ Taken \in Nat /\ Len(Stream(s)) \in Nat
  BY <1>1 DEF PacketFacts
<1>3. Begin(s, Len(s) + 1) = Len(Stream(s))
  BY <1>2, BeginLast
<1>4. ASSUME m = Len(s) + 1  PROVE FALSE
  <2>1. Begin(s, m) = Len(Stream(s)) /\ Begin(s, m) < Taken
    BY <1>1, <1>3, <1>4
  <2> QED  BY <1>2, <2>1
<1> QED  BY <1>1, <1>2, <1>4

\* The message the reader is at.
AtMessage(m) ==
    /\ m \in 1 .. Len(sent) /\ MessageAt(sent, m)

\* What the stream says of a message sent.
LEMMA AtSent ==
    ASSUME PacketFacts, NEW m \in 1 .. Len(sent)
    PROVE  AtMessage(m)
  BY StreamBytes DEF PacketFacts, AtMessage

\* Where a packet ends in the middle of a message is noted.
LEMMA CutNoted ==
    ASSUME PacketFacts, NEW m \in 1 .. Len(sent), NEW k \in Nat, NEW n \in Nat,
           n = BodyLen(m), 1 <= k, k < 4 + n, Taken = Begin(sent, m) + k
    PROVE  <<m, Place(k, n)>> \in cuts
<1>1. MessageAt(sent, m)
  BY AtSent DEF AtMessage
<1>2. k \in 1 .. 4 + n /\ k # 4 + n
  OBVIOUS
<1>3. Place(k, n) \in Cuts
  BY <1>2, PlaceEnd
<1>4. Stream(sent)[Taken].msg = m /\ Stream(sent)[Taken].cut = Place(k, n)
  BY <1>1, <1>2 DEF MessageAt, BodyLen
<1>5. packet[Len(packet)] = Stream(sent)[Taken]
  <2>1. Len(packet) \in 1 .. Len(packet) /\ Taken - Len(packet) + Len(packet) = Taken
    BY DEF PacketFacts
  <2> QED  BY <2>1 DEF PacketFacts
<1> QED  BY <1>3, <1>4, <1>5 DEF PacketFacts, Noted

ReaderTyped ==
    /\ fragmentStream \in Seq(Bytes) \cup {NULL}
    /\ rpos \in Nat /\ currId \in Byte \X Byte /\ currMsgLen \in Nat
    /\ fragmentFlag \in {"unknown", "id", "length", "body"}
    /\ fragmentDatas \in Seq(Bytes) /\ fragmentRemain \in Nat
    /\ fragmentFlag = "unknown" <=> fragmentRemain = 0
    /\ handled \in Seq([id : Handlers, body : Seq(Byte)])
    /\ LengthFits

\* A turn of the reader leaves what has been sent and received.
LEMMA TurnFrame ==
    ASSUME StreamInv, packet # NULL, UNCHANGED packet,
           UNCHANGED <<sendVars, wire, receiveVars, connection, history>>, ReaderTyped'
    PROVE  StreamInv' /\ Taken' = Taken /\ Received' = Received
<1>1. /\ UNCHANGED <<bundles, sentSize, sending, broken, wire, buffered, handshaken, condemned, connection>>
      /\ UNCHANGED <<sent, cuts, complete, packet>>
  BY DEF sendVars, receiveVars, history
<1>2. Pending' = Pending /\ Coming' = Coming /\ InHand' = InHand
  BY <1>1 DEF Pending, Coming, InHand, Unsent
<1>3. Taken' = Taken /\ Received' = Received
  BY <1>1, <1>2 DEF Taken, Received
<1>4. Types' /\ LengthFits'
  BY <1>1 DEF StreamInv, Types, ReaderTyped
<1>5. InOrder' /\ PacketsNoted' /\ CompleteExact'
  BY <1>1, <1>2, <1>3 DEF StreamInv, InOrder, PacketsNoted, CompleteExact
<1>6. Quiet'
  BY <1>1 DEF StreamInv, Quiet
<1> QED  BY <1>3, <1>4, <1>5, <1>6 DEF StreamInv

\* If no handler is called, the invariant holds when the reader is still in its message.
LEMMA TurnInMessage ==
    ASSUME ChannelInv, packet # NULL, UNCHANGED packet, UNCHANGED handled,
           UNCHANGED <<sendVars, wire, receiveVars, connection, history>>, ReaderTyped',
           \A m \in 1 .. Len(sent) + 1 : InStep(m - 1) /\ InTurn(m) => InTurn(m)'
    PROVE  ChannelInv'
<1>1. StreamInv' /\ UNCHANGED <<sent, cuts, complete, handshaken, condemned>>
  BY TurnFrame DEF ChannelInv, receiveVars, history
<1>2. HandledRight'
  BY <1>1 DEF ChannelInv, HandledRight, InStep, WholeBody
<1>3. ReaderInTurn'
  <2> SUFFICES ASSUME handshaken, ~condemned, InStep(Len(handled))
               PROVE  InTurn(Len(handled) + 1)'
    BY <1>1 DEF ReaderInTurn, InStep
  <2>1. complete \in 0 .. Len(sent) /\ Len(sent) \in Nat /\ handled \in Seq([id : Handlers, body : Seq(Byte)])
    BY DEF ChannelInv, StreamInv, CompleteExact, Types
  <2>2. Len(handled) \in 0 .. complete
    BY <2>1, HandledBound DEF ChannelInv
  <2>3. PICK m \in 1 .. Len(sent) + 1 : m = Len(handled) + 1
    BY <2>1, <2>2
  <2>4. Len(handled) = m - 1
    BY <2>2, <2>3
  <2>5. InTurn(m)
    BY <2>3 DEF ChannelInv, ReaderInTurn
  <2>6. InTurn(m)'
    BY <2>4, <2>5
  <2> QED  BY <2>3, <2>6
<1> QED  BY <1>1, <1>2, <1>3 DEF ChannelInv

\* What is taken to the end of a message is complete.
LEMMA TakenIsComplete ==
    ASSUME StreamInv, NEW m \in 1 .. Len(sent), Begin(sent, m + 1) <= Taken
    PROVE  m <= complete
<1>1. Types /\ Ordered
  BY Order DEF StreamInv
<1>2. PICK s \in Seq(Messages) : s = sent
  BY <1>1 DEF Types
<1>3. Len(s) \in Nat /\ Len(s) <= MaxSent
  BY <1>1, <1>2 DEF Types
<1>4. PICK l \in Nat : l = Len(s)
  BY <1>3
<1>5. PICK c \in 0 .. l : c = complete
  BY <1>2, <1>4 DEF StreamInv, CompleteExact
<1>6. ASSUME c < m  PROVE FALSE
  <2>1. m \in 1 .. l /\ c < l /\ c + 2 \in 1 .. l + 1 /\ m + 1 \in c + 2 .. l + 1
    BY <1>2, <1>4, <1>5, <1>6
  <2>2. PICK i \in 1 .. Len(s) + 1 : i = c + 2
    BY <1>4, <2>1
  <2>3. PICK j \in i .. Len(s) + 1 : j = m + 1
    BY <1>4, <2>1, <2>2
  <2>4. Begin(s, i) <= Begin(s, j) /\ Begin(s, i) \in Nat /\ Begin(s, j) \in Nat
    <3>1. j \in 1 .. Len(s) + 1
      BY <1>3, <2>2, <2>3
    <3> QED  BY <1>3, <3>1, BeginGrows, BeginType
  <2>5. Received < Begin(s, i)
    BY <1>2, <1>4, <1>5, <2>1, <2>2 DEF StreamInv, CompleteExact
  <2>6. Begin(s, j) <= Taken /\ Taken <= Received /\ Taken \in Nat /\ Received \in Nat
    BY <1>1, <1>2, <2>3 DEF Ordered
  <2> QED  BY <2>4, <2>5, <2>6
<1> QED  BY <1>2, <1>4, <1>5, <1>6

\* If a handler is called for the m-th message, the invariant holds when that is all there
\* and the reader, if it is in step, has handled it right and is at the next.
LEMMA TurnHandles ==
    ASSUME ChannelInv, packet # NULL, UNCHANGED packet,
           UNCHANGED <<sendVars, wire, receiveVars, connection, history>>, ReaderTyped',
           NEW call, handled' = Append(handled, call),
           \A m \in 1 .. Len(sent) + 1 : InStep(m - 1) /\ InTurn(m) =>
               /\ m <= Len(sent) /\ Begin(sent, m + 1) <= Taken
               /\ InStep(m) => /\ InTurn(m + 1)'
                               /\ call.id = sent[m].id
                               /\ WholeBody(m) => call.body = sent[m].body
    PROVE  ChannelInv'
<1>1. StreamInv' /\ UNCHANGED <<sent, cuts, complete, handshaken, condemned>>
  BY TurnFrame DEF ChannelInv, receiveVars, history
<1>2. complete \in 0 .. Len(sent) /\ Len(sent) \in Nat /\ handled \in Seq([id : Handlers, body : Seq(Byte)])
  BY DEF ChannelInv, StreamInv, CompleteExact, Types
<1>3. handshaken /\ ~condemned
  BY DEF ChannelInv, StreamInv, Quiet
<1>4. PICK h \in Nat : h = Len(handled)
  BY <1>2
<1>5. /\ Len(handled') = h + 1 /\ handled'[h + 1] = call
      /\ \A i \in 1 .. h : handled'[i] = handled[i]
      /\ DOMAIN handled' = 1 .. h + 1
  BY <1>2, <1>4
<1>6. PICK m \in Nat : m = h + 1
  OBVIOUS
<1>7. m - 1 = h /\ m \in 1 .. h + 1
  BY <1>6
<1>8. ASSUME InStep(h)
      PROVE  /\ m \in 1 .. Len(sent) /\ Begin(sent, m + 1) <= Taken
             /\ InStep(m) => /\ InTurn(m + 1)'
                             /\ call.id = sent[m].id
                             /\ WholeBody(m) => call.body = sent[m].body
  <2>1. h \in 0 .. complete
    BY <1>2, <1>4, <1>8, HandledBound DEF ChannelInv
  <2>2. m \in 1 .. Len(sent) + 1
    BY <1>2, <1>6, <2>1
  <2>3. InTurn(m)
    BY <1>3, <1>4, <1>6, <1>8 DEF ChannelInv, ReaderInTurn
  <2>4. InStep(m - 1)
    BY <1>7, <1>8
  <2>5. m <= Len(sent)
    BY <2>2, <2>3, <2>4
  <2>6. m \in 1 .. Len(sent)
    BY <1>2, <2>2, <2>5
  <2> QED  BY <2>2, <2>3, <2>4, <2>6
<1>9. ASSUME InStep(m)  PROVE InStep(h)
  <2>1. \A k \in 1 .. h : k \in 1 .. m
    BY <1>6
  <2> QED  BY <1>9, <2>1 DEF InStep
<1>10. HandledRight'
  <2> SUFFICES ASSUME NEW i \in DOMAIN handled'
               PROVE  /\ InStep(i - 1) => i <= complete
                      /\ InStep(i) => /\ handled'[i].id = sent[i].id
                                      /\ WholeBody(i) => handled'[i].body = sent[i].body
    BY <1>1 DEF HandledRight, InStep, WholeBody
  <2>1. CASE i \in 1 .. h
    <3>1. i \in DOMAIN handled /\ handled'[i] = handled[i]
      BY <1>2, <1>4, <1>5, <2>1
    <3> QED  BY <3>1 DEF ChannelInv, HandledRight
  <2>2. CASE i = m
    <3>1. handled'[i] = call
      BY <1>5, <1>6, <2>2
    <3>2. InStep(i - 1) => i <= complete
      BY <1>7, <1>8, <2>2, TakenIsComplete DEF ChannelInv
    <3> QED  BY <1>8, <1>9, <2>2, <3>1, <3>2
  <2>3. i \in 1 .. h \/ i = m
    BY <1>5, <1>6
  <2> QED  BY <2>1, <2>2, <2>3
<1>11. ReaderInTurn'
  <2> SUFFICES ASSUME InStep(m)
               PROVE  InTurn(m + 1)'
    <3>1. Len(handled') = m
      BY <1>5, <1>6
    <3> QED  BY <1>1, <3>1 DEF ReaderInTurn, InStep
  <2> QED  BY <1>8, <1>9
<1> QED  BY <1>1, <1>10, <1>11 DEF ChannelInv

(***************************************************************************)
(* A turn of the reader: the types of what it computes.                    *)
(***************************************************************************)

\* What is behind the first n elements, or nothing.
LEMMA BehindAny ==
    ASSUME NEW S, NEW s \in Seq(S), NEW n \in Nat
    PROVE  /\ Behind(s, n) \in Seq(S) /\ Len(Behind(s, n)) \in Nat
           /\ Len(s) - n <= Len(Behind(s, n))
<1>1. Len(s) \in Nat
  OBVIOUS
<1>2. CASE n <= Len(s)
  <2>1. n \in 0 .. Len(s)
    BY <1>1, <1>2
  <2>2. Behind(s, n) \in Seq(S) /\ Len(Behind(s, n)) = Len(s) - n
    BY <2>1, BehindType
  <2> QED  BY <1>1, <1>2, <2>2
<1>3. CASE ~(n <= Len(s))
  <2>1. n + 1 \in Int /\ Len(s) \in Int /\ Len(s) < n + 1 /\ Len(s) - n <= 0
    BY <1>1, <1>3
  <2>2. Behind(s, n) = <<>>
    BY <2>1, SubSeqEmpty DEF Behind
  <2>3. <<>> \in Seq(S) /\ Len(<<>>) = 0
    OBVIOUS
  <2> QED  BY <2>1, <2>2, <2>3
<1> QED  BY <1>2, <1>3

\* The values of bytes are bytes.
LEMMA ValuesType ==
    ASSUME NEW p \in Seq(Bytes)
    PROVE  /\ Values(p) \in Seq(Byte) /\ Len(Values(p)) = Len(p)
           /\ \A i \in 1 .. Len(p) : Values(p)[i] = p[i].value
<1>1. \A i \in 1 .. Len(p) : p[i] \in Bytes
  OBVIOUS
<1>2. \A i \in 1 .. Len(p) : p[i].value \in Byte
  BY <1>1 DEF Bytes
<1> QED  BY <1>2 DEF Values

\* Two bytes are a number.
LEMMA NumberType ==
    ASSUME NEW v, v[1] \in Byte, v[2] \in Byte
    PROVE  Number(v) \in Nat
<1>1. PICK a \in Byte : a = v[1]
  OBVIOUS
<1>2. PICK b \in Byte : b = v[2]
  OBVIOUS
<1>3. a + 256 * b \in Nat
  BY DEF Byte
<1> QED  BY <1>1, <1>2, <1>3 DEF Number

\* A blob is a sequence of bytes.
LEMMA BlobType ==
    ASSUME NEW v \in Seq(Byte), 2 <= Len(v)
    PROVE  Blob(v) \in Seq(Byte)
<1>1. v[1] \in Byte /\ v[2] \in Byte
  <2>1. 1 \in 1 .. Len(v) /\ 2 \in 1 .. Len(v)
    OBVIOUS
  <2> QED  BY <2>1
<1>2. PICK size \in Nat : size = Number(v)
  BY <1>1, NumberType
<1>3. PICK rest \in Seq(Byte) : rest = Behind(v, 2)
  BY BehindAny
<1>4. Blob(v) = IF size <= Len(rest) THEN SubSeq(rest, 1, size) ELSE <<>>
  BY <1>2, <1>3 DEF Blob, LENGTH_SIZE
<1>5. ASSUME size <= Len(rest)  PROVE SubSeq(rest, 1, size) \in Seq(Byte)
  <2>1. size \in 0 .. Len(rest) /\ 0 \in 0 .. Len(rest) /\ 0 + 1 = 1
    BY <1>5
  <2>2. SubSeq(rest, 0 + 1, size) \in Seq(Byte)
    BY <2>1, PieceType
  <2> QED  BY <2>1, <2>2
<1> QED  BY <1>4, <1>5

\* What is behind a length.
LEMMA BehindTwo ==
    ASSUME NEW S, NEW v \in Seq(S), 2 <= Len(v)
    PROVE  Len(Behind(v, 2)) = Len(v) - 2 /\ \A k \in 1 .. Len(v) - 2 : Behind(v, 2)[k] = v[2 + k]
<1>1. 2 \in 0 .. Len(v)
  OBVIOUS
<1> QED  BY <1>1, BehindType

\* A handler that finds a length and as many bytes behind it reads those.
LEMMA BlobReads ==
    ASSUME NEW v \in Seq(Byte), NEW n \in Nat, n < 256 * 256, Len(v) = 2 + n,
           v[1] = n % 256, v[2] = n \div 256,
           NEW body \in Seq(Byte), Len(body) = n, \A k \in 1 .. n : v[2 + k] = body[k]
    PROVE  Blob(v) = body
<1>1. Number(v) = n
  BY LengthBytes DEF Number
<1>2. PICK rest \in Seq(Byte) : rest = Behind(v, 2)
  BY BehindAny
<1>3. Len(rest) = n /\ \A k \in 1 .. n : rest[k] = v[2 + k]
  <2>1. 2 \in 0 .. Len(v) /\ Len(v) - 2 = n
    OBVIOUS
  <2>2. 2 <= Len(v)
    OBVIOUS
  <2>3. Len(Behind(v, 2)) = Len(v) - 2 /\ \A k \in 1 .. Len(v) - 2 : Behind(v, 2)[k] = v[2 + k]
    BY <2>2, BehindTwo, Zenon
  <2> QED  BY <1>2, <2>1, <2>3
<1>4. Blob(v) = SubSeq(rest, 1, Len(rest))
  BY <1>1, <1>2, <1>3 DEF Blob, LENGTH_SIZE
<1>5. Blob(v) = rest
  BY <1>4, SubSeqFull
<1>6. rest = body
  BY <1>3, SeqEqual
<1> QED  BY <1>5, <1>6

\* The memory of a packet: its bytes and those a recycled one holds behind them.
LEMMA MemoryType ==
    ASSUME NEW p \in Seq(Bytes), NEW stale \in Stale, NEW z, z = [i \in 1 .. 2 |-> stale],
           NEW memory, memory = Values(p) \o z
    PROVE  /\ memory \in Seq(Byte) /\ Len(memory) = Len(p) + 2
           /\ \A i \in 1 .. Len(p) : memory[i] = p[i].value
<1>1. PICK v \in Seq(Byte) : v = Values(p)
  BY ValuesType
<1>2. Len(v) = Len(p) /\ \A i \in 1 .. Len(p) : v[i] = p[i].value
  BY <1>1, ValuesType
<1>3. PICK y \in Seq(Byte) : y = z
  <2>1. stale \in Byte
    BY Constants
  <2>2. <<stale, stale>> \in Seq(Byte)
    BY <2>1, PairIsSeq
  <2>3. z = <<stale, stale>>
    OBVIOUS
  <2> QED  BY <2>2, <2>3
<1>4. Len(y) = 2
  BY <1>3
<1>5. /\ v \o y \in Seq(Byte) /\ Len(v \o y) = Len(v) + Len(y)
      /\ \A i \in 1 .. Len(v) + Len(y) : (v \o y)[i] = IF i <= Len(v) THEN v[i] ELSE y[i - Len(v)]
  BY ConcatProperties
<1>6. ASSUME NEW i \in 1 .. Len(p)  PROVE (v \o y)[i] = p[i].value
  <2>1. i \in 1 .. Len(v) + Len(y) /\ i <= Len(v)
    BY <1>2, <1>4
  <2> QED  BY <1>2, <1>5, <2>1
<1> QED  BY <1>1, <1>2, <1>3, <1>4, <1>5, <1>6

\* What the turns that find an id and a length work with.
LEMMA LengthTypes ==
    ASSUME StreamInv, HasHandler
    PROVE  /\ packet # NULL /\ packet \in Seq(Bytes) /\ Len(packet) \in Nat /\ rpos \in Nat
           /\ MsgId \in Handlers /\ MsgId \in Byte \X Byte
           /\ BehindId \in Nat /\ BehindId = (IF IdKnown THEN rpos ELSE rpos + 2)
           /\ HasLength => /\ MsgLen \in Nat
                           /\ BehindLength \in Nat
                           /\ BehindLength = (IF currMsgLen # 0 THEN BehindId ELSE BehindId + 2)
<1>1. packet # NULL /\ HasId /\ MsgId \in Handlers
  BY DEF HasHandler, HasId, Reading, Looping
<1>2. /\ packet \in Seq(Bytes) /\ Len(packet) \in Nat /\ rpos \in Nat /\ currMsgLen \in Nat
  BY <1>1 DEF StreamInv, Types
<1>3. MsgId \in Byte \X Byte
  BY <1>1, MsgIdType DEF StreamInv
<1>4. BehindId \in Nat /\ BehindId = (IF IdKnown THEN rpos ELSE rpos + 2)
  BY <1>2 DEF BehindId, ID_SIZE
<1>5. ASSUME HasLength
      PROVE  /\ MsgLen \in Nat /\ BehindLength \in Nat
             /\ BehindLength = (IF currMsgLen # 0 THEN BehindId ELSE BehindId + 2)
  <2>1. BehindLength \in Nat /\ BehindLength = (IF currMsgLen # 0 THEN BehindId ELSE BehindId + 2)
    BY <1>4 DEF BehindLength, LENGTH_SIZE
  <2>2. CASE currMsgLen # 0
    BY <1>2, <2>1, <2>2 DEF MsgLen
  <2>3. CASE currMsgLen = 0
    <3>1. Len(packet) - BehindId >= 2
      BY <1>5, <2>3 DEF HasLength, Left, LENGTH_SIZE
    <3>2. PICK b \in Nat : b = BehindId
      BY <1>4
    <3>3. PICK p \in Seq(Bytes) : p = packet
      BY <1>2
    <3>4. b \in 0 .. Len(p) /\ b + 2 \in b .. Len(p) /\ (b + 2) - b = 2
      BY <3>1, <3>2, <3>3
    <3>5. PICK e \in b .. Len(p) : e = b + 2
      BY <3>4
    <3>6. SubSeq(p, b + 1, e) \in Seq(Bytes) /\ Len(SubSeq(p, b + 1, e)) = e - b
      BY <3>4, PieceType
    <3>7. PICK two \in Seq(Bytes) : two = SubSeq(p, b + 1, e)
      BY <3>6
    <3>8. Len(two) = 2
      BY <3>5, <3>6, <3>7
    <3>9. Values(two)[1] \in Byte /\ Values(two)[2] \in Byte
      <4>1. Values(two) \in Seq(Byte) /\ Len(Values(two)) = 2
        BY <3>8, ValuesType
      <4>2. PICK w \in Seq(Byte) : w = Values(two)
        BY <4>1
      <4>3. 1 \in 1 .. Len(w) /\ 2 \in 1 .. Len(w)
        <5>1. Len(w) = 2
          BY <4>1, <4>2
        <5> QED  BY <5>1
      <4>4. w[1] \in Byte /\ w[2] \in Byte
        BY <4>3
      <4> QED  BY <4>2, <4>4
    <3>10. Number(Values(two)) \in Nat
      BY <3>9, NumberType
    <3>11. MsgLen = Number(Values(two))
      BY <2>3, <3>2, <3>3, <3>5, <3>7 DEF MsgLen, LENGTH_SIZE
    <3> QED  BY <2>1, <3>10, <3>11
  <2> QED  BY <2>2, <2>3
<1> QED  BY <1>1, <1>2, <1>3, <1>4, <1>5

\* What is put by, and how much is still to come.
LEMMA FragmentTypes ==
    ASSUME StreamInv, packet # NULL, NEW flag \in {"id", "length", "body"}, NEW from \in Nat, NEW size \in Nat,
           Left(from) < size, flag = "length" => size = 2, WriteFragment(flag, from, size)
    PROVE  /\ fragmentFlag' \in {"id", "length", "body"} /\ fragmentDatas' \in Seq(Bytes)
           /\ fragmentRemain' \in Nat \ {0} /\ rpos' \in Nat /\ LengthFits'
<1>1. packet \in Seq(Bytes) /\ Len(packet) \in Nat
  BY DEF StreamInv, Types
<1>2. PICK d \in Seq(Bytes) : d = Behind(packet, from)
  BY <1>1, BehindAny
<1>3. Len(d) \in Nat /\ Len(packet) - from <= Len(d)
  BY <1>1, <1>2, BehindAny
<1>4. /\ fragmentFlag' = flag /\ fragmentDatas' = d /\ rpos' = Len(packet)
      /\ fragmentRemain' = size - (Len(packet) - from)
  BY <1>2 DEF WriteFragment, Left
<1>5. fragmentRemain' \in Nat \ {0}
  BY <1>1, <1>4 DEF Left
<1>6. LengthFits'
  BY <1>1, <1>3, <1>4, <1>5 DEF LengthFits
<1> QED  BY <1>1, <1>4, <1>5, <1>6

\* CutInId keeps the types.
LEMMA CutInIdTypes ==
    ASSUME StreamInv, CutInId
    PROVE  ReaderTyped'
<1>1. packet # NULL /\ Left(rpos) < 2
  <2>1. packet # NULL /\ rpos \in Nat /\ Len(packet) \in Nat /\ ~(Left(rpos) >= 2)
    BY DEF CutInId, HasId, Reading, Looping, ID_SIZE, StreamInv, Types
  <2> QED  BY <2>1 DEF Left
<1>2. /\ WriteFragment("id", rpos, 2) /\ UNCHANGED <<currId, currMsgLen, fragmentStream, handled>>
  BY DEF CutInId, ID_SIZE
<1>3. rpos \in Nat /\ 2 \in Nat
  BY DEF StreamInv, Types
<1>4. /\ fragmentFlag' \in {"id", "length", "body"} /\ fragmentDatas' \in Seq(Bytes)
      /\ fragmentRemain' \in Nat \ {0} /\ rpos' \in Nat /\ LengthFits'
  BY <1>1, <1>2, <1>3, FragmentTypes
<1> QED  BY <1>2, <1>4 DEF StreamInv, Types, ReaderTyped

\* CutInLength keeps them.
LEMMA CutInLengthTypes ==
    ASSUME StreamInv, CutInLength
    PROVE  ReaderTyped'
<1>1. HasHandler /\ ~HasLength
  BY DEF CutInLength
<1>2. /\ packet # NULL /\ Len(packet) \in Nat /\ MsgId \in Byte \X Byte /\ BehindId \in Nat
  BY <1>1, LengthTypes
<1>3. Left(BehindId) < 2
  <2>1. ~(Left(BehindId) >= 2)
    BY <1>1 DEF HasLength, LENGTH_SIZE
  <2> QED  BY <1>2, <2>1 DEF Left
<1>4. PICK b \in Nat : b = BehindId
  BY <1>2
<1>5. WriteFragment("length", b, 2) /\ currId' = MsgId /\ UNCHANGED <<currMsgLen, fragmentStream, handled>>
  BY <1>4 DEF CutInLength, LENGTH_SIZE
<1>6. /\ fragmentFlag' \in {"id", "length", "body"} /\ fragmentDatas' \in Seq(Bytes)
      /\ fragmentRemain' \in Nat \ {0} /\ rpos' \in Nat /\ LengthFits'
  BY <1>2, <1>3, <1>4, <1>5, FragmentTypes
<1> QED  BY <1>2, <1>5, <1>6 DEF StreamInv, Types, ReaderTyped

\* CutInBody keeps them.
LEMMA CutInBodyTypes ==
    ASSUME StreamInv, CutInBody
    PROVE  ReaderTyped'
<1>1. HasHandler /\ HasLength
  BY DEF CutInBody, HasLength
<1>2. /\ packet # NULL /\ MsgId \in Byte \X Byte /\ BehindLength \in Nat /\ MsgLen \in Nat
  BY <1>1, LengthTypes
<1>3. PICK b \in Nat : b = BehindLength
  BY <1>2
<1>4. PICK n \in Nat : n = MsgLen
  BY <1>2
<1>5. /\ WriteFragment("body", b, n) /\ Left(b) < n
      /\ currId' = MsgId /\ currMsgLen' = n /\ UNCHANGED <<fragmentStream, handled>>
  BY <1>3, <1>4 DEF CutInBody
<1>6. /\ fragmentFlag' \in {"id", "length", "body"} /\ fragmentDatas' \in Seq(Bytes)
      /\ fragmentRemain' \in Nat \ {0} /\ rpos' \in Nat /\ LengthFits'
  BY <1>2, <1>5, FragmentTypes
<1> QED  BY <1>2, <1>5, <1>6 DEF StreamInv, Types, ReaderTyped

\* A call of a handler is of one that exists, with bytes.
LEMMA CallTypes ==
    ASSUME StreamInv, HasHandler, NEW v \in Seq(Byte), 2 <= Len(v), CallHandler(v)
    PROVE  /\ handled' \in Seq([id : Handlers, body : Seq(Byte)])
           /\ currId' \in Byte \X Byte /\ currMsgLen' \in Nat
<1>1. MsgId \in Handlers
  BY LengthTypes
<1>2. Blob(v) \in Seq(Byte)
  BY BlobType
<1>3. PICK call \in [id : Handlers, body : Seq(Byte)] : call = [id |-> MsgId, body |-> Blob(v)]
  BY <1>1, <1>2
<1>4. handled' = Append(handled, call) /\ currId' = NoId /\ currMsgLen' = 0
  BY <1>3 DEF CallHandler
<1>5. handled \in Seq([id : Handlers, body : Seq(Byte)])
  BY DEF StreamInv, Types
<1> QED  BY <1>4, <1>5 DEF NoId, Byte

\* HandleFragment keeps the types.
LEMMA HandleFragmentTypes ==
    ASSUME StreamInv, HandleFragment
    PROVE  ReaderTyped'
<1>1. HasHandler /\ fragmentStream \in Seq(Bytes) /\ Len(fragmentStream) >= 2
  BY DEF HandleFragment, HasLength, LENGTH_SIZE, StreamInv, Types
<1>2. PICK v \in Seq(Byte) : v = Values(fragmentStream)
  BY <1>1, ValuesType
<1>3. 2 <= Len(v)
  BY <1>1, <1>2, ValuesType
<1>4. CallHandler(v) /\ fragmentStream' = NULL /\ UNCHANGED <<packet, rpos, fragmentFlag, fragmentDatas, fragmentRemain>>
  BY <1>2 DEF HandleFragment, fragmentVars
<1>5. /\ handled' \in Seq([id : Handlers, body : Seq(Byte)])
      /\ currId' \in Byte \X Byte /\ currMsgLen' \in Nat
  BY <1>1, <1>3, <1>4, CallTypes
<1> QED  BY <1>4, <1>5 DEF StreamInv, Types, ReaderTyped, LengthFits

\* What Handle does, with the place where the handler starts and the memory it reads.
Handles(start, n, memory) ==
    /\ start + 2 + n <= Len(memory)
    /\ BehindLength < 2 => start = 0
    /\ BehindLength >= 2 => start = BehindLength - 2
    /\ CallHandler(SubSeq(memory, start + 1, start + 2 + n))
    /\ rpos' = start + 2 + n

\* Handle reads from its start in the memory of the packet.
LEMMA HandleHandles ==
    ASSUME StreamInv, Handle
    PROVE  /\ HasHandler /\ HasLength /\ packet # NULL /\ packet \in Seq(Bytes)
           /\ MsgLen \in Nat /\ BehindLength \in Nat
           /\ UNCHANGED <<packet, fragmentFlag, fragmentDatas, fragmentRemain, fragmentStream>>
           /\ fragmentStream = NULL /\ Len(packet) - BehindLength >= MsgLen
           /\ \E start \in Nat : \E memory \in Seq(Byte) :
                 /\ Handles(start, MsgLen, memory)
                 /\ Len(memory) = Len(packet) + 2
                 /\ \A i \in 1 .. Len(packet) : memory[i] = packet[i].value
<1>1. HasHandler /\ HasLength /\ fragmentStream = NULL
  BY DEF Handle, HasLength
<1>2. /\ packet # NULL /\ packet \in Seq(Bytes) /\ Len(packet) \in Nat
      /\ MsgLen \in Nat /\ BehindLength \in Nat
  BY <1>1, LengthTypes
<1>3. Len(packet) - BehindLength >= MsgLen
  BY DEF Handle, Left
<1>4. UNCHANGED <<packet, fragmentFlag, fragmentDatas, fragmentRemain, fragmentStream>>
  BY DEF Handle, fragmentVars
<1>5. PICK b \in Nat : b = BehindLength
  BY <1>2
<1>6. PICK n \in Nat : n = MsgLen
  BY <1>2
<1>7. PICK start \in Nat : start = IF b < 2 THEN 0 ELSE b - 2
  <2>1. CASE b < 2
    BY <2>1
  <2>2. CASE ~(b < 2)
    BY <2>2
  <2> QED  BY <2>1, <2>2
<1>8. PICK stale \in Stale :
          CallHandler(SubSeq(Values(packet) \o [i \in 1 .. LENGTH_SIZE |-> stale], start + 1, start + 2 + n))
  BY <1>5, <1>6, <1>7 DEF Handle, LENGTH_SIZE
<1>9. PICK memory : memory = Values(packet) \o [i \in 1 .. 2 |-> stale]
  OBVIOUS
<1>10. /\ memory \in Seq(Byte) /\ Len(memory) = Len(packet) + 2
       /\ \A i \in 1 .. Len(packet) : memory[i] = packet[i].value
  BY <1>2, <1>9, MemoryType, ZenonT(40)
<1>11. CallHandler(SubSeq(memory, start + 1, start + 2 + n))
  BY <1>8, <1>9 DEF LENGTH_SIZE
<1>12. rpos' = start + 2 + n
  BY <1>5, <1>6, <1>7 DEF Handle, LENGTH_SIZE
<1>13. start + 2 + n <= Len(memory)
  BY <1>2, <1>3, <1>5, <1>6, <1>7, <1>10
<1>14. Handles(start, n, memory)
  BY <1>5, <1>7, <1>11, <1>12, <1>13 DEF Handles
<1> QED  BY <1>1, <1>2, <1>3, <1>4, <1>6, <1>10, <1>14

\* Handle keeps the types.
LEMMA HandleTypes ==
    ASSUME StreamInv, Handle
    PROVE  ReaderTyped'
<1>1. PICK n \in Nat : n = MsgLen
  BY HandleHandles
<1>2. PICK start \in Nat : \E memory \in Seq(Byte) : Handles(start, n, memory)
  BY <1>1, HandleHandles
<1>3. PICK memory \in Seq(Byte) : Handles(start, n, memory)
  BY <1>2
<1>4. start \in 0 .. Len(memory) /\ start + 2 + n \in start .. Len(memory)
  BY <1>3 DEF Handles
<1>5. PICK end \in start .. Len(memory) : end = start + 2 + n
  BY <1>4
<1>6. SubSeq(memory, start + 1, end) \in Seq(Byte) /\ Len(SubSeq(memory, start + 1, end)) = end - start
  BY <1>4, PieceType
<1>7. PICK v \in Seq(Byte) : v = SubSeq(memory, start + 1, end)
  BY <1>6
<1>8. 2 <= Len(v)
  BY <1>5, <1>6, <1>7
<1>9. CallHandler(v) /\ rpos' = end
  BY <1>3, <1>5, <1>7 DEF Handles
<1>10. /\ handled' \in Seq([id : Handlers, body : Seq(Byte)])
       /\ currId' \in Byte \X Byte /\ currMsgLen' \in Nat
  BY <1>8, <1>9, HandleHandles, CallTypes
<1>11. rpos' \in Nat
  BY <1>5, <1>9
<1>12. UNCHANGED <<fragmentFlag, fragmentDatas, fragmentRemain, fragmentStream>>
  BY HandleHandles
<1> QED  BY <1>10, <1>11, <1>12 DEF StreamInv, Types, ReaderTyped, LengthFits

\* Two sequences one behind the other.
LEMMA Joined ==
    ASSUME NEW S, NEW a \in Seq(S), NEW b \in Seq(S)
    PROVE  /\ a \o b \in Seq(S) /\ Len(a \o b) = Len(a) + Len(b)
           /\ \A i \in 1 .. Len(a) : (a \o b)[i] = a[i]
           /\ \A i \in 1 .. Len(b) : (a \o b)[Len(a) + i] = b[i]
<1>1. PICK ab : ab = a \o b
  OBVIOUS
<1>2. /\ ab \in Seq(S) /\ Len(ab) = Len(a) + Len(b) /\ Len(a) \in Nat /\ Len(b) \in Nat
      /\ \A i \in 1 .. Len(a) + Len(b) : ab[i] = IF i <= Len(a) THEN a[i] ELSE b[i - Len(a)]
  BY <1>1, ConcatProperties
<1>3. ASSUME NEW i \in 1 .. Len(a)  PROVE ab[i] = a[i]
  <2>1. i \in 1 .. Len(a) + Len(b) /\ i <= Len(a)
    BY <1>2
  <2> QED  BY <1>2, <2>1
<1>4. ASSUME NEW i \in 1 .. Len(b)  PROVE ab[Len(a) + i] = b[i]
  <2>1. PICK j \in 1 .. Len(a) + Len(b) : j = Len(a) + i
    BY <1>2
  <2>2. ~(j <= Len(a)) /\ j - Len(a) = i
    BY <1>2, <2>1
  <2> QED  BY <1>2, <2>1, <2>2
<1> QED  BY <1>1, <1>2, <1>3, <1>4

\* What mergeFragmentMessage has in hand when the packet brings enough.
Merged(datas) ==
    /\ datas \in Seq(Bytes) /\ Len(datas) = Len(fragmentDatas) + fragmentRemain
    /\ \A i \in 1 .. Len(fragmentDatas) : datas[i] = fragmentDatas[i]
    /\ \A i \in 1 .. fragmentRemain : datas[Len(fragmentDatas) + i] = packet[rpos + i]

\* mergeFragmentMessage joins what was put by and what the packet brings.
LEMMA MergeMerges ==
    ASSUME StreamInv, MergeFragment
    PROVE  \E datas :
              /\ Merged(datas)
              /\ currId' = IF fragmentFlag = "id" THEN <<datas[1].value, datas[1].value>> ELSE currId
              /\ currMsgLen' = IF fragmentFlag = "length" THEN Number(Values(datas)) ELSE currMsgLen
              /\ fragmentStream' = IF fragmentFlag = "body" THEN datas ELSE NULL
<1>1. /\ packet # NULL /\ fragmentFlag # "unknown" /\ Left(rpos) >= fragmentRemain
  BY DEF MergeFragment, Looping
<1>2. PICK p \in Seq(Bytes) : p = packet
  BY <1>1 DEF StreamInv, Types
<1>3. PICK f \in Seq(Bytes) : f = fragmentDatas
  BY DEF StreamInv, Types
<1>4. PICK r \in Nat : r = rpos
  BY DEF StreamInv, Types
<1>5. PICK n \in Nat : n = fragmentRemain
  BY DEF StreamInv, Types
<1>6. r \in 0 .. Len(p) /\ r + n \in r .. Len(p) /\ (r + n) - r = n
  BY <1>1, <1>2, <1>4, <1>5 DEF Left
<1>7. PICK e \in r .. Len(p) : e = r + n
  BY <1>6
<1>8. /\ SubSeq(p, r + 1, e) \in Seq(Bytes) /\ Len(SubSeq(p, r + 1, e)) = e - r
      /\ \A i \in 1 .. e - r : SubSeq(p, r + 1, e)[i] = p[r + i]
  BY <1>6, PieceType
<1>9. PICK s \in Seq(Bytes) : s = SubSeq(p, r + 1, e)
  BY <1>8
<1>10. Len(s) = n /\ \A i \in 1 .. n : s[i] = p[r + i]
  <2>1. e - r = n
    BY <1>6, <1>7
  <2> QED  BY <1>8, <1>9, <2>1
<1>11. PICK datas : datas = f \o s
  OBVIOUS
<1>12. /\ datas \in Seq(Bytes) /\ Len(datas) = Len(f) + Len(s)
       /\ \A i \in 1 .. Len(f) : datas[i] = f[i]
       /\ \A i \in 1 .. Len(s) : datas[Len(f) + i] = s[i]
  BY <1>11, Joined
<1>13. Merged(datas)
  BY <1>2, <1>3, <1>4, <1>5, <1>10, <1>12 DEF Merged
<1>14. datas = fragmentDatas \o SubSeq(packet, rpos + 1, rpos + fragmentRemain)
  BY <1>2, <1>3, <1>4, <1>5, <1>7, <1>9, <1>11
<1> QED  BY <1>13, <1>14 DEF MergeFragment

\* MergeFragment keeps the types.
LEMMA MergeTypes ==
    ASSUME StreamInv, MergeFragment
    PROVE  ReaderTyped'
<1>1. PICK datas :
          /\ Merged(datas)
          /\ currId' = IF fragmentFlag = "id" THEN <<datas[1].value, datas[1].value>> ELSE currId
          /\ currMsgLen' = IF fragmentFlag = "length" THEN Number(Values(datas)) ELSE currMsgLen
          /\ fragmentStream' = IF fragmentFlag = "body" THEN datas ELSE NULL
  BY MergeMerges
<1>2. /\ rpos' = rpos + fragmentRemain /\ UNCHANGED handled
      /\ fragmentFlag' = "unknown" /\ fragmentDatas' = <<>> /\ fragmentRemain' = 0
      /\ fragmentFlag # "unknown"
  BY DEF MergeFragment
<1>3. PICK d \in Seq(Bytes) : d = datas
  BY <1>1 DEF Merged
<1>4. PICK n \in Nat \ {0} : n = fragmentRemain
  BY <1>2 DEF StreamInv, Types
<1>5. Len(d) = Len(fragmentDatas) + n /\ Len(fragmentDatas) \in Nat
  BY <1>1, <1>3, <1>4 DEF Merged, StreamInv, Types
<1>6. d[1].value \in Byte
  <2>1. 1 \in 1 .. Len(d)
    BY <1>5
  <2>2. d[1] \in Bytes
    BY <2>1
  <2> QED  BY <2>2 DEF Bytes
<1>7. currId' \in Byte \X Byte
  BY <1>1, <1>3, <1>6 DEF StreamInv, Types
<1>8. currMsgLen' \in Nat
  <2>1. CASE fragmentFlag = "length"
    <3>1. Len(d) >= 2
      BY <1>4, <1>5, <2>1 DEF StreamInv, LengthFits
    <3>2. PICK w \in Seq(Byte) : w = Values(d)
      BY ValuesType
    <3>3. Len(w) = Len(d)
      BY <3>2, ValuesType
    <3>4. 1 \in 1 .. Len(w) /\ 2 \in 1 .. Len(w)
      BY <3>1, <3>3
    <3>5. w[1] \in Byte /\ w[2] \in Byte
      BY <3>4
    <3>6. Number(w) \in Nat
      BY <3>5, NumberType
    <3> QED  BY <1>1, <1>3, <2>1, <3>2, <3>6
  <2>2. CASE fragmentFlag # "length"
    BY <1>1, <2>2 DEF StreamInv, Types
  <2> QED  BY <2>1, <2>2
<1>9. fragmentStream' \in Seq(Bytes) \cup {NULL}
  BY <1>1, <1>3
<1>10. rpos' \in Nat
  BY <1>2, <1>4 DEF StreamInv, Types
<1>11. fragmentDatas' \in Seq(Bytes) /\ LengthFits'
  BY <1>2 DEF LengthFits
<1>12. handled' \in Seq([id : Handlers, body : Seq(Byte)])
  BY <1>2 DEF StreamInv, Types
<1> QED  BY <1>2, <1>7, <1>8, <1>9, <1>10, <1>11, <1>12 DEF ReaderTyped

\* ExtendFragment keeps them.
LEMMA ExtendTypes ==
    ASSUME StreamInv, ExtendFragment
    PROVE  ReaderTyped'
<1>1. /\ packet # NULL /\ fragmentFlag # "unknown" /\ Left(rpos) < fragmentRemain
      /\ fragmentDatas' = fragmentDatas \o Behind(packet, rpos)
      /\ fragmentRemain' = fragmentRemain - Left(rpos) /\ rpos' = Len(packet)
      /\ UNCHANGED <<packet, currId, currMsgLen, fragmentFlag, fragmentStream, handled>>
  BY DEF ExtendFragment, Looping
<1>2. PICK p \in Seq(Bytes) : p = packet
  BY <1>1 DEF StreamInv, Types
<1>3. PICK f \in Seq(Bytes) : f = fragmentDatas
  BY DEF StreamInv, Types
<1>4. PICK r \in Nat : r = rpos
  BY DEF StreamInv, Types
<1>5. PICK n \in Nat : n = fragmentRemain
  BY DEF StreamInv, Types
<1>6. PICK b \in Seq(Bytes) : b = Behind(p, r)
  BY BehindAny
<1>7. Len(b) \in Nat /\ Len(p) - r <= Len(b)
  BY <1>6, BehindAny
<1>8. fragmentDatas' = f \o b /\ f \o b \in Seq(Bytes) /\ Len(f \o b) = Len(f) + Len(b)
  BY <1>1, <1>2, <1>3, <1>4, <1>6, Joined
<1>9. fragmentRemain' = n - (Len(p) - r) /\ Len(p) - r < n
  BY <1>1, <1>2, <1>4, <1>5 DEF Left
<1>10. fragmentRemain' \in Nat \ {0}
  BY <1>9
<1>11. LengthFits'
  <2>1. ASSUME fragmentFlag = "length"  PROVE Len(f) + n >= 2
    BY <1>3, <1>5, <2>1 DEF StreamInv, LengthFits
  <2>2. Len(f) \in Nat
    OBVIOUS
  <2>3. ASSUME Len(f) + n >= 2  PROVE Len(fragmentDatas') + fragmentRemain' >= 2
    <3>1. PICK x \in Nat : x = fragmentRemain'
      BY <1>10
    <3>2. x = n - (Len(p) - r) /\ Len(fragmentDatas') = Len(f) + Len(b)
      BY <1>8, <1>9, <3>1
    <3>3. Len(f) + Len(b) + x >= 2
      BY <1>7, <2>2, <2>3, <3>2
    <3> QED  BY <3>1, <3>2, <3>3
  <2> QED  BY <1>1, <2>1, <2>3 DEF LengthFits
<1>12. rpos' \in Nat
  BY <1>1, <1>2
<1>13. /\ fragmentStream' \in Seq(Bytes) \cup {NULL}
       /\ currId' \in Byte \X Byte /\ currMsgLen' \in Nat
       /\ fragmentFlag' \in {"unknown", "id", "length", "body"}
       /\ handled' \in Seq([id : Handlers, body : Seq(Byte)])
  BY <1>1 DEF StreamInv, Types
<1>14. fragmentDatas' \in Seq(Bytes) /\ fragmentFlag' # "unknown"
  BY <1>1, <1>8
<1> QED  BY <1>10, <1>11, <1>12, <1>13, <1>14 DEF ReaderTyped

(***************************************************************************)
(* A turn of the reader: where it finds the reader in its message, and     *)
(* where it leaves it.                                                     *)
(***************************************************************************)

\* A turn of the reader, while the channel stays as it is.
Turns ==
    /\ StreamInv /\ PacketFacts /\ packet # NULL
    /\ UNCHANGED <<packet, sent, cuts>> /\ Taken' = Taken

\* Where the reader, not lost, is in its message.
Reads(m) ==
    /\ m \in 1 .. Len(sent) + 1
    /\ rpos <= Len(packet)
    /\ AtStart(m) \/ InMessage(m)

\* A message sent has an id that is known, and a body whose length fits in its bytes.
LEMMA SentId ==
    ASSUME PacketFacts, NEW m \in 1 .. Len(sent)
    PROVE  /\ sent[m].id \in Handlers /\ sent[m].id \in Byte \X Byte
           /\ sent[m].id[1] # 0 /\ sent[m].id = <<sent[m].id[1], sent[m].id[2]>>
           /\ sent[m].body \in Seq(Byte) /\ BodyLen(m) \in Nat /\ BodyLen(m) < 256 * 256
<1>1. sent[m] \in Messages
  BY DEF PacketFacts
<1>2. PICK x \in Messages : x = sent[m]
  BY <1>1
<1>3. x.id \in Handlers /\ x.body \in Seq(Byte) /\ Len(x.body) < 256 * 256
  BY Constants
<1>4. x.id \in (Byte \ {0}) \X Byte
  BY <1>3, Constants
<1>5. x.id \in Byte \X Byte /\ x.id[1] # 0 /\ x.id = <<x.id[1], x.id[2]>>
  BY <1>4
<1>6. Len(x.body) \in Nat
  BY <1>3
<1> QED  BY <1>2, <1>3, <1>5, <1>6 DEF BodyLen

\* A reader that is lost in a message stays so.
LEMMA LostStays ==
    ASSUME UNCHANGED <<sent, cuts>>, Taken' = Taken, NEW m, Lost(m)
    PROVE  InTurn(m)'
<1>1. Lost(m)'
  BY DEF Lost, InStep
<1> QED  BY <1>1 DEF InTurn

\* A reader that is not lost is told apart by what it knows.
LEMMA ReadsWhat ==
    ASSUME Turns, NEW m \in 1 .. Len(sent) + 1, InTurn(m), ~Lost(m)
    PROVE  Reads(m)
  BY DEF Turns, InTurn, Reads

\* A reader that is not lost is in a message sent or in front of the next.
LEMMA ReadsBounds ==
    ASSUME PacketFacts, NEW m, Reads(m)
    PROVE  /\ m \in 1 .. Len(sent) + 1 /\ Begin(sent, m) \in Nat
           /\ rpos \in 0 .. Len(packet)
           /\ InMessage(m) => m \in 1 .. Len(sent)
<1>1. PICK s \in Seq(Messages) : s = sent
  BY DEF PacketFacts
<1>2. m \in 1 .. Len(s) + 1 /\ Len(s) <= MaxSent /\ Len(s) \in Nat
  BY <1>1 DEF PacketFacts, Reads
<1>3. Begin(s, m) \in Nat
  BY <1>2, BeginType
<1>4. InMessage(m) => m <= Len(s)
  BY <1>1 DEF InMessage
<1> QED  BY <1>1, <1>2, <1>3, <1>4 DEF Reads, PacketFacts

\* A reader at the start of a message finds its id.
LEMMA IdAtStart ==
    ASSUME StreamInv, PacketFacts, NEW m, Reads(m), AtStart(m), HasHandler
    PROVE  /\ m \in 1 .. Len(sent) /\ ~IdKnown /\ MsgId = sent[m].id
           /\ BehindId = rpos + 2 /\ rpos + 2 <= Len(packet)
           /\ Taken - Len(packet) + BehindId = Begin(sent, m) + 2
<1>1. ~IdKnown
  BY DEF AtStart, Clean, NoId, IdKnown
<1>2. BehindId = rpos + 2 /\ rpos \in Nat
  BY <1>1, LengthTypes
<1>3. Len(packet) - rpos >= 2
  BY <1>1 DEF HasHandler, HasId, Left, ID_SIZE
<1>4. PICK l \in Nat : l = Len(packet)
  BY DEF PacketFacts
<1>5. PICK t \in Nat : t = Taken
  BY DEF PacketFacts
<1>6. PICK b \in Nat : b = Begin(sent, m)
  BY ReadsBounds
<1>7. PICK r \in Nat : r = rpos
  BY <1>2
<1>8. b = t - l + r
  BY <1>4, <1>5, <1>6, <1>7 DEF AtStart, PacketFacts
<1>9. m \in 1 .. Len(sent)
  <2>1. Begin(sent, m) < Taken
    BY <1>3, <1>4, <1>5, <1>6, <1>7, <1>8
  <2> QED  BY <2>1, ReadsBounds, WithinSent
<1>10. MessageAt(sent, m)
  BY <1>9, AtSent DEF AtMessage
<1>11. packet[r + 1] = Stream(sent)[b + 1] /\ packet[r + 2] = Stream(sent)[b + 2]
  <2>1. r + 1 \in 1 .. Len(packet) /\ r + 2 \in 1 .. Len(packet)
    BY <1>3, <1>4, <1>7
  <2>2. b = Taken - Len(packet) + r
    BY <1>4, <1>5, <1>8
  <2> QED  BY <2>1, <2>2, PacketByte
<1>12. MsgId = <<sent[m].id[1], sent[m].id[2]>>
  BY <1>1, <1>6, <1>7, <1>10, <1>11 DEF MsgId, MessageAt
<1>13. MsgId = sent[m].id
  BY <1>9, <1>12, SentId
<1>14. Taken - Len(packet) + BehindId = Begin(sent, m) + 2
  BY <1>2, <1>4, <1>5, <1>6, <1>7, <1>8
<1> QED  BY <1>1, <1>2, <1>3, <1>4, <1>7, <1>9, <1>13, <1>14

\* What is read for the length of a message is its length.
LEMMA LengthIsRead ==
    ASSUME PacketFacts, NEW m \in 1 .. Len(sent), NEW v \in Seq(Bytes), Len(v) = 2,
           v[1].value = Stream(sent)[Begin(sent, m) + 3].value,
           v[2].value = Stream(sent)[Begin(sent, m) + 4].value
    PROVE  Number(Values(v)) = BodyLen(m)
<1>1. MessageAt(sent, m)
  BY AtSent DEF AtMessage
<1>2. PICK n \in Nat : n = BodyLen(m)
  BY SentId
<1>3. n < 256 * 256
  BY <1>2, SentId
<1>4. v[1].value = n % 256 /\ v[2].value = n \div 256
  BY <1>1, <1>2 DEF MessageAt, BodyLen
<1>5. 1 \in 1 .. Len(v) /\ 2 \in 1 .. Len(v)
  OBVIOUS
<1>6. Values(v)[1] = n % 256 /\ Values(v)[2] = n \div 256
  BY <1>4, <1>5, ValuesType
<1>7. (n % 256) + 256 * (n \div 256) = n
  BY <1>3, LengthBytes
<1> QED  BY <1>2, <1>6, <1>7 DEF Number

\* A length that is in the packet is the length of its message.
LEMMA LengthInPacket ==
    ASSUME PacketFacts, NEW m \in 1 .. Len(sent), NEW q \in Nat, q + 2 <= Len(packet),
           Taken - Len(packet) + q = Begin(sent, m) + 2
    PROVE  Number(Values(SubSeq(packet, q + 1, q + 2))) = BodyLen(m)
<1>1. PICK p \in Seq(Bytes) : p = packet
  BY DEF PacketFacts
<1>2. q \in 0 .. Len(p) /\ q + 2 \in q .. Len(p) /\ (q + 2) - q = 2
  BY <1>1
<1>3. PICK e \in q .. Len(p) : e = q + 2
  BY <1>2
<1>4. /\ SubSeq(p, q + 1, e) \in Seq(Bytes) /\ Len(SubSeq(p, q + 1, e)) = e - q
      /\ \A i \in 1 .. e - q : SubSeq(p, q + 1, e)[i] = p[q + i]
  BY <1>2, PieceType
<1>5. PICK v \in Seq(Bytes) : v = SubSeq(p, q + 1, e)
  BY <1>4
<1>6. Len(v) = 2 /\ v[1] = p[q + 1] /\ v[2] = p[q + 2]
  <2>1. e - q = 2 /\ 1 \in 1 .. e - q /\ 2 \in 1 .. e - q
    BY <1>3
  <2> QED  BY <1>4, <1>5, <2>1
<1>7. PICK b \in Nat : b = Begin(sent, m)
  BY AtSent DEF AtMessage, MessageAt
<1>8. PICK x \in Nat : x = b + 2
  OBVIOUS
<1>9. p[q + 1] = Stream(sent)[x + 1] /\ p[q + 2] = Stream(sent)[x + 2]
  <2>1. q + 1 \in 1 .. Len(packet) /\ q + 2 \in 1 .. Len(packet)
    BY <1>1, <1>2
  <2>2. x = Taken - Len(packet) + q
    BY <1>7, <1>8
  <2> QED  BY <1>1, <2>1, <2>2, PacketByte
<1>10. x + 1 = b + 3 /\ x + 2 = b + 4
  BY <1>8
<1>11. Number(Values(v)) = BodyLen(m)
  BY <1>6, <1>7, <1>9, <1>10, LengthIsRead
<1> QED  BY <1>1, <1>3, <1>5, <1>11

\* A reader that gets to the body of a message has its length and, in step, its id.
LEMMA AtBody ==
    ASSUME StreamInv, PacketFacts, NEW m, Reads(m), HasLength, fragmentStream = NULL
    PROVE  /\ m \in 1 .. Len(sent) /\ MsgLen = BodyLen(m)
           /\ BehindLength \in 0 .. Len(packet)
           /\ Taken - Len(packet) + BehindLength = Begin(sent, m) + 4
           /\ InStep(m) => MsgId = sent[m].id /\ BehindLength >= 2
<1>1. HasHandler /\ fragmentFlag = "unknown"
  BY DEF HasLength, HasHandler, HasId, Reading
<1>2. /\ rpos \in Nat /\ BehindId \in Nat /\ BehindId = (IF IdKnown THEN rpos ELSE rpos + 2)
      /\ BehindLength \in Nat
      /\ BehindLength = (IF currMsgLen # 0 THEN BehindId ELSE BehindId + 2)
  BY <1>1, LengthTypes
<1>3. PICK l \in Nat : l = Len(packet)
  BY DEF PacketFacts
<1>4. PICK t \in Nat : t = Taken
  BY DEF PacketFacts
<1>5. PICK b \in Nat : b = Begin(sent, m)
  BY ReadsBounds
<1>6. PICK r \in 0 .. l : r = rpos
  BY <1>3, ReadsBounds
<1>7. Consumed = t - l + r
  BY <1>3, <1>4, <1>6 DEF PacketFacts
<1>8. CASE currMsgLen = 0
  <2>1. Len(packet) - BehindId >= 2
    BY <1>8 DEF HasLength, Left, LENGTH_SIZE
  <2>2. BehindLength = BehindId + 2 /\ MsgLen = Number(Values(SubSeq(packet, BehindId + 1, BehindId + 2)))
    BY <1>2, <1>8 DEF MsgLen, LENGTH_SIZE
  <2>3. ASSUME m \in 1 .. Len(sent), Taken - Len(packet) + BehindId = Begin(sent, m) + 2
        PROVE  /\ MsgLen = BodyLen(m) /\ BehindLength \in 0 .. Len(packet)
               /\ Taken - Len(packet) + BehindLength = Begin(sent, m) + 4
    <3>1. PICK q \in Nat : q = BehindId
      BY <1>2
    <3>2. q + 2 <= Len(packet) /\ Taken - Len(packet) + q = Begin(sent, m) + 2
      BY <1>3, <2>1, <2>3, <3>1
    <3>3. Number(Values(SubSeq(packet, q + 1, q + 2))) = BodyLen(m)
      BY <2>3, <3>2, LengthInPacket
    <3>4. t - l + (q + 2) = b + 4
      BY <1>3, <1>4, <1>5, <3>2
    <3> QED  BY <1>3, <1>4, <1>5, <2>2, <3>1, <3>2, <3>3, <3>4
  <2>4. CASE AtStart(m)
    <3>1. /\ m \in 1 .. Len(sent) /\ MsgId = sent[m].id /\ BehindId = rpos + 2
          /\ Taken - Len(packet) + BehindId = Begin(sent, m) + 2
      BY <1>1, <2>4, IdAtStart
    <3>2. BehindLength >= 2
      BY <1>2, <2>2
    <3> QED  BY <2>3, <3>1, <3>2
  <2>5. CASE InMessage(m)
    <3>1. m \in 1 .. Len(sent)
      BY <2>5, ReadsBounds
    <3>2. IdRead(m)
      <4>1. ~InId(m) /\ ~InLength(m) /\ ~InBody(m)
        BY <1>1 DEF InId, InLength, InBody
      <4>2. ~LengthRead(m) /\ ~BodyRead(m)
        BY <1>8 DEF LengthRead, BodyRead
      <4> QED  BY <2>5, <4>1, <4>2 DEF InMessage
    <3>3. IdKnown /\ Consumed = Begin(sent, m) + 2 /\ <<m, "id">> \in cuts
      BY <3>2 DEF IdRead, Known, IdKnown
    <3>4. Taken - Len(packet) + BehindId = Begin(sent, m) + 2
      BY <1>2, <1>3, <1>4, <1>6, <1>7, <3>3
    <3>5. ~InStep(m)
      <4>1. m \in 1 .. m
        BY <3>1
      <4> QED  BY <3>3, <4>1 DEF InStep
    <3> QED  BY <2>3, <3>1, <3>4, <3>5
  <2> QED  BY <2>4, <2>5 DEF Reads
<1>9. CASE currMsgLen # 0
  <2>1. InMessage(m) /\ m \in 1 .. Len(sent)
    BY <1>9, ReadsBounds DEF Reads, AtStart, Clean
  <2>2. LengthRead(m)
    <3>1. ~InId(m) /\ ~InLength(m) /\ ~InBody(m)
      BY <1>1 DEF InId, InLength, InBody
    <3>2. ~IdRead(m) /\ ~BodyRead(m)
      BY <1>9 DEF IdRead, BodyRead
    <3> QED  BY <2>1, <3>1, <3>2 DEF InMessage
  <2>3. IdKnown /\ currMsgLen = BodyLen(m) /\ Consumed = Begin(sent, m) + 4
    BY <2>2 DEF LengthRead, Known, IdKnown
  <2>4. BehindLength = rpos /\ MsgLen = BodyLen(m)
    BY <1>2, <1>9, <2>3 DEF MsgLen
  <2>5. InStep(m) => MsgId = sent[m].id /\ BehindLength >= 2
    BY <2>2, <2>3, <2>4 DEF LengthRead, MsgId
  <2>6. BehindLength \in 0 .. Len(packet) /\ Taken - Len(packet) + BehindLength = Begin(sent, m) + 4
    BY <1>3, <1>4, <1>6, <1>7, <2>3, <2>4
  <2> QED  BY <2>1, <2>4, <2>5, <2>6
<1> QED  BY <1>8, <1>9

\* What a turn finds, for the m-th message.
LEMMA NotSent ==
    ASSUME PacketFacts, NEW m \in 1 .. Len(sent), <<m, "id">> \in cuts \/ <<m, "length">> \in cuts
    PROVE  ~InStep(m)
<1>1. m \in 1 .. m
  BY DEF PacketFacts
<1> QED  BY <1>1 DEF InStep

\* The beginnings of a turn: the numbers it works with.
Numbers(m, l, t, b, r) ==
    /\ l = Len(packet) /\ t = Taken /\ b = Begin(sent, m) /\ r = rpos
    /\ l \in Nat \ {0} /\ t \in Nat /\ b \in Nat /\ r \in 0 .. l /\ l <= t
    /\ Consumed = t - l + r

\* There are such numbers.
LEMMA HasNumbers ==
    ASSUME PacketFacts, NEW m, Reads(m)
    PROVE  \E l \in Nat, t \in Nat, b \in Nat, r \in Nat : Numbers(m, l, t, b, r)
<1>1. PICK l \in Nat : l = Len(packet)
  BY DEF PacketFacts
<1>2. PICK t \in Nat : t = Taken
  BY DEF PacketFacts
<1>3. PICK b \in Nat : b = Begin(sent, m)
  BY ReadsBounds
<1>4. PICK r \in 0 .. l : r = rpos
  BY <1>1, ReadsBounds
<1>5. l # 0 /\ l <= t /\ Consumed = t - l + r
  BY <1>1, <1>2, <1>4 DEF PacketFacts
<1>6. Numbers(m, l, t, b, r)
  BY <1>1, <1>2, <1>3, <1>4, <1>5 DEF Numbers
<1> QED  BY <1>6

\* After a turn, while the packet stays.
LEMMA ConsumedNext ==
    ASSUME PacketFacts, packet # NULL, UNCHANGED packet, Taken' = Taken, NEW q \in Nat, rpos' = q
    PROVE  Consumed' = Taken - Len(packet) + q
<1>1. PICK l \in Nat : l = Len(packet)
  BY DEF PacketFacts
<1>2. PICK t \in Nat : t = Taken
  BY DEF PacketFacts
<1>3. Consumed' = t - (l - q)
  BY <1>1, <1>2 DEF Consumed
<1> QED  BY <1>1, <1>2, <1>3

\* A packet that ends in an id is put by, and its end is noted.
LEMMA CutInIdTurn ==
    ASSUME Turns, CutInId, NEW m \in 1 .. Len(sent) + 1, InTurn(m)
    PROVE  InTurn(m)'
<1>0. UNCHANGED <<packet, sent, cuts>> /\ Taken' = Taken /\ PacketFacts /\ packet # NULL
  BY DEF Turns
<1>1. CASE Lost(m)
  BY <1>0, <1>1, LostStays
<1>2. CASE ~Lost(m)
  <2>1. Reads(m)
    BY <1>2, ReadsWhat
  <2>2. /\ fragmentFlag = "unknown" /\ ~IdKnown /\ ~(Left(rpos) >= 2)
        /\ rpos < Len(packet) \/ fragmentStream # NULL
    BY DEF CutInId, Reading, Looping, HasId, ID_SIZE
  <2>3. AtStart(m)
    <3>1. ~InId(m) /\ ~InLength(m) /\ ~InBody(m)
      BY <2>2 DEF InId, InLength, InBody
    <3>2. ~IdRead(m) /\ ~LengthRead(m)
      BY <2>2 DEF IdRead, LengthRead, Known, IdKnown
    <3>3. ASSUME BodyRead(m), InMessage(m)  PROVE FALSE
      <4>1. m \in 1 .. Len(sent)
        BY <2>1, <3>3, <1>0, ReadsBounds
      <4>2. sent[m].id[1] # 0
        BY <1>0, <4>1, SentId
      <4> QED  BY <2>2, <3>3, <4>2 DEF BodyRead, IdKnown
    <3> QED  BY <2>1, <3>1, <3>2, <3>3 DEF Reads, InMessage
  <2>4. PICK l \in Nat, t \in Nat, b \in Nat, r \in Nat : Numbers(m, l, t, b, r)
    BY <1>0, <2>1, HasNumbers
  <2>5. r < l /\ l - r < 2 /\ Consumed = b /\ t = b + 1 /\ r + 1 = l
    <3>1. r < l
      BY <2>2, <2>3, <2>4 DEF AtStart, Clean, Numbers
    <3>2. l - r < 2
      BY <2>2, <2>4 DEF Left, Numbers
    <3>3. Consumed = b
      BY <2>3, <2>4 DEF AtStart, Numbers
    <3>4. Consumed = t - l + r /\ r \in 0 .. l
      BY <2>4 DEF Numbers
    <3> QED  BY <3>1, <3>2, <3>3, <3>4
  <2>6. m \in 1 .. Len(sent)
    <3>1. Begin(sent, m) < Taken
      BY <2>4, <2>5 DEF Numbers
    <3> QED  BY <1>0, <3>1, WithinSent
  <2>7. PICK n \in Nat : n = BodyLen(m)
    BY <1>0, <2>6, SentId
  <2>8. <<m, "id">> \in cuts
    <3>1. Taken = Begin(sent, m) + 1 /\ 1 < 4 + n
      BY <2>4, <2>5 DEF Numbers
    <3>2. <<m, Place(1, n)>> \in cuts
      BY <1>0, <2>6, <2>7, <3>1, CutNoted
    <3>3. Place(1, n) = "id"
      BY DEF Place, ID_SIZE, LENGTH_SIZE
    <3> QED  BY <3>2, <3>3
  <2>9. /\ fragmentFlag' = "id" /\ fragmentDatas' = Behind(packet, r) /\ fragmentRemain' = 2 - (l - r)
        /\ rpos' = l /\ UNCHANGED <<currId, currMsgLen, fragmentStream>>
    BY <2>4 DEF CutInId, WriteFragment, ID_SIZE, Left, Numbers
  <2>10. Len(fragmentDatas') = 1 /\ fragmentRemain' = 1 /\ fragmentDatas'[1] = packet[r + 1]
    <3>1. PICK p \in Seq(Bytes) : p = packet
      BY <1>0 DEF PacketFacts
    <3>2. r \in 0 .. Len(p) /\ Len(p) - r = 1
      BY <2>4, <2>5, <3>1 DEF Numbers
    <3>3. Len(Behind(p, r)) = Len(p) - r /\ \A i \in 1 .. Len(p) - r : Behind(p, r)[i] = p[r + i]
      BY <3>2, BehindType
    <3>4. 1 \in 1 .. Len(p) - r
      BY <3>2
    <3>5. 2 - (l - r) = 1
      BY <2>5
    <3> QED  BY <2>9, <3>1, <3>2, <3>3, <3>4, <3>5
  <2>11. packet[r + 1].value = sent[m].id[1]
    <3>1. packet[r + 1] = Stream(sent)[b + 1]
      <4>1. r + 1 \in 1 .. Len(packet) /\ b = Taken - Len(packet) + r
        BY <2>4, <2>5 DEF Numbers
      <4> QED  BY <1>0, <4>1, PacketByte
    <3>2. MessageAt(sent, m)
      BY <1>0, <2>6, AtSent DEF AtMessage
    <3>3. b = Begin(sent, m)
      BY <2>4 DEF Numbers
    <3> QED  BY <3>1, <3>2, <3>3 DEF MessageAt
  <2>12. Consumed' = Begin(sent, m) + 1
    <3>1. Consumed' = Taken - Len(packet) + l
      BY <1>0, <2>9, ConsumedNext
    <3>2. Consumed' = t - l + l /\ b = Begin(sent, m)
      BY <2>4, <3>1 DEF Numbers
    <3>3. t - l + l = b + 1
      BY <2>5
    <3> QED  BY <3>2, <3>3
  <2>13. InId(m)'
    BY <1>0, <2>3, <2>8, <2>9, <2>10, <2>11, <2>12 DEF InId, AtStart, Clean
  <2>14. packet' # NULL /\ rpos' <= Len(packet')
    BY <1>0, <2>4, <2>9 DEF Numbers
  <2>15. m <= Len(sent')
    BY <1>0, <2>6
  <2> QED  BY <2>13, <2>14, <2>15 DEF InTurn, InMessage
<1> QED  BY <1>1, <1>2

\* A reader that finds no length has read the id, and the packet ends in front of the
\* length or in it.
LEMMA AtLength ==
    ASSUME StreamInv, PacketFacts, NEW m, Reads(m), HasHandler, ~HasLength
    PROVE  /\ m \in 1 .. Len(sent) /\ currMsgLen = 0 /\ fragmentStream = NULL
           /\ BehindId \in 0 .. Len(packet) /\ Len(packet) - BehindId < 2
           /\ Taken - Len(packet) + BehindId = Begin(sent, m) + 2
           /\ InStep(m) => MsgId = sent[m].id
<1>1. fragmentFlag = "unknown"
  BY DEF HasHandler, HasId, Reading
<1>2. /\ rpos \in Nat /\ BehindId \in Nat /\ BehindId = (IF IdKnown THEN rpos ELSE rpos + 2)
  BY LengthTypes
<1>3. currMsgLen = 0 /\ Len(packet) - BehindId < 2
  <2>1. PICK l \in Nat : l = Len(packet)
    BY DEF PacketFacts
  <2>2. currMsgLen = 0 /\ ~(Len(packet) - BehindId >= 2)
    BY DEF HasLength, Left, LENGTH_SIZE
  <2> QED  BY <1>2, <2>1, <2>2
<1>4. CASE AtStart(m)
  <2>1. /\ m \in 1 .. Len(sent) /\ MsgId = sent[m].id /\ BehindId = rpos + 2
        /\ rpos + 2 <= Len(packet)
        /\ Taken - Len(packet) + BehindId = Begin(sent, m) + 2
    BY <1>4, IdAtStart
  <2>2. BehindId \in 0 .. Len(packet)
    BY <1>2, <2>1 DEF PacketFacts
  <2> QED  BY <1>3, <1>4, <2>1, <2>2 DEF AtStart, Clean
<1>5. CASE InMessage(m)
  <2>1. m \in 1 .. Len(sent)
    BY <1>5, ReadsBounds
  <2>2. IdRead(m)
    <3>1. ~InId(m) /\ ~InLength(m) /\ ~InBody(m)
      BY <1>1 DEF InId, InLength, InBody
    <3>2. ~LengthRead(m) /\ ~BodyRead(m)
      BY <1>3 DEF LengthRead, BodyRead
    <3> QED  BY <1>5, <3>1, <3>2 DEF InMessage
  <2>3. IdKnown /\ fragmentStream = NULL /\ Consumed = Begin(sent, m) + 2 /\ <<m, "id">> \in cuts
    BY <2>2 DEF IdRead, Known, IdKnown
  <2>4. BehindId = rpos /\ rpos \in 0 .. Len(packet)
    BY <1>2, <2>3, ReadsBounds
  <2>5. Taken - Len(packet) + BehindId = Begin(sent, m) + 2
    BY <2>3, <2>4 DEF PacketFacts
  <2>6. ~InStep(m)
    BY <2>1, <2>3, NotSent
  <2> QED  BY <1>3, <2>1, <2>3, <2>4, <2>5, <2>6
<1> QED  BY <1>4, <1>5 DEF Reads

\* Where a packet ends in front of a length or in it.
LEMMA PlaceInLength ==
    ASSUME NEW n \in Nat
    PROVE  Place(2, n) = (IF n = 0 THEN "length" ELSE "between") /\ Place(3, n) = "length"
  BY DEF Place, ID_SIZE, LENGTH_SIZE

\* A packet that ends in a length. In step, all of the length is to come.
LEMMA CutInLengthTurn ==
    ASSUME Turns, CutInLength, NEW m \in 1 .. Len(sent) + 1, InTurn(m)
    PROVE  InTurn(m)'
<1>0. UNCHANGED <<packet, sent, cuts>> /\ Taken' = Taken /\ PacketFacts /\ packet # NULL /\ StreamInv
  BY DEF Turns
<1>1. CASE Lost(m)
  BY <1>0, <1>1, LostStays
<1>2. CASE ~Lost(m)
  <2>1. Reads(m) /\ HasHandler /\ ~HasLength
    BY <1>2, ReadsWhat DEF CutInLength
  <2>2. /\ m \in 1 .. Len(sent) /\ currMsgLen = 0 /\ fragmentStream = NULL
        /\ BehindId \in 0 .. Len(packet) /\ Len(packet) - BehindId < 2
        /\ Taken - Len(packet) + BehindId = Begin(sent, m) + 2
        /\ InStep(m) => MsgId = sent[m].id
    BY <1>0, <2>1, AtLength
  <2>3. PICK p \in Seq(Bytes) : p = packet
    BY <1>0 DEF PacketFacts
  <2>4. PICK l \in Nat : l = Len(p)
    BY <2>3
  <2>5. PICK e \in 0 .. l : e = BehindId
    BY <2>2, <2>3, <2>4
  <2>6. PICK d \in 0 .. 1 : d = l - e
    <3>1. l - e \in 0 .. 1
      BY <2>2, <2>3, <2>4, <2>5
    <3> QED  BY <3>1
  <2>7. PICK b \in Nat : b = Begin(sent, m)
    BY <2>1, <1>0, ReadsBounds
  <2>8. PICK t \in Nat : t = Taken
    BY <1>0 DEF PacketFacts
  <2>9. t = b + 2 + d
    BY <2>2, <2>3, <2>4, <2>5, <2>6, <2>7, <2>8
  <2>10. PICK n \in Nat : n = BodyLen(m)
    BY <1>0, <2>2, SentId
  <2>11. <<m, Place(2 + d, n)>> \in cuts
    <3>1. PICK k \in Nat : k = 2 + d
      OBVIOUS
    <3>2. 1 <= k /\ k < 4 + n /\ Taken = Begin(sent, m) + k
      BY <2>7, <2>8, <2>9, <3>1
    <3> QED  BY <1>0, <2>2, <2>10, <3>1, <3>2, CutNoted
  <2>12. /\ fragmentFlag' = "length" /\ fragmentDatas' = Behind(p, e) /\ fragmentRemain' = 2 - d
         /\ rpos' = l /\ currId' = MsgId /\ UNCHANGED <<currMsgLen, fragmentStream>>
    BY <2>3, <2>4, <2>5, <2>6 DEF CutInLength, WriteFragment, LENGTH_SIZE, Left
  <2>13. Len(fragmentDatas') = d /\ \A j \in 1 .. d : fragmentDatas'[j] = p[e + j]
    <3>1. e \in 0 .. Len(p) /\ Len(p) - e = d
      BY <2>4, <2>5, <2>6
    <3>2. Len(Behind(p, e)) = Len(p) - e /\ \A i \in 1 .. Len(p) - e : Behind(p, e)[i] = p[e + i]
      BY <3>1, BehindType
    <3> QED  BY <2>12, <3>1, <3>2
  <2>14. Len(fragmentDatas') + fragmentRemain' = 2
    BY <2>6, <2>12, <2>13
  <2>15. ASSUME NEW j \in 1 .. d
         PROVE  fragmentDatas'[j].value = Stream(sent)[Begin(sent, m) + (2 + j)].value
    <3>1. PICK x \in Nat : x = b + 2
      OBVIOUS
    <3>2. e + j \in 1 .. Len(packet) /\ x = Taken - Len(packet) + e
      BY <2>2, <2>3, <2>4, <2>5, <2>6, <2>7, <3>1
    <3>3. PICK i \in Nat : i = j
      OBVIOUS
    <3>4. PICK q \in Nat : q = e
      OBVIOUS
    <3>5. packet[q + i] = Stream(sent)[x + i]
      BY <1>0, <3>2, <3>3, <3>4, PacketByte, ZenonT(40)
    <3>6. x + i = b + (2 + i)
      BY <3>1
    <3> QED  BY <2>3, <2>7, <2>13, <3>3, <3>4, <3>5, <3>6
  <2>16. Known'
    <3>1. MsgId \in (Byte \ {0}) \X Byte
      BY <1>0, <2>1, LengthTypes, Constants
    <3> QED  BY <2>2, <2>12, <3>1 DEF Known
  <2>17. Consumed' = Begin(sent, m) + 2 + Len(fragmentDatas')
    <3>1. Consumed' = Taken - Len(packet) + l
      BY <1>0, <2>12, ConsumedNext
    <3>2. t - l + l = b + 2 + d
      BY <2>9
    <3> QED  BY <2>3, <2>4, <2>7, <2>8, <2>13, <3>1, <3>2
  <2>18. ASSUME InStep(m)  PROVE d = 0 /\ n # 0 /\ <<m, "between">> \in cuts
    <3>1. <<m, "length">> \notin cuts
      BY <1>0, <2>2, <2>18, NotSent
    <3>2. d = 0
      <4>1. ASSUME d = 1  PROVE FALSE
        BY <2>11, <3>1, <4>1, PlaceInLength
      <4> QED  BY <4>1
    <3> QED  BY <2>11, <3>1, <3>2, PlaceInLength, SMTT(30)
  <2>19. InLength(m)'
    <3>1. InStep(m)' <=> InStep(m)
      BY <1>0 DEF InStep
    <3>2. InStep(m) => /\ currId' = sent[m].id /\ Len(fragmentDatas') = 0
                       /\ BodyLen(m)' # 0 /\ <<m, "between">> \in cuts
                       /\ rpos' = Len(packet')
      BY <1>0, <2>2, <2>3, <2>4, <2>10, <2>12, <2>13, <2>18 DEF BodyLen
    <3>3. \A j \in 1 .. Len(fragmentDatas') :
             fragmentDatas'[j].value = Stream(sent')[Begin(sent', m) + (2 + j)].value
      BY <1>0, <2>13, <2>15
    <3> QED  BY <1>0, <2>2, <2>12, <2>14, <2>16, <2>17, <3>1, <3>2, <3>3 DEF InLength
  <2>20. packet' # NULL /\ rpos' <= Len(packet') /\ m <= Len(sent')
    BY <1>0, <2>2, <2>3, <2>4, <2>12
  <2> QED  BY <2>19, <2>20 DEF InTurn, InMessage
<1> QED  BY <1>1, <1>2

\* Where a packet ends in a body.
LEMMA PlaceInBody ==
    ASSUME NEW n \in Nat, NEW d \in Nat, d < n
    PROVE  Place(4 + d, n) = IF d = 0 THEN "front" ELSE "body"
  BY DEF Place, ID_SIZE, LENGTH_SIZE

\* A packet that ends in a body is put by, and its end is noted.
LEMMA CutInBodyTurn ==
    ASSUME Turns, CutInBody, NEW m \in 1 .. Len(sent) + 1, InTurn(m)
    PROVE  InTurn(m)'
<1>0. UNCHANGED <<packet, sent, cuts>> /\ Taken' = Taken /\ PacketFacts /\ packet # NULL /\ StreamInv
  BY DEF Turns
<1>1. CASE Lost(m)
  BY <1>0, <1>1, LostStays
<1>2. CASE ~Lost(m)
  <2>1. Reads(m) /\ HasHandler /\ HasLength /\ fragmentStream = NULL
    BY <1>2, ReadsWhat DEF CutInBody, HasLength
  <2>2. /\ m \in 1 .. Len(sent) /\ MsgLen = BodyLen(m)
        /\ BehindLength \in 0 .. Len(packet)
        /\ Taken - Len(packet) + BehindLength = Begin(sent, m) + 4
        /\ InStep(m) => MsgId = sent[m].id
    BY <1>0, <2>1, AtBody
  <2>3. PICK p \in Seq(Bytes) : p = packet
    BY <1>0 DEF PacketFacts
  <2>4. PICK l \in Nat : l = Len(p)
    BY <2>3
  <2>5. PICK e \in 0 .. l : e = BehindLength
    BY <2>2, <2>3, <2>4
  <2>6. PICK d \in Nat : d = l - e
    <3>1. l - e \in Nat
      BY <2>5
    <3> QED  BY <3>1
  <2>7. PICK b \in Nat : b = Begin(sent, m)
    BY <2>1, <1>0, ReadsBounds
  <2>8. PICK t \in Nat : t = Taken
    BY <1>0 DEF PacketFacts
  <2>9. t = b + 4 + d
    BY <2>2, <2>3, <2>4, <2>5, <2>6, <2>7, <2>8
  <2>10. PICK n \in Nat : n = BodyLen(m)
    BY <1>0, <2>2, SentId
  <2>11. d < n
    BY <2>2, <2>3, <2>4, <2>5, <2>6, <2>10 DEF CutInBody, Left
  <2>12. ~WholeBody(m)
    <3>1. PICK k \in Nat : k = 4 + d
      OBVIOUS
    <3>2. 1 <= k /\ k < 4 + n /\ Taken = Begin(sent, m) + k
      BY <2>7, <2>8, <2>9, <2>11, <3>1
    <3>3. <<m, Place(k, n)>> \in cuts
      BY <1>0, <2>2, <2>10, <3>1, <3>2, CutNoted
    <3>4. Place(k, n) \in {"front", "body"}
      BY <2>11, <3>1, PlaceInBody
    <3> QED  BY <3>3, <3>4 DEF WholeBody
  <2>13. /\ fragmentFlag' = "body" /\ fragmentDatas' = Behind(p, e) /\ fragmentRemain' = n - d
         /\ rpos' = l /\ currId' = MsgId /\ currMsgLen' = n /\ UNCHANGED fragmentStream
    BY <2>2, <2>3, <2>4, <2>5, <2>6, <2>10 DEF CutInBody, WriteFragment, Left
  <2>14. Len(fragmentDatas') = d
    <3>1. e \in 0 .. Len(p) /\ Len(p) - e = d
      BY <2>4, <2>5, <2>6
    <3>2. Len(Behind(p, e)) = Len(p) - e
      BY <3>1, BehindType
    <3> QED  BY <2>13, <3>1, <3>2
  <2>15. Len(fragmentDatas') + fragmentRemain' = n
    BY <2>13, <2>14
  <2>16. Known'
    <3>1. MsgId \in (Byte \ {0}) \X Byte
      BY <1>0, <2>1, LengthTypes, Constants
    <3> QED  BY <2>1, <2>13, <3>1 DEF Known
  <2>17. Consumed' = Begin(sent, m) + 4 + Len(fragmentDatas')
    <3>1. Consumed' = Taken - Len(packet) + l
      BY <1>0, <2>13, ConsumedNext
    <3>2. t - l + l = b + 4 + d
      BY <2>9
    <3> QED  BY <2>3, <2>4, <2>7, <2>8, <2>14, <3>1, <3>2
  <2>18. BodyLen(m)' = n
    BY <1>0, <2>10 DEF BodyLen
  <2>19. InBody(m)'
    <3>1. (InStep(m)' <=> InStep(m)) /\ (WholeBody(m)' <=> WholeBody(m))
      BY <1>0 DEF InStep, WholeBody
    <3> QED  BY <1>0, <2>2, <2>12, <2>13, <2>15, <2>16, <2>17, <2>18, <3>1 DEF InBody
  <2>20. packet' # NULL /\ rpos' <= Len(packet') /\ m <= Len(sent')
    BY <1>0, <2>2, <2>3, <2>4, <2>13
  <2> QED  BY <2>19, <2>20 DEF InTurn, InMessage
<1> QED  BY <1>1, <1>2

\* What the reader and the handler have to do with the m-th message when one is called.
HandledTurn(m, call) ==
    /\ m <= Len(sent) /\ Begin(sent, m + 1) <= Taken
    /\ InStep(m) => /\ InTurn(m + 1)'
                    /\ call.id = sent[m].id
                    /\ WholeBody(m) => call.body = sent[m].body

\* Nothing is said of what a lost reader does but that its message is there.
LEMMA LostHandled ==
    ASSUME NEW m, NEW call, Lost(m)
    PROVE  HandledTurn(m, call)
  BY DEF Lost, HandledTurn

\* The next message begins where this one ends.
LEMMA NextBegins ==
    ASSUME PacketFacts, NEW m \in 1 .. Len(sent)
    PROVE  /\ Begin(sent, m) \in Nat /\ BodyLen(m) \in Nat /\ m + 1 \in 1 .. Len(sent) + 1
           /\ Begin(sent, m + 1) = Begin(sent, m) + 4 + BodyLen(m)
<1>1. MessageAt(sent, m)
  BY AtSent DEF AtMessage
<1>2. PICK n : n = BodyLen(m)
  OBVIOUS
<1>3. n \in Nat /\ Begin(sent, m) \in Nat /\ Begin(sent, m + 1) = Begin(sent, m) + 4 + n
  BY <1>1, <1>2 DEF MessageAt, BodyLen
<1>4. m + 1 \in 1 .. Len(sent) + 1
  BY DEF PacketFacts
<1> QED  BY <1>2, <1>3, <1>4

\* The reader is put at the start of the next message.
LEMMA StartsNext ==
    ASSUME Turns, NEW m \in 1 .. Len(sent), NEW q \in Nat, q <= Len(packet), rpos' = q,
           Taken - Len(packet) + q = Begin(sent, m) + 4 + BodyLen(m),
           fragmentFlag' = "unknown", currId' = NoId, currMsgLen' = 0, fragmentStream' = NULL
    PROVE  InTurn(m + 1)'
<1>1. UNCHANGED <<packet, sent, cuts>> /\ Taken' = Taken /\ PacketFacts /\ packet # NULL
  BY DEF Turns
<1>2. Consumed' = Begin(sent, m + 1)
  <2>1. Consumed' = Taken - Len(packet) + q
    BY <1>1, ConsumedNext
  <2> QED  BY <1>1, <2>1, NextBegins
<1>3. AtStart(m + 1)'
  BY <1>1, <1>2 DEF AtStart, Clean
<1> QED  BY <1>1, <1>3 DEF InTurn

\* A body put together again: the right handler is called, and the reader is at the next
\* message. (What the handler reads is not the body, which was cut.)
LEMMA HandleFragmentTurn ==
    ASSUME Turns, HandleFragment, NEW m \in 1 .. Len(sent) + 1, InTurn(m), NEW call,
           call = [id |-> MsgId, body |-> Blob(Values(fragmentStream))]
    PROVE  HandledTurn(m, call)
<1>0. UNCHANGED <<packet, sent, cuts>> /\ Taken' = Taken /\ PacketFacts /\ packet # NULL /\ StreamInv
  BY DEF Turns
<1>1. CASE Lost(m)
  BY <1>1, LostHandled
<1>2. CASE ~Lost(m)
  <2>1. Reads(m) /\ fragmentFlag = "unknown" /\ fragmentStream # NULL
    BY <1>2, ReadsWhat DEF HandleFragment, HasLength, HasHandler, HasId, Reading
  <2>2. BodyRead(m) /\ InMessage(m)
    <3>1. ~AtStart(m)
      BY <2>1 DEF AtStart, Clean
    <3>2. ~InId(m) /\ ~InLength(m) /\ ~InBody(m)
      BY <2>1 DEF InId, InLength, InBody
    <3>3. ~IdRead(m) /\ ~LengthRead(m)
      BY <2>1 DEF IdRead, LengthRead, Known
    <3> QED  BY <2>1, <3>1, <3>2, <3>3 DEF InMessage, Reads
  <2>3. m \in 1 .. Len(sent) /\ rpos \in 0 .. Len(packet)
    BY <1>0, <2>1, <2>2, ReadsBounds
  <2>4. Taken - Len(packet) + rpos = Begin(sent, m) + 4 + BodyLen(m)
    BY <1>0, <2>2 DEF BodyRead, PacketFacts
  <2>5. MsgId = sent[m].id
    <3>1. currId = sent[m].id /\ sent[m].id[1] # 0
      BY <1>0, <2>2, <2>3, SentId DEF BodyRead
    <3> QED  BY <3>1 DEF MsgId, IdKnown
  <2>6. Begin(sent, m + 1) <= Taken
    <3>1. Begin(sent, m + 1) = Taken - Len(packet) + rpos
      BY <1>0, <2>3, <2>4, NextBegins
    <3> QED  BY <1>0, <2>3, <3>1 DEF PacketFacts
  <2>7. InTurn(m + 1)'
    <3>1. PICK q \in Nat : q = rpos
      BY <2>3
    <3>2. /\ rpos' = q /\ q <= Len(packet)
          /\ fragmentFlag' = "unknown" /\ currId' = NoId /\ currMsgLen' = 0 /\ fragmentStream' = NULL
      BY <1>0, <2>1, <2>3, <3>1 DEF HandleFragment, CallHandler, fragmentVars, PacketFacts
    <3>3. Taken - Len(packet) + q = Begin(sent, m) + 4 + BodyLen(m)
      BY <2>4, <3>1
    <3> QED  BY <2>3, <3>2, <3>3, StartsNext
  <2>8. ~WholeBody(m)
    BY <2>2 DEF BodyRead
  <2> QED  BY <1>0, <2>3, <2>5, <2>6, <2>7, <2>8 DEF HandledTurn, PacketFacts
<1> QED  BY <1>1, <1>2

\* A handler that starts at the length of a message reads its body.
LEMMA ReadsBody ==
    ASSUME PacketFacts, NEW m \in 1 .. Len(sent), NEW start \in Nat, NEW n \in Nat, n = BodyLen(m),
           start + 2 + n <= Len(packet), Taken - Len(packet) + start = Begin(sent, m) + 2,
           NEW memory \in Seq(Byte), Len(memory) = Len(packet) + 2,
           \A i \in 1 .. Len(packet) : memory[i] = packet[i].value
    PROVE  Blob(SubSeq(memory, start + 1, start + 2 + n)) = sent[m].body
<1>1. PICK l \in Nat : l = Len(packet)
  BY DEF PacketFacts
<1>2. start \in 0 .. Len(memory) /\ start + 2 + n \in start .. Len(memory)
  BY <1>1
<1>3. PICK e \in start .. Len(memory) : e = start + 2 + n
  BY <1>2
<1>4. e - start = 2 + n
  BY <1>3
<1>5. /\ SubSeq(memory, start + 1, e) \in Seq(Byte) /\ Len(SubSeq(memory, start + 1, e)) = e - start
      /\ \A i \in 1 .. e - start : SubSeq(memory, start + 1, e)[i] = memory[start + i]
  BY <1>2, PieceType
<1>6. PICK v \in Seq(Byte) : v = SubSeq(memory, start + 1, e)
  BY <1>5
<1>7. Len(v) = 2 + n /\ \A i \in 1 .. 2 + n : v[i] = memory[start + i]
  BY <1>4, <1>5, <1>6
<1>8. PICK b \in Nat : b = Begin(sent, m)
  BY NextBegins
<1>9. PICK x \in Nat : x = b + 2
  OBVIOUS
<1>10. ASSUME NEW i \in 1 .. 2 + n
       PROVE  v[i] = Stream(sent)[x + i].value
  <2>1. PICK j \in Nat : j = i
    OBVIOUS
  <2>2. start + j \in 1 .. Len(packet) /\ x = Taken - Len(packet) + start
    BY <1>1, <1>8, <1>9, <2>1, SMTT(30)
  <2>3. packet[start + j] = Stream(sent)[x + j]
    BY <2>2, PacketByte
  <2>4. memory[start + j] = packet[start + j].value
    BY <2>2
  <2> QED  BY <1>7, <2>1, <2>3, <2>4
<1>11. MessageAt(sent, m)
  BY AtSent DEF AtMessage
<1>12. n < 256 * 256 /\ sent[m].body \in Seq(Byte) /\ Len(sent[m].body) = n
  BY SentId DEF BodyLen
<1>13. v[1] = n % 256 /\ v[2] = n \div 256
  <2>1. 1 \in 1 .. 2 + n /\ 2 \in 1 .. 2 + n
    OBVIOUS
  <2>2. x + 1 = b + 3 /\ x + 2 = b + 4
    BY <1>9
  <2>3. v[1] = Stream(sent)[b + 3].value /\ v[2] = Stream(sent)[b + 4].value
    BY <1>10, <2>1, <2>2
  <2> QED  BY <1>8, <1>11, <1>12, <2>3 DEF MessageAt
<1>14. ASSUME NEW k \in 1 .. n  PROVE v[2 + k] = sent[m].body[k]
  <2>1. PICK i \in 1 .. 2 + n : i = 2 + k
    OBVIOUS
  <2>2. x + i = b + (4 + k)
    BY <1>9, <2>1
  <2>3. v[i] = Stream(sent)[b + (4 + k)].value
    BY <1>10, <2>2
  <2>4. k \in 1 .. Len(sent[m].body)
    BY <1>12
  <2>5. Stream(sent)[b + (4 + k)].value = sent[m].body[k]
    BY <1>8, <1>11, <2>4 DEF MessageAt
  <2> QED  BY <2>1, <2>3, <2>5
<1>15. PICK body \in Seq(Byte) : body = sent[m].body
  BY <1>12
<1>16. Len(body) = n /\ \A k \in 1 .. n : v[2 + k] = body[k]
  BY <1>12, <1>14, <1>15
<1>17. Blob(v) = body
  BY <1>7, <1>12, <1>13, <1>16, BlobReads, ZenonT(40)
<1> QED  BY <1>3, <1>6, <1>15, <1>17

\* A message all in the packet from its length on: the right handler reads its body, and the
\* reader is at the next message.
LEMMA HandleTurn ==
    ASSUME Turns, Handle, NEW m \in 1 .. Len(sent) + 1, InTurn(m),
           NEW start \in Nat, NEW memory \in Seq(Byte), Handles(start, MsgLen, memory),
           Len(memory) = Len(packet) + 2,
           \A i \in 1 .. Len(packet) : memory[i] = packet[i].value,
           NEW call, call = [id |-> MsgId, body |-> Blob(SubSeq(memory, start + 1, start + 2 + MsgLen))]
    PROVE  HandledTurn(m, call)
<1>0. UNCHANGED <<packet, sent, cuts>> /\ Taken' = Taken /\ PacketFacts /\ packet # NULL /\ StreamInv
  BY DEF Turns
<1>1. CASE Lost(m)
  BY <1>1, LostHandled
<1>2. CASE ~Lost(m)
  <2>1. Reads(m) /\ HasLength /\ fragmentStream = NULL /\ fragmentFlag = "unknown"
    BY <1>2, ReadsWhat DEF Handle, HasLength, HasHandler, HasId, Reading
  <2>2. /\ m \in 1 .. Len(sent) /\ MsgLen = BodyLen(m)
        /\ BehindLength \in 0 .. Len(packet)
        /\ Taken - Len(packet) + BehindLength = Begin(sent, m) + 4
        /\ InStep(m) => MsgId = sent[m].id /\ BehindLength >= 2
    BY <1>0, <2>1, AtBody
  <2>3. PICK n \in Nat : n = BodyLen(m)
    BY <1>0, <2>2, SentId
  <2>4. PICK l \in Nat : l = Len(packet)
    BY <1>0 DEF PacketFacts
  <2>5. PICK e \in 0 .. l : e = BehindLength
    BY <2>2, <2>4
  <2>6. PICK b \in Nat : b = Begin(sent, m)
    BY <1>0, <2>2, NextBegins
  <2>7. PICK t \in Nat : t = Taken
    BY <1>0 DEF PacketFacts
  <2>8. l - e >= n /\ t - l + e = b + 4
    BY <1>0, <2>2, <2>3, <2>4, <2>5, <2>6, <2>7, HandleHandles
  <2>9. Begin(sent, m + 1) <= Taken
    <3>1. Begin(sent, m + 1) = b + 4 + n
      BY <1>0, <2>2, <2>3, <2>6, NextBegins
    <3> QED  BY <2>7, <2>8, <3>1
  <2>10. ASSUME InStep(m)
         PROVE  InTurn(m + 1)' /\ call.id = sent[m].id /\ call.body = sent[m].body
    <3>1. Handles(start, n, memory) /\ call.body = Blob(SubSeq(memory, start + 1, start + 2 + n))
      BY <2>2, <2>3
    <3>2. e >= 2 /\ start = e - 2
      BY <2>2, <2>5, <2>10, <3>1 DEF Handles
    <3>3. start + 2 + n <= Len(packet) /\ Taken - Len(packet) + start = Begin(sent, m) + 2
      BY <2>4, <2>6, <2>7, <2>8, <3>2, SMTT(30)
    <3>4. call.body = sent[m].body
      BY <1>0, <2>2, <2>3, <3>1, <3>3, ReadsBody
    <3>5. call.id = sent[m].id
      BY <2>2, <2>10
    <3>6. InTurn(m + 1)'
      <4>1. PICK q \in Nat : q = start + 2 + n
        OBVIOUS
      <4>2. rpos' = q /\ currId' = NoId /\ currMsgLen' = 0
        BY <3>1, <4>1 DEF Handles, CallHandler
      <4>3. fragmentFlag' = "unknown" /\ fragmentStream' = NULL
        BY <2>1 DEF Handle, fragmentVars
      <4>4. q <= Len(packet) /\ Taken - Len(packet) + q = Begin(sent, m) + 4 + BodyLen(m)
        BY <2>3, <2>4, <2>6, <2>7, <2>8, <3>2, <3>3, <4>1, SMTT(30)
      <4> QED  BY <2>2, <4>2, <4>3, <4>4, StartsNext
    <3> QED  BY <3>4, <3>5, <3>6
  <2> QED  BY <1>0, <2>2, <2>9, <2>10 DEF HandledTurn, PacketFacts
<1> QED  BY <1>1, <1>2

\* A reader that puts bytes by is in one of three places.
LEMMA PutsBy ==
    ASSUME PacketFacts, StreamInv, NEW m, Reads(m), fragmentFlag # "unknown", Looping
    PROVE  /\ m \in 1 .. Len(sent)
           /\ InId(m) \/ InLength(m) \/ InBody(m)
           /\ fragmentStream = NULL /\ rpos < Len(packet)
           /\ fragmentDatas \in Seq(Bytes) /\ fragmentRemain \in Nat \ {0}
<1>1. InMessage(m) /\ ~IdRead(m) /\ ~LengthRead(m) /\ ~BodyRead(m)
  BY DEF Reads, AtStart, IdRead, LengthRead, BodyRead
<1>2. InId(m) \/ InLength(m) \/ InBody(m)
  BY <1>1 DEF InMessage
<1>3. fragmentStream = NULL
  BY <1>2 DEF InId, InLength, InBody, Clean, Known
<1>4. rpos < Len(packet)
  BY <1>3 DEF Looping
<1>5. fragmentDatas \in Seq(Bytes) /\ fragmentRemain \in Nat \ {0}
  BY DEF StreamInv, Types
<1> QED  BY <1>1, <1>2, <1>3, <1>4, <1>5, ReadsBounds

\* A reader that is out of step may be lost when the message is all there.
LEMMA LosesIt ==
    ASSUME PacketFacts, UNCHANGED <<sent, cuts>>, Taken' = Taken, NEW m \in 1 .. Len(sent), ~InStep(m),
           Begin(sent, m) + 4 + BodyLen(m) <= Taken
    PROVE  InTurn(m)'
<1>1. Begin(sent, m + 1) <= Taken
  BY NextBegins
<1>2. m <= Len(sent)
  BY DEF PacketFacts
<1>3. Lost(m)
  BY <1>1, <1>2 DEF Lost
<1> QED  BY <1>3, LostStays

\* What merging changes.
Merges(datas) ==
    /\ Merged(datas)
    /\ currId' = IF fragmentFlag = "id" THEN <<datas[1].value, datas[1].value>> ELSE currId
    /\ currMsgLen' = IF fragmentFlag = "length" THEN Number(Values(datas)) ELSE currMsgLen
    /\ fragmentStream' = IF fragmentFlag = "body" THEN datas ELSE NULL

\* How much it takes.
MergeNumbers(m, l, t, b, r, f, g) ==
    /\ Numbers(m, l, t, b, r) /\ f = Len(fragmentDatas) /\ g = fragmentRemain
    /\ f \in Nat /\ g \in Nat \ {0} /\ r < l

\* The id is there: its main command is right.
LEMMA MergeIdTurn ==
    ASSUME Turns, MergeFragment, NEW m \in 1 .. Len(sent), InId(m), NEW datas, Merges(datas),
           NEW l \in Nat, NEW t \in Nat, NEW b \in Nat, NEW r \in Nat, NEW f \in Nat, NEW g \in Nat,
           MergeNumbers(m, l, t, b, r, f, g), r + g <= l, rpos' = r + g
    PROVE  InTurn(m)'
<1>0. UNCHANGED <<packet, sent, cuts>> /\ Taken' = Taken /\ PacketFacts /\ packet # NULL
  BY DEF Turns
<1>1. f = 1 /\ g = 1 /\ t - l + r = b + 1
  BY DEF InId, MergeNumbers, Numbers
<1>2. datas[1].value = sent[m].id[1]
  <2>1. 1 \in 1 .. Len(fragmentDatas)
    BY <1>1 DEF MergeNumbers
  <2> QED  BY <2>1 DEF Merges, Merged, InId
<1>3. sent[m].id[1] # 0
  BY <1>0, SentId
<1>4. currId'[1] # 0 /\ fragmentStream' = NULL /\ currMsgLen' = 0 /\ fragmentFlag' = "unknown"
  BY <1>2, <1>3 DEF Merges, InId, Clean, MergeFragment
<1>5. Consumed' = Begin(sent, m) + 2
  <2>1. PICK q \in Nat : q = r + g
    OBVIOUS
  <2>2. Consumed' = Taken - Len(packet) + q
    BY <1>0, <2>1, ConsumedNext
  <2> QED  BY <1>1, <2>1, <2>2 DEF MergeNumbers, Numbers
<1>6. IdRead(m)'
  BY <1>0, <1>4, <1>5 DEF IdRead, Known, InId
<1>7. packet' # NULL /\ rpos' <= Len(packet') /\ m <= Len(sent')
  BY <1>0 DEF MergeNumbers, Numbers, PacketFacts
<1> QED  BY <1>6, <1>7 DEF InTurn, InMessage

\* A length put together again is the length of the message.
LEMMA MergedLength ==
    ASSUME PacketFacts, NEW m \in 1 .. Len(sent), InLength(m), NEW datas, Merged(datas),
           NEW l \in Nat, NEW t \in Nat, NEW b \in Nat, NEW r \in Nat, NEW f \in Nat, NEW g \in Nat,
           MergeNumbers(m, l, t, b, r, f, g), r + g <= l
    PROVE  Number(Values(datas)) = BodyLen(m)
<1>1. f + g = 2 /\ t - l + r = b + 2 + f
  BY DEF InLength, MergeNumbers, Numbers
<1>2. PICK v \in Seq(Bytes) : v = datas
  BY DEF Merged
<1>3. /\ Len(v) = 2 /\ \A i \in 1 .. f : v[i] = fragmentDatas[i]
      /\ \A i \in 1 .. g : v[f + i] = packet[r + i]
  BY <1>1, <1>2 DEF Merged, MergeNumbers, Numbers
<1>4. ASSUME NEW i \in 1 .. f  PROVE v[i].value = Stream(sent)[b + (2 + i)].value
  BY <1>3 DEF InLength, MergeNumbers, Numbers
<1>5. ASSUME NEW i \in 1 .. g  PROVE v[f + i].value = Stream(sent)[b + (2 + (f + i))].value
  <2>1. PICK x \in Nat : x = b + 2 + f
    OBVIOUS
  <2>2. PICK j \in Nat : j = i
    OBVIOUS
  <2>3. r + j \in 1 .. Len(packet) /\ x = Taken - Len(packet) + r
    <3>1. l = Len(packet) /\ t = Taken
      BY DEF MergeNumbers, Numbers
    <3>2. r + j \in 1 .. l
      BY <2>2
    <3>3. x = t - l + r
      BY <1>1, <2>1
    <3> QED  BY <3>1, <3>2, <3>3
  <2>4. packet[r + j] = Stream(sent)[x + j]
    BY <2>3, PacketByte, SMTT(30)
  <2>5. x + j = b + (2 + (f + j))
    BY <2>1
  <2> QED  BY <1>3, <2>2, <2>4, <2>5
<1>6. ASSUME NEW k \in 1 .. 2  PROVE v[k].value = Stream(sent)[b + (2 + k)].value
  <2>1. CASE k <= f
    <3>1. k \in 1 .. f
      BY <2>1
    <3> QED  BY <1>4, <3>1
  <2>2. CASE ~(k <= f)
    <3>1. PICK i \in 1 .. g : k = f + i
      <4>1. k - f \in 1 .. g /\ k = f + (k - f)
        BY <1>1, <2>2
      <4> QED  BY <4>1
    <3> QED  BY <1>5, <3>1
  <2> QED  BY <2>1, <2>2
<1>7. v[1].value = Stream(sent)[b + 3].value /\ v[2].value = Stream(sent)[b + 4].value
  <2>1. 1 \in 1 .. 2 /\ 2 \in 1 .. 2 /\ 2 + 1 = 3 /\ 2 + 2 = 4
    OBVIOUS
  <2> QED  BY <1>6, <2>1
<1>8. b = Begin(sent, m)
  BY DEF MergeNumbers, Numbers
<1>9. Number(Values(v)) = BodyLen(m)
  BY <1>3, <1>7, <1>8, LengthIsRead
<1> QED  BY <1>2, <1>9

\* The length is there. In step it came in the packet that is processed, with more behind it.
LEMMA MergeLengthTurn ==
    ASSUME Turns, MergeFragment, NEW m \in 1 .. Len(sent), InLength(m), NEW datas, Merges(datas),
           NEW l \in Nat, NEW t \in Nat, NEW b \in Nat, NEW r \in Nat, NEW f \in Nat, NEW g \in Nat,
           MergeNumbers(m, l, t, b, r, f, g), r + g <= l, rpos' = r + g
    PROVE  InTurn(m)'
<1>0. UNCHANGED <<packet, sent, cuts>> /\ Taken' = Taken /\ PacketFacts /\ packet # NULL
  BY DEF Turns
<1>1. f + g = 2 /\ t - l + r = b + 2 + f
  BY DEF InLength, MergeNumbers, Numbers
<1>2. PICK n \in Nat : n = BodyLen(m)
  BY <1>0, SentId
<1>3. currMsgLen' = n
  BY <1>0, <1>2, MergedLength DEF Merges, InLength
<1>4. UNCHANGED currId /\ fragmentStream' = NULL /\ fragmentFlag' = "unknown" /\ Known
  BY DEF Merges, InLength, MergeFragment
<1>5. PICK q \in Nat : q = r + g
  OBVIOUS
<1>6. t - l + q = b + 4 /\ q <= l
  BY <1>1, <1>5
<1>7. l = Len(packet) /\ t = Taken /\ b = Begin(sent, m) /\ r = rpos /\ l <= t
  BY DEF MergeNumbers, Numbers
<1>8. CASE n = 0
  <2>1. ~InStep(m)
    BY <1>2, <1>8 DEF InLength
  <2>2. Begin(sent, m) + 4 + BodyLen(m) <= Taken
    BY <1>2, <1>6, <1>7, <1>8
  <2> QED  BY <1>0, <2>1, <2>2, LosesIt
<1>9. CASE n # 0
  <2>1. Consumed' = Begin(sent, m) + 4
    <3>1. Consumed' = Taken - Len(packet) + q
      BY <1>0, <1>5, ConsumedNext
    <3> QED  BY <1>6, <1>7, <3>1
  <2>2. ASSUME InStep(m)  PROVE currId = sent[m].id /\ q = 2 /\ q < l
    <3>1. f = 0 /\ currId = sent[m].id /\ <<m, "between">> \in cuts /\ r \in {0, l}
      BY <1>0, <1>7, <2>2 DEF InLength, MergeNumbers
    <3>2. r = 0 /\ q = 2
      BY <1>1, <1>5, <3>1 DEF MergeNumbers
    <3>3. ASSUME q = l  PROVE FALSE
      <4>1. PICK k \in Nat : k = 4
        OBVIOUS
      <4>2. 1 <= k /\ k < 4 + n /\ Taken = Begin(sent, m) + k
        BY <1>6, <1>7, <1>9, <3>3, <4>1
      <4>3. <<m, Place(k, n)>> \in cuts
        BY <1>0, <1>2, <4>2, CutNoted
      <4>4. Place(k, n) = "front"
        BY <1>9, <4>1 DEF Place, ID_SIZE, LENGTH_SIZE
      <4>5. m \in 1 .. m
        BY <1>0 DEF PacketFacts
      <4> QED  BY <2>2, <3>1, <4>3, <4>4, <4>5 DEF InStep
    <3> QED  BY <1>6, <3>1, <3>2, <3>3
  <2>3. LengthRead(m)'
    <3>1. BodyLen(m)' = n /\ (InStep(m)' <=> InStep(m))
      BY <1>0, <1>2 DEF BodyLen, InStep
    <3>2. rpos' = q /\ packet' # NULL /\ Len(packet') = l
      BY <1>0, <1>5, <1>7
    <3>3. Known'
      BY <1>4 DEF Known
    <3> QED  BY <1>0, <1>3, <1>4, <1>9, <2>1, <2>2, <3>1, <3>2, <3>3 DEF LengthRead
  <2>4. packet' # NULL /\ rpos' <= Len(packet') /\ m <= Len(sent')
    BY <1>0, <1>5, <1>6, <1>7 DEF PacketFacts
  <2> QED  BY <2>3, <2>4 DEF InTurn, InMessage
<1> QED  BY <1>8, <1>9

\* The body is there.
LEMMA MergeBodyTurn ==
    ASSUME Turns, MergeFragment, NEW m \in 1 .. Len(sent), InBody(m), NEW datas, Merges(datas),
           NEW l \in Nat, NEW t \in Nat, NEW b \in Nat, NEW r \in Nat, NEW f \in Nat, NEW g \in Nat,
           MergeNumbers(m, l, t, b, r, f, g), r + g <= l, rpos' = r + g
    PROVE  InTurn(m)'
<1>0. UNCHANGED <<packet, sent, cuts>> /\ Taken' = Taken /\ PacketFacts /\ packet # NULL
  BY DEF Turns
<1>1. PICK n \in Nat : n = BodyLen(m)
  BY <1>0, SentId
<1>2. f + g = n /\ t - l + r = b + 4 + f /\ g # 0
  BY <1>1 DEF InBody, MergeNumbers, Numbers
<1>3. PICK q \in Nat : q = r + g
  OBVIOUS
<1>4. t - l + q = b + 4 + n /\ q <= l /\ n # 0
  BY <1>2, <1>3
<1>5. l = Len(packet) /\ t = Taken /\ b = Begin(sent, m) /\ r = rpos /\ l <= t
  BY DEF MergeNumbers, Numbers
<1>6. CASE InStep(m)
  <2>1. currId' = sent[m].id /\ currMsgLen' = n /\ fragmentFlag' = "unknown" /\ ~WholeBody(m)
    BY <1>1, <1>6 DEF InBody, Merges, MergeFragment
  <2>2. fragmentStream' # NULL
    <3>1. datas \in Seq(Bytes) /\ fragmentStream' = datas
      BY DEF Merges, Merged, InBody
    <3> QED  BY <3>1, Constants
  <2>3. Consumed' = Begin(sent, m) + 4 + n
    <3>1. Consumed' = Taken - Len(packet) + q
      BY <1>0, <1>3, ConsumedNext
    <3> QED  BY <1>4, <1>5, <3>1
  <2>4. BodyRead(m)'
    <3>1. BodyLen(m)' = n /\ (WholeBody(m)' <=> WholeBody(m))
      BY <1>0, <1>1 DEF BodyLen, WholeBody
    <3> QED  BY <1>0, <1>4, <2>1, <2>2, <2>3, <3>1 DEF BodyRead
  <2>5. packet' # NULL /\ rpos' <= Len(packet') /\ m <= Len(sent')
    BY <1>0, <1>3, <1>4, <1>5 DEF PacketFacts
  <2> QED  BY <2>4, <2>5 DEF InTurn, InMessage
<1>7. CASE ~InStep(m)
  <2>1. Begin(sent, m) + 4 + BodyLen(m) <= Taken
    BY <1>1, <1>4, <1>5
  <2> QED  BY <1>0, <1>7, <2>1, LosesIt
<1> QED  BY <1>6, <1>7

\* MergeFragment leaves a reader in its message.
LEMMA MergeFragmentTurn ==
    ASSUME Turns, MergeFragment, NEW m \in 1 .. Len(sent) + 1, InTurn(m)
    PROVE  InTurn(m)'
<1>0. UNCHANGED <<packet, sent, cuts>> /\ Taken' = Taken /\ PacketFacts /\ packet # NULL /\ StreamInv
  BY DEF Turns
<1>1. CASE Lost(m)
  BY <1>0, <1>1, LostStays
<1>2. CASE ~Lost(m)
  <2>1. Reads(m) /\ fragmentFlag # "unknown" /\ Looping
    BY <1>2, ReadsWhat DEF MergeFragment
  <2>2. PICK datas : Merges(datas)
    BY <1>0, MergeMerges DEF Merges
  <2>3. /\ m \in 1 .. Len(sent)
        /\ InId(m) \/ InLength(m) \/ InBody(m)
        /\ fragmentDatas \in Seq(Bytes) /\ fragmentRemain \in Nat \ {0} /\ rpos < Len(packet)
    BY <1>0, <2>1, PutsBy
  <2>4. PICK l \in Nat, t \in Nat, b \in Nat, r \in Nat : Numbers(m, l, t, b, r)
    BY <1>0, <2>1, HasNumbers
  <2>5. PICK f \in Nat : f = Len(fragmentDatas)
    BY <2>3
  <2>6. PICK g \in Nat : g = fragmentRemain /\ g # 0
    BY <2>3
  <2>7. MergeNumbers(m, l, t, b, r, f, g)
    BY <2>3, <2>4, <2>5, <2>6 DEF MergeNumbers, Numbers
  <2>8. r + g <= l /\ rpos' = r + g
    <3>1. l - r >= g /\ rpos' = r + g
      BY <2>4, <2>6 DEF MergeFragment, Left, Numbers
    <3> QED  BY <3>1
  <2>9. PICK k \in 1 .. Len(sent) : k = m
    BY <2>3
  <2>10. ASSUME InId(k)  PROVE InTurn(k)'
    BY <2>2, <2>7, <2>8, <2>9, <2>10, MergeIdTurn
  <2>11. ASSUME InLength(k)  PROVE InTurn(k)'
    BY <2>2, <2>7, <2>8, <2>9, <2>11, MergeLengthTurn
  <2>12. ASSUME InBody(k)  PROVE InTurn(k)'
    BY <2>2, <2>7, <2>8, <2>9, <2>12, MergeBodyTurn
  <2> QED  BY <2>3, <2>9, <2>10, <2>11, <2>12
<1> QED  BY <1>1, <1>2

\* So does ExtendFragment.
LEMMA ExtendFragmentTurn ==
    ASSUME Turns, ExtendFragment, NEW m \in 1 .. Len(sent) + 1, InTurn(m)
    PROVE  InTurn(m)'
<1>0. UNCHANGED <<packet, sent, cuts>> /\ Taken' = Taken /\ PacketFacts /\ packet # NULL /\ StreamInv
  BY DEF Turns
<1>1. CASE Lost(m)
  BY <1>0, <1>1, LostStays
<1>2. CASE ~Lost(m)
  <2>1. Reads(m) /\ fragmentFlag # "unknown" /\ Looping
    BY <1>2, ReadsWhat DEF ExtendFragment
  <2>2. /\ m \in 1 .. Len(sent)
        /\ InId(m) \/ InLength(m) \/ InBody(m)
        /\ fragmentDatas \in Seq(Bytes) /\ fragmentRemain \in Nat \ {0} /\ rpos < Len(packet)
    BY <1>0, <2>1, PutsBy
  <2>3. PICK l \in Nat, t \in Nat, b \in Nat, r \in Nat : Numbers(m, l, t, b, r)
    BY <1>0, <2>1, HasNumbers
  <2>4. PICK f \in Nat : f = Len(fragmentDatas)
    BY <2>2
  <2>5. PICK g \in Nat : g = fragmentRemain
    BY <2>2
  <2>6. PICK d \in Nat : d = l - r
    <3>1. l - r \in Nat
      BY <2>3 DEF Numbers
    <3> QED  BY <3>1
  <2>7. /\ l = Len(packet) /\ t = Taken /\ b = Begin(sent, m) /\ r = rpos
        /\ Consumed = t - d /\ r + d = l /\ d >= 1 /\ t >= d
    BY <2>2, <2>3, <2>6 DEF Numbers
  <2>8. d < g
    BY <2>5, <2>6, <2>7 DEF ExtendFragment, Left
  <2>9. /\ fragmentDatas' = fragmentDatas \o Behind(packet, r) /\ fragmentRemain' = g - d
        /\ rpos' = l /\ UNCHANGED <<currId, currMsgLen, fragmentFlag, fragmentStream>>
    BY <2>5, <2>6, <2>7 DEF ExtendFragment, Left
  <2>10. /\ Len(fragmentDatas') = f + d
         /\ \A i \in 1 .. d : fragmentDatas'[f + i] = packet[r + i]
    <3>1. PICK p \in Seq(Bytes) : p = packet
      BY <1>0 DEF PacketFacts
    <3>2. r \in 0 .. Len(p) /\ Len(p) - r = d
      BY <2>6, <2>7, <3>1
    <3>3. /\ Behind(p, r) \in Seq(Bytes) /\ Len(Behind(p, r)) = Len(p) - r
          /\ \A i \in 1 .. Len(p) - r : Behind(p, r)[i] = p[r + i]
      BY <3>2, BehindType
    <3>4. PICK z \in Seq(Bytes) : z = Behind(p, r)
      BY <3>3
    <3>5. PICK y \in Seq(Bytes) : y = fragmentDatas
      BY <2>2
    <3>6. Len(y \o z) = Len(y) + Len(z) /\ \A i \in 1 .. Len(z) : (y \o z)[Len(y) + i] = z[i]
      BY Joined
    <3>7. Len(z) = d /\ \A i \in 1 .. d : z[i] = p[r + i]
      BY <3>2, <3>3, <3>4
    <3> QED  BY <2>4, <2>9, <3>1, <3>4, <3>5, <3>6, <3>7
  <2>11. Consumed' = t
    <3>1. Consumed' = Taken - Len(packet) + l
      BY <1>0, <2>9, ConsumedNext
    <3> QED  BY <2>7, <3>1
  <2>12. ~InId(m)
    <3>1. InId(m) => g = 1
      BY <2>5 DEF InId
    <3> QED  BY <2>7, <2>8, <3>1
  <2>13. packet' # NULL /\ rpos' <= Len(packet') /\ m <= Len(sent')
    BY <1>0, <2>2, <2>7, <2>9 DEF PacketFacts
  <2>14. (InStep(m)' <=> InStep(m)) /\ (WholeBody(m)' <=> WholeBody(m)) /\ BodyLen(m)' = BodyLen(m)
    BY <1>0 DEF InStep, WholeBody, BodyLen
  <2>15. CASE InBody(m)
    <3>1. PICK n \in Nat : n = BodyLen(m)
      BY <1>0, <2>2, SentId
    <3>2. f + g = n /\ t - d = b + 4 + f
      BY <2>4, <2>5, <2>7, <2>15, <3>1 DEF InBody
    <3>3. Len(fragmentDatas') + fragmentRemain' = n /\ Consumed' = b + 4 + Len(fragmentDatas')
      BY <2>8, <2>9, <2>10, <2>11, <3>2
    <3>4. fragmentFlag' = "body" /\ Known' /\ currMsgLen' = n /\ ~WholeBody(m)
          /\ (InStep(m) => currId' = sent[m].id)
      BY <2>9, <2>15, <3>1 DEF InBody, Known
    <3>5. InBody(m)'
      BY <1>0, <2>7, <2>14, <3>1, <3>3, <3>4 DEF InBody
    <3> QED  BY <2>13, <3>5 DEF InTurn, InMessage
  <2>16. CASE InLength(m)
    <3>1. f + g = 2 /\ t - d = b + 2 + f
      BY <2>4, <2>5, <2>7, <2>16 DEF InLength
    <3>2. f = 0 /\ d = 1 /\ g = 2 /\ t = b + 3
      BY <2>7, <2>8, <3>1
    <3>3. ~InStep(m)
      <4>1. PICK n \in Nat : n = BodyLen(m)
        BY <1>0, <2>2, SentId
      <4>2. PICK k \in Nat : k = 3
        OBVIOUS
      <4>3. 1 <= k /\ k < 4 + n /\ Taken = Begin(sent, m) + k
        BY <2>7, <3>2, <4>2
      <4>4. <<m, Place(k, n)>> \in cuts
        BY <1>0, <2>2, <4>1, <4>3, CutNoted
      <4>5. Place(k, n) = "length"
        BY <4>2, PlaceInLength
      <4> QED  BY <1>0, <2>2, <4>4, <4>5, NotSent
    <3>4. Len(fragmentDatas') = 1 /\ fragmentRemain' = 1
      BY <2>9, <2>10, <3>2
    <3>5. fragmentDatas'[1].value = Stream(sent)[b + (2 + 1)].value
      <4>1. 1 \in 1 .. d /\ f + 1 = 1
        BY <3>2
      <4>2. fragmentDatas'[1] = packet[r + 1]
        BY <2>10, <4>1
      <4>3. PICK x \in Nat : x = b + 2
        OBVIOUS
      <4>4. r + 1 \in 1 .. Len(packet) /\ x = Taken - Len(packet) + r
        BY <2>7, <3>2, <4>3
      <4>5. packet[r + 1] = Stream(sent)[x + 1]
        BY <1>0, <4>4, PacketByte
      <4>6. x + 1 = b + (2 + 1)
        BY <4>3
      <4> QED  BY <4>2, <4>5, <4>6
    <3>6. \A j \in 1 .. 1 : fragmentDatas'[j].value = Stream(sent)[b + (2 + j)].value
      BY <3>5
    <3>7. Consumed' = b + 2 + 1
      BY <2>11, <3>2
    <3>8. fragmentFlag' = "length" /\ Known' /\ currMsgLen' = 0
      BY <2>9, <2>16 DEF InLength, Known
    <3>9. InLength(m)'
      <4>1. Len(fragmentDatas') + fragmentRemain' = 2
        BY <3>4
      <4> QED  BY <1>0, <2>7, <2>14, <3>3, <3>4, <3>6, <3>7, <3>8, <4>1 DEF InLength
    <3> QED  BY <2>13, <3>9 DEF InTurn, InMessage
  <2> QED  BY <2>2, <2>12, <2>15, <2>16
<1> QED  BY <1>1, <1>2

\* Every turn of the reader after which the channel goes on.
LEMMA ReaderStepKeeps ==
    ASSUME ChannelInv, ReaderStep, UNCHANGED <<sendVars, wire, receiveVars, connection, history>>
    PROVE  ChannelInv'
<1>1. packet # NULL /\ UNCHANGED packet
  BY DEF ReaderStep, CutInId, CutInLength, CutInBody, Handle, HandleFragment, MergeFragment,
         ExtendFragment, HasLength, HasHandler, HasId, Reading, Looping
<1>2. StreamInv /\ PacketFacts
  BY <1>1, PacketHas DEF ChannelInv
<1>3. UNCHANGED <<sent, cuts>>
  BY DEF history
<1>4. ASSUME ReaderTyped'  PROVE Turns
  <2>1. Taken' = Taken
    BY <1>1, <1>2, <1>4, TurnFrame
  <2> QED  BY <1>1, <1>2, <1>3, <2>1 DEF Turns
<1>5. CASE CutInId
  <2>1. ReaderTyped'
    BY <1>2, <1>5, CutInIdTypes
  <2>2. UNCHANGED handled
    BY <1>5 DEF CutInId
  <2>3. \A m \in 1 .. Len(sent) + 1 : InStep(m - 1) /\ InTurn(m) => InTurn(m)'
    BY <1>4, <1>5, <2>1, CutInIdTurn
  <2> QED  BY <1>1, <2>1, <2>2, <2>3, TurnInMessage
<1>6. CASE CutInLength
  <2>1. ReaderTyped'
    BY <1>2, <1>6, CutInLengthTypes
  <2>2. UNCHANGED handled
    BY <1>6 DEF CutInLength
  <2>3. \A m \in 1 .. Len(sent) + 1 : InStep(m - 1) /\ InTurn(m) => InTurn(m)'
    BY <1>4, <1>6, <2>1, CutInLengthTurn
  <2> QED  BY <1>1, <2>1, <2>2, <2>3, TurnInMessage
<1>7. CASE CutInBody
  <2>1. ReaderTyped'
    BY <1>2, <1>7, CutInBodyTypes
  <2>2. UNCHANGED handled
    BY <1>7 DEF CutInBody
  <2>3. \A m \in 1 .. Len(sent) + 1 : InStep(m - 1) /\ InTurn(m) => InTurn(m)'
    BY <1>4, <1>7, <2>1, CutInBodyTurn
  <2> QED  BY <1>1, <2>1, <2>2, <2>3, TurnInMessage
<1>8. CASE MergeFragment
  <2>1. ReaderTyped'
    BY <1>2, <1>8, MergeTypes
  <2>2. UNCHANGED handled
    BY <1>8 DEF MergeFragment
  <2>3. \A m \in 1 .. Len(sent) + 1 : InStep(m - 1) /\ InTurn(m) => InTurn(m)'
    BY <1>4, <1>8, <2>1, MergeFragmentTurn
  <2> QED  BY <1>1, <2>1, <2>2, <2>3, TurnInMessage
<1>9. CASE ExtendFragment
  <2>1. ReaderTyped'
    BY <1>2, <1>9, ExtendTypes
  <2>2. UNCHANGED handled
    BY <1>9 DEF ExtendFragment
  <2>3. \A m \in 1 .. Len(sent) + 1 : InStep(m - 1) /\ InTurn(m) => InTurn(m)'
    BY <1>4, <1>9, <2>1, ExtendFragmentTurn
  <2> QED  BY <1>1, <2>1, <2>2, <2>3, TurnInMessage
<1>10. CASE HandleFragment
  <2>1. ReaderTyped'
    BY <1>2, <1>10, HandleFragmentTypes
  <2>2. PICK call : call = [id |-> MsgId, body |-> Blob(Values(fragmentStream))]
    OBVIOUS
  <2>3. handled' = Append(handled, call)
    BY <1>10, <2>2 DEF HandleFragment, CallHandler
  <2>4. \A m \in 1 .. Len(sent) + 1 : InStep(m - 1) /\ InTurn(m) => HandledTurn(m, call)
    BY <1>4, <1>10, <2>1, <2>2, HandleFragmentTurn
  <2> QED  BY <1>1, <2>1, <2>3, <2>4, TurnHandles DEF HandledTurn
<1>11. CASE Handle
  <2>1. ReaderTyped'
    BY <1>2, <1>11, HandleTypes
  <2>2. PICK start \in Nat : \E memory \in Seq(Byte) :
            /\ Handles(start, MsgLen, memory)
            /\ Len(memory) = Len(packet) + 2
            /\ \A i \in 1 .. Len(packet) : memory[i] = packet[i].value
    BY <1>2, <1>11, HandleHandles
  <2>3. PICK memory \in Seq(Byte) :
            /\ Handles(start, MsgLen, memory)
            /\ Len(memory) = Len(packet) + 2
            /\ \A i \in 1 .. Len(packet) : memory[i] = packet[i].value
    BY <2>2
  <2>4. PICK call : call = [id |-> MsgId, body |-> Blob(SubSeq(memory, start + 1, start + 2 + MsgLen))]
    OBVIOUS
  <2>5. handled' = Append(handled, call)
    BY <2>3, <2>4 DEF Handles, CallHandler
  <2>6. \A m \in 1 .. Len(sent) + 1 : InStep(m - 1) /\ InTurn(m) => HandledTurn(m, call)
    BY <1>4, <1>11, <2>1, <2>3, <2>4, HandleTurn
  <2> QED  BY <1>1, <2>1, <2>5, <2>6, TurnHandles DEF HandledTurn
<1> QED  BY <1>5, <1>6, <1>7, <1>8, <1>9, <1>10, <1>11 DEF ReaderStep

(***************************************************************************)
(* Every step, and the theorems.                                           *)
(***************************************************************************)

\* A step that changes nothing.
LEMMA StutterKeeps == ChannelInv /\ UNCHANGED vars => ChannelInv'
<1> SUFFICES ASSUME ChannelInv, UNCHANGED vars  PROVE ChannelInv'
  OBVIOUS
<1>1. ReceiverUnchanged /\ UNCHANGED <<sent, sendVars, wire, receiveVars, connection, history, readerVars>>
  BY DEF vars, ReceiverUnchanged, history
<1>2. Coming' = Coming
  BY <1>1 DEF Coming, Unsent, sendVars
<1>3. Types'
  BY <1>1 DEF ChannelInv, StreamInv, Types, sendVars, receiveVars, history, readerVars, fragmentVars
<1> QED  BY <1>1, <1>2, <1>3, SentSame

\* A turn of the reader.
LEMMA ProcessMessagesKeeps ==
    ASSUME ChannelInv, ProcessMessages
    PROVE  ChannelInv'
<1>1. CASE ReaderStep /\ UNCHANGED <<sendVars, wire, receiveVars, connection, history>>
  BY <1>1, ReaderStepKeeps
<1>2. CASE /\ ReaderFails
           /\ condemned' = TRUE /\ buffered' = <<>>
           /\ UNCHANGED <<sendVars, wire, handshaken, connection, history>>
  BY <1>2, ReaderFailsKeeps
<1> QED  BY <1>1, <1>2 DEF ProcessMessages

\* Every step keeps the invariant.
LEMMA StepKeeps == ChannelInv /\ [Next]_vars => ChannelInv'
<1> SUFFICES ASSUME ChannelInv, [Next]_vars  PROVE ChannelInv'
  OBVIOUS
<1>1. Types
  BY DEF ChannelInv, StreamInv
<1>2. ASSUME NEW m \in Messages, SendNow(m)  PROVE ChannelInv'
  <2>1. Sends(m)
    BY <1>1, <1>2, SendNowSends
  <2> QED  BY <2>1, SentMore
<1>3. ASSUME NEW m \in Messages, SendLater(m)  PROVE ChannelInv'
  <2>1. Sends(m)
    BY <1>1, <1>3, SendLaterSends
  <2> QED  BY <2>1, SentMore
<1>4. CASE PollerSend
  <2>1. Types' /\ ReceiverUnchanged /\ UNCHANGED sent /\ Coming' = Coming
    BY <1>1, <1>4, PollerSendSends
  <2> QED  BY <2>1, SentSame
<1>5. CASE Receive
  BY <1>5, ReceiveKeeps
<1>6. CASE ConnectionLost
  BY <1>6, LostKeeps
<1>7. CASE ProcessPackets
  BY <1>7, ProcessPacketsKeeps
<1>8. CASE NextPacket
  BY <1>8, NextPacketKeeps
<1>9. CASE ProcessMessages
  BY <1>9, ProcessMessagesKeeps
<1>10. CASE Reconnect
  BY <1>10, ReconnectKeeps
<1>11. CASE UNCHANGED vars
  BY <1>11, StutterKeeps
<1> QED  BY <1>2, <1>3, <1>4, <1>5, <1>6, <1>7, <1>8, <1>9, <1>10, <1>11 DEF Next

\* The inductive invariant holds in every reachable state: the bytes are in order, the ends of
\* packets are noted, and a reader that was kept in step is where the stream says it is.
THEOREM Invariant == Spec => []ChannelInv
<1>1. Init => ChannelInv
  BY InitHolds
<1>2. ChannelInv /\ [Next]_vars => ChannelInv'
  BY StepKeeps
<1> QED  BY <1>1, <1>2, PTL DEF Spec

\* Types: the variables of channel.cpp and packet_reader.cpp keep to their ranges; in particular
\* pFragmentDatasRemain_ is 0 exactly when no fragment is open.
THEOREM TypeCorrect == Spec => []ChannelTypeOK
<1>1. ChannelInv => ChannelTypeOK
  BY DEF ChannelInv, StreamInv, Types, CompleteExact, ChannelTypeOK
<1> QED  BY <1>1, Invariant, PTL

\* However sends are cut short, taken up again by the poller and queued behind each other, and
\* however the network cuts the stream, what the receiver has still to process is the end of
\* what was sent, each byte once and in order: for all messages, packet sizes and windows.
THEOREM InOrderHolds == Spec => []BytesInOrder
<1>1. ChannelInv => BytesInOrder
  <2> SUFFICES ASSUME ChannelInv  PROVE BytesInOrder
    OBVIOUS
  <2>1. Measured /\ Ordered
    BY Amounts, Order DEF ChannelInv, StreamInv
  <2>2. Pending \in Seq(Bytes) /\ Stream(sent) \in Seq(Bytes) /\ EndsWith(Pending, Stream(sent))
    BY <2>1 DEF Measured, Ordered
  <2>3. IsSuffix(Pending, Stream(sent))
    BY <2>2, EndsWithIsSuffix
  <2> QED  BY <2>3 DEF BytesInOrder, Pending, Stream, Encoded
<1> QED  BY <1>1, Invariant, PTL

\* While packets end in none of the places that put the reader out of step, the handlers are
\* called for the messages sent, in their order, each once, with the body that was sent unless
\* a packet cut it; also when the channel comes from the pool with a reader that was left in
\* the middle of a message.
THEOREM HandledInStepHolds == Spec => []HandledInStep
<1>1. ChannelInv => HandledInStep
  <2> SUFFICES ASSUME ChannelInv, NEW i \in DOMAIN handled, InStep(i)
               PROVE  /\ i <= complete
                      /\ handled[i].id = sent[i].id
                      /\ WholeBody(i) => handled[i].body = sent[i].body
    BY DEF HandledInStep
  <2>1. i \in Nat \ {0}
    <3>1. handled \in Seq([id : Handlers, body : Seq(Byte)])
      BY DEF ChannelInv, StreamInv, Types
    <3> QED  BY <3>1
  <2>2. InStep(i - 1)
    <3>1. \A k \in 1 .. i - 1 : k \in 1 .. i
      BY <2>1
    <3> QED  BY <3>1 DEF InStep
  <2> QED  BY <2>2 DEF ChannelInv, HandledRight
<1> QED  BY <1>1, Invariant, PTL

\* When all packets are processed, the reader is not behind a message in step.
LEMMA NotBehind ==
    ASSUME StreamInv, packet = NULL, NEW m \in 1 .. Len(sent), InStep(m), InTurn(m)
    PROVE  Taken < Begin(sent, m + 1)
<1>1. Types /\ Ordered
  BY Order DEF StreamInv
<1>2. PICK s \in Seq(Messages) : s = sent
  BY <1>1 DEF Types
<1>3. Len(s) <= MaxSent /\ m \in 1 .. Len(s)
  BY <1>1, <1>2 DEF Types
<1>4. MessageAt(s, m)
  BY <1>3, StreamBytes
<1>5. PICK n \in Nat, b \in Nat : n = BodyLen(m) /\ b = Begin(sent, m)
  BY <1>2, <1>4 DEF MessageAt, BodyLen
<1>6. Begin(sent, m + 1) = b + 4 + n
  BY <1>2, <1>4, <1>5 DEF MessageAt, BodyLen
<1>7. PICK t \in Nat : t = Taken
  BY <1>1 DEF Ordered
<1>8. Consumed = t
  BY <1>7 DEF Consumed
<1>9. CASE AtStart(m)
  BY <1>5, <1>6, <1>7, <1>8, <1>9 DEF AtStart
<1>10. CASE InMessage(m)
  <2>1. CASE InId(m)
    BY <1>5, <1>6, <1>7, <1>8, <2>1 DEF InId
  <2>2. CASE IdRead(m)
    BY <1>5, <1>6, <1>7, <1>8, <2>2 DEF IdRead
  <2>3. CASE InLength(m)
    <3>1. t = b + 2 + 0
      BY <1>5, <1>8, <2>3 DEF InLength
    <3> QED  BY <1>5, <1>6, <1>7, <3>1
  <2>4. CASE LengthRead(m)
    BY <2>4 DEF LengthRead
  <2>5. CASE InBody(m)
    <3>1. PICK f \in Nat, g \in Nat : f = Len(fragmentDatas) /\ g = fragmentRemain
      BY <1>1 DEF Types
    <3>2. g # 0
      BY <1>1, <2>5, <3>1 DEF InBody, Types
    <3>3. f + g = n /\ t = b + 4 + f
      BY <1>5, <1>8, <2>5, <3>1 DEF InBody
    <3> QED  BY <1>5, <1>6, <1>7, <3>1, <3>2, <3>3
  <2>6. CASE BodyRead(m)
    BY <2>6 DEF BodyRead
  <2> QED  BY <1>10, <2>1, <2>2, <2>3, <2>4, <2>5, <2>6 DEF InMessage
<1>11. ~Lost(m)
  BY DEF Lost
<1> QED  BY <1>9, <1>10, <1>11 DEF InTurn

\* No message is held back: when the packets received are processed, each message that has
\* arrived to its last byte has been handled, if they kept the reader in step.
THEOREM HandledWhenCompleteHolds == Spec => []HandledWhenComplete
<1>1. ChannelInv => HandledWhenComplete
  <2> SUFFICES ASSUME ChannelInv, packet = NULL, buffered = <<>>, ~condemned, InStep(complete)
               PROVE  Len(handled) = complete
    BY DEF HandledWhenComplete
  <2>1. Types /\ Measured /\ Ordered /\ StreamInv
    BY Amounts, Order DEF ChannelInv, StreamInv
  <2>2. PICK s \in Seq(Messages) : s = sent
    BY <2>1 DEF Types
  <2>3. PICK l \in Nat : l = Len(s)
    OBVIOUS
  <2>4. PICK c \in 0 .. l : c = complete
    BY <2>2, <2>3 DEF ChannelInv, StreamInv, CompleteExact
  <2>5. PICK h \in Nat : h = Len(handled)
    BY <2>1 DEF Types
  <2>6. DOMAIN handled = 1 .. h
    BY <2>1, <2>5 DEF Types
  <2>7. h <= c
    <3> SUFFICES ASSUME c < h  PROVE FALSE
      OBVIOUS
    <3>1. PICK i \in 1 .. h : i = c + 1
      OBVIOUS
    <3>2. i - 1 = c
      BY <3>1
    <3>3. InStep(i - 1)
      BY <2>4, <3>2
    <3>4. i <= complete
      BY <2>6, <3>3 DEF ChannelInv, HandledRight
    <3> QED  BY <2>4, <3>1, <3>4
  <2>8. Taken = Received
    <3>1. FlattenSeq(buffered) = <<>>
      BY FlattenEmpty
    <3>2. Received = Taken + Len(FlattenSeq(buffered)) /\ Taken \in Nat
      BY <2>1 DEF Ordered
    <3>3. Len(FlattenSeq(buffered)) = 0
      BY <3>1
    <3> QED  BY <3>2, <3>3
  <2>9. ASSUME h < c  PROVE FALSE
    <3>1. PICK m \in 1 .. Len(sent) : m = h + 1
      BY <2>2, <2>3, <2>9
    <3>2. m \in 1 .. c /\ Len(s) <= MaxSent
      BY <2>1, <2>2, <2>9, <3>1 DEF Types
    <3>3. InStep(m)
      <4>1. \A k \in 1 .. m : k \in 1 .. c
        BY <3>2
      <4> QED  BY <2>4, <4>1 DEF InStep
    <3>4. InStep(h)
      <4>1. \A k \in 1 .. h : k \in 1 .. m
        BY <3>1
      <4> QED  BY <3>3, <4>1 DEF InStep
    <3>5. Begin(s, m + 1) <= Begin(s, c + 1) /\ Begin(s, m + 1) \in Nat /\ Begin(s, c + 1) \in Nat
      <4>1. PICK j \in 1 .. Len(s) + 1 : j = c + 1
        BY <2>3
      <4>2. PICK i \in 1 .. Len(s) + 1 : i = m + 1
        BY <2>3, <3>2
      <4>3. j \in i .. Len(s) + 1
        BY <2>3, <3>2, <4>1, <4>2
      <4>4. Begin(s, i) <= Begin(s, j) /\ Begin(s, i) \in Nat /\ Begin(s, j) \in Nat
        BY <3>2, <4>3, BeginGrows, BeginType
      <4> QED  BY <4>1, <4>2, <4>4
    <3>6. Begin(s, m + 1) <= Taken /\ Taken \in Nat
      <4>1. Begin(s, c + 1) <= Received
        BY <2>2, <2>4 DEF ChannelInv, StreamInv, CompleteExact
      <4>2. Taken \in Nat
        BY <2>1 DEF Ordered
      <4> QED  BY <2>8, <3>5, <4>1, <4>2
    <3>7. handshaken
      <4> SUFFICES ASSUME ~handshaken  PROVE FALSE
        OBVIOUS
      <4>1. Taken = 0
        BY DEF ChannelInv, StreamInv, Quiet
      <4>2. MessageAt(s, m)
        BY <2>2, <3>2, StreamBytes
      <4>3. PICK n \in Nat, b \in Nat : Begin(s, m + 1) = b + 4 + n
        BY <4>2 DEF MessageAt
      <4> QED  BY <3>6, <4>1, <4>3
    <3>8. InTurn(m)
      BY <2>5, <3>1, <3>4, <3>7 DEF ChannelInv, ReaderInTurn
    <3>9. Taken < Begin(s, m + 1)
      BY <2>1, <2>2, <3>3, <3>8, NotBehind
    <3> QED  BY <3>5, <3>6, <3>9
  <2> QED  BY <2>4, <2>5, <2>7, <2>9
<1> QED  BY <1>1, Invariant, PTL

=============================================================================
