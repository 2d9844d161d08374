----------------------------- MODULE ChainProofs -----------------------------
(***************************************************************************)
(* What the operations of module Chain, and those of sequences, do to the  *)
(* items of a chain and to their being in it once.                         *)
(*                                                                         *)
(* What a recursive definition computes is proved by induction, which is   *)
(* had from the least element of a set of naturals (LeastNat).             *)
(***************************************************************************)
EXTENDS Chain, SequenceTheorems, WellFoundedInduction, TLAPS

LEMMA LeastNat ==
  ASSUME NEW T, T \subseteq Nat, T # {}
  PROVE  \E n \in T : \A k \in T : n <= k
<1>1. PICK n \in T : \A k \in T : ~(<<k, n>> \in OpToRel(<, Nat))
  BY NatLessThanWellFounded, WFMin
<1>2. \A k \in T : ~(k < n)
  BY <1>1 DEF OpToRel
<1> QED BY <1>2, n \in Nat

\* Induction, for a set in the place of a predicate
LEMMA SetInduction ==
  ASSUME NEW T, 0 \in T, \A n \in Nat : n \in T => n + 1 \in T
  PROVE  \A n \in Nat : n \in T
<1> DEFINE C == {n \in Nat : n \notin T}
<1> SUFFICES ASSUME C # {} PROVE FALSE
  OBVIOUS
<1>1. PICK n \in C : \A k \in C : n <= k
  <2> HIDE DEF C
  <2> SUFFICES C \subseteq Nat BY LeastNat
  <2> QED BY DEF C
<1>2. n - 1 \in Nat /\ n - 1 \notin C BY <1>1
<1> QED BY <1>2

-----------------------------------------------------------------------------

\* What is in a sequence is one of its elements.
LEMMA ChainItems ==
  ASSUME NEW S, NEW s \in Seq(S), NEW a, InChain(s, a)
  PROVE  a \in S
BY ElementOfSeq DEF InChain

LEMMA EmptyChain ==
  /\ \A a : ~InChain(<< >>, a)
  /\ IsInjective(<< >>)
BY DEF InChain, IsInjective

LEMMA AppendChain ==
  ASSUME NEW S, NEW s \in Seq(S), NEW a \in S
  PROVE  /\ Append(s, a) \in Seq(S)
         /\ \A b : InChain(Append(s, a), b) <=> InChain(s, b) \/ b = a
         /\ IsInjective(s) /\ ~InChain(s, a) => IsInjective(Append(s, a))
<1>1. Append(s, a) \in Seq(S) /\ Len(Append(s, a)) = Len(s) + 1
  BY AppendProperties
<1>2. \A i \in 1 .. Len(s) : Append(s, a)[i] = s[i]
  BY AppendProperties
<1>3. Append(s, a)[Len(s) + 1] = a
  BY AppendProperties
<1>4. DOMAIN s = 1 .. Len(s) /\ DOMAIN Append(s, a) = 1 .. Len(s) + 1 /\ Len(s) \in Nat
  BY <1>1, LenProperties
<1>5. \A b : InChain(Append(s, a), b) <=> InChain(s, b) \/ b = a
  BY <1>2, <1>3, <1>4 DEF InChain
<1>6. IsInjective(s) /\ ~InChain(s, a) => IsInjective(Append(s, a))
  BY <1>2, <1>3, <1>4 DEF InChain, IsInjective
<1> QED BY <1>1, <1>5, <1>6

\* A new first item
LEMMA PushChain ==
  ASSUME NEW S, NEW s \in Seq(S), NEW a \in S
  PROVE  /\ <<a>> \o s \in Seq(S)
         /\ (<<a>> \o s)[1] = a
         /\ \A i \in DOMAIN (<<a>> \o s) : i # 1 => i - 1 \in DOMAIN s /\ (<<a>> \o s)[i] = s[i - 1]
         /\ DOMAIN (<<a>> \o s) = 1 .. Len(s) + 1
<1> DEFINE t == <<a>> \o s
<1>1. <<a>> \in Seq(S) /\ Len(<<a>>) = 1 /\ <<a>>[1] = a
  OBVIOUS
<1>2. /\ t \in Seq(S) /\ Len(t) = 1 + Len(s)
      /\ \A i \in 1 .. 1 + Len(s) : t[i] = IF i <= 1 THEN <<a>>[i] ELSE s[i - 1]
  BY <1>1, ConcatProperties
<1>3. Len(s) \in Nat /\ DOMAIN s = 1 .. Len(s) /\ DOMAIN t = 1 .. Len(s) + 1
  BY <1>2, LenProperties
<1> HIDE DEF t
<1> QED BY <1>1, <1>2, <1>3 DEF t

LEMMA HeadChain ==
  ASSUME NEW S, NEW s \in Seq(S), s # << >>
  PROVE  /\ Head(s) \in S /\ InChain(s, Head(s))
         /\ Tail(s) \in Seq(S)
         /\ \A b : InChain(s, b) <=> InChain(Tail(s), b) \/ b = Head(s)
         /\ IsInjective(s) => IsInjective(Tail(s)) /\ ~InChain(Tail(s), Head(s))
<1>1. Len(s) \in Nat \ {0} /\ DOMAIN s = 1 .. Len(s)
  BY EmptySeq, LenProperties
<1>2. Head(s) = s[1] /\ Head(s) \in S /\ Tail(s) \in Seq(S) /\ Len(Tail(s)) = Len(s) - 1
  BY <1>1, HeadTailProperties
<1>3. \A i \in 1 .. Len(s) - 1 : Tail(s)[i] = s[i + 1]
  BY <1>1, HeadTailProperties
<1>4. DOMAIN Tail(s) = 1 .. Len(s) - 1
  BY <1>2, LenProperties
<1>5. \A b : InChain(s, b) => InChain(Tail(s), b) \/ b = Head(s)
  <2> SUFFICES ASSUME NEW i \in 1 .. Len(s), i # 1 PROVE InChain(Tail(s), s[i])
    BY <1>1, <1>2 DEF InChain
  <2>1. i - 1 \in 1 .. Len(s) - 1 /\ Tail(s)[i - 1] = s[i]
    BY <1>1, <1>3
  <2> QED BY <2>1, <1>4 DEF InChain
<1>6. \A b : InChain(Tail(s), b) \/ b = Head(s) => InChain(s, b)
  BY <1>1, <1>2, <1>3, <1>4 DEF InChain
<1>7. IsInjective(s) => IsInjective(Tail(s))
  BY <1>1, <1>3, <1>4 DEF IsInjective
<1>8. IsInjective(s) => ~InChain(Tail(s), Head(s))
  BY <1>1, <1>2, <1>3, <1>4 DEF IsInjective, InChain
<1> QED BY <1>1, <1>2, <1>5, <1>6, <1>7, <1>8 DEF InChain

LEMMA ConcatChain ==
  ASSUME NEW S, NEW s \in Seq(S), NEW t \in Seq(S)
  PROVE  /\ s \o t \in Seq(S)
         /\ \A b : InChain(s \o t, b) <=> InChain(s, b) \/ InChain(t, b)
         /\ IsInjective(s) /\ IsInjective(t) /\ (\A b : ~(InChain(s, b) /\ InChain(t, b)))
              => IsInjective(s \o t)
<1> DEFINE st == s \o t
<1>1. /\ st \in Seq(S) /\ Len(st) = Len(s) + Len(t)
      /\ \A i \in 1 .. Len(s) + Len(t) : st[i] = IF i <= Len(s) THEN s[i] ELSE t[i - Len(s)]
  BY ConcatProperties
<1>2. /\ Len(s) \in Nat /\ Len(t) \in Nat
      /\ DOMAIN s = 1 .. Len(s) /\ DOMAIN t = 1 .. Len(t) /\ DOMAIN st = 1 .. Len(s) + Len(t)
  BY <1>1, LenProperties
<1> HIDE DEF st
<1>3. \A b : InChain(st, b) => InChain(s, b) \/ InChain(t, b)
  <2> SUFFICES ASSUME NEW i \in 1 .. Len(s) + Len(t) PROVE InChain(s, st[i]) \/ InChain(t, st[i])
    BY <1>2 DEF InChain
  <2>1. i <= Len(s) => i \in DOMAIN s /\ st[i] = s[i] BY <1>1, <1>2
  <2>2. ~(i <= Len(s)) => i - Len(s) \in DOMAIN t /\ st[i] = t[i - Len(s)] BY <1>1, <1>2
  <2> QED BY <2>1, <2>2 DEF InChain
<1>4. \A b : InChain(s, b) => InChain(st, b)
  BY <1>1, <1>2 DEF InChain
<1>5. \A b : InChain(t, b) => InChain(st, b)
  <2> SUFFICES ASSUME NEW i \in 1 .. Len(t) PROVE InChain(st, t[i])
    BY <1>2 DEF InChain
  <2>1. i + Len(s) \in 1 .. Len(s) + Len(t) /\ ~(i + Len(s) <= Len(s)) /\ (i + Len(s)) - Len(s) = i
    BY <1>2
  <2>2. i + Len(s) \in DOMAIN st /\ st[i + Len(s)] = t[i] BY <1>1, <1>2, <2>1
  <2> QED BY <2>2 DEF InChain
<1>6. ASSUME IsInjective(s), IsInjective(t), \A b : ~(InChain(s, b) /\ InChain(t, b))
      PROVE  IsInjective(st)
  <2> SUFFICES ASSUME NEW i \in 1 .. Len(s) + Len(t), NEW j \in 1 .. Len(s) + Len(t), st[i] = st[j]
               PROVE  i = j
    BY <1>2 DEF IsInjective
  <2>1. CASE i <= Len(s) /\ j <= Len(s) BY <1>1, <1>2, <1>6, <2>1 DEF IsInjective
  <2>2. CASE ~(i <= Len(s)) /\ ~(j <= Len(s))
    <3>1. i - Len(s) \in DOMAIN t /\ j - Len(s) \in DOMAIN t /\ t[i - Len(s)] = t[j - Len(s)]
      BY <1>1, <1>2, <2>2
    <3>2. i - Len(s) = j - Len(s) BY <3>1, <1>6 DEF IsInjective
    <3> QED BY <3>2, <1>2
  <2>3. ASSUME NEW k \in 1 .. Len(s) + Len(t), NEW l \in 1 .. Len(s) + Len(t),
               k <= Len(s), ~(l <= Len(s)), st[k] = st[l]
        PROVE  FALSE
    <3>1. k \in DOMAIN s /\ l - Len(s) \in DOMAIN t /\ s[k] = t[l - Len(s)]
      BY <1>1, <1>2, <2>3
    <3> QED BY <3>1, <1>6 DEF InChain
  <2> QED BY <2>1, <2>2, <2>3
<1> QED BY <1>1, <1>3, <1>4, <1>5, <1>6 DEF st

\* An assignment to an element leaves a sequence of the same length.
LEMMA ExceptType ==
  ASSUME NEW S, NEW s \in Seq(S), NEW e \in S, NEW i
  PROVE  /\ [s EXCEPT ![i] = e] \in Seq(S)
         /\ DOMAIN [s EXCEPT ![i] = e] = DOMAIN s
<1>1. Len(s) \in Nat /\ s \in [1 .. Len(s) -> S]
  BY LenProperties
<1>2. [s EXCEPT ![i] = e] \in [1 .. Len(s) -> S]
  BY <1>1
<1> QED BY <1>1, <1>2, SeqDef

LEMMA TailType ==
  ASSUME NEW S, NEW s \in Seq(S), s # << >>
  PROVE  Tail(s) \in Seq(S)
BY HeadChain

LEMMA WithoutType ==
  ASSUME NEW S, NEW s \in Seq(S), NEW a
  PROVE  Without(s, a) \in Seq(S)
<1> DEFINE n == IF InChain(s, a) THEN Len(s) - 1 ELSE Len(s)
           w == Without(s, a)
<1>1. Len(s) \in Nat /\ DOMAIN s = 1 .. Len(s) /\ \A i \in 1 .. Len(s) : s[i] \in S
  BY LenProperties, ElementOfSeq
<1>2. n \in Nat
  BY <1>1 DEF InChain
<1>3. w = [i \in 1 .. n |-> IF \E j \in 1 .. i : s[j] = a THEN s[i + 1] ELSE s[i]]
  BY DEF Without
<1>4. \A i \in 1 .. n : (\E j \in 1 .. i : s[j] = a) => i + 1 \in 1 .. Len(s)
  BY <1>1 DEF InChain
<1>5. \A i \in 1 .. n : i \in 1 .. Len(s)
  BY <1>1
<1> HIDE DEF n, w
<1>6. w \in [1 .. n -> S]
  BY <1>1, <1>3, <1>4, <1>5
<1> QED BY <1>2, <1>6, SeqDef DEF w

\* remove() takes out what it is to take out and nothing else.
LEMMA WithoutChain ==
  ASSUME NEW S, NEW s \in Seq(S), IsInjective(s), NEW a
  PROVE  /\ Without(s, a) \in Seq(S)
         /\ \A b : InChain(Without(s, a), b) <=> InChain(s, b) /\ b # a
         /\ IsInjective(Without(s, a))
<1> DEFINE w == Without(s, a)
<1>1. Len(s) \in Nat /\ DOMAIN s = 1 .. Len(s) /\ \A i \in 1 .. Len(s) : s[i] \in S
  BY LenProperties, ElementOfSeq
<1>2. CASE ~InChain(s, a)
  <2>1. w = [i \in 1 .. Len(s) |-> s[i]]
    BY <1>1, <1>2 DEF Without, InChain
  <2>2. w = s BY <1>1, <2>1
  <2> QED BY <1>2, <2>2
<1>3. CASE InChain(s, a)
  <2>1. PICK k \in 1 .. Len(s) : s[k] = a
    BY <1>1, <1>3 DEF InChain
  <2>2. \A i \in 1 .. Len(s) - 1 : (\E j \in 1 .. i : s[j] = a) <=> k <= i
    BY <1>1, <2>1 DEF IsInjective
  <2>3. w = [i \in 1 .. Len(s) - 1 |-> IF k <= i THEN s[i + 1] ELSE s[i]]
    BY <1>3, <2>2 DEF Without
  <2>4. w \in Seq(S)
    <3>1. \A i \in 1 .. Len(s) - 1 : w[i] \in S BY <1>1, <2>3
    <3>2. Len(s) - 1 \in Nat BY <1>1, <2>1
    <3> QED BY <3>1, <3>2, <2>3, SeqDef
  <2>5. DOMAIN w = 1 .. Len(s) - 1 BY <2>3
  <2>6. \A i \in 1 .. Len(s) - 1 : w[i] = IF k <= i THEN s[i + 1] ELSE s[i] BY <2>3
  <2> HIDE DEF w
  <2>7. \A b : InChain(w, b) => InChain(s, b) /\ b # a
    <3> SUFFICES ASSUME NEW i \in 1 .. Len(s) - 1 PROVE InChain(s, w[i]) /\ w[i] # a
      BY <2>5 DEF InChain
    <3>1. CASE k <= i
      <4>1. w[i] = s[i + 1] /\ i + 1 \in 1 .. Len(s) /\ i + 1 # k BY <1>1, <2>6, <3>1
      <4> QED BY <1>1, <2>1, <4>1 DEF InChain, IsInjective
    <3>2. CASE ~(k <= i)
      <4>1. w[i] = s[i] /\ i \in 1 .. Len(s) /\ i # k BY <1>1, <2>6, <3>2
      <4> QED BY <1>1, <2>1, <4>1 DEF InChain, IsInjective
    <3> QED BY <3>1, <3>2
  <2>8. \A b : InChain(s, b) /\ b # a => InChain(w, b)
    <3> SUFFICES ASSUME NEW i \in 1 .. Len(s), s[i] # a PROVE InChain(w, s[i])
      BY <1>1 DEF InChain
    <3>1. CASE i < k
      <4>1. i \in 1 .. Len(s) - 1 /\ w[i] = s[i] BY <1>1, <2>6, <3>1
      <4> QED BY <4>1, <2>5 DEF InChain
    <3>2. CASE ~(i < k)
      <4>1. i - 1 \in 1 .. Len(s) - 1 /\ w[i - 1] = s[i] BY <1>1, <2>1, <2>6, <3>2
      <4> QED BY <4>1, <2>5 DEF InChain
    <3> QED BY <3>1, <3>2
  <2>9. IsInjective(w)
    <3> SUFFICES ASSUME NEW i \in 1 .. Len(s) - 1, NEW j \in 1 .. Len(s) - 1, w[i] = w[j] PROVE i = j
      BY <2>5 DEF IsInjective
    <3> QED BY <1>1, <2>6 DEF IsInjective
  <2> QED BY <2>4, <2>7, <2>8, <2>9 DEF w
<1> QED BY <1>2, <1>3

-----------------------------------------------------------------------------

\* f has what Kept keeps of the first n items of s, for each n.
KeptBy(f, s, K) ==
  /\ Kept(s, K) = f[Len(s)]
  /\ f[0] = << >>
  /\ \A n \in 1 .. Len(s) : f[n] = IF s[n] \in K THEN Append(f[n - 1], s[n]) ELSE f[n - 1]

\* The recursive definition of Kept has the values that it asks for.
LEMMA KeptSteps ==
  ASSUME NEW S, NEW s \in Seq(S), NEW K
  PROVE  \E f \in [0 .. Len(s) -> Seq(S)] : KeptBy(f, s, K)
<1> DEFINE Value(f, n) == IF n = 0 THEN << >>
                          ELSE IF s[n] \in K THEN Append(f[n - 1], s[n]) ELSE f[n - 1]
           Upto(n) == {f \in [0 .. n -> Seq(S)] : \A i \in 0 .. n : f[i] = Value(f, i)}
           T == {n \in Nat : n <= Len(s) => Upto(n) # {}}
<1>1. Len(s) \in Nat /\ DOMAIN s = 1 .. Len(s) /\ \A i \in 1 .. Len(s) : s[i] \in S
  BY LenProperties, ElementOfSeq
<1>2. 0 \in T
  <2>1. [i \in 0 .. 0 |-> << >>] \in Upto(0) OBVIOUS
  <2> QED BY <2>1
<1>3. \A n \in Nat : n \in T => n + 1 \in T
  <2> SUFFICES ASSUME NEW n \in Nat, n \in T, n + 1 <= Len(s) PROVE Upto(n + 1) # {}
    <3> HIDE DEF Upto
    <3> QED OBVIOUS
  <2>1. PICK f \in Upto(n) : TRUE BY <1>1
  <2> DEFINE g == [i \in 0 .. n + 1 |-> IF i <= n THEN f[i] ELSE Value(f, n + 1)]
  <2>2. \A i \in 0 .. n : f[i] \in Seq(S) /\ f[i] = Value(f, i)
    BY <2>1
  <2>3. Value(f, n + 1) \in Seq(S)
    <3>1. f[n] \in Seq(S) /\ s[n + 1] \in S BY <1>1, <2>2
    <3>2. Append(f[n], s[n + 1]) \in Seq(S) BY <3>1, AppendProperties
    <3> QED BY <3>1, <3>2
  <2> HIDE DEF Value
  <2>4. g \in [0 .. n + 1 -> Seq(S)] BY <2>2, <2>3
  <2>5. \A i \in 0 .. n + 1 : g[i] = Value(f, i) BY <2>2
  <2> USE DEF Value
  <2>6. \A i \in 0 .. n + 1 : Value(g, i) = Value(f, i) BY <1>1
  <2>7. g \in Upto(n + 1)
    <3> HIDE DEF g, Value
    <3> QED BY <2>4, <2>5, <2>6
  <2> QED BY <2>7
<1>4. Upto(Len(s)) # {}
  <2> HIDE DEF Upto
  <2>1. \A n \in Nat : n \in T
    <3> HIDE DEF T
    <3> QED BY <1>2, <1>3, SetInduction
  <2> QED BY <1>1, <2>1
<1> DEFINE kept == CHOOSE f : f = [n \in 0 .. Len(s) |-> Value(f, n)]
<1>5. kept = [n \in 0 .. Len(s) |-> Value(kept, n)]
  <2> HIDE DEF Value
  <2>1. PICK f \in Upto(Len(s)) : TRUE BY <1>4
  <2>2. f = [n \in 0 .. Len(s) |-> Value(f, n)] BY <2>1
  <2> QED BY <2>2
<1>6. \A n \in 0 .. Len(s) : kept[n] = Value(kept, n)
  <2> HIDE DEF kept, Value
  <2> QED BY <1>5
<1>7. Kept(s, K) = kept[Len(s)]
  BY DEF Kept
<1> HIDE DEF kept
<1>8. \A n \in Nat : n <= Len(s) => kept[n] \in Seq(S)
  <2> DEFINE U == {n \in Nat : n <= Len(s) => kept[n] \in Seq(S)}
  <2>1. 0 \in U
    <3>1. kept[0] = << >> BY <1>1, <1>6
    <3> QED BY <3>1, EmptySeq
  <2>2. ASSUME NEW n \in Nat, n \in U, n + 1 <= Len(s) PROVE kept[n + 1] \in Seq(S)
    <3>1. kept[n] \in Seq(S) /\ s[n + 1] \in S BY <1>1, <2>2
    <3>2. Append(kept[n], s[n + 1]) \in Seq(S) BY <3>1, AppendProperties
    <3>3. kept[n + 1] = IF s[n + 1] \in K THEN Append(kept[n], s[n + 1]) ELSE kept[n]
      BY <1>1, <1>6, <2>2
    <3> QED BY <3>1, <3>2, <3>3
  <2>3. \A n \in Nat : n \in U
    <3>1. \A n \in Nat : n \in U => n + 1 \in U BY <2>2
    <3> HIDE DEF U
    <3> QED BY <2>1, <3>1, SetInduction
  <2> QED BY <2>3
<1>9. kept \in [0 .. Len(s) -> Seq(S)]
  <2> HIDE DEF Value
  <2> QED BY <1>1, <1>5, <1>8
<1>10. kept[0] = << >> /\ \A n \in 1 .. Len(s) : kept[n] = IF s[n] \in K THEN Append(kept[n - 1], s[n]) ELSE kept[n - 1]
  BY <1>1, <1>6
<1> QED BY <1>7, <1>9, <1>10 DEF KeptBy

\* A loop that removes items leaves the others, each once.
LEMMA KeptChain ==
  ASSUME NEW S, NEW s \in Seq(S), NEW K
  PROVE  /\ Kept(s, K) \in Seq(S)
         /\ \A b : InChain(Kept(s, K), b) <=> InChain(s, b) /\ b \in K
         /\ IsInjective(s) => IsInjective(Kept(s, K))
<1>0. PICK f \in [0 .. Len(s) -> Seq(S)] : KeptBy(f, s, K)
  BY KeptSteps
<1>1. /\ Kept(s, K) = f[Len(s)]
      /\ f[0] = << >>
      /\ \A n \in 1 .. Len(s) : f[n] = IF s[n] \in K THEN Append(f[n - 1], s[n]) ELSE f[n - 1]
  BY <1>0 DEF KeptBy
<1>2. Len(s) \in Nat /\ DOMAIN s = 1 .. Len(s) /\ \A i \in 1 .. Len(s) : s[i] \in S
  BY LenProperties, ElementOfSeq
<1> DEFINE Right(n) == /\ \A b : InChain(f[n], b) <=> b \in K /\ \E i \in 1 .. n : s[i] = b
                       /\ IsInjective(s) => IsInjective(f[n])
           T == {n \in Nat : n <= Len(s) => Right(n)}
<1>3. 0 \in T
  <2>1. Right(0) BY <1>1, EmptyChain
  <2> QED BY <2>1
<1>4. \A n \in Nat : n \in T => n + 1 \in T
  <2> SUFFICES ASSUME NEW n \in Nat, n \in T, n + 1 <= Len(s) PROVE Right(n + 1)
    OBVIOUS
  <2>1. Right(n) /\ f[n] \in Seq(S) /\ s[n + 1] \in S /\ n + 1 \in 1 .. Len(s)
    BY <1>2
  <2>2. \A b : (\E i \in 1 .. n + 1 : s[i] = b) <=> (\E i \in 1 .. n : s[i] = b) \/ b = s[n + 1]
    OBVIOUS
  <2>3. f[n + 1] = IF s[n + 1] \in K THEN Append(f[n], s[n + 1]) ELSE f[n]
    BY <1>1, <2>1
  <2>4. CASE s[n + 1] \in K
    <3> DEFINE a == s[n + 1]
               t == f[n]
    <3>1. /\ \A b : InChain(Append(t, a), b) <=> InChain(t, b) \/ b = a
          /\ IsInjective(t) /\ ~InChain(t, a) => IsInjective(Append(t, a))
      BY <2>1, AppendChain
    <3>2. f[n + 1] = Append(t, a) BY <2>3, <2>4
    <3>3. IsInjective(s) => ~\E i \in 1 .. n : s[i] = a
      BY <1>2 DEF IsInjective
    <3>4. \A b : InChain(f[n + 1], b) <=> b \in K /\ \E i \in 1 .. n + 1 : s[i] = b
      BY <2>1, <2>2, <2>4, <3>1, <3>2
    <3>5. IsInjective(s) => IsInjective(f[n + 1])
      BY <2>1, <3>1, <3>2, <3>3
    <3> QED BY <3>4, <3>5
  <2>5. CASE s[n + 1] \notin K
    BY <2>1, <2>2, <2>3, <2>5
  <2> QED BY <2>4, <2>5
<1>5. Right(Len(s))
  <2> HIDE DEF Right
  <2>1. \A n \in Nat : n \in T
    <3> HIDE DEF T
    <3> QED BY <1>3, <1>4, SetInduction
  <2> QED BY <1>2, <2>1
<1>6. \A b : InChain(s, b) <=> \E i \in 1 .. Len(s) : s[i] = b
  BY <1>2 DEF InChain
<1>7. Kept(s, K) \in Seq(S) BY <1>1, <1>2
<1> QED BY <1>1, <1>5, <1>6, <1>7

-----------------------------------------------------------------------------
(* Recursive functions.                                                    *)

\* What a recursive definition over 0 .. n gives: v first, then step[i] of the one before.
Recurs(f, n, v, step) == f[0] = v /\ \A i \in 1 .. n : f[i] = step[i][f[i - 1]]

LEMMA Recursion ==
  ASSUME NEW V, NEW n \in Nat, NEW v \in V, NEW step \in [1 .. n -> [V -> V]]
  PROVE  \E f \in [0 .. n -> V] : Recurs(f, n, v, step)
<1> DEFINE Upto(m) == {f \in [0 .. m -> V] : f[0] = v /\ \A i \in 1 .. m : f[i] = step[i][f[i - 1]]}
           T == {m \in Nat : m <= n => Upto(m) # {}}
<1>1. 0 \in T
  <2>1. [i \in 0 .. 0 |-> v] \in Upto(0) OBVIOUS
  <2> QED BY <2>1
<1>2. \A m \in Nat : m \in T => m + 1 \in T
  <2> SUFFICES ASSUME NEW m \in Nat, m \in T, m + 1 <= n PROVE Upto(m + 1) # {}
    <3> HIDE DEF Upto
    <3> QED OBVIOUS
  <2>1. PICK f \in Upto(m) : TRUE OBVIOUS
  <2> DEFINE last == step[m + 1][f[m]]
             g    == [i \in 0 .. m + 1 |-> IF i <= m THEN f[i] ELSE last]
  <2>2. f \in [0 .. m -> V] /\ f[0] = v /\ \A i \in 1 .. m : f[i] = step[i][f[i - 1]]
    BY <2>1
  <2>3. last \in V
    <3>1. f[m] \in V BY <2>2
    <3>2. m + 1 \in 1 .. n OBVIOUS
    <3>3. step[m + 1] \in [V -> V] BY <3>2
    <3> QED BY <3>1, <3>3
  <2> HIDE DEF last
  <2>4. g \in [0 .. m + 1 -> V] BY <2>2, <2>3
  <2>5. \A i \in 0 .. m : g[i] = f[i] OBVIOUS
  <2>6. g[m + 1] = last OBVIOUS
  <2> HIDE DEF g
  <2>7. \A i \in 1 .. m + 1 : g[i] = step[i][g[i - 1]]
    <3> SUFFICES ASSUME NEW i \in 1 .. m + 1 PROVE g[i] = step[i][g[i - 1]]
      OBVIOUS
    <3>1. CASE i = m + 1
      <4>1. i - 1 \in 0 .. m /\ i - 1 = m BY <3>1
      <4> QED BY <3>1, <4>1, <2>5, <2>6 DEF last
    <3>2. CASE i # m + 1
      <4>1. i \in 1 .. m /\ i \in 0 .. m /\ i - 1 \in 0 .. m BY <3>2
      <4> QED BY <4>1, <2>2, <2>5
    <3> QED BY <3>1, <3>2
  <2>8. g[0] = v BY <2>2, <2>5
  <2>9. g \in Upto(m + 1) BY <2>4, <2>7, <2>8
  <2> QED BY <2>9
<1>3. \A m \in Nat : m \in T
  <2> HIDE DEF T
  <2> QED BY <1>1, <1>2, SetInduction
<1> QED BY <1>3 DEF Recurs
=============================================================================
