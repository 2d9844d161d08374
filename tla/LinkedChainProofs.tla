-------------------------- MODULE LinkedChainProofs --------------------------
(***************************************************************************)
(* ForwardChain and DoubleChain implement ChainPair, for any number of     *)
(* items and of chains.                                                    *)
(*                                                                         *)
(* At any time there are sequences that the links, heads and tails stand   *)
(* for; an operation puts an item at one place of one of them, takes it    *)
(* from there, joins two of them or swaps them.  What a loop over the      *)
(* links meets is found by exhibiting its way through the sequence.        *)
(***************************************************************************)
EXTENDS ForwardChain, DoubleChain, ChainProofs, FiniteSetTheorems

-----------------------------------------------------------------------------
(* Sequences, in which something is put, from which something is taken,   *)
(* and which become one.                                                  *)

\* The items of a sequence, and what it means to be among them
LEMMA AnySeq ==
  ASSUME NEW S, NEW t \in Seq(S)
  PROVE  /\ Len(t) \in Nat /\ DOMAIN t = 1 .. Len(t)
         /\ \A i \in 1 .. Len(t) : t[i] \in S
         /\ \A m : InChain(t, m) <=> \E i \in 1 .. Len(t) : t[i] = m
<1>1. Len(t) \in Nat /\ DOMAIN t = 1 .. Len(t) BY LenProperties
<1>2. \A i \in 1 .. Len(t) : t[i] \in S
  BY ElementOfSeq
<1> QED BY <1>1, <1>2 DEF InChain

\* The items from i to j
LEMMA PartIs ==
  ASSUME NEW S, NEW t \in Seq(S), NEW i \in Int, NEW j \in Int, 1 <= i, i <= j + 1, j <= Len(t)
  PROVE  /\ SubSeq(t, i, j) \in Seq(S) /\ Len(SubSeq(t, i, j)) = j - i + 1
         /\ \A k \in 1 .. j - i + 1 : SubSeq(t, i, j)[k] = t[i + k - 1]
<1>1. PICK n \in Nat : n = Len(t) BY LenProperties
<1>2. \A k \in 1 .. n : t[k] \in S BY <1>1, ElementOfSeq
<1>3. \A k \in i .. j : t[k] \in S BY <1>1, <1>2
<1>4. /\ SubSeq(t, i, j) \in Seq(S)
      /\ Len(SubSeq(t, i, j)) = IF i <= j THEN j - i + 1 ELSE 0
      /\ \A k \in 1 .. j - i + 1 : SubSeq(t, i, j)[k] = t[i + k - 1]
  BY <1>3, SubSeqProperties
<1>5. ~(i <= j) => j - i + 1 = 0 OBVIOUS
<1> QED BY <1>4, <1>5

\* One sequence and then another
LEMMA JoinIs ==
  ASSUME NEW S, NEW a \in Seq(S), NEW b \in Seq(S), NEW m \in Nat, NEW n \in Nat, m = Len(a), n = Len(b)
  PROVE  /\ a \o b \in Seq(S) /\ Len(a \o b) = m + n
         /\ \A i \in 1 .. m + n : (a \o b)[i] = IF i <= m THEN a[i] ELSE b[i - m]
BY ConcatProperties

\* The n items of t are different, and none of them is x.
Once(t, n)       == \A i, j \in 1 .. n : t[i] = t[j] => i = j
Missing(t, n, x) == \A i \in 1 .. n : t[i] # x

\* A sequence without doubles is not longer than there are items.
LEMMA NoLonger ==
  ASSUME NEW S, IsFiniteSet(S), NEW t \in Seq(S), Once(t, Len(t))
  PROVE  Cardinality(S) \in Nat /\ Len(t) <= Cardinality(S)
<1>1. PICK n \in Nat : n = Len(t) BY AnySeq
<1>2. t \in [1 .. n -> S] BY <1>1, LenProperties
<1>3. t \in Injection(1 .. n, S) BY <1>1, <1>2 DEF Injection, IsInjective, Once
<1>4. Cardinality(1 .. n) <= Cardinality(S) BY <1>3, FS_Injection
<1>5. Cardinality(1 .. n) = n BY FS_Interval
<1>6. Cardinality(S) \in Nat BY FS_CardinalityType
<1> QED BY <1>1, <1>4, <1>5, <1>6

\* x stands at place k of the n items of t, in u.
Inserted(u, t, n, k, x) ==
  \A i \in 1 .. n + 1 : u[i] = IF i < k THEN t[i] ELSE IF i = k THEN x ELSE t[i - 1]

\* InsertAt() puts it there, and nowhere else.
LEMMA InsertIs ==
  ASSUME NEW S, NEW t \in Seq(S), NEW x \in S, NEW k \in 1 .. Len(t) + 1
  PROVE  /\ InsertAt(t, k, x) \in Seq(S) /\ Len(InsertAt(t, k, x)) = Len(t) + 1
         /\ Inserted(InsertAt(t, k, x), t, Len(t), k, x)
<1>1. PICK n \in Nat : n = Len(t) BY AnySeq
<1>2. k \in Int /\ 1 <= k /\ k <= n + 1 BY <1>1
<1>3. PICK h \in Nat : h = k - 1 BY <1>2
<1>4. PICK r \in Nat : r = n - k + 1 BY <1>1, <1>2
<1>5. PICK a \in Seq(S) : a = SubSeq(t, 1, k - 1) /\ Len(a) = h /\ \A i \in 1 .. h : a[i] = t[i]
  <2>1. /\ SubSeq(t, 1, h) \in Seq(S) /\ Len(SubSeq(t, 1, h)) = h - 1 + 1
        /\ \A i \in 1 .. h - 1 + 1 : SubSeq(t, 1, h)[i] = t[1 + i - 1]
    <3>1. 1 <= 1 /\ 1 <= h + 1 /\ h <= Len(t) BY <1>1, <1>2, <1>3
    <3> QED BY <3>1, PartIs
  <2>2. h - 1 + 1 = h /\ \A i \in 1 .. h : 1 + i - 1 = i OBVIOUS
  <2>3. SubSeq(t, 1, h) \in Seq(S) /\ Len(SubSeq(t, 1, h)) = h BY <2>1, <2>2
  <2>4. \A i \in 1 .. h : SubSeq(t, 1, h)[i] = t[i] BY <2>1, <2>2
  <2>5. SubSeq(t, 1, h) = SubSeq(t, 1, k - 1) BY <1>3
  <2> QED BY <2>3, <2>4, <2>5
<1>6. PICK b \in Seq(S) : b = SubSeq(t, k, n) /\ Len(b) = r /\ \A i \in 1 .. r : b[i] = t[k + i - 1]
  <2>1. /\ SubSeq(t, k, n) \in Seq(S) /\ Len(SubSeq(t, k, n)) = n - k + 1
        /\ \A i \in 1 .. n - k + 1 : SubSeq(t, k, n)[i] = t[k + i - 1]
    <3>1. 1 <= k /\ k <= n + 1 /\ n <= Len(t) BY <1>1, <1>2
    <3> QED BY <3>1, <1>2, PartIs
  <2> QED BY <2>1, <1>4
<1>7. PICK u : u = InsertAt(t, k, x) OBVIOUS
<1>8. PICK o \in Seq(S) : o = <<x>> /\ Len(o) = 1 /\ o[1] = x
  <2>1. <<x>> \in Seq(S) /\ Len(<<x>>) = 1 /\ <<x>>[1] = x OBVIOUS
  <2> QED BY <2>1
<1>9. PICK d \in Seq(S) : /\ d = a \o o /\ Len(d) = h + 1
                                /\ \A i \in 1 .. h + 1 : d[i] = IF i <= h THEN a[i] ELSE o[i - h]
  <2>0. PICK g \in Nat : g = 1 OBVIOUS
  <2>1. h = Len(a) /\ g = Len(o) BY <1>5, <1>8, <2>0
  <2>2. a \o o \in Seq(S) /\ Len(a \o o) = h + g
    BY ONLY <2>1, JoinIs, a \in Seq(S), o \in Seq(S), h \in Nat, g \in Nat
  <2>3. \A i \in 1 .. h + g : (a \o o)[i] = IF i <= h THEN a[i] ELSE o[i - h]
    BY ONLY <2>1, JoinIs, a \in Seq(S), o \in Seq(S), h \in Nat, g \in Nat
  <2> QED BY <2>0, <2>2, <2>3
<1>10. u = d \o b
  BY <1>1, <1>5, <1>6, <1>7, <1>8, <1>9 DEF InsertAt
<1>11. /\ u \in Seq(S) /\ Len(u) = (h + 1) + r
       /\ \A i \in 1 .. (h + 1) + r : u[i] = IF i <= h + 1 THEN d[i] ELSE b[i - (h + 1)]
  <2>1. h + 1 \in Nat BY <1>3
  <2>2. PICK g \in Nat : g = h + 1 BY <2>1
  <2>3. g = Len(d) /\ r = Len(b) BY <1>6, <1>9, <2>2
  <2>4. d \o b \in Seq(S) /\ Len(d \o b) = g + r
    BY ONLY <2>3, JoinIs, d \in Seq(S), b \in Seq(S), g \in Nat, r \in Nat
  <2>5. \A i \in 1 .. g + r : (d \o b)[i] = IF i <= g THEN d[i] ELSE b[i - g]
    BY ONLY <2>3, JoinIs, d \in Seq(S), b \in Seq(S), g \in Nat, r \in Nat
  <2> QED BY <2>2, <2>4, <2>5, <1>10
<1>12. (h + 1) + r = n + 1 BY <1>3, <1>4
<1>13. u \in Seq(S) /\ Len(u) = n + 1 BY <1>11, <1>12
<1>14. \A i \in 1 .. n + 1 : u[i] = IF i < k THEN t[i] ELSE IF i = k THEN x ELSE t[i - 1]
  <2> SUFFICES ASSUME NEW i \in 1 .. n + 1 PROVE u[i] = IF i < k THEN t[i] ELSE IF i = k THEN x ELSE t[i - 1]
    OBVIOUS
  <2>1. u[i] = IF i <= h + 1 THEN d[i] ELSE b[i - (h + 1)] BY <1>11, <1>12
  <2>2. CASE i < k
    <3>1. i \in 1 .. h + 1 /\ i <= h /\ i \in 1 .. h /\ i <= h + 1 BY <2>2, <1>3
    <3> QED BY <2>1, <2>2, <3>1, <1>5, <1>9
  <2>3. CASE i = k
    <3>1. i \in 1 .. h + 1 /\ ~(i <= h) /\ i - h = 1 /\ i <= h + 1 /\ ~(i < k) BY <2>3, <1>3
    <3> QED BY <2>1, <2>3, <3>1, <1>8, <1>9
  <2>4. CASE i > k
    <3>1. PICK q \in 1 .. r : q = i - (h + 1) BY <2>4, <1>2, <1>3, <1>4
    <3>2. ~(i <= h + 1) /\ ~(i < k) /\ i # k BY <2>4, <1>2, <1>3
    <3>3. b[q] = t[k + q - 1] BY <1>6
    <3>4. k + q - 1 = i - 1 BY <3>1, <1>2, <1>3
    <3> QED BY <2>1, <3>1, <3>2, <3>3, <3>4
  <2> QED BY <2>2, <2>3, <2>4, <1>2
<1>15. Inserted(u, t, n, k, x) BY <1>14 DEF Inserted
<1> QED BY <1>1, <1>7, <1>13, <1>15

\* The items of u are those of t, and x.
Gains(u, t, n, x) ==
  /\ \A i \in 1 .. n + 1 : u[i] = x \/ \E j \in 1 .. n : u[i] = t[j]
  /\ \A j \in 1 .. n : \E i \in 1 .. n + 1 : u[i] = t[j]

\* Nothing is twice in a sequence into which something new was put.
LEMMA InsertOnce ==
  ASSUME NEW n \in Nat, NEW k \in Int, 1 <= k, k <= n + 1, NEW t, NEW u, NEW x,
         Missing(t, n, x), Once(t, n), Inserted(u, t, n, k, x)
  PROVE  Once(u, n + 1) /\ Gains(u, t, n, x)
<1>1. \A i \in 1 .. n + 1 : \/ i < k /\ i \in 1 .. n /\ u[i] = t[i]
                            \/ i = k /\ u[i] = x
                            \/ i > k /\ i - 1 \in 1 .. n /\ u[i] = t[i - 1]
  BY DEF Inserted
<1>2. \A i \in 1 .. n + 1 : u[i] = x \/ \E j \in 1 .. n : u[i] = t[j]
  BY <1>1
<1>3. \A j \in 1 .. n : \E i \in 1 .. n + 1 : u[i] = t[j]
  <2> SUFFICES ASSUME NEW j \in 1 .. n PROVE \E i \in 1 .. n + 1 : u[i] = t[j]
    OBVIOUS
  <2>1. CASE j < k
    <3>1. j \in 1 .. n + 1 /\ u[j] = t[j] BY <2>1 DEF Inserted
    <3> QED BY <3>1
  <2>2. CASE ~(j < k)
    <3>1. PICK i \in 1 .. n + 1 : i = j + 1 OBVIOUS
    <3>2. ~(i < k) /\ i # k /\ i - 1 = j BY <2>2, <3>1
    <3>3. u[i] = t[j] BY <3>2 DEF Inserted
    <3> QED BY <3>3
  <2> QED BY <2>1, <2>2
<1>4. \A i, j \in 1 .. n + 1 : u[i] = u[j] => i = j
  <2> SUFFICES ASSUME NEW i \in 1 .. n + 1, NEW j \in 1 .. n + 1, u[i] = u[j] PROVE i = j
    OBVIOUS
  <2>1. CASE i < k BY <2>1, <1>1 DEF Once, Missing
  <2>2. CASE i = k BY <2>2, <1>1 DEF Once, Missing
  <2>3. CASE i > k BY <2>3, <1>1 DEF Once, Missing
  <2> QED BY <2>1, <2>2, <2>3
<1> QED BY <1>2, <1>3, <1>4 DEF Once, Gains

\* u is t, of n items, without the one at place k.
Removed(u, t, n, k) == \A i \in 1 .. n - 1 : u[i] = IF i < k THEN t[i] ELSE t[i + 1]

\* RemoveAt() takes that item, and no other.
LEMMA RemoveIs ==
  ASSUME NEW S, NEW t \in Seq(S), NEW k \in 1 .. Len(t)
  PROVE  /\ RemoveAt(t, k) \in Seq(S) /\ Len(RemoveAt(t, k)) = Len(t) - 1
         /\ Removed(RemoveAt(t, k), t, Len(t), k)
<1>1. PICK n \in Nat : n = Len(t) BY AnySeq
<1>2. k \in Int /\ 1 <= k /\ k <= n BY <1>1
<1>3. PICK h \in Nat : h = k - 1 BY <1>2
<1>4. PICK r \in Nat : r = n - k
  <2>1. n - k \in Nat BY <1>1, <1>2
  <2> QED BY <2>1
<1>5. PICK a \in Seq(S) : a = SubSeq(t, 1, k - 1) /\ Len(a) = h /\ \A i \in 1 .. h : a[i] = t[i]
  <2>1. /\ SubSeq(t, 1, h) \in Seq(S) /\ Len(SubSeq(t, 1, h)) = h - 1 + 1
        /\ \A i \in 1 .. h - 1 + 1 : SubSeq(t, 1, h)[i] = t[1 + i - 1]
    <3>1. 1 <= 1 /\ 1 <= h + 1 /\ h <= Len(t) BY <1>1, <1>2, <1>3
    <3> QED BY <3>1, PartIs
  <2>2. h - 1 + 1 = h /\ \A i \in 1 .. h : 1 + i - 1 = i OBVIOUS
  <2>3. SubSeq(t, 1, h) \in Seq(S) /\ Len(SubSeq(t, 1, h)) = h BY <2>1, <2>2
  <2>4. \A i \in 1 .. h : SubSeq(t, 1, h)[i] = t[i] BY <2>1, <2>2
  <2>5. SubSeq(t, 1, h) = SubSeq(t, 1, k - 1) BY <1>3
  <2> QED BY <2>3, <2>4, <2>5
<1>6. PICK b \in Seq(S) : b = SubSeq(t, k + 1, n) /\ Len(b) = r /\ \A i \in 1 .. r : b[i] = t[k + i]
  <2>1. PICK j \in Int : j = k + 1 BY <1>2
  <2>2. /\ SubSeq(t, j, n) \in Seq(S) /\ Len(SubSeq(t, j, n)) = n - j + 1
        /\ \A i \in 1 .. n - j + 1 : SubSeq(t, j, n)[i] = t[j + i - 1]
    <3>1. 1 <= j /\ j <= n + 1 /\ n <= Len(t) BY <1>1, <1>2, <2>1
    <3> QED BY <3>1, PartIs
  <2>3. n - j + 1 = r /\ \A i \in 1 .. r : j + i - 1 = k + i BY <1>2, <1>4, <2>1
  <2>4. SubSeq(t, j, n) \in Seq(S) /\ Len(SubSeq(t, j, n)) = r BY <2>2, <2>3
  <2>5. \A i \in 1 .. r : SubSeq(t, j, n)[i] = t[k + i] BY <2>2, <2>3
  <2> QED BY <2>1, <2>4, <2>5
<1>7. PICK u : u = RemoveAt(t, k) OBVIOUS
<1>8. u = a \o b BY <1>1, <1>5, <1>6, <1>7 DEF RemoveAt
<1>9. /\ u \in Seq(S) /\ Len(u) = h + r
      /\ \A i \in 1 .. h + r : u[i] = IF i <= h THEN a[i] ELSE b[i - h]
  <2>1. h = Len(a) /\ r = Len(b) BY <1>5, <1>6
  <2>2. a \o b \in Seq(S) /\ Len(a \o b) = h + r
    BY ONLY <2>1, JoinIs, a \in Seq(S), b \in Seq(S), h \in Nat, r \in Nat
  <2>3. \A i \in 1 .. h + r : (a \o b)[i] = IF i <= h THEN a[i] ELSE b[i - h]
    BY ONLY <2>1, JoinIs, a \in Seq(S), b \in Seq(S), h \in Nat, r \in Nat
  <2> QED BY <2>2, <2>3, <1>8
<1>10. h + r = n - 1 BY <1>2, <1>3, <1>4
<1>11. u \in Seq(S) /\ Len(u) = n - 1 BY <1>9, <1>10
<1>12. \A i \in 1 .. n - 1 : u[i] = IF i < k THEN t[i] ELSE t[i + 1]
  <2> SUFFICES ASSUME NEW i \in 1 .. n - 1 PROVE u[i] = IF i < k THEN t[i] ELSE t[i + 1]
    OBVIOUS
  <2>1. u[i] = IF i <= h THEN a[i] ELSE b[i - h] BY <1>9, <1>10
  <2>2. CASE i < k
    <3>1. i <= h /\ i \in 1 .. h BY <2>2, <1>2, <1>3
    <3> QED BY <2>1, <2>2, <3>1, <1>5
  <2>3. CASE ~(i < k)
    <3>1. PICK q \in 1 .. r : q = i - h BY <2>3, <1>2, <1>3, <1>4
    <3>2. ~(i <= h) /\ k + q = i + 1 BY <2>3, <1>2, <1>3, <3>1
    <3> QED BY <2>1, <2>3, <3>1, <3>2, <1>6
  <2> QED BY <2>2, <2>3
<1>13. Removed(u, t, n, k) BY <1>12 DEF Removed
<1> QED BY <1>1, <1>7, <1>11, <1>13

\* The items of u are those of t, but for the one at place k.
Loses(u, t, n, k) ==
  /\ \A i \in 1 .. n - 1 : \E j \in 1 .. n : j # k /\ u[i] = t[j]
  /\ \A j \in 1 .. n : j # k => \E i \in 1 .. n - 1 : u[i] = t[j]

\* Nothing is twice in a sequence from which something was taken.
LEMMA RemoveOnce ==
  ASSUME NEW n \in Nat, NEW k \in Int, 1 <= k, k <= n, NEW t, NEW u, Once(t, n), Removed(u, t, n, k)
  PROVE  Once(u, n - 1) /\ Loses(u, t, n, k)
<1>1. \A i \in 1 .. n - 1 : \E j \in 1 .. n : j # k /\ u[i] = t[j] /\ j = IF i < k THEN i ELSE i + 1
  <2> SUFFICES ASSUME NEW i \in 1 .. n - 1
               PROVE  \E j \in 1 .. n : j # k /\ u[i] = t[j] /\ j = IF i < k THEN i ELSE i + 1
    OBVIOUS
  <2>1. PICK j \in 1 .. n : j = IF i < k THEN i ELSE i + 1
    <3>1. i \in 1 .. n /\ i + 1 \in 1 .. n OBVIOUS
    <3> QED BY <3>1
  <2>2. u[i] = t[j] BY <2>1 DEF Removed
  <2>3. j # k BY <2>1
  <2> QED BY <2>1, <2>2, <2>3
<1>2. \A j \in 1 .. n : j # k => \E i \in 1 .. n - 1 : u[i] = t[j]
  <2> SUFFICES ASSUME NEW j \in 1 .. n, j # k PROVE \E i \in 1 .. n - 1 : u[i] = t[j]
    OBVIOUS
  <2>1. CASE j < k
    <3>1. j \in 1 .. n - 1 BY <2>1
    <3> QED BY <2>1, <3>1 DEF Removed
  <2>2. CASE j > k
    <3>1. PICK i \in 1 .. n - 1 : i = j - 1 BY <2>2
    <3>2. ~(i < k) /\ i + 1 = j BY <2>2, <3>1
    <3> QED BY <3>2 DEF Removed
  <2> QED BY <2>1, <2>2
<1>3. \A i, j \in 1 .. n - 1 : u[i] = u[j] => i = j
  <2> SUFFICES ASSUME NEW i \in 1 .. n - 1, NEW j \in 1 .. n - 1, u[i] = u[j] PROVE i = j
    OBVIOUS
  <2>1. PICK g \in 1 .. n : u[i] = t[g] /\ g = IF i < k THEN i ELSE i + 1 BY <1>1
  <2>2. PICK f \in 1 .. n : u[j] = t[f] /\ f = IF j < k THEN j ELSE j + 1 BY <1>1
  <2>3. g = f BY <2>1, <2>2 DEF Once
  <2> QED BY <2>1, <2>2, <2>3
<1> QED BY <1>1, <1>2, <1>3 DEF Once, Loses

\* Nothing is twice in the chains s, which have the names C.
Distinct(s, C) ==
  \A c, d \in C : \A i \in 1 .. Len(s[c]), j \in 1 .. Len(s[d]) :
    s[c][i] = s[d][j] => c = d /\ i = j

\* Nothing is twice in the chains when two of them become one, and one of them takes it.
LEMMA JoinDistinct ==
  ASSUME NEW C, NEW S, NEW s \in [C -> Seq(S)], Distinct(s, C), NEW a \in C, NEW b \in C, a # b,
         NEW c, NEW o, (c = a /\ o = b) \/ (c = b /\ o = a)
  PROVE  /\ [s EXCEPT ![c] = s[a] \o s[b], ![o] = << >>] \in [C -> Seq(S)]
         /\ Distinct([s EXCEPT ![c] = s[a] \o s[b], ![o] = << >>], C)
         /\ \A y : InChain(s[a] \o s[b], y) <=> InChain(s[a], y) \/ InChain(s[b], y)
<1>1. PICK t \in Seq(S) : t = s[a] OBVIOUS
<1>2. PICK r \in Seq(S) : r = s[b] OBVIOUS
<1>3. PICK m \in Nat : m = Len(t) BY AnySeq
<1>4. PICK n \in Nat : n = Len(r) BY AnySeq
<1>5. PICK u : u = t \o r OBVIOUS
<1>6. /\ u \in Seq(S) /\ Len(u) = m + n
      /\ \A i \in 1 .. m + n : u[i] = IF i <= m THEN t[i] ELSE r[i - m]
  BY <1>3, <1>4, <1>5, JoinIs
<1>7. PICK s2 : s2 = [s EXCEPT ![c] = u, ![o] = << >>] OBVIOUS
<1>8. c \in C /\ o \in C /\ c # o /\ ((c = a /\ o = b) \/ (c = b /\ o = a)) OBVIOUS
<1>9. << >> \in Seq(S) /\ Len(<< >>) = 0 BY EmptySeq
<1>10. /\ s2 \in [C -> Seq(S)] /\ s2[c] = u /\ s2[o] = << >>
       /\ \A d \in C : d # a /\ d # b => s2[d] = s[d]
  BY <1>6, <1>7, <1>8, <1>9
<1>11. \A i \in 1 .. m + n : \/ i <= m /\ i \in 1 .. m /\ u[i] = t[i]
                             \/ i > m /\ i - m \in 1 .. n /\ u[i] = r[i - m]
  BY <1>6
<1>12. /\ \A i \in 1 .. m : i \in 1 .. m + n /\ u[i] = t[i]
       /\ \A i \in 1 .. n : i + m \in 1 .. m + n /\ u[i + m] = r[i]
  <2>1. \A i \in 1 .. m : i \in 1 .. m + n /\ u[i] = t[i] BY <1>6
  <2>2. \A i \in 1 .. n : i + m \in 1 .. m + n /\ u[i + m] = r[i]
    <3> SUFFICES ASSUME NEW i \in 1 .. n PROVE i + m \in 1 .. m + n /\ u[i + m] = r[i]
      OBVIOUS
    <3>1. PICK j \in 1 .. m + n : j = i + m OBVIOUS
    <3>2. ~(j <= m) /\ j - m = i BY <3>1
    <3> QED BY <3>1, <3>2, <1>6
  <2> QED BY <2>1, <2>2
<1>13. /\ \A i, j \in 1 .. m : t[i] = t[j] => i = j
       /\ \A i, j \in 1 .. n : r[i] = r[j] => i = j
       /\ \A i \in 1 .. m, j \in 1 .. n : t[i] # r[j]
  BY <1>1, <1>2, <1>3, <1>4 DEF Distinct
<1>14. \A i, j \in 1 .. m + n : u[i] = u[j] => i = j
  <2> SUFFICES ASSUME NEW i \in 1 .. m + n, NEW j \in 1 .. m + n, u[i] = u[j] PROVE i = j
    OBVIOUS
  <2>1. CASE i <= m BY <2>1, <1>11, <1>13
  <2>2. CASE i > m
    <3>1. i - m \in 1 .. n /\ u[i] = r[i - m] BY <2>2, <1>11
    <3>2. j - m \in 1 .. n /\ u[j] = r[j - m] BY <3>1, <1>11, <1>13
    <3>3. i - m = j - m BY <3>1, <3>2, <1>13
    <3> QED BY <3>3
  <2> QED BY <2>1, <2>2
<1>15. \A i \in 1 .. m + n : \E d \in {a, b} : \E j \in 1 .. Len(s[d]) : u[i] = s[d][j]
  BY <1>1, <1>2, <1>3, <1>4, <1>11
<1>16. Distinct(s2, C)
  <2> SUFFICES ASSUME NEW f \in C, NEW g \in C,
                      NEW i \in 1 .. Len(s2[f]), NEW j \in 1 .. Len(s2[g]), s2[f][i] = s2[g][j]
               PROVE  f = g /\ i = j
    BY DEF Distinct
  <2>1. f # o /\ g # o
    <3>1. Len(s2[o]) = 0 BY <1>9, <1>10
    <3> QED BY <3>1
  <2>2. CASE f = c /\ g = c BY <2>2, <1>6, <1>10, <1>14
  <2>3. CASE f # c /\ g # c
    <3>1. s2[f] = s[f] /\ s2[g] = s[g] BY <2>1, <2>3, <1>8, <1>10
    <3> QED BY <3>1 DEF Distinct
  <2>4. CASE f = c /\ g # c
    <3>1. s2[g] = s[g] /\ s2[f] = u BY <2>1, <2>4, <1>8, <1>10
    <3>2. i \in 1 .. m + n /\ j \in 1 .. Len(s[g]) /\ u[i] = s[g][j] BY <3>1, <1>6
    <3>3. PICK d \in {a, b} : \E q \in 1 .. Len(s[d]) : s[g][j] = s[d][q] BY <3>2, <1>15
    <3>4. g = d BY <3>2, <3>3 DEF Distinct
    <3> QED BY <3>4, <2>1, <2>4, <1>8
  <2>5. CASE f # c /\ g = c
    <3>1. s2[f] = s[f] /\ s2[g] = u BY <2>1, <2>5, <1>8, <1>10
    <3>2. j \in 1 .. m + n /\ i \in 1 .. Len(s[f]) /\ u[j] = s[f][i] BY <3>1, <1>6
    <3>3. PICK d \in {a, b} : \E q \in 1 .. Len(s[d]) : s[f][i] = s[d][q] BY <3>2, <1>15
    <3>4. f = d BY <3>2, <3>3 DEF Distinct
    <3> QED BY <3>4, <2>1, <2>5, <1>8
  <2> QED BY <2>2, <2>3, <2>4, <2>5
<1>17. \A y : InChain(u, y) <=> InChain(t, y) \/ InChain(r, y)
  <2>1. \A y : InChain(t, y) <=> \E i \in 1 .. m : t[i] = y BY <1>3, AnySeq
  <2>2. \A y : InChain(r, y) <=> \E i \in 1 .. n : r[i] = y BY <1>4, AnySeq
  <2>3. \A y : InChain(u, y) <=> \E i \in 1 .. m + n : u[i] = y
    <3>1. \A y : InChain(u, y) <=> \E i \in 1 .. Len(u) : u[i] = y BY <1>6, AnySeq
    <3> QED BY <3>1, <1>6
  <2> SUFFICES ASSUME NEW y PROVE InChain(u, y) <=> InChain(t, y) \/ InChain(r, y)
    OBVIOUS
  <2>4. InChain(u, y) => InChain(t, y) \/ InChain(r, y) BY <2>1, <2>2, <2>3, <1>11
  <2>5. InChain(t, y) \/ InChain(r, y) => InChain(u, y) BY <2>1, <2>2, <2>3, <1>12
  <2> QED BY <2>4, <2>5
<1> QED BY <1>1, <1>2, <1>5, <1>7, <1>10, <1>16, <1>17

\* A step of ChainPair, from the chains s to the chains s2; their names are C, their items S.
Changes(s, s2, C, S) ==
  \E c \in C :
    \/ \E item \in S : /\ \A d \in C : ~InChain(s[d], item)
                       /\ \E k \in 1 .. Len(s[c]) + 1 : s2 = [s EXCEPT ![c] = InsertAt(s[c], k, item)]
    \/ \E k \in 1 .. Len(s[c]) : s2 = [s EXCEPT ![c] = RemoveAt(s[c], k)]
    \/ \E d \in C :
         /\ c # d
         /\ \/ s2 = [s EXCEPT ![c] = s[c] \o s[d], ![d] = << >>]
            \/ s2 = [s EXCEPT ![c] = s[d] \o s[c], ![d] = << >>]
            \/ s2 = [s EXCEPT ![c] = s[d], ![d] = s[c]]

-----------------------------------------------------------------------------
(* DoubleChain: each link leads to the neighbour on its side.              *)

\* Item i of a sequence; Null before the first and behind the last
At(t, i) == IF i \in 1 .. Len(t) THEN t[i] ELSE Null

\* What the links of the items of t are, and the ends of a chain of them
Chained(t, l) ==
  \A i \in 1 .. Len(t) : l[t[i]].previous = At(t, i - 1) /\ l[t[i]].next = At(t, i + 1)
EndsOf(t) == [head |-> At(t, 1), tail |-> At(t, Len(t))]

\* What a link and an end can hold, and what the links are
Pointer == Members \cup {Null}
Wiring  == [Members -> [previous : Pointer, next : Pointer]]

\* l and e are the links and ends of the chains s.
Holds(s, l, e) ==
  /\ s \in [Chains -> Seq(Members)]
  /\ l \in Wiring
  /\ Distinct(s, Chains)
  /\ \A c \in Chains : Chained(s[c], l)
  /\ e = [c \in Chains |-> EndsOf(s[c])]
  /\ \A m \in Members : (\A c \in Chains : ~InChain(s[c], m)) => l[m] = Self(m)

\* Some chains are what the links hold.
DoubleInv == \E s : Holds(s, links, ends)

\* The same for members, none of which is Null
LEMMA SeqFacts ==
  ASSUME NEW t \in Seq(Members)
  PROVE  /\ Len(t) \in Nat /\ DOMAIN t = 1 .. Len(t)
         /\ \A i \in 1 .. Len(t) : t[i] \in Members /\ t[i] # Null
         /\ \A i \in Int : At(t, i) \in Pointer /\ (At(t, i) = Null <=> i \notin 1 .. Len(t))
         /\ \A m : InChain(t, m) <=> \E i \in 1 .. Len(t) : t[i] = m
<1>1. Len(t) \in Nat /\ DOMAIN t = 1 .. Len(t) BY LenProperties
<1>2. \A i \in 1 .. Len(t) : t[i] \in Members /\ t[i] # Null
  BY <1>1, ElementOfSeq, DoubleAssumption
<1>3. \A i \in Int : At(t, i) \in Pointer /\ (At(t, i) = Null <=> i \notin 1 .. Len(t))
  BY <1>1, <1>2 DEF At, Pointer
<1> QED BY <1>1, <1>2, <1>3 DEF InChain

\* A walk along the links of a sequence without doubles goes through that sequence.
LEMMA WalkIs ==
  ASSUME NEW t \in Seq(Members), IsInjective(t), NEW from, from = At(t, 1),
         NEW side, \A i \in 1 .. Len(t) : side[t[i]] = At(t, i + 1)
  PROVE  Walk(from, side) = t
<1> DEFINE N == Cardinality(Members)
           Path(f) == [k \in 1 .. N |-> IF k = 1 THEN from ELSE IF f[k - 1] = Null THEN Null ELSE side[f[k - 1]]]
           way  == [k \in 1 .. N |-> At(t, k)]
           path == CHOOSE f : f = Path(f)
<1>1. Len(t) \in Nat /\ DOMAIN t = 1 .. Len(t)
  BY SeqFacts
<1>2. \A i \in 1 .. Len(t) : t[i] \in Members /\ t[i] # Null
  BY SeqFacts
<1>3. N \in Nat /\ Len(t) <= N
  <2>1. Once(t, Len(t)) BY <1>1 DEF IsInjective, Once
  <2> QED BY <2>1, NoLonger, DoubleAssumption
<1>4. way = Path(way)
  <2>1. \A k \in 1 .. N : way[k] = Path(way)[k]
    <3> SUFFICES ASSUME NEW k \in 1 .. N PROVE way[k] = Path(way)[k]
      OBVIOUS
    <3>1. CASE k = 1 BY <3>1
    <3>2. CASE k # 1
      <4>1. k - 1 \in 1 .. N /\ k - 1 \in Int BY <3>2, <1>3
      <4>2. way[k - 1] = At(t, k - 1) BY <4>1
      <4>3. At(t, k - 1) = Null <=> k - 1 \notin 1 .. Len(t) BY <4>1, SeqFacts
      <4>4. CASE k - 1 \in 1 .. Len(t)
        <5>1. At(t, k - 1) = t[k - 1] BY <4>4 DEF At
        <5>2. side[t[k - 1]] = At(t, k)
          <6>1. side[t[k - 1]] = At(t, (k - 1) + 1) BY <4>4
          <6>2. (k - 1) + 1 = k BY <4>1
          <6> QED BY <6>1, <6>2
        <5> QED BY <4>2, <4>3, <4>4, <5>1, <5>2, <3>2
      <4>5. CASE k - 1 \notin 1 .. Len(t)
        <5>1. k \notin 1 .. Len(t) BY <4>5, <1>1, <3>2, <4>1
        <5>2. At(t, k) = Null BY <5>1 DEF At
        <5> QED BY <4>2, <4>3, <4>5, <5>2, <3>2
      <4> QED BY <4>4, <4>5
    <3> QED BY <3>1, <3>2
  <2> QED BY <2>1
<1>5. path = Path(path)
  <2> HIDE DEF Path
  <2> QED BY <1>4
<1>6. \A k \in 1 .. N : path[k] = Path(path)[k]
  <2> HIDE DEF path, Path
  <2> QED BY <1>5
<1>7. DOMAIN path = 1 .. N
  <2>1. DOMAIN Path(path) = 1 .. N OBVIOUS
  <2> HIDE DEF path, Path
  <2> QED BY <1>5, <2>1
<1>8. Walk(from, side) = SubSeq(path, 1, Cardinality({k \in DOMAIN path : path[k] # Null}))
  BY DEF Walk
<1>9. \A k \in 1 .. N : path[k] = way[k]
  <2> DEFINE T == {k \in Nat : k + 1 \in 1 .. N => path[k + 1] = way[k + 1]}
  <2> HIDE DEF path, way
  <2>1. 0 \in T
    <3>1. 1 \in 1 .. N => path[1] = from BY <1>6
    <3>2. 1 \in 1 .. N => way[1] = from BY DEF way
    <3> QED BY <3>1, <3>2
  <2>2. \A k \in Nat : k \in T => k + 1 \in T
    <3> SUFFICES ASSUME NEW k \in Nat, k \in T, k + 2 \in 1 .. N PROVE path[k + 2] = way[k + 2]
      OBVIOUS
    <3>1. k + 1 \in 1 .. N BY <1>3
    <3>2. path[k + 1] = way[k + 1] BY <3>1
    <3>3. path[k + 2] = IF path[k + 1] = Null THEN Null ELSE side[path[k + 1]]
      <4>1. path[k + 2] = Path(path)[k + 2] BY <1>6
      <4>2. Path(path)[k + 2] = IF path[(k + 2) - 1] = Null THEN Null ELSE side[path[(k + 2) - 1]]
        OBVIOUS
      <4>3. (k + 2) - 1 = k + 1 OBVIOUS
      <4> HIDE DEF Path
      <4> QED BY <4>1, <4>2, <4>3
    <3>4. way[k + 2] = IF way[k + 1] = Null THEN Null ELSE side[way[k + 1]]
      <4>1. way[k + 2] = Path(way)[k + 2]
        <5> HIDE DEF Path
        <5> QED BY <1>4
      <4>2. Path(way)[k + 2] = IF way[(k + 2) - 1] = Null THEN Null ELSE side[way[(k + 2) - 1]]
        OBVIOUS
      <4>3. (k + 2) - 1 = k + 1 OBVIOUS
      <4> HIDE DEF Path
      <4> QED BY <4>1, <4>2, <4>3
    <3> QED BY <3>2, <3>3, <3>4
  <2>3. \A k \in Nat : k \in T
    <3> HIDE DEF T
    <3> QED BY <2>1, <2>2, SetInduction
  <2> SUFFICES ASSUME NEW k \in 1 .. N PROVE path[k] = way[k]
    OBVIOUS
  <2>4. k - 1 \in Nat /\ (k - 1) + 1 = k BY <1>3
  <2>5. k - 1 \in T BY <2>3, <2>4
  <2> QED BY <2>4, <2>5
<1>10. {k \in DOMAIN path : path[k] # Null} = 1 .. Len(t)
  <2> HIDE DEF path
  <2>1. \A k \in 1 .. N : path[k] # Null <=> k \in 1 .. Len(t)
    <3> SUFFICES ASSUME NEW k \in 1 .. N PROVE path[k] # Null <=> k \in 1 .. Len(t)
      OBVIOUS
    <3>1. path[k] = At(t, k) BY <1>9
    <3>2. k \in Int BY <1>3
    <3>3. At(t, k) = Null <=> k \notin 1 .. Len(t) BY <3>2, SeqFacts
    <3> QED BY <3>1, <3>3
  <2>2. \A k \in 1 .. Len(t) : k \in 1 .. N BY <1>1, <1>3
  <2> QED BY <1>7, <2>1, <2>2
<1>11. Cardinality(1 .. Len(t)) = Len(t)
  BY <1>1, FS_Interval
<1>12. Walk(from, side) = SubSeq(path, 1, Len(t))
  BY <1>8, <1>10, <1>11
<1>13. \A k \in 1 .. Len(t) : path[k] = t[k]
  <2> HIDE DEF path
  <2> SUFFICES ASSUME NEW k \in 1 .. Len(t) PROVE path[k] = t[k]
    OBVIOUS
  <2>1. k \in 1 .. N BY <1>1, <1>3
  <2>2. path[k] = At(t, k) BY <1>9, <2>1
  <2> QED BY <2>2 DEF At
<1>14. SubSeq(path, 1, Len(t)) = t
  <2> HIDE DEF path
  <2>1. \A k \in 1 .. Len(t) : path[k] \in Members BY <1>2, <1>13
  <2> DEFINE u == SubSeq(path, 1, Len(t))
  <2>2. PICK n \in Nat : n = Len(t) BY <1>1
  <2>3. /\ SubSeq(path, 1, n) \in Seq(Members)
        /\ Len(SubSeq(path, 1, n)) = IF 1 <= n THEN n - 1 + 1 ELSE 0
        /\ \A k \in 1 .. n - 1 + 1 : SubSeq(path, 1, n)[k] = path[1 + k - 1]
    BY <2>1, <2>2, SubSeqProperties
  <2>4. Len(u) = Len(t) BY <2>2, <2>3
  <2>5. \A k \in 1 .. Len(t) : u[k] = t[k]
    <3> SUFFICES ASSUME NEW k \in 1 .. Len(t) PROVE u[k] = t[k]
      OBVIOUS
    <3>1. k \in 1 .. n - 1 + 1 /\ 1 + k - 1 = k BY <2>2
    <3>2. u[k] = path[k] BY <2>2, <2>3, <3>1
    <3> QED BY <3>2, <1>13
  <2>6. u \in Seq(Members) BY <2>2, <2>3
  <2> HIDE DEF u
  <2> QED BY <2>4, <2>5, <2>6, SeqEqual DEF u
<1> QED BY <1>12, <1>14

\* A sequence read backwards
LEMMA ReverseIs ==
  ASSUME NEW t \in Seq(Members)
  PROVE  /\ Reverse(t) \in Seq(Members) /\ Len(Reverse(t)) = Len(t)
         /\ \A i \in 1 .. Len(t) : Reverse(t)[i] = t[Len(t) - i + 1]
         /\ \A i \in Int : At(Reverse(t), i) = At(t, Len(t) - i + 1)
<1>1. PICK n \in Nat : n = Len(t) BY SeqFacts
<1>2. \A i \in 1 .. n : t[i] \in Members BY <1>1, SeqFacts
<1>3. Reverse(t) = [i \in 1 .. n |-> t[(n - i) + 1]] BY <1>1 DEF Reverse
<1>4. \A i \in 1 .. n : (n - i) + 1 \in 1 .. n OBVIOUS
<1>5. Reverse(t) \in [1 .. n -> Members] BY <1>2, <1>3, <1>4
<1>6. Reverse(t) \in Seq(Members) BY <1>5, SeqDef
<1>7. Len(Reverse(t)) = n BY <1>5, <1>6
<1>8. \A i \in 1 .. n : Reverse(t)[i] = t[n - i + 1] BY <1>3
<1>9. \A i \in Int : At(Reverse(t), i) = At(t, n - i + 1)
  BY <1>1, <1>7, <1>8 DEF At
<1> QED BY <1>1, <1>6, <1>7, <1>8, <1>9

\* A chain of Holds alone
LEMMA OneChain ==
  ASSUME NEW s, NEW l, NEW e, Holds(s, l, e), NEW c \in Chains
  PROVE  s[c] \in Seq(Members) /\ IsInjective(s[c]) /\ Chained(s[c], l) /\ e[c] = EndsOf(s[c])
<1>1. s[c] \in Seq(Members) BY DEF Holds
<1>2. DOMAIN s[c] = 1 .. Len(s[c]) BY <1>1, SeqFacts
<1>3. IsInjective(s[c]) BY <1>2 DEF Holds, Distinct, IsInjective
<1> QED BY <1>1, <1>3 DEF Holds

\* What an iterator meets is the chain, from either end.
LEMMA Reads ==
  ASSUME NEW s, NEW l, NEW e, Holds(s, l, e), NEW c \in Chains
  PROVE  /\ Walk(e[c].head, [i \in Members |-> l[i].next]) = s[c]
         /\ Walk(e[c].tail, [i \in Members |-> l[i].previous]) = Reverse(s[c])
<1>1. PICK t \in Seq(Members) : t = s[c] BY OneChain
<1>2. IsInjective(t) /\ Chained(t, l) /\ e[c] = EndsOf(t)
  BY <1>1, OneChain
<1>3. Len(t) \in Nat /\ DOMAIN t = 1 .. Len(t) /\ \A i \in 1 .. Len(t) : t[i] \in Members
  BY SeqFacts
<1>4. Walk(e[c].head, [i \in Members |-> l[i].next]) = t
  <2> DEFINE side == [i \in Members |-> l[i].next]
             from == e[c].head
  <2>1. from = At(t, 1) BY <1>2 DEF EndsOf
  <2>2. \A i \in 1 .. Len(t) : side[t[i]] = At(t, i + 1)
    BY <1>2, <1>3 DEF Chained
  <2>3. Walk(from, side) = t
    <3> HIDE DEF side, from
    <3> QED BY <1>2, <2>1, <2>2, WalkIs
  <2> QED BY <2>3
<1>5. Walk(e[c].tail, [i \in Members |-> l[i].previous]) = Reverse(t)
  <2> DEFINE side == [i \in Members |-> l[i].previous]
             from == e[c].tail
  <2>1. PICK r \in Seq(Members) : r = Reverse(t) BY ReverseIs
  <2>2. /\ Len(r) = Len(t)
        /\ \A i \in 1 .. Len(t) : r[i] = t[Len(t) - i + 1]
        /\ \A i \in Int : At(r, i) = At(t, Len(t) - i + 1)
    BY <2>1, ReverseIs
  <2>3. from = At(r, 1)
    <3>1. At(r, 1) = At(t, Len(t) - 1 + 1) BY <2>2
    <3>2. Len(t) - 1 + 1 = Len(t) BY <1>3
    <3> QED BY <1>2, <3>1, <3>2 DEF EndsOf
  <2>4. \A i \in 1 .. Len(r) : side[r[i]] = At(r, i + 1)
    <3> SUFFICES ASSUME NEW i \in 1 .. Len(r) PROVE side[r[i]] = At(r, i + 1)
      OBVIOUS
    <3>1. PICK k \in 1 .. Len(t) : k = Len(t) - i + 1 BY <1>3, <2>2
    <3>2. r[i] = t[k] BY <2>2, <3>1
    <3>3. side[t[k]] = At(t, k - 1) BY <1>2, <1>3 DEF Chained
    <3>4. At(r, i + 1) = At(t, Len(t) - (i + 1) + 1) BY <2>2, <1>3
    <3>5. Len(t) - (i + 1) + 1 = k - 1 BY <1>3, <2>2, <3>1
    <3> HIDE DEF side
    <3> QED BY <3>2, <3>3, <3>4, <3>5
  <2>5. IsInjective(r)
    <3>1. DOMAIN r = 1 .. Len(t) BY <2>2, SeqFacts
    <3> SUFFICES ASSUME NEW a \in 1 .. Len(t), NEW b \in 1 .. Len(t), r[a] = r[b] PROVE a = b
      BY <3>1 DEF IsInjective
    <3>2. Len(t) - a + 1 \in 1 .. Len(t) /\ Len(t) - b + 1 \in 1 .. Len(t) BY <1>3
    <3>3. Len(t) - a + 1 = Len(t) - b + 1 BY <1>2, <1>3, <2>2, <3>2 DEF IsInjective
    <3> QED BY <1>3, <3>3
  <2>6. Walk(from, side) = r
    <3> HIDE DEF side, from
    <3> QED BY <2>3, <2>4, <2>5, WalkIs
  <2> QED BY <2>1, <2>6
<1> QED BY <1>1, <1>4, <1>5

\* A member that is in no chain is one that links to itself.
LEMMA OutsideIs ==
  ASSUME NEW s, NEW l, NEW e, Holds(s, l, e), NEW m \in Members
  PROVE  l[m] = Self(m) <=> \A c \in Chains : ~InChain(s[c], m)
<1> SUFFICES ASSUME NEW c \in Chains, InChain(s[c], m) PROVE l[m] # Self(m)
  BY DEF Holds
<1>1. PICK t \in Seq(Members) : t = s[c] BY OneChain
<1>2. IsInjective(t) /\ Chained(t, l) BY <1>1, OneChain
<1>3. /\ Len(t) \in Nat /\ DOMAIN t = 1 .. Len(t)
      /\ \A i \in 1 .. Len(t) : t[i] \in Members /\ t[i] # Null
  BY SeqFacts
<1>4. PICK i \in 1 .. Len(t) : t[i] = m BY <1>1, <1>3 DEF InChain
<1>5. l[m].next = At(t, i + 1) BY <1>2, <1>4 DEF Chained
<1>6. At(t, i + 1) # m
  BY <1>2, <1>3, <1>4 DEF At, IsInjective
<1> QED BY <1>5, <1>6 DEF Self

\* What stands where in a sequence into which something was put
LEMMA InsertPlaces ==
  ASSUME NEW t \in Seq(Members), NEW x \in Members, NEW k \in 1 .. Len(t) + 1
  PROVE  \A i \in Int : At(InsertAt(t, k, x), i) = IF i < k THEN At(t, i) ELSE IF i = k THEN x ELSE At(t, i - 1)
<1>1. PICK n \in Nat : n = Len(t) BY AnySeq
<1>2. PICK u : u = InsertAt(t, k, x) OBVIOUS
<1>3. Len(u) = n + 1 BY <1>1, <1>2, InsertIs
<1>4. Inserted(u, t, Len(t), k, x) BY <1>2, InsertIs
<1>5. \A i \in 1 .. n + 1 : u[i] = IF i < k THEN t[i] ELSE IF i = k THEN x ELSE t[i - 1]
  BY <1>1, <1>4 DEF Inserted
<1>6. \A i \in Int : At(u, i) = IF i < k THEN At(t, i) ELSE IF i = k THEN x ELSE At(t, i - 1)
  BY <1>1, <1>3, <1>5 DEF At
<1> QED BY <1>2, <1>6

\* What stands where in a sequence from which something was taken
LEMMA RemovePlaces ==
  ASSUME NEW t \in Seq(Members), NEW k \in 1 .. Len(t)
  PROVE  \A i \in Int : At(RemoveAt(t, k), i) = IF i < k THEN At(t, i) ELSE At(t, i + 1)
<1>1. PICK n \in Nat : n = Len(t) BY AnySeq
<1>2. k \in Int /\ 1 <= k /\ k <= n BY <1>1
<1>3. PICK u : u = RemoveAt(t, k) OBVIOUS
<1>4. Len(u) = n - 1 BY <1>1, <1>3, RemoveIs
<1>5. \A i \in 1 .. n - 1 : u[i] = IF i < k THEN t[i] ELSE t[i + 1]
  <2>1. Removed(u, t, Len(t), k) BY <1>3, RemoveIs
  <2> QED BY <2>1, <1>1 DEF Removed
<1>6. \A i \in Int : At(u, i) = IF i < k THEN At(t, i) ELSE At(t, i + 1)
  <2> SUFFICES ASSUME NEW i \in Int PROVE At(u, i) = IF i < k THEN At(t, i) ELSE At(t, i + 1)
    OBVIOUS
  <2>1. At(u, i) = IF i \in 1 .. n - 1 THEN u[i] ELSE Null BY <1>4 DEF At
  <2>2. At(t, i) = IF i \in 1 .. n THEN t[i] ELSE Null BY <1>1 DEF At
  <2>3. At(t, i + 1) = IF i + 1 \in 1 .. n THEN t[i + 1] ELSE Null BY <1>1 DEF At
  <2>4. CASE i \in 1 .. n - 1
    <3>1. u[i] = IF i < k THEN t[i] ELSE t[i + 1] BY <2>4, <1>5
    <3>2. i \in 1 .. n /\ i + 1 \in 1 .. n BY <2>4, <1>2
    <3> QED BY <2>1, <2>2, <2>3, <2>4, <3>1, <3>2
  <2>5. CASE i \notin 1 .. n - 1
    <3>1. i < k => i \notin 1 .. n BY <2>5, <1>2
    <3>2. ~(i < k) => i + 1 \notin 1 .. n BY <2>5, <1>2
    <3> QED BY <2>1, <2>2, <2>3, <2>5, <3>1, <3>2
  <2> QED BY <2>4, <2>5
<1> QED BY <1>3, <1>6

\* What stands where in two sequences one after the other
LEMMA JoinAt ==
  ASSUME NEW a \in Seq(Members), NEW b \in Seq(Members)
  PROVE  \A i \in Int : At(a \o b, i) = IF i <= Len(a) THEN At(a, i) ELSE At(b, i - Len(a))
<1>1. PICK m \in Nat : m = Len(a) BY SeqFacts
<1>2. PICK n \in Nat : n = Len(b) BY SeqFacts
<1>3. PICK u : u = a \o b OBVIOUS
<1>4. Len(u) = m + n /\ \A i \in 1 .. m + n : u[i] = IF i <= m THEN a[i] ELSE b[i - m]
  BY <1>1, <1>2, <1>3, JoinIs
<1>5. \A i \in Int : At(u, i) = IF i <= m THEN At(a, i) ELSE At(b, i - m)
  BY <1>1, <1>2, <1>4 DEF At
<1> QED BY <1>1, <1>3, <1>5

\* The links of a member are two pointers.
LEMMA WiresOf ==
  ASSUME NEW f \in Wiring, NEW m \in Members
  PROVE  f[m].previous \in Pointer /\ f[m].next \in Pointer /\ f[m] = [previous |-> f[m].previous, next |-> f[m].next]
BY DEF Wiring

\* f is l but for the two links between a and b.
Wired(f, l, a, b) ==
  /\ f \in Wiring
  /\ \A m \in Members : /\ f[m].previous = IF m = b THEN a ELSE l[m].previous
                        /\ f[m].next = IF m = a THEN b ELSE l[m].next

\* Joining two neighbours changes the two links between them.
LEMMA JoinedIs ==
  ASSUME NEW l \in Wiring, NEW a \in Pointer, NEW b \in Pointer
  PROVE  Wired(Joined(l, a, b), l, a, b)
BY DEF Joined, Wiring, Wired

\* An item between two neighbours changes its own links and theirs.
LEMMA BetweenIs ==
  ASSUME NEW l \in Wiring, NEW a \in Pointer, NEW x \in Members, NEW b \in Pointer
  PROVE  /\ Between(l, a, x, b) \in Wiring
         /\ \A m \in Members :
              /\ Between(l, a, x, b)[m].previous = IF m = b THEN x ELSE IF m = x THEN a ELSE l[m].previous
              /\ Between(l, a, x, b)[m].next = IF m = x THEN b ELSE IF m = a THEN x ELSE l[m].next
<1>1. x \in Pointer BY DEF Pointer
<1>2. PICK h : h = Joined(l, a, x) OBVIOUS
<1>3. Wired(h, l, a, x) BY <1>1, <1>2, JoinedIs
<1>4. h \in Wiring BY <1>3 DEF Wired
<1>5. Wired(Joined(h, x, b), h, x, b) BY <1>1, <1>4, JoinedIs
<1>6. Between(l, a, x, b) = Joined(h, x, b) BY <1>2 DEF Between
<1> QED BY <1>3, <1>5, <1>6 DEF Wired

\* An item put between two neighbours, by a push or by an insert
LEMMA InsertHolds ==
  ASSUME NEW s, NEW l, NEW e, Holds(s, l, e), NEW c \in Chains, NEW x \in Members, l[x] = Self(x),
         NEW k \in 1 .. Len(s[c]) + 1
  PROVE  Holds([s EXCEPT ![c] = InsertAt(s[c], k, x)],
               Between(l, At(s[c], k - 1), x, At(s[c], k)),
               [e EXCEPT ![c] = EndsOf(InsertAt(s[c], k, x))])
<1>1. PICK t \in Seq(Members) : t = s[c] BY OneChain
<1>2. PICK n \in Nat : n = Len(t) BY SeqFacts
<1>3. k \in Int /\ 1 <= k /\ k <= n + 1 BY <1>1, <1>2
<1>4. PICK u \in Seq(Members) : u = InsertAt(t, k, x) BY <1>1, InsertIs
<1>5. /\ Len(u) = n + 1
      /\ Inserted(u, t, n, k, x)
      /\ \A i \in 1 .. n + 1 : u[i] = IF i < k THEN t[i] ELSE IF i = k THEN x ELSE t[i - 1]
      /\ \A i \in Int : At(u, i) = IF i < k THEN At(t, i) ELSE IF i = k THEN x ELSE At(t, i - 1)
  <2>1. k \in 1 .. Len(t) + 1 BY <1>1
  <2>2. Len(InsertAt(t, k, x)) = Len(t) + 1 BY <2>1, InsertIs
  <2>3. Inserted(InsertAt(t, k, x), t, Len(t), k, x)
    BY <2>1, InsertIs
  <2>4. \A i \in Int : At(InsertAt(t, k, x), i) = IF i < k THEN At(t, i) ELSE IF i = k THEN x ELSE At(t, i - 1)
    BY <2>1, InsertPlaces
  <2> QED BY <2>2, <2>3, <2>4, <1>2, <1>4 DEF Inserted
<1>6. PICK left \in Pointer : left = At(t, k - 1)
  <2>1. k - 1 \in Int BY <1>3
  <2> QED BY <2>1, SeqFacts
<1>7. PICK right \in Pointer : right = At(t, k) BY <1>3, SeqFacts
<1>8. PICK s2 : s2 = [s EXCEPT ![c] = u] OBVIOUS
<1>9. PICK l2 : l2 = Between(l, left, x, right) OBVIOUS
<1>10. PICK e2 : e2 = [e EXCEPT ![c] = EndsOf(u)] OBVIOUS
<1>11. /\ s \in [Chains -> Seq(Members)] /\ l \in Wiring
       /\ Distinct(s, Chains) /\ (\A d \in Chains : Chained(s[d], l))
       /\ e = [d \in Chains |-> EndsOf(s[d])]
       /\ \A m \in Members : (\A d \in Chains : ~InChain(s[d], m)) => l[m] = Self(m)
  BY DEF Holds
<1>12. s2 \in [Chains -> Seq(Members)] /\ s2[c] = u /\ \A d \in Chains : d # c => s2[d] = s[d]
  BY <1>8, <1>11
<1>13. /\ l2 \in Wiring
       /\ \A m \in Members :
            /\ l2[m].previous = IF m = right THEN x ELSE IF m = x THEN left ELSE l[m].previous
            /\ l2[m].next = IF m = x THEN right ELSE IF m = left THEN x ELSE l[m].next
  BY <1>9, <1>11, BetweenIs
<1>14. \A d \in Chains : \A i \in 1 .. Len(s[d]) : s[d][i] # x /\ s[d][i] \in Members /\ s[d][i] # Null
  <2> SUFFICES ASSUME NEW d \in Chains PROVE \A i \in 1 .. Len(s[d]) : s[d][i] # x /\ s[d][i] \in Members /\ s[d][i] # Null
    OBVIOUS
  <2>1. ~InChain(s[d], x) BY OutsideIs
  <2>2. s[d] \in Seq(Members) BY <1>11
  <2> QED BY <2>1, <2>2, SeqFacts
<1>15. \A i \in 1 .. n : t[i] # x /\ t[i] \in Members /\ t[i] # Null
  BY <1>1, <1>2, <1>14
<1>16. \A i, j \in 1 .. n : t[i] = t[j] => i = j
  BY <1>1, <1>2, <1>11 DEF Distinct
<1>17. /\ \A i \in 1 .. n : t[i] = left => i = k - 1
       /\ \A i \in 1 .. n : t[i] = right => i = k
       /\ left # x /\ right # x
       /\ left # Null => k - 1 \in 1 .. n /\ left = t[k - 1]
       /\ right # Null => k \in 1 .. n /\ right = t[k]
  <2>1. left = IF k - 1 \in 1 .. n THEN t[k - 1] ELSE Null BY <1>2, <1>6 DEF At
  <2>2. right = IF k \in 1 .. n THEN t[k] ELSE Null BY <1>2, <1>7 DEF At
  <2>3. Null # x BY DoubleAssumption
  <2> QED BY <2>1, <2>2, <2>3, <1>15, <1>16
<1>18. \A d \in Chains : d # c => \A i \in 1 .. Len(s[d]) : s[d][i] # left /\ s[d][i] # right
  <2> SUFFICES ASSUME NEW d \in Chains, d # c, NEW i \in 1 .. Len(s[d]) PROVE s[d][i] # left /\ s[d][i] # right
    OBVIOUS
  <2>1. \A j \in 1 .. n : s[d][i] # t[j] BY <1>1, <1>2, <1>11 DEF Distinct
  <2>2. s[d][i] # Null BY <1>14
  <2> QED BY <1>17, <2>1, <2>2
<1>25. /\ \A i, j \in 1 .. n + 1 : u[i] = u[j] => i = j
       /\ \A i \in 1 .. n + 1 : u[i] = x \/ \E j \in 1 .. n : u[i] = t[j]
       /\ \A j \in 1 .. n : \E i \in 1 .. n + 1 : u[i] = t[j]
  <2>1. Missing(t, n, x) /\ Once(t, n) BY <1>15, <1>16 DEF Missing, Once
  <2>2. Inserted(u, t, n, k, x) BY <1>5
  <2>3. Once(u, n + 1) /\ Gains(u, t, n, x) BY <2>1, <2>2, <1>3, InsertOnce
  <2> QED BY <2>3 DEF Once, Gains
<1>19. Distinct(s2, Chains)
  <2> SUFFICES ASSUME NEW a \in Chains, NEW b \in Chains,
                      NEW i \in 1 .. Len(s2[a]), NEW j \in 1 .. Len(s2[b]), s2[a][i] = s2[b][j]
               PROVE  a = b /\ i = j
    BY DEF Distinct
  <2>1. CASE a = c /\ b = c
    <3>1. i \in 1 .. n + 1 /\ j \in 1 .. n + 1 /\ u[i] = u[j] BY <2>1, <1>5, <1>12
    <3> QED BY <3>1, <1>25, <2>1
  <2>2. CASE a # c /\ b # c
    <3>1. s2[a] = s[a] /\ s2[b] = s[b] BY <2>2, <1>12
    <3> QED BY <3>1, <1>11 DEF Distinct
  <2>3. CASE a = c /\ b # c
    <3>1. s2[b] = s[b] /\ s2[a] = u BY <2>3, <1>12
    <3>2. i \in 1 .. n + 1 BY <3>1, <1>5
    <3>3. u[i] = x \/ \E h \in 1 .. n : u[i] = t[h]
      BY <1>25, <3>2
    <3>4. j \in 1 .. Len(s[b]) /\ u[i] = s[b][j] BY <3>1
    <3>5. u[i] # x BY <3>4, <1>14
    <3> QED BY <3>3, <3>4, <3>5, <2>3, <1>1, <1>2, <1>11 DEF Distinct
  <2>4. CASE a # c /\ b = c
    <3>1. s2[a] = s[a] /\ s2[b] = u BY <2>4, <1>12
    <3>2. j \in 1 .. n + 1 BY <3>1, <1>5
    <3>3. u[j] = x \/ \E h \in 1 .. n : u[j] = t[h]
      BY <1>25, <3>2
    <3>4. i \in 1 .. Len(s[a]) /\ u[j] = s[a][i] BY <3>1
    <3>5. u[j] # x BY <3>4, <1>14
    <3>6. PICK h \in 1 .. Len(s[c]) : s[a][i] = s[c][h] BY <3>3, <3>4, <3>5, <1>1, <1>2
    <3>7. a = c BY <3>4, <3>6, <1>11 DEF Distinct
    <3> QED BY <3>7, <2>4
  <2> QED BY <2>1, <2>2, <2>3, <2>4
<1>20. Chained(u, l2)
  <2> SUFFICES ASSUME NEW i \in 1 .. n + 1 PROVE l2[u[i]].previous = At(u, i - 1) /\ l2[u[i]].next = At(u, i + 1)
    BY <1>5 DEF Chained
  <2>1. i \in Int /\ i - 1 \in Int /\ i + 1 \in Int OBVIOUS
  <2>2. At(u, i - 1) = IF i - 1 < k THEN At(t, i - 1) ELSE IF i - 1 = k THEN x ELSE At(t, i - 1 - 1)
    BY <2>1, <1>5
  <2>3. At(u, i + 1) = IF i + 1 < k THEN At(t, i + 1) ELSE IF i + 1 = k THEN x ELSE At(t, i + 1 - 1)
    BY <2>1, <1>5
  <2>4. \A j \in 1 .. n : l[t[j]].previous = At(t, j - 1) /\ l[t[j]].next = At(t, j + 1)
    BY <1>1, <1>2, <1>11 DEF Chained
  <2>5. u[i] = IF i < k THEN t[i] ELSE IF i = k THEN x ELSE t[i - 1] BY <1>5
  <2>6. CASE i < k
    <3>1. i \in 1 .. n /\ u[i] = t[i] BY <2>5, <2>6, <1>3
    <3>2. t[i] \in Members /\ t[i] # x /\ t[i] # right BY <3>1, <1>15, <1>17, <2>6
    <3>3. l2[t[i]].previous = At(t, i - 1) BY <3>1, <3>2, <2>4, <1>13
    <3>4. At(u, i - 1) = At(t, i - 1) BY <2>2, <2>6, <1>3
    <3>5. l2[t[i]].next = IF t[i] = left THEN x ELSE At(t, i + 1) BY <3>1, <3>2, <2>4, <1>13
    <3>6. CASE i = k - 1
      <4>1. t[i] = left BY <3>1, <3>6, <1>2, <1>6 DEF At
      <4>2. At(u, i + 1) = x BY <2>3, <3>6, <1>3
      <4> QED BY <3>1, <3>3, <3>4, <3>5, <4>1, <4>2
    <3>7. CASE i # k - 1
      <4>1. t[i] # left BY <3>1, <3>7, <1>17
      <4>2. i + 1 < k BY <2>6, <3>7, <1>3
      <4>3. At(u, i + 1) = At(t, i + 1) BY <2>3, <4>2
      <4> QED BY <3>1, <3>3, <3>4, <3>5, <4>1, <4>3
    <3> QED BY <3>6, <3>7
  <2>7. CASE i = k
    <3>1. u[i] = x BY <2>5, <2>7, <1>3
    <3>2. l2[x].previous = left /\ l2[x].next = right BY <1>13, <1>17
    <3>3. At(u, i - 1) = left BY <2>2, <2>7, <1>3, <1>6
    <3>4. At(u, i + 1) = right
      <4>1. i + 1 - 1 = k /\ ~(i + 1 < k) /\ i + 1 # k BY <2>7, <1>3
      <4> QED BY <2>3, <4>1, <1>7
    <3> QED BY <3>1, <3>2, <3>3, <3>4
  <2>8. CASE i > k
    <3>1. PICK j \in 1 .. n : j = i - 1 BY <2>8, <1>3
    <3>2. u[i] = t[j] BY <2>5, <2>8, <1>3, <3>1
    <3>3. t[j] \in Members /\ t[j] # x /\ t[j] # left BY <3>1, <1>15, <1>17, <2>8, <1>3
    <3>4. l2[t[j]].next = At(t, j + 1) BY <3>3, <2>4, <1>13
    <3>5. At(u, i + 1) = At(t, j + 1)
      <4>1. i + 1 - 1 = j + 1 /\ ~(i + 1 < k) /\ i + 1 # k BY <2>8, <1>3, <3>1
      <4> QED BY <2>3, <4>1
    <3>6. l2[t[j]].previous = IF t[j] = right THEN x ELSE At(t, j - 1) BY <3>3, <2>4, <1>13
    <3>7. CASE j = k
      <4>1. t[j] = right BY <3>7, <1>2, <1>7 DEF At
      <4>2. At(u, i - 1) = x
        <5>1. i - 1 = k /\ ~(i - 1 < k) BY <3>1, <3>7, <1>3
        <5> QED BY <5>1, <2>2
      <4> QED BY <3>2, <3>4, <3>5, <3>6, <4>1, <4>2
    <3>8. CASE j # k
      <4>1. t[j] # right BY <3>8, <1>17
      <4>2. i - 1 # k /\ ~(i - 1 < k) /\ i - 1 - 1 = j - 1 BY <3>1, <3>8, <2>8, <1>3
      <4>3. At(u, i - 1) = At(t, j - 1) BY <2>2, <4>2
      <4> QED BY <3>2, <3>4, <3>5, <3>6, <4>1, <4>3
    <3> QED BY <3>7, <3>8
  <2> QED BY <2>6, <2>7, <2>8, <1>3
<1>21. \A d \in Chains : Chained(s2[d], l2)
  <2> SUFFICES ASSUME NEW d \in Chains, d # c PROVE Chained(s[d], l2)
    BY <1>12, <1>20
  <2>1. Chained(s[d], l) BY <1>11
  <2>2. \A i \in 1 .. Len(s[d]) : s[d][i] \in Members /\ s[d][i] # x /\ s[d][i] # left /\ s[d][i] # right
    BY <1>14, <1>18
  <2> QED BY <2>1, <2>2, <1>13 DEF Chained
<1>22. e2 = [d \in Chains |-> EndsOf(s2[d])]
  BY <1>10, <1>11, <1>12
<1>23. \A m \in Members : (\A d \in Chains : ~InChain(s2[d], m)) => l2[m] = Self(m)
  <2> SUFFICES ASSUME NEW m \in Members, \A d \in Chains : ~InChain(s2[d], m) PROVE l2[m] = Self(m)
    OBVIOUS
  <2>1. \A i \in 1 .. n + 1 : u[i] # m BY <1>5, <1>12, SeqFacts
  <2>2. m # x
    <3>1. k \in 1 .. n + 1 /\ u[k] = x BY <1>3, <1>5
    <3> QED BY <2>1, <3>1
  <2>3. \A i \in 1 .. n : t[i] # m
    BY <2>1, <1>25
  <2>4. \A d \in Chains : ~InChain(s[d], m)
    <3>1. ~InChain(t, m) BY <2>3, <1>2, SeqFacts
    <3> QED BY <3>1, <1>1, <1>12
  <2>5. l[m] = Self(m) BY <2>4, <1>11
  <2>6. m # left /\ m # right
    <3>1. m # Null BY DoubleAssumption
    <3> QED BY <3>1, <2>3, <1>17
  <2>7. l2[m].previous = m /\ l2[m].next = m BY <2>2, <2>5, <2>6, <1>13 DEF Self
  <2> QED BY <2>7, <1>13, WiresOf DEF Self
<1>24. Holds(s2, l2, e2) BY <1>12, <1>13, <1>19, <1>21, <1>22, <1>23 DEF Holds
<1> QED BY <1>1, <1>4, <1>6, <1>7, <1>8, <1>9, <1>10, <1>24

\* An item taken from between its neighbours
LEMMA RemoveHolds ==
  ASSUME NEW s, NEW l, NEW e, Holds(s, l, e), NEW c \in Chains, NEW k \in 1 .. Len(s[c]),
         NEW x, x = s[c][k]
  PROVE  Holds([s EXCEPT ![c] = RemoveAt(s[c], k)],
               [Joined(l, At(s[c], k - 1), At(s[c], k + 1)) EXCEPT ![x] = Self(x)],
               [e EXCEPT ![c] = EndsOf(RemoveAt(s[c], k))])
<1>1. PICK t \in Seq(Members) : t = s[c] BY OneChain
<1>2. PICK n \in Nat : n = Len(t) BY SeqFacts
<1>3. k \in Int /\ 1 <= k /\ k <= n BY <1>1, <1>2
<1>4. PICK u \in Seq(Members) : u = RemoveAt(t, k) BY <1>1, RemoveIs
<1>5. /\ Len(u) = n - 1
      /\ \A i \in 1 .. n - 1 : u[i] = IF i < k THEN t[i] ELSE t[i + 1]
      /\ \A i \in Int : At(u, i) = IF i < k THEN At(t, i) ELSE At(t, i + 1)
  <2>1. k \in 1 .. Len(t) BY <1>1
  <2>2. Len(RemoveAt(t, k)) = Len(t) - 1 BY <2>1, RemoveIs
  <2>3. Removed(RemoveAt(t, k), t, Len(t), k) BY <2>1, RemoveIs
  <2>4. \A i \in Int : At(RemoveAt(t, k), i) = IF i < k THEN At(t, i) ELSE At(t, i + 1) BY <2>1, RemovePlaces
  <2> QED BY <2>2, <2>3, <2>4, <1>2, <1>4 DEF Removed
<1>6. PICK left \in Pointer : left = At(t, k - 1)
  <2>1. k - 1 \in Int BY <1>3
  <2> QED BY <2>1, SeqFacts
<1>7. PICK right \in Pointer : right = At(t, k + 1)
  <2>1. k + 1 \in Int BY <1>3
  <2> QED BY <2>1, SeqFacts
<1>8. PICK s2 : s2 = [s EXCEPT ![c] = u] OBVIOUS
<1>9. PICK l2 : l2 = [Joined(l, left, right) EXCEPT ![x] = Self(x)] OBVIOUS
<1>10. PICK e2 : e2 = [e EXCEPT ![c] = EndsOf(u)] OBVIOUS
<1>11. /\ s \in [Chains -> Seq(Members)] /\ l \in Wiring
       /\ Distinct(s, Chains) /\ (\A d \in Chains : Chained(s[d], l))
       /\ e = [d \in Chains |-> EndsOf(s[d])]
       /\ \A m \in Members : (\A d \in Chains : ~InChain(s[d], m)) => l[m] = Self(m)
  BY DEF Holds
<1>12. s2 \in [Chains -> Seq(Members)] /\ s2[c] = u /\ \A d \in Chains : d # c => s2[d] = s[d]
  BY <1>8, <1>11
<1>13. x \in Members /\ x = t[k] BY <1>1, <1>2, <1>3, SeqFacts
<1>14. /\ l2 \in Wiring /\ l2[x] = Self(x)
       /\ \A m \in Members : m # x => /\ l2[m].previous = IF m = right THEN left ELSE l[m].previous
                                      /\ l2[m].next = IF m = left THEN right ELSE l[m].next
  <2>1. PICK h : h = Joined(l, left, right) OBVIOUS
  <2>2. Wired(h, l, left, right) BY <2>1, <1>11, JoinedIs
  <2>3. Self(x) \in [previous : Pointer, next : Pointer] BY <1>13 DEF Self, Pointer
  <2>4. l2 \in Wiring /\ l2[x] = Self(x) BY <2>1, <2>2, <2>3, <1>9, <1>13 DEF Wired, Wiring
  <2>5. \A m \in Members : m # x => l2[m] = h[m] BY <2>1, <2>2, <1>9 DEF Wired, Wiring
  <2> QED BY <2>2, <2>4, <2>5 DEF Wired
<1>15. \A d \in Chains : \A i \in 1 .. Len(s[d]) : s[d][i] \in Members /\ s[d][i] # Null
  BY <1>11, SeqFacts
<1>16. \A i \in 1 .. n : t[i] \in Members /\ t[i] # Null BY <1>1, <1>2, <1>15
<1>17. \A i, j \in 1 .. n : t[i] = t[j] => i = j BY <1>1, <1>2, <1>11 DEF Distinct
<1>18. /\ left = IF k - 1 \in 1 .. n THEN t[k - 1] ELSE Null
       /\ right = IF k + 1 \in 1 .. n THEN t[k + 1] ELSE Null
  BY <1>2, <1>6, <1>7 DEF At
<1>19. /\ \A i \in 1 .. n : t[i] = left <=> i = k - 1
       /\ \A i \in 1 .. n : t[i] = right <=> i = k + 1
       /\ left # x /\ right # x
  BY <1>3, <1>13, <1>16, <1>17, <1>18
<1>20. \A d \in Chains : d # c => \A i \in 1 .. Len(s[d]) : s[d][i] # left /\ s[d][i] # right /\ s[d][i] # x
  <2> SUFFICES ASSUME NEW d \in Chains, d # c, NEW i \in 1 .. Len(s[d])
               PROVE  s[d][i] # left /\ s[d][i] # right /\ s[d][i] # x
    OBVIOUS
  <2>1. \A j \in 1 .. n : s[d][i] # t[j] BY <1>1, <1>2, <1>11 DEF Distinct
  <2>2. s[d][i] # Null BY <1>15
  <2>3. k \in 1 .. n BY <1>3
  <2> QED BY <1>13, <1>18, <2>1, <2>2, <2>3
<1>21. \A i \in 1 .. n - 1 : \E j \in 1 .. n : j # k /\ u[i] = t[j] /\ j = IF i < k THEN i ELSE i + 1
  <2> SUFFICES ASSUME NEW i \in 1 .. n - 1 PROVE \E j \in 1 .. n : j # k /\ u[i] = t[j] /\ j = IF i < k THEN i ELSE i + 1
    OBVIOUS
  <2>1. PICK j \in 1 .. n : j = IF i < k THEN i ELSE i + 1
    <3>1. i \in 1 .. n /\ i + 1 \in 1 .. n OBVIOUS
    <3> QED BY <3>1
  <2>2. u[i] = t[j] BY <2>1, <1>5
  <2>3. j # k BY <2>1, <1>3
  <2> QED BY <2>1, <2>2, <2>3
<1>22. Once(u, n - 1) /\ Loses(u, t, n, k)
  <2>1. Once(t, n) BY <1>17 DEF Once
  <2>2. Removed(u, t, n, k) BY <1>5 DEF Removed
  <2> QED BY <2>1, <2>2, <1>3, RemoveOnce
<1>23. /\ \A j \in 1 .. n : j # k => \E i \in 1 .. n - 1 : u[i] = t[j]
       /\ \A i, j \in 1 .. n - 1 : u[i] = u[j] => i = j
  BY <1>22 DEF Once, Loses
<1>24. Distinct(s2, Chains)
  <2> SUFFICES ASSUME NEW a \in Chains, NEW b \in Chains,
                      NEW i \in 1 .. Len(s2[a]), NEW j \in 1 .. Len(s2[b]), s2[a][i] = s2[b][j]
               PROVE  a = b /\ i = j
    BY DEF Distinct
  <2>1. CASE a = c /\ b = c BY <2>1, <1>5, <1>12, <1>23
  <2>2. CASE a # c /\ b # c
    <3>1. s2[a] = s[a] /\ s2[b] = s[b] BY <2>2, <1>12
    <3> QED BY <3>1, <1>11 DEF Distinct
  <2>3. CASE a = c /\ b # c
    <3>1. s2[b] = s[b] /\ s2[a] = u BY <2>3, <1>12
    <3>2. i \in 1 .. n - 1 /\ j \in 1 .. Len(s[b]) /\ u[i] = s[b][j] BY <3>1, <1>5
    <3>3. PICK h \in 1 .. Len(s[c]) : s[b][j] = s[c][h] BY <3>2, <1>21, <1>1, <1>2
    <3>4. b = c BY <3>2, <3>3, <1>11 DEF Distinct
    <3> QED BY <3>4, <2>3
  <2>4. CASE a # c /\ b = c
    <3>1. s2[a] = s[a] /\ s2[b] = u BY <2>4, <1>12
    <3>2. j \in 1 .. n - 1 /\ i \in 1 .. Len(s[a]) /\ u[j] = s[a][i] BY <3>1, <1>5
    <3>3. PICK h \in 1 .. Len(s[c]) : s[a][i] = s[c][h] BY <3>2, <1>21, <1>1, <1>2
    <3>4. a = c BY <3>2, <3>3, <1>11 DEF Distinct
    <3> QED BY <3>4, <2>4
  <2> QED BY <2>1, <2>2, <2>3, <2>4
<1>25. Chained(u, l2)
  <2> SUFFICES ASSUME NEW i \in 1 .. n - 1 PROVE l2[u[i]].previous = At(u, i - 1) /\ l2[u[i]].next = At(u, i + 1)
    BY <1>5 DEF Chained
  <2>1. i \in Int /\ i - 1 \in Int /\ i + 1 \in Int OBVIOUS
  <2>2. At(u, i - 1) = IF i - 1 < k THEN At(t, i - 1) ELSE At(t, i - 1 + 1) BY <2>1, <1>5
  <2>3. At(u, i + 1) = IF i + 1 < k THEN At(t, i + 1) ELSE At(t, i + 1 + 1) BY <2>1, <1>5
  <2>4. \A j \in 1 .. n : l[t[j]].previous = At(t, j - 1) /\ l[t[j]].next = At(t, j + 1)
    BY <1>1, <1>2, <1>11 DEF Chained
  <2>5. PICK j \in 1 .. n : j # k /\ u[i] = t[j] /\ j = IF i < k THEN i ELSE i + 1 BY <1>21
  <2>6. t[j] \in Members /\ t[j] # x BY <2>5, <1>3, <1>13, <1>16, <1>17
  <2>7. l2[t[j]].previous = IF j = k + 1 THEN left ELSE At(t, j - 1) BY <2>4, <2>6, <1>14, <1>19
  <2>8. l2[t[j]].next = IF j = k - 1 THEN right ELSE At(t, j + 1) BY <2>4, <2>6, <1>14, <1>19
  <2>9. At(u, i - 1) = IF j = k + 1 THEN left ELSE At(t, j - 1)
    <3>1. CASE i < k
      <4>1. j = i /\ j # k + 1 /\ i - 1 < k BY <3>1, <2>5, <1>3
      <4> QED BY <2>2, <4>1
    <3>2. CASE i = k
      <4>1. j = k + 1 /\ i - 1 < k /\ i - 1 = k - 1 BY <3>2, <2>5, <1>3
      <4> QED BY <2>2, <4>1, <1>6
    <3>3. CASE i > k
      <4>1. j # k + 1 /\ ~(i - 1 < k) /\ i - 1 + 1 = j - 1 BY <3>3, <2>5, <1>3
      <4> QED BY <2>2, <4>1
    <3> QED BY <3>1, <3>2, <3>3, <1>3
  <2>10. At(u, i + 1) = IF j = k - 1 THEN right ELSE At(t, j + 1)
    <3>1. CASE i + 1 < k
      <4>1. j = i /\ j # k - 1 BY <3>1, <2>5, <1>3
      <4> QED BY <2>3, <3>1, <4>1
    <3>2. CASE i + 1 = k
      <4>1. j = k - 1 /\ ~(i + 1 < k) /\ i + 1 + 1 = k + 1 BY <3>2, <2>5, <1>3
      <4> QED BY <2>3, <4>1, <1>7
    <3>3. CASE i + 1 > k
      <4>1. j # k - 1 /\ ~(i + 1 < k) /\ i + 1 + 1 = j + 1 BY <3>3, <2>5, <1>3
      <4> QED BY <2>3, <4>1
    <3> QED BY <3>1, <3>2, <3>3, <1>3
  <2> QED BY <2>5, <2>7, <2>8, <2>9, <2>10
<1>26. \A d \in Chains : Chained(s2[d], l2)
  <2> SUFFICES ASSUME NEW d \in Chains, d # c PROVE Chained(s[d], l2)
    BY <1>12, <1>25
  <2>1. Chained(s[d], l) BY <1>11
  <2>2. \A i \in 1 .. Len(s[d]) : s[d][i] \in Members /\ s[d][i] # x /\ s[d][i] # left /\ s[d][i] # right
    BY <1>15, <1>20
  <2> QED BY <2>1, <2>2, <1>14 DEF Chained
<1>27. e2 = [d \in Chains |-> EndsOf(s2[d])]
  BY <1>10, <1>11, <1>12
<1>28. \A m \in Members : (\A d \in Chains : ~InChain(s2[d], m)) => l2[m] = Self(m)
  <2> SUFFICES ASSUME NEW m \in Members, m # x, \A d \in Chains : ~InChain(s2[d], m) PROVE l2[m] = Self(m)
    BY <1>14
  <2>1. \A i \in 1 .. n - 1 : u[i] # m BY <1>5, <1>12, SeqFacts
  <2>2. \A i \in 1 .. n : t[i] # m BY <2>1, <1>13, <1>23
  <2>3. \A d \in Chains : ~InChain(s[d], m)
    <3>1. ~InChain(t, m) BY <2>2, <1>2, SeqFacts
    <3> QED BY <3>1, <1>1, <1>12
  <2>4. l[m] = Self(m) BY <2>3, <1>11
  <2>5. m # left /\ m # right
    <3>1. m # Null BY DoubleAssumption
    <3> QED BY <3>1, <2>2, <1>18
  <2>6. l2[m].previous = m /\ l2[m].next = m BY <2>4, <2>5, <1>14 DEF Self
  <2> QED BY <2>6, <1>14, WiresOf DEF Self
<1>29. Holds(s2, l2, e2) BY <1>12, <1>14, <1>24, <1>26, <1>27, <1>28 DEF Holds
<1> QED BY <1>1, <1>4, <1>6, <1>7, <1>8, <1>9, <1>10, <1>29

\* Two chains become one, and one of them takes it.
LEMMA JoinHolds ==
  ASSUME NEW s, NEW l, NEW e, Holds(s, l, e), NEW a \in Chains, NEW b \in Chains, a # b,
         Len(s[a]) > 0, Len(s[b]) > 0,
         NEW c, NEW o, (c = a /\ o = b) \/ (c = b /\ o = a)
  PROVE  Holds([s EXCEPT ![c] = s[a] \o s[b], ![o] = << >>],
               Joined(l, At(s[a], Len(s[a])), At(s[b], 1)),
               [e EXCEPT ![c] = EndsOf(s[a] \o s[b]), ![o] = Empty])
<1>1. PICK t \in Seq(Members) : t = s[a] BY OneChain
<1>2. PICK r \in Seq(Members) : r = s[b] BY OneChain
<1>3. PICK m \in Nat : m = Len(t) /\ m > 0 BY <1>1, SeqFacts
<1>4. PICK n \in Nat : n = Len(r) /\ n > 0 BY <1>2, SeqFacts
<1>5. PICK u : u = t \o r OBVIOUS
<1>6. /\ u \in Seq(Members) /\ Len(u) = m + n
      /\ \A i \in 1 .. m + n : u[i] = IF i <= m THEN t[i] ELSE r[i - m]
  BY <1>3, <1>4, <1>5, JoinIs
<1>7. \A i \in Int : At(u, i) = IF i <= m THEN At(t, i) ELSE At(r, i - m)
  BY <1>3, <1>5, JoinAt
<1>8. PICK left \in Pointer : left = At(t, m) BY SeqFacts
<1>9. PICK right \in Pointer : right = At(r, 1) BY SeqFacts
<1>10. left = t[m] /\ right = r[1] BY <1>3, <1>4, <1>8, <1>9 DEF At
<1>11. /\ s \in [Chains -> Seq(Members)] /\ l \in Wiring
       /\ Distinct(s, Chains) /\ (\A d \in Chains : Chained(s[d], l))
       /\ e = [d \in Chains |-> EndsOf(s[d])]
       /\ \A x \in Members : (\A d \in Chains : ~InChain(s[d], x)) => l[x] = Self(x)
  BY DEF Holds
<1>12. PICK s2 : s2 = [s EXCEPT ![c] = u, ![o] = << >>] OBVIOUS
<1>13. PICK l2 : l2 = Joined(l, left, right) OBVIOUS
<1>14. PICK e2 : e2 = [e EXCEPT ![c] = EndsOf(u), ![o] = Empty] OBVIOUS
<1>15. c \in Chains /\ o \in Chains /\ c # o /\ ((c = a /\ o = b) \/ (c = b /\ o = a)) OBVIOUS
<1>16. << >> \in Seq(Members) /\ Len(<< >>) = 0 BY EmptySeq
<1>17. /\ s2 \in [Chains -> Seq(Members)] /\ s2[c] = u /\ s2[o] = << >>
       /\ \A d \in Chains : d # a /\ d # b => s2[d] = s[d]
  BY <1>6, <1>11, <1>12, <1>15, <1>16
<1>18. /\ l2 \in Wiring
       /\ \A x \in Members : /\ l2[x].previous = IF x = right THEN left ELSE l[x].previous
                             /\ l2[x].next = IF x = left THEN right ELSE l[x].next
  <2>1. Wired(l2, l, left, right) BY <1>11, <1>13, JoinedIs
  <2> QED BY <2>1 DEF Wired
<1>19. \A d \in Chains : \A i \in 1 .. Len(s[d]) : s[d][i] \in Members /\ s[d][i] # Null
  BY <1>11, SeqFacts
<1>20. /\ \A i \in 1 .. m : t[i] \in Members /\ (t[i] = left <=> i = m) /\ t[i] # right
       /\ \A i \in 1 .. n : r[i] \in Members /\ (r[i] = right <=> i = 1) /\ r[i] # left
       /\ \A i, j \in 1 .. m : t[i] = t[j] => i = j
       /\ \A i, j \in 1 .. n : r[i] = r[j] => i = j
       /\ \A i \in 1 .. m, j \in 1 .. n : t[i] # r[j]
  <2>1. \A i, j \in 1 .. m : t[i] = t[j] => i = j BY <1>1, <1>3, <1>11 DEF Distinct
  <2>2. \A i, j \in 1 .. n : r[i] = r[j] => i = j BY <1>2, <1>4, <1>11 DEF Distinct
  <2>3. \A i \in 1 .. m, j \in 1 .. n : t[i] # r[j] BY <1>1, <1>2, <1>3, <1>4, <1>11 DEF Distinct
  <2>4. (\A i \in 1 .. m : t[i] \in Members) /\ \A i \in 1 .. n : r[i] \in Members
    BY <1>3, <1>4, SeqFacts
  <2>5. m \in 1 .. m /\ 1 \in 1 .. n BY <1>3, <1>4
  <2> QED BY <2>1, <2>2, <2>3, <2>4, <2>5, <1>10
<1>21. \A i \in 1 .. m + n : \/ i <= m /\ i \in 1 .. m /\ u[i] = t[i]
                             \/ i > m /\ i - m \in 1 .. n /\ u[i] = r[i - m]
  BY <1>6
<1>22. /\ Distinct(s2, Chains)
       /\ \A x : InChain(u, x) <=> InChain(t, x) \/ InChain(r, x)
  BY <1>1, <1>2, <1>5, <1>11, <1>12, JoinDistinct
<1>23. Chained(u, l2)
  <2> SUFFICES ASSUME NEW i \in 1 .. m + n PROVE l2[u[i]].previous = At(u, i - 1) /\ l2[u[i]].next = At(u, i + 1)
    BY <1>6 DEF Chained
  <2>1. i \in Int /\ i - 1 \in Int /\ i + 1 \in Int OBVIOUS
  <2>2. At(u, i - 1) = IF i - 1 <= m THEN At(t, i - 1) ELSE At(r, i - 1 - m) BY <2>1, <1>7
  <2>3. At(u, i + 1) = IF i + 1 <= m THEN At(t, i + 1) ELSE At(r, i + 1 - m) BY <2>1, <1>7
  <2>4. \A j \in 1 .. m : l[t[j]].previous = At(t, j - 1) /\ l[t[j]].next = At(t, j + 1)
    BY <1>1, <1>3, <1>11 DEF Chained
  <2>5. \A j \in 1 .. n : l[r[j]].previous = At(r, j - 1) /\ l[r[j]].next = At(r, j + 1)
    BY <1>2, <1>4, <1>11 DEF Chained
  <2>6. CASE i <= m
    <3>1. i \in 1 .. m /\ u[i] = t[i] BY <2>6, <1>21
    <3>2. l2[t[i]].previous = At(t, i - 1) /\ l2[t[i]].next = IF i = m THEN right ELSE At(t, i + 1)
      BY <3>1, <2>4, <1>18, <1>20
    <3>3. At(u, i - 1) = At(t, i - 1)
      <4>1. i - 1 <= m BY <2>6
      <4> QED BY <4>1, <2>2
    <3>4. At(u, i + 1) = IF i = m THEN right ELSE At(t, i + 1)
      <4>1. CASE i = m
        <5>1. ~(i + 1 <= m) /\ i + 1 - m = 1 BY <4>1
        <5> QED BY <4>1, <5>1, <2>3, <1>9
      <4>2. CASE i # m
        <5>1. i + 1 <= m BY <4>2, <2>6
        <5> QED BY <4>2, <5>1, <2>3
      <4> QED BY <4>1, <4>2
    <3> QED BY <3>1, <3>2, <3>3, <3>4
  <2>7. CASE i > m
    <3>1. PICK j \in 1 .. n : j = i - m /\ u[i] = r[j] BY <2>7, <1>21
    <3>2. l2[r[j]].next = At(r, j + 1) /\ l2[r[j]].previous = IF j = 1 THEN left ELSE At(r, j - 1)
      BY <2>5, <1>18, <1>20
    <3>3. At(u, i + 1) = At(r, j + 1)
      <4>1. ~(i + 1 <= m) /\ i + 1 - m = j + 1 BY <2>7, <3>1
      <4> QED BY <4>1, <2>3
    <3>4. At(u, i - 1) = IF j = 1 THEN left ELSE At(r, j - 1)
      <4>1. CASE j = 1
        <5>1. i - 1 <= m /\ i - 1 = m BY <4>1, <3>1
        <5> QED BY <4>1, <5>1, <2>2, <1>8
      <4>2. CASE j # 1
        <5>1. ~(i - 1 <= m) /\ i - 1 - m = j - 1 BY <4>2, <3>1
        <5> QED BY <4>2, <5>1, <2>2
      <4> QED BY <4>1, <4>2
    <3> QED BY <3>1, <3>2, <3>3, <3>4
  <2> QED BY <2>6, <2>7
<1>24. \A d \in Chains : Chained(s2[d], l2)
  <2> SUFFICES ASSUME NEW d \in Chains PROVE Chained(s2[d], l2)
    OBVIOUS
  <2>1. CASE d = c BY <2>1, <1>17, <1>23
  <2>2. CASE d = o
    <3>1. s2[d] = << >> BY <2>2, <1>17
    <3> QED BY <3>1, <1>16 DEF Chained
  <2>3. CASE d # c /\ d # o
    <3>1. d # a /\ d # b /\ s2[d] = s[d] BY <2>3, <1>15, <1>17
    <3>2. Chained(s[d], l) BY <1>11
    <3>3. \A i \in 1 .. Len(s[d]) : s[d][i] \in Members /\ s[d][i] # left /\ s[d][i] # right
      <4> SUFFICES ASSUME NEW i \in 1 .. Len(s[d]) PROVE s[d][i] # left /\ s[d][i] # right
        BY <1>19
      <4>1. m \in 1 .. Len(s[a]) /\ 1 \in 1 .. Len(s[b]) BY <1>1, <1>2, <1>3, <1>4
      <4>2. s[d][i] # s[a][m] /\ s[d][i] # s[b][1] BY <3>1, <4>1, <1>11 DEF Distinct
      <4> QED BY <4>2, <1>1, <1>2, <1>10
    <3>4. \A i \in 1 .. Len(s[d]) : /\ l2[s[d][i]].previous = l[s[d][i]].previous
                                    /\ l2[s[d][i]].next = l[s[d][i]].next
      BY <3>3, <1>18
    <3> QED BY <3>1, <3>2, <3>4 DEF Chained
  <2> QED BY <2>1, <2>2, <2>3
<1>25. e2 = [d \in Chains |-> EndsOf(s2[d])]
  <2>1. EndsOf(<< >>) = Empty BY <1>16 DEF EndsOf, Empty, At
  <2>2. \A d \in Chains : e2[d] = EndsOf(s2[d])
    <3> SUFFICES ASSUME NEW d \in Chains PROVE e2[d] = EndsOf(s2[d])
      OBVIOUS
    <3>1. CASE d = c BY <3>1, <1>11, <1>14, <1>15, <1>17
    <3>2. CASE d = o BY <3>2, <2>1, <1>11, <1>14, <1>15, <1>17
    <3>3. CASE d # c /\ d # o
      <4>1. e2[d] = e[d] BY <3>3, <1>11, <1>14
      <4>2. s2[d] = s[d] BY <3>3, <1>15, <1>17
      <4> QED BY <4>1, <4>2, <1>11
    <3> QED BY <3>1, <3>2, <3>3
  <2>3. e2 = [d \in Chains |-> e2[d]] BY <1>11, <1>14
  <2> QED BY <2>2, <2>3
<1>26. \A x \in Members : (\A d \in Chains : ~InChain(s2[d], x)) => l2[x] = Self(x)
  <2> SUFFICES ASSUME NEW x \in Members, \A d \in Chains : ~InChain(s2[d], x) PROVE l2[x] = Self(x)
    OBVIOUS
  <2>1. ~InChain(t, x) /\ ~InChain(r, x) BY <1>15, <1>17, <1>22
  <2>2. (\A i \in 1 .. m : t[i] # x) /\ \A i \in 1 .. n : r[i] # x BY <2>1, <1>3, <1>4, SeqFacts
  <2>3. \A d \in Chains : ~InChain(s[d], x) BY <2>1, <1>1, <1>2, <1>17
  <2>4. l[x] = Self(x) BY <2>3, <1>11
  <2>5. x # left /\ x # right
    <3>1. m \in 1 .. m /\ 1 \in 1 .. n BY <1>3, <1>4
    <3> QED BY <3>1, <2>2, <1>10
  <2>6. l2[x].previous = x /\ l2[x].next = x BY <2>4, <2>5, <1>18 DEF Self
  <2> QED BY <2>6, <1>18, WiresOf DEF Self
<1>27. Holds(s2, l2, e2) BY <1>17, <1>18, <1>22, <1>24, <1>25, <1>26 DEF Holds
<1> QED BY <1>1, <1>2, <1>3, <1>5, <1>8, <1>9, <1>12, <1>13, <1>14, <1>27

\* Two chains change places, and no link changes.
LEMMA SwapHolds ==
  ASSUME NEW s, NEW l, NEW e, Holds(s, l, e), NEW c \in Chains, NEW d \in Chains
  PROVE  Holds([s EXCEPT ![c] = s[d], ![d] = s[c]], l, [e EXCEPT ![c] = e[d], ![d] = e[c]])
<1>1. PICK s2 : s2 = [s EXCEPT ![c] = s[d], ![d] = s[c]] OBVIOUS
<1>2. PICK e2 : e2 = [e EXCEPT ![c] = e[d], ![d] = e[c]] OBVIOUS
<1>3. /\ s \in [Chains -> Seq(Members)] /\ l \in Wiring
      /\ Distinct(s, Chains) /\ (\A f \in Chains : Chained(s[f], l))
      /\ e = [f \in Chains |-> EndsOf(s[f])]
      /\ \A x \in Members : (\A f \in Chains : ~InChain(s[f], x)) => l[x] = Self(x)
  BY DEF Holds
<1>4. PICK p \in [Chains -> Chains] : p = [f \in Chains |-> IF f = d THEN c ELSE IF f = c THEN d ELSE f]
  OBVIOUS
<1>5. (\A f, g \in Chains : p[f] = p[g] => f = g) /\ \A f \in Chains : p[p[f]] = f
  BY <1>4
<1>6. s2 \in [Chains -> Seq(Members)] /\ \A f \in Chains : s2[f] = s[p[f]]
  BY <1>1, <1>3, <1>4
<1>7. e2 = [f \in Chains |-> EndsOf(s2[f])]
  BY <1>2, <1>3, <1>4, <1>6
<1>8. Distinct(s2, Chains) BY <1>3, <1>5, <1>6 DEF Distinct
<1>9. \A f \in Chains : Chained(s2[f], l) BY <1>3, <1>6
<1>10. \A x \in Members : (\A f \in Chains : ~InChain(s2[f], x)) => l[x] = Self(x)
  <2> SUFFICES ASSUME NEW x \in Members, \A f \in Chains : ~InChain(s2[f], x) PROVE l[x] = Self(x)
    OBVIOUS
  <2>1. \A f \in Chains : ~InChain(s[f], x) BY <1>5, <1>6
  <2> QED BY <2>1, <1>3
<1>11. Holds(s2, l, e2) BY <1>3, <1>6, <1>7, <1>8, <1>9, <1>10 DEF Holds
<1> QED BY <1>1, <1>2, <1>11

\* The operation has the links go from the chains s to others.
Goes(s, l, e) == \E s2 : Holds(s2, l, e) /\ Changes(s, s2, Chains, Members)

\* What puts an item at place k, between its neighbours, adds it to the sequence.
LEMMA PutGoes ==
  ASSUME NEW s, NEW l, NEW e, Holds(s, l, e), NEW c \in Chains, NEW x \in Members, l[x] = Self(x),
         NEW k \in 1 .. Len(s[c]) + 1, NEW l2, NEW e2,
         l2 = Between(l, At(s[c], k - 1), x, At(s[c], k)),
         e2 = [e EXCEPT ![c] = [head |-> IF k = 1 THEN x ELSE @.head,
                                tail |-> IF k = Len(s[c]) + 1 THEN x ELSE @.tail]]
  PROVE  Goes(s, l2, e2)
<1>1. PICK t \in Seq(Members) : t = s[c] BY OneChain
<1>2. PICK n \in Nat : n = Len(t) BY SeqFacts
<1>3. k \in Int /\ 1 <= k /\ k <= n + 1 BY <1>1, <1>2
<1>4. PICK u : u = InsertAt(t, k, x) OBVIOUS
<1>5. \A i \in Int : At(u, i) = IF i < k THEN At(t, i) ELSE IF i = k THEN x ELSE At(t, i - 1)
  <2>1. k \in 1 .. Len(t) + 1 BY <1>1
  <2> QED BY <2>1, <1>4, InsertPlaces
<1>6. Len(u) = n + 1
  <2>1. k \in 1 .. Len(t) + 1 BY <1>1
  <2> QED BY <2>1, <1>2, <1>4, InsertIs
<1>7. e[c] = [head |-> At(t, 1), tail |-> At(t, n)] BY <1>1, <1>2, OneChain DEF EndsOf
<1>8. EndsOf(u) = [head |-> IF k = 1 THEN x ELSE e[c].head, tail |-> IF k = n + 1 THEN x ELSE e[c].tail]
  <2>1. At(u, 1) = IF k = 1 THEN x ELSE At(t, 1) BY <1>3, <1>5
  <2>2. At(u, n + 1) = IF k = n + 1 THEN x ELSE At(t, n)
    <3>1. At(u, n + 1) = IF n + 1 < k THEN At(t, n + 1) ELSE IF n + 1 = k THEN x ELSE At(t, n + 1 - 1) BY <1>5
    <3>2. ~(n + 1 < k) /\ n + 1 - 1 = n BY <1>3
    <3> QED BY <3>1, <3>2
  <2> QED BY <2>1, <2>2, <1>6, <1>7 DEF EndsOf
<1>9. e2 = [e EXCEPT ![c] = EndsOf(u)] BY <1>1, <1>2, <1>8
<1>10. Holds([s EXCEPT ![c] = InsertAt(s[c], k, x)], l2, e2)
  <2>1. e2 = [e EXCEPT ![c] = EndsOf(InsertAt(s[c], k, x))] BY <1>1, <1>4, <1>9
  <2>2. Holds([s EXCEPT ![c] = InsertAt(s[c], k, x)], Between(l, At(s[c], k - 1), x, At(s[c], k)),
              [e EXCEPT ![c] = EndsOf(InsertAt(s[c], k, x))])
    BY InsertHolds
  <2> QED BY <2>1, <2>2
<1>11. \A d \in Chains : ~InChain(s[d], x) BY OutsideIs
<1>12. Changes(s, [s EXCEPT ![c] = InsertAt(s[c], k, x)], Chains, Members) BY <1>11 DEF Changes
<1> QED BY <1>10, <1>12 DEF Goes

\* push_front() adds an item at place 1.
LEMMA PushFrontGoes ==
  ASSUME NEW s, Holds(s, links, ends), NEW c \in Chains, NEW item \in Members, push_front_member(c, item)
  PROVE  Goes(s, links', ends')
<1>1. PICK t \in Seq(Members) : t = s[c] BY OneChain
<1>2. Len(t) \in Nat BY SeqFacts
<1>3. ends[c] = [head |-> At(t, 1), tail |-> At(t, Len(t))] BY <1>1, OneChain DEF EndsOf
<1>4. At(t, 0) = Null BY <1>2 DEF At
<1>5. At(t, 1) = Null <=> Len(t) = 0
  <2>1. At(t, 1) = Null <=> 1 \notin 1 .. Len(t) BY SeqFacts
  <2> QED BY <2>1, <1>2
<1>6. PICK k \in 1 .. Len(s[c]) + 1 : k = 1 BY <1>1, <1>2
<1>7. links' = Between(links, At(s[c], k - 1), item, At(s[c], k))
  BY <1>1, <1>3, <1>4, <1>6 DEF push_front_member
<1>8. ends' = [ends EXCEPT ![c] = [head |-> IF k = 1 THEN item ELSE @.head,
                                   tail |-> IF k = Len(s[c]) + 1 THEN item ELSE @.tail]]
  <2>1. k = Len(s[c]) + 1 <=> ends[c].head = Null BY <1>1, <1>2, <1>3, <1>5, <1>6
  <2> QED BY <2>1, <1>6 DEF push_front_member
<1>9. links[item] = Self(item) BY DEF push_front_member, Unlinked
<1> QED BY <1>7, <1>8, <1>9, PutGoes

\* push_back() adds an item behind the last.
LEMMA PushBackGoes ==
  ASSUME NEW s, Holds(s, links, ends), NEW c \in Chains, NEW item \in Members, push_back_member(c, item)
  PROVE  Goes(s, links', ends')
<1>1. PICK t \in Seq(Members) : t = s[c] BY OneChain
<1>2. Len(t) \in Nat BY SeqFacts
<1>3. ends[c] = [head |-> At(t, 1), tail |-> At(t, Len(t))] BY <1>1, OneChain DEF EndsOf
<1>4. At(t, Len(t) + 1) = Null BY <1>2 DEF At
<1>5. At(t, 1) = Null <=> Len(t) = 0
  <2>1. At(t, 1) = Null <=> 1 \notin 1 .. Len(t) BY SeqFacts
  <2> QED BY <2>1, <1>2
<1>6. PICK k \in 1 .. Len(s[c]) + 1 : k = Len(t) + 1 /\ k - 1 = Len(t) BY <1>1, <1>2
<1>7. links' = Between(links, At(s[c], k - 1), item, At(s[c], k))
  BY <1>1, <1>3, <1>4, <1>6 DEF push_back_member
<1>8. ends' = [ends EXCEPT ![c] = [head |-> IF k = 1 THEN item ELSE @.head,
                                   tail |-> IF k = Len(s[c]) + 1 THEN item ELSE @.tail]]
  <2>1. k = 1 <=> ends[c].head = Null BY <1>2, <1>3, <1>5, <1>6
  <2> QED BY <2>1, <1>1, <1>6 DEF push_back_member
<1>9. links[item] = Self(item) BY DEF push_back_member, Unlinked
<1> QED BY <1>7, <1>8, <1>9, PutGoes

\* insert() adds an item at the place of the one that is given.
LEMMA InsertGoes ==
  ASSUME NEW s, Holds(s, links, ends), NEW c \in Chains, NEW item \in Members,
         NEW at, InChain(s[c], at), insert_member(c, item, at)
  PROVE  Goes(s, links', ends')
<1>1. PICK t \in Seq(Members) : t = s[c] BY OneChain
<1>2. Len(t) \in Nat BY SeqFacts
<1>3. ends[c] = [head |-> At(t, 1), tail |-> At(t, Len(t))] BY <1>1, OneChain DEF EndsOf
<1>4. PICK i \in 1 .. Len(t) : t[i] = at BY <1>1, SeqFacts
<1>5. links[at].previous = At(t, i - 1) BY <1>1, <1>4, OneChain DEF Chained
<1>6. at = At(t, i) BY <1>4 DEF At
<1>7. At(t, i - 1) = Null <=> i = 1
  <2>1. i - 1 \in Int BY <1>2
  <2>2. At(t, i - 1) = Null <=> i - 1 \notin 1 .. Len(t) BY <2>1, SeqFacts
  <2> QED BY <2>2, <1>2
<1>8. PICK k \in 1 .. Len(s[c]) + 1 : k = i /\ k # Len(s[c]) + 1 BY <1>1, <1>2
<1>9. links' = Between(links, At(s[c], k - 1), item, At(s[c], k))
  BY <1>1, <1>5, <1>6, <1>8 DEF insert_member
<1>10. ends' = [ends EXCEPT ![c] = [head |-> IF k = 1 THEN item ELSE @.head,
                                    tail |-> IF k = Len(s[c]) + 1 THEN item ELSE @.tail]]
  <2>1. k = 1 <=> links[at].previous = Null BY <1>5, <1>7, <1>8
  <2>2. ends' = [ends EXCEPT ![c].head = IF k = 1 THEN item ELSE @] BY <2>1 DEF insert_member
  <2>3. [ends[c] EXCEPT !.head = IF k = 1 THEN item ELSE @] =
          [head |-> IF k = 1 THEN item ELSE ends[c].head, tail |-> ends[c].tail] BY <1>3
  <2> QED BY <2>2, <2>3, <1>8
<1>11. links[item] = Self(item) BY DEF insert_member, Unlinked
<1> QED BY <1>9, <1>10, <1>11, PutGoes

\* remove() takes the item from where it stands.
LEMMA RemoveGoes ==
  ASSUME NEW s, Holds(s, links, ends), NEW c \in Chains, NEW item, InChain(s[c], item), remove(c, item)
  PROVE  Goes(s, links', ends')
<1>1. PICK t \in Seq(Members) : t = s[c] BY OneChain
<1>2. PICK n \in Nat : n = Len(t) BY SeqFacts
<1>3. ends[c] = [head |-> At(t, 1), tail |-> At(t, n)] BY <1>1, <1>2, OneChain DEF EndsOf
<1>4. PICK k \in 1 .. Len(s[c]) : t[k] = item BY <1>1, SeqFacts
<1>5. k \in Int /\ 1 <= k /\ k <= n BY <1>1, <1>2
<1>6. links[item].previous = At(t, k - 1) /\ links[item].next = At(t, k + 1)
  BY <1>1, <1>4, OneChain DEF Chained
<1>7. (At(t, k - 1) = Null <=> k = 1) /\ (At(t, k + 1) = Null <=> k = n)
  <2>1. k - 1 \in Int /\ k + 1 \in Int BY <1>5
  <2>2. (At(t, k - 1) = Null <=> k - 1 \notin 1 .. n) /\ (At(t, k + 1) = Null <=> k + 1 \notin 1 .. n)
    BY <2>1, <1>2, SeqFacts
  <2> QED BY <2>2, <1>5
<1>8. PICK u : u = RemoveAt(t, k) OBVIOUS
<1>9. Len(u) = n - 1 /\ \A i \in Int : At(u, i) = IF i < k THEN At(t, i) ELSE At(t, i + 1)
  <2>1. k \in 1 .. Len(t) BY <1>1
  <2>2. Len(RemoveAt(t, k)) = Len(t) - 1 BY <2>1, RemoveIs
  <2>3. \A i \in Int : At(RemoveAt(t, k), i) = IF i < k THEN At(t, i) ELSE At(t, i + 1) BY <2>1, RemovePlaces
  <2> QED BY <2>2, <2>3, <1>2, <1>8
<1>10. EndsOf(u) = [head |-> IF k = 1 THEN At(t, k + 1) ELSE At(t, 1),
                    tail |-> IF k = n THEN At(t, k - 1) ELSE At(t, n)]
  <2>1. At(u, 1) = IF k = 1 THEN At(t, k + 1) ELSE At(t, 1)
    <3>1. At(u, 1) = IF 1 < k THEN At(t, 1) ELSE At(t, 1 + 1) BY <1>9
    <3>2. ~(1 < k) <=> k = 1 BY <1>5
    <3> QED BY <3>1, <3>2
  <2>2. At(u, n - 1) = IF k = n THEN At(t, k - 1) ELSE At(t, n)
    <3>1. At(u, n - 1) = IF n - 1 < k THEN At(t, n - 1) ELSE At(t, n - 1 + 1) BY <1>9
    <3>2. (n - 1 < k <=> k = n) /\ n - 1 + 1 = n BY <1>5
    <3> QED BY <3>1, <3>2
  <2> QED BY <2>1, <2>2, <1>9 DEF EndsOf
<1>11. ends' = [ends EXCEPT ![c] = EndsOf(u)]
  <2>1. [head |-> IF links[item].previous = Null THEN links[item].next ELSE ends[c].head,
         tail |-> IF links[item].next = Null THEN links[item].previous ELSE ends[c].tail] = EndsOf(u)
    BY <1>3, <1>6, <1>7, <1>10
  <2> QED BY <2>1 DEF remove
<1>12. links' = [Joined(links, At(s[c], k - 1), At(s[c], k + 1)) EXCEPT ![item] = Self(item)]
  BY <1>1, <1>6 DEF remove
<1>13. Holds([s EXCEPT ![c] = RemoveAt(s[c], k)], links', ends')
  BY <1>1, <1>4, <1>8, <1>11, <1>12, RemoveHolds
<1>14. Changes(s, [s EXCEPT ![c] = RemoveAt(s[c], k)], Chains, Members) BY DEF Changes
<1> QED BY <1>13, <1>14 DEF Goes

\* swap() has two chains change places.
LEMMA SwapGoes ==
  ASSUME NEW s, Holds(s, links, ends), NEW c \in Chains, NEW d \in Chains, c # d, swap_chains(c, d)
  PROVE  Goes(s, links', ends')
<1>1. Holds([s EXCEPT ![c] = s[d], ![d] = s[c]], links', ends') BY SwapHolds DEF swap_chains
<1>2. Changes(s, [s EXCEPT ![c] = s[d], ![d] = s[c]], Chains, Members) BY DEF Changes
<1> QED BY <1>1, <1>2 DEF Goes

\* push_front() and push_back() of a chain splice, and swap when one is empty.
LEMMA PushChainGoes ==
  ASSUME NEW s, Holds(s, links, ends), NEW c \in Chains, NEW d \in Chains, c # d,
         push_chain_front(c, d) \/ push_chain_back(c, d)
  PROVE  Goes(s, links', ends')
<1>1. PICK t \in Seq(Members) : t = s[c] BY OneChain
<1>2. PICK r \in Seq(Members) : r = s[d] BY OneChain
<1>3. PICK m \in Nat : m = Len(t) BY SeqFacts
<1>4. PICK n \in Nat : n = Len(r) BY SeqFacts
<1>5. ends[c] = [head |-> At(t, 1), tail |-> At(t, m)] /\ ends[d] = [head |-> At(r, 1), tail |-> At(r, n)]
  BY <1>1, <1>2, <1>3, <1>4, OneChain DEF EndsOf
<1>6. /\ At(t, 1) = Null <=> m = 0
      /\ At(t, m) = Null <=> m = 0
      /\ At(r, 1) = Null <=> n = 0
      /\ At(r, n) = Null <=> n = 0
  <2>1. (At(t, 1) = Null <=> 1 \notin 1 .. m) /\ (At(t, m) = Null <=> m \notin 1 .. m) BY <1>3, SeqFacts
  <2>2. (At(r, 1) = Null <=> 1 \notin 1 .. n) /\ (At(r, n) = Null <=> n \notin 1 .. n) BY <1>4, SeqFacts
  <2> QED BY <2>1, <2>2
<1>7. ends \in [Chains -> [head : Pointer, tail : Pointer]]
  <2>1. \A f \in Chains : EndsOf(s[f]) \in [head : Pointer, tail : Pointer]
    <3> SUFFICES ASSUME NEW f \in Chains PROVE EndsOf(s[f]) \in [head : Pointer, tail : Pointer]
      OBVIOUS
    <3>1. PICK q \in Seq(Members) : q = s[f] BY OneChain
    <3>2. Len(q) \in Int BY SeqFacts
    <3>3. At(q, 1) \in Pointer /\ At(q, Len(q)) \in Pointer BY <3>2, SeqFacts
    <3> QED BY <3>1, <3>3 DEF EndsOf
  <2> QED BY <2>1 DEF Holds
<1>8. CASE push_chain_front(c, d)
  <2>1. CASE m > 0 /\ n > 0
    <3>1. links' = Joined(links, At(r, n), At(t, 1)) BY <2>1, <1>5, <1>6, <1>8 DEF push_chain_front
    <3>2. ends' = [ends EXCEPT ![c].head = ends[d].head, ![d] = Empty] BY <2>1, <1>5, <1>6, <1>8 DEF push_chain_front
    <3>3. EndsOf(r \o t) = [head |-> At(r, 1), tail |-> At(t, m)]
      <4>1. \A i \in Int : At(r \o t, i) = IF i <= n THEN At(r, i) ELSE At(t, i - n) BY <1>4, JoinAt
      <4>2. Len(r \o t) = n + m BY <1>3, <1>4, JoinIs
      <4>3. At(r \o t, 1) = At(r, 1) BY <4>1, <2>1
      <4>4. At(r \o t, n + m) = At(t, m)
        <5>1. ~(n + m <= n) /\ n + m - n = m BY <2>1
        <5> QED BY <4>1, <5>1
      <4> QED BY <4>2, <4>3, <4>4 DEF EndsOf
    <3>4. ends' = [ends EXCEPT ![c] = EndsOf(s[d] \o s[c]), ![d] = Empty]
      <4>1. [ends[c] EXCEPT !.head = ends[d].head] = EndsOf(s[d] \o s[c]) BY <3>3, <1>1, <1>2, <1>5
      <4> QED BY <3>2, <4>1, <1>7
    <3>5. links' = Joined(links, At(s[d], Len(s[d])), At(s[c], 1)) BY <3>1, <1>1, <1>2, <1>4
    <3>6. Len(s[d]) > 0 /\ Len(s[c]) > 0 BY <2>1, <1>1, <1>2, <1>3, <1>4
    <3>7. Holds([s EXCEPT ![c] = s[d] \o s[c], ![d] = << >>], links', ends')
      BY <3>4, <3>5, <3>6, JoinHolds
    <3>8. Changes(s, [s EXCEPT ![c] = s[d] \o s[c], ![d] = << >>], Chains, Members) BY DEF Changes
    <3> QED BY <3>7, <3>8 DEF Goes
  <2>2. CASE ~(m > 0 /\ n > 0)
    <3>1. swap_chains(c, d) BY <2>2, <1>5, <1>6, <1>8 DEF push_chain_front
    <3> QED BY <3>1, SwapGoes
  <2> QED BY <2>1, <2>2
<1>9. CASE push_chain_back(c, d)
  <2>1. CASE m > 0 /\ n > 0
    <3>1. links' = Joined(links, At(t, m), At(r, 1)) BY <2>1, <1>5, <1>6, <1>9 DEF push_chain_back
    <3>2. ends' = [ends EXCEPT ![c].tail = ends[d].tail, ![d] = Empty] BY <2>1, <1>5, <1>6, <1>9 DEF push_chain_back
    <3>3. EndsOf(t \o r) = [head |-> At(t, 1), tail |-> At(r, n)]
      <4>1. \A i \in Int : At(t \o r, i) = IF i <= m THEN At(t, i) ELSE At(r, i - m) BY <1>3, JoinAt
      <4>2. Len(t \o r) = m + n BY <1>3, <1>4, JoinIs
      <4>3. At(t \o r, 1) = At(t, 1) BY <4>1, <2>1
      <4>4. At(t \o r, m + n) = At(r, n)
        <5>1. ~(m + n <= m) /\ m + n - m = n BY <2>1
        <5> QED BY <4>1, <5>1
      <4> QED BY <4>2, <4>3, <4>4 DEF EndsOf
    <3>4. ends' = [ends EXCEPT ![c] = EndsOf(s[c] \o s[d]), ![d] = Empty]
      <4>1. [ends[c] EXCEPT !.tail = ends[d].tail] = EndsOf(s[c] \o s[d]) BY <3>3, <1>1, <1>2, <1>5
      <4> QED BY <3>2, <4>1, <1>7
    <3>5. links' = Joined(links, At(s[c], Len(s[c])), At(s[d], 1)) BY <3>1, <1>1, <1>2, <1>3
    <3>6. Len(s[d]) > 0 /\ Len(s[c]) > 0 BY <2>1, <1>1, <1>2, <1>3, <1>4
    <3>7. Holds([s EXCEPT ![c] = s[c] \o s[d], ![d] = << >>], links', ends')
      BY <3>4, <3>5, <3>6, JoinHolds
    <3>8. Changes(s, [s EXCEPT ![c] = s[c] \o s[d], ![d] = << >>], Chains, Members) BY DEF Changes
    <3> QED BY <3>7, <3>8 DEF Goes
  <2>2. CASE ~(m > 0 /\ n > 0)
    <3>1. swap_chains(c, d) BY <2>2, <1>5, <1>6, <1>9 DEF push_chain_back
    <3> QED BY <3>1, SwapGoes
  <2> QED BY <2>1, <2>2
<1> QED BY <1>8, <1>9

\* The chains as an iterator meets them
Met == [c \in Chains |-> Forth(c)]

\* What an iterator meets is the chains that the links hold, from either end.
LEMMA MetIs ==
  ASSUME NEW s, Holds(s, links, ends)
  PROVE  Met = s /\ \A c \in Chains : Forth(c) = s[c] /\ Back(c) = Reverse(s[c])
<1>1. \A c \in Chains : Forth(c) = s[c] /\ Back(c) = Reverse(s[c])
  BY Reads DEF Forth, Back
<1>2. s = [c \in Chains |-> s[c]] BY DEF Holds
<1> QED BY <1>1, <1>2 DEF Met

\* The same, after a step
LEMMA MetNext ==
  ASSUME NEW s, Holds(s, links', ends')
  PROVE  Met' = s
<1>1. \A c \in Chains : Walk(ends'[c].head, [i \in Members |-> links'[i].next]) = s[c]
  BY Reads
<1>2. s = [c \in Chains |-> s[c]] BY DEF Holds
<1>3. Met' = [c \in Chains |-> Walk(ends'[c].head, [i \in Members |-> links'[i].next])]
  BY DEF Met, Forth
<1> QED BY <1>1, <1>2, <1>3

\* Initially all chains are empty.
LEMMA DoubleInvInit == DoubleInit => DoubleInv /\ Met = [c \in Chains |-> << >>]
<1> SUFFICES ASSUME DoubleInit PROVE DoubleInv /\ Met = [c \in Chains |-> << >>]
  OBVIOUS
<1> DEFINE s == [c \in Chains |-> << >>]
<1>1. << >> \in Seq(Members) /\ Len(<< >>) = 0 BY EmptySeq
<1>2. links \in Wiring /\ \A m \in Members : links[m] = Self(m)
  BY DEF DoubleInit, Wiring, Pointer, Self
<1>3. EndsOf(<< >>) = Empty BY <1>1 DEF EndsOf, At, Empty
<1>4. Holds(s, links, ends)
  BY <1>1, <1>2, <1>3 DEF DoubleInit, Holds, Distinct, Chained
<1> QED BY <1>4, MetIs DEF DoubleInv

\* A step from the chains s
LEMMA DoubleGoes ==
  ASSUME NEW s, Holds(s, links, ends), DoubleNext
  PROVE  Goes(s, links', ends')
<1>1. \A c \in Chains : \A m : m \in Range(Forth(c)) <=> InChain(s[c], m)
  BY MetIs DEF Range, InChain
<1>2. PICK c \in Chains :
    \/ \E item \in Members :
         \/ push_front_member(c, item) \/ push_back_member(c, item)
         \/ item \in Range(Forth(c)) /\ remove(c, item)
         \/ \E at \in Range(Forth(c)) : insert_member(c, item, at)
    \/ \E d \in Chains \ {c} : push_chain_front(c, d) \/ push_chain_back(c, d) \/ swap_chains(c, d)
  BY DEF DoubleNext
<1>3. ASSUME NEW item \in Members, push_front_member(c, item) PROVE Goes(s, links', ends')
  BY <1>3, PushFrontGoes
<1>4. ASSUME NEW item \in Members, push_back_member(c, item) PROVE Goes(s, links', ends')
  BY <1>4, PushBackGoes
<1>5. ASSUME NEW item \in Members, item \in Range(Forth(c)), remove(c, item) PROVE Goes(s, links', ends')
  BY <1>1, <1>5, RemoveGoes
<1>6. ASSUME NEW item \in Members, NEW at \in Range(Forth(c)), insert_member(c, item, at) PROVE Goes(s, links', ends')
  BY <1>1, <1>6, InsertGoes
<1>7. ASSUME NEW d \in Chains \ {c}, push_chain_front(c, d) \/ push_chain_back(c, d) PROVE Goes(s, links', ends')
  BY <1>7, PushChainGoes
<1>8. ASSUME NEW d \in Chains \ {c}, swap_chains(c, d) PROVE Goes(s, links', ends')
  BY <1>8, SwapGoes
<1> QED BY <1>2, <1>3, <1>4, <1>5, <1>6, <1>7, <1>8

\* A step keeps the links those of some chains, and is one of the pair of sequences.
LEMMA DoubleStep ==
  DoubleInv /\ [DoubleNext]_doubleVars => DoubleInv' /\ [Ordered!ChainPairNext]_Met
<1> SUFFICES ASSUME DoubleInv, [DoubleNext]_doubleVars PROVE DoubleInv' /\ [Ordered!ChainPairNext]_Met
  OBVIOUS
<1>1. PICK s : Holds(s, links, ends) BY DEF DoubleInv
<1>2. CASE UNCHANGED doubleVars
  <2>1. links' = links /\ ends' = ends BY <1>2 DEF doubleVars
  <2>2. DoubleInv' BY <1>1, <2>1 DEF DoubleInv
  <2>3. Met' = Met BY <1>1, <2>1, MetIs, MetNext
  <2> QED BY <2>2, <2>3
<1>3. CASE DoubleNext
  <2>1. PICK s2 : Holds(s2, links', ends') /\ Changes(s, s2, Chains, Members) BY <1>1, <1>3, DoubleGoes DEF Goes
  <2>2. DoubleInv' BY <2>1 DEF DoubleInv
  <2>3. Met = s /\ Met' = s2 BY <1>1, <2>1, MetIs, MetNext
  <2>4. Ordered!ChainPairNext
    <3>1. \A m : m \in Ordered!Linked <=> \E c \in Chains : InChain(s[c], m)
      <4>1. \A m : m \in Ordered!Linked <=> \E c \in Chains : m \in Range(Met[c])
        BY DEF Ordered!Linked, Ordered!Range, Range, Met
      <4> QED BY <4>1, <2>3 DEF Range, InChain
    <3>2. PICK c \in Chains :
            \/ \E item \in Members : /\ \A d \in Chains : ~InChain(s[d], item)
                                     /\ \E k \in 1 .. Len(s[c]) + 1 : s2 = [s EXCEPT ![c] = InsertAt(s[c], k, item)]
            \/ \E k \in 1 .. Len(s[c]) : s2 = [s EXCEPT ![c] = RemoveAt(s[c], k)]
            \/ \E d \in Chains :
                 /\ c # d
                 /\ \/ s2 = [s EXCEPT ![c] = s[c] \o s[d], ![d] = << >>]
                    \/ s2 = [s EXCEPT ![c] = s[d] \o s[c], ![d] = << >>]
                    \/ s2 = [s EXCEPT ![c] = s[d], ![d] = s[c]]
      BY <2>1 DEF Changes
    <3>3. DOMAIN s[c] = 1 .. Len(s[c])
      <4>1. s[c] \in Seq(Members) BY <1>1, OneChain
      <4> QED BY <4>1, LenProperties
    <3>4. ASSUME NEW item \in Members, \A d \in Chains : ~InChain(s[d], item),
                 NEW k \in 1 .. Len(s[c]) + 1, s2 = [s EXCEPT ![c] = InsertAt(s[c], k, item)]
          PROVE  Ordered!Add(c, item)
      <4>1. item \notin Ordered!Linked BY <3>1, <3>4
      <4>2. Met' = [Met EXCEPT ![c] = InsertAt(@, k, item)] /\ k \in 1 .. Len(Met[c]) + 1 BY <2>3, <3>4
      <4> QED BY <4>1, <4>2 DEF Ordered!Add, Ordered!InsertAt, InsertAt, Met
    <3>5. ASSUME NEW k \in 1 .. Len(s[c]), s2 = [s EXCEPT ![c] = RemoveAt(s[c], k)]
          PROVE  Ordered!Take(c)
      <4>1. Met' = [Met EXCEPT ![c] = RemoveAt(@, k)] /\ k \in DOMAIN Met[c] BY <2>3, <3>3, <3>5
      <4> QED BY <4>1 DEF Ordered!Take, Ordered!RemoveAt, RemoveAt, Met
    <3>6. ASSUME NEW d \in Chains, c # d,
                 \/ s2 = [s EXCEPT ![c] = s[c] \o s[d], ![d] = << >>]
                 \/ s2 = [s EXCEPT ![c] = s[d] \o s[c], ![d] = << >>]
          PROVE  Ordered!Splice(c, d)
      <4>1. Met' \in {[Met EXCEPT ![c] = @ \o Met[d], ![d] = << >>], [Met EXCEPT ![c] = Met[d] \o @, ![d] = << >>]}
        BY <2>3, <3>6
      <4> QED BY <4>1, <3>6 DEF Ordered!Splice, Met
    <3>7. ASSUME NEW d \in Chains, s2 = [s EXCEPT ![c] = s[d], ![d] = s[c]]
          PROVE  Ordered!Swap(c, d)
      <4>1. Met' = [Met EXCEPT ![c] = Met[d], ![d] = Met[c]] BY <2>3, <3>7
      <4> QED BY <4>1 DEF Ordered!Swap, Met
    <3> QED BY <3>2, <3>4, <3>5, <3>6, <3>7 DEF Ordered!ChainPairNext
  <2> QED BY <2>2, <2>4
<1> QED BY <1>2, <1>3

\* The links of a MultiDoubleChain are always those of some sequences, in which nothing
\* is twice, and what is in none of them links to itself (mdoublechain.h).
THEOREM DoubleInvariant == DoubleSpec => []DoubleInv
<1> QED BY DoubleInvInit, DoubleStep, PTL DEF DoubleSpec

\* A MultiDoubleChain implements a sequence, whichever end it is read from: every push,
\* insert, remove and swap is the one of ChainPair, however many items and chains there are.
THEOREM DoubleImplementsSequences == DoubleSpec => ImplementsSequencesBothWays
<1>1. DoubleInv => /\ \A c \in Chains : Back(c) = Reverse(Forth(c))
                   /\ \A item \in Members : Unlinked(item) <=> item \notin Ordered!Linked
  <2> SUFFICES ASSUME DoubleInv
               PROVE  /\ \A c \in Chains : Back(c) = Reverse(Forth(c))
                      /\ \A item \in Members : Unlinked(item) <=> item \notin Ordered!Linked
    OBVIOUS
  <2>1. PICK s : Holds(s, links, ends) BY DEF DoubleInv
  <2>2. Met = s /\ \A c \in Chains : Forth(c) = s[c] /\ Back(c) = Reverse(s[c]) BY <2>1, MetIs
  <2>3. \A item \in Members : Unlinked(item) <=> \A c \in Chains : ~InChain(s[c], item)
    BY <2>1, OutsideIs DEF Unlinked
  <2>4. \A m : m \in Ordered!Linked <=> \E c \in Chains : InChain(s[c], m)
    <3>1. \A m : m \in Ordered!Linked <=> \E c \in Chains : m \in Range(Met[c])
      BY DEF Ordered!Linked, Ordered!Range, Range, Met
    <3> QED BY <3>1, <2>2 DEF Range, InChain
  <2> QED BY <2>2, <2>3, <2>4
<1>2. DoubleInit => [c \in Chains |-> Forth(c)] = [c \in Chains |-> << >>]
  BY DoubleInvInit DEF Met
<1>3. DoubleInv /\ [DoubleNext]_doubleVars => [Ordered!ChainPairNext]_[c \in Chains |-> Forth(c)]
  BY DoubleStep DEF Met
<1> QED BY <1>1, <1>2, <1>3, DoubleInvariant, PTL
        DEF DoubleSpec, ImplementsSequencesBothWays, Ordered!ChainPairSpec

-----------------------------------------------------------------------------
(* ForwardChain: links that are left over do not matter.                   *)

\* What a link can hold, and what a head and a tail can
Target == Items \cup {None, Wild}
Place  == Items \cup {None}

\* The links n lead through t, and from its last item nowhere.
Row(n, t) ==
  \A i \in 1 .. Len(t) : IF i < Len(t) THEN n[t[i]] = t[i + 1] ELSE n[t[i]] \in {None, Wild}

\* h and e are the head and the tail of t; those of an empty chain can be stale.
Bounds(t, h, e) == IF Len(t) = 0 THEN h = None ELSE h = t[1] /\ e = t[Len(t)]

\* n, h and e are the links, heads and tails of the chains s.
Lists(s, n, h, e) ==
  /\ s \in [Names -> Seq(Items)]
  /\ n \in [Items -> Target] /\ h \in [Names -> Place] /\ e \in [Names -> Place]
  /\ Distinct(s, Names)
  /\ \A c \in Names : Row(n, s[c]) /\ Bounds(s[c], h[c], e[c])
  /\ \A m \in Items : (\A c \in Names : ~InChain(s[c], m)) => n[m] = m

\* Some chains are what the links hold.
ForwardInv == \E s : Lists(s, next, head, tail)

\* A chain of Lists alone
LEMMA OneRow ==
  ASSUME NEW s, NEW n, NEW h, NEW e, Lists(s, n, h, e), NEW c \in Names
  PROVE  /\ s[c] \in Seq(Items) /\ Row(n, s[c]) /\ Bounds(s[c], h[c], e[c]) /\ Once(s[c], Len(s[c]))
         /\ Len(s[c]) \in Nat /\ \A i \in 1 .. Len(s[c]) : s[c][i] \in Items
         /\ Len(s[c]) > 0 => h[c] # None
<1>1. s[c] \in Seq(Items) /\ Row(n, s[c]) /\ Bounds(s[c], h[c], e[c]) BY DEF Lists
<1>2. Once(s[c], Len(s[c])) BY DEF Lists, Distinct, Once
<1>3. Len(s[c]) \in Nat /\ \A i \in 1 .. Len(s[c]) : s[c][i] \in Items BY <1>1, AnySeq
<1>4. Len(s[c]) > 0 => h[c] # None
  <2>1. Len(s[c]) > 0 => s[c][1] \in Items BY <1>3
  <2> QED BY <1>1, <1>3, <2>1, ForwardAssumption DEF Bounds
<1> QED BY <1>1, <1>2, <1>3, <1>4

\* An item that is in no chain is one that links to itself.
LEMMA FreeIs ==
  ASSUME NEW s, NEW n, NEW h, NEW e, Lists(s, n, h, e), NEW m \in Items
  PROVE  n[m] = m <=> \A c \in Names : ~InChain(s[c], m)
<1> SUFFICES ASSUME NEW c \in Names, InChain(s[c], m) PROVE n[m] # m
  BY DEF Lists
<1>1. PICK t \in Seq(Items) : t = s[c] BY OneRow
<1>2. Row(n, t) /\ Once(t, Len(t)) /\ Len(t) \in Nat BY <1>1, OneRow
<1>3. PICK i \in 1 .. Len(t) : t[i] = m BY <1>1, AnySeq
<1>4. CASE i < Len(t)
  <2>1. i + 1 \in 1 .. Len(t) /\ i # i + 1 BY <1>2, <1>4
  <2> QED BY <2>1, <1>2, <1>3, <1>4 DEF Row, Once
<1>5. CASE ~(i < Len(t))
  <2>1. n[m] \in {None, Wild} BY <1>2, <1>3, <1>5 DEF Row
  <2> QED BY <2>1, ForwardAssumption
<1> QED BY <1>4, <1>5

\* Contents, of links and ends that are given
Trail(n, from, to) ==
  LET path[k \in 1 .. Cardinality(Items)] ==
        IF k = 1 THEN from ELSE IF path[k - 1] \in Items THEN n[path[k - 1]] ELSE Wild
      stops == {k \in DOMAIN path : path[k] = to}
  IN IF from = None THEN << >>
     ELSE IF stops = {} THEN << None >>
     ELSE SubSeq(path, 1, CHOOSE k \in stops : \A j \in stops : k <= j)

\* A loop from the head to the tail goes through the chain, whatever the last item links to.
LEMMA TrailIs ==
  ASSUME NEW t \in Seq(Items), Once(t, Len(t)), NEW n \in [Items -> Target], Row(n, t),
         NEW from, NEW to, Bounds(t, from, to)
  PROVE  Trail(n, from, to) = t
<1>1. PICK z \in Nat : z = Len(t) BY AnySeq
<1>2. \A i \in 1 .. z : t[i] \in Items BY <1>1, AnySeq
<1>3. CASE z = 0
  <2>1. t = << >> BY <1>1, <1>3, EmptySeq
  <2>2. from = None BY <1>1, <1>3 DEF Bounds
  <2> QED BY <2>1, <2>2 DEF Trail
<1>4. CASE z > 0
  <2> DEFINE N == Cardinality(Items)
             Path(f) == [k \in 1 .. N |-> IF k = 1 THEN from ELSE IF f[k - 1] \in Items THEN n[f[k - 1]] ELSE Wild]
             way  == [k \in 1 .. N |-> IF k <= z THEN t[k] ELSE IF k = z + 1 THEN n[t[z]] ELSE Wild]
             path == CHOOSE f : f = Path(f)
             at   == {k \in DOMAIN path : path[k] = to}
             last == CHOOSE k \in at : \A j \in at : k <= j
  <2>1. from = t[1] /\ to = t[z] /\ from # None
    BY <1>1, <1>2, <1>4, ForwardAssumption DEF Bounds
  <2>2. /\ \A i \in 1 .. z : i < z => n[t[i]] = t[i + 1]
        /\ n[t[z]] \in {None, Wild}
    BY <1>1, <1>4 DEF Row
  <2>3. N \in Nat /\ z <= N BY <1>1, NoLonger, ForwardAssumption
  <2>4. \A k \in 1 .. N : way[k] = Path(way)[k]
    <3> SUFFICES ASSUME NEW k \in 1 .. N PROVE way[k] = Path(way)[k]
      OBVIOUS
    <3>1. CASE k = 1 BY <3>1, <1>4, <2>1
    <3>2. CASE k # 1
      <4>1. k - 1 \in 1 .. N BY <3>2, <2>3
      <4>2. PICK j \in 1 .. N : j = k - 1 /\ k = j + 1 BY <4>1, <2>3
      <4>3. way[j] = IF j <= z THEN t[j] ELSE IF j = z + 1 THEN n[t[z]] ELSE Wild OBVIOUS
      <4>4. Path(way)[k] = IF way[j] \in Items THEN n[way[j]] ELSE Wild BY <3>2, <4>2
      <4>5. way[k] = IF k <= z THEN t[k] ELSE IF k = z + 1 THEN n[t[z]] ELSE Wild OBVIOUS
      <4> HIDE DEF way, Path
      <4>6. CASE j < z
        <5>1. j \in 1 .. z /\ k <= z BY <4>6, <4>2, <2>3
        <5>2. t[j] \in Items /\ n[t[j]] = t[j + 1] BY <5>1, <4>6, <1>2, <2>2
        <5> QED BY <4>2, <4>3, <4>4, <4>5, <4>6, <5>1, <5>2
      <4>7. CASE j = z
        <5>1. j \in 1 .. z /\ ~(k <= z) /\ k = z + 1 BY <4>7, <4>2, <2>3
        <5>2. t[j] \in Items BY <5>1, <1>2
        <5> QED BY <4>3, <4>4, <4>5, <4>7, <5>1, <5>2
      <4>8. CASE j > z
        <5>1. ~(k <= z) /\ k # z + 1 /\ ~(j <= z) BY <4>8, <4>2, <2>3
        <5>2. way[j] \notin Items BY <4>3, <5>1, <2>2, ForwardAssumption
        <5> QED BY <4>4, <4>5, <5>1, <5>2
      <4> QED BY <4>6, <4>7, <4>8, <2>3
    <3> QED BY <3>1, <3>2
  <2>5. way = Path(way) BY <2>4
  <2>6. path = Path(path)
    <3> HIDE DEF Path, way
    <3> QED BY <2>5
  <2>7. DOMAIN path = 1 .. N /\ \A k \in 1 .. N : path[k] = Path(path)[k]
    <3>1. DOMAIN Path(path) = 1 .. N OBVIOUS
    <3> HIDE DEF Path, path
    <3> QED BY <2>6, <3>1
  <2>8. \A k \in 1 .. z : path[k] = t[k]
    <3> DEFINE T == {k \in Nat : k + 1 \in 1 .. z => path[k + 1] = t[k + 1]}
    <3> HIDE DEF path, way
    <3>1. 0 \in T
      <4>1. 1 \in 1 .. N /\ path[1] = from BY <1>4, <2>3, <2>7
      <4> QED BY <4>1, <2>1
    <3>2. \A k \in Nat : k \in T => k + 1 \in T
      <4> SUFFICES ASSUME NEW k \in Nat, k \in T, k + 2 \in 1 .. z PROVE path[k + 2] = t[k + 2]
        OBVIOUS
      <4>1. k + 1 \in 1 .. z /\ k + 1 < z /\ k + 2 \in 1 .. N /\ k + 1 + 1 = k + 2 BY <2>3
      <4>2. path[k + 1] = t[k + 1] BY <4>1
      <4>3. path[k + 2] = IF path[k + 1] \in Items THEN n[path[k + 1]] ELSE Wild
        <5>1. path[k + 2] = Path(path)[k + 2] BY <4>1, <2>7
        <5>2. Path(path)[k + 2] = IF path[(k + 2) - 1] \in Items THEN n[path[(k + 2) - 1]] ELSE Wild
          BY <4>1
        <5>3. (k + 2) - 1 = k + 1 OBVIOUS
        <5> HIDE DEF Path
        <5> QED BY <5>1, <5>2, <5>3
      <4>4. n[t[k + 1]] = t[k + 2]
        <5>1. n[t[k + 1]] = t[k + 1 + 1] BY <4>1, <2>2
        <5> QED BY <5>1, <4>1
      <4>5. t[k + 1] \in Items BY <4>1, <1>2
      <4> QED BY <4>2, <4>3, <4>4, <4>5
    <3>3. \A k \in Nat : k \in T
      <4> HIDE DEF T
      <4> QED BY <3>1, <3>2, SetInduction
    <3> SUFFICES ASSUME NEW k \in 1 .. z PROVE path[k] = t[k]
      OBVIOUS
    <3>4. k - 1 \in Nat /\ (k - 1) + 1 = k OBVIOUS
    <3>5. k - 1 \in T BY <3>3, <3>4
    <3> QED BY <3>4, <3>5
  <2>9. z \in at /\ \A k \in at : z <= k
    <3> HIDE DEF path
    <3>1. z \in at BY <1>4, <2>1, <2>3, <2>7, <2>8
    <3>2. \A k \in at : z <= k
      <4> SUFFICES ASSUME NEW k \in at, k < z PROVE FALSE
        BY <2>3, <2>7
      <4>1. k \in 1 .. z BY <2>3, <2>7
      <4>2. t[k] = t[z] BY <4>1, <2>1, <2>8
      <4>3. z \in 1 .. z BY <1>4
      <4> QED BY <4>1, <4>2, <4>3, <1>1 DEF Once
    <3> QED BY <3>1, <3>2
  <2>10. last = z
    <3>1. \A k \in at : k \in Nat
      <4> HIDE DEF path
      <4> QED BY <2>3, <2>7
    <3> HIDE DEF at
    <3>2. last \in at /\ \A j \in at : last <= j BY <2>9
    <3> HIDE DEF last
    <3>3. last <= z /\ z <= last /\ last \in Nat BY <3>1, <3>2, <2>9
    <3> QED BY <3>3
  <2>11. Trail(n, from, to) = SubSeq(path, 1, last)
    BY <2>1, <2>9 DEF Trail
  <2>12. Trail(n, from, to) = SubSeq(path, 1, z) BY <2>10, <2>11
  <2>13. SubSeq(path, 1, z) = t
    <3> HIDE DEF path
    <3>1. \A k \in 1 .. z : path[k] \in Items BY <1>2, <2>8
    <3>2. /\ SubSeq(path, 1, z) \in Seq(Items)
          /\ Len(SubSeq(path, 1, z)) = IF 1 <= z THEN z - 1 + 1 ELSE 0
          /\ \A k \in 1 .. z - 1 + 1 : SubSeq(path, 1, z)[k] = path[1 + k - 1]
      BY <3>1, SubSeqProperties
    <3>3. PICK u \in Seq(Items) : u = SubSeq(path, 1, z) BY <3>2
    <3>4. Len(u) = z BY <1>4, <3>2, <3>3
    <3>5. \A k \in 1 .. z : u[k] = t[k]
      <4> SUFFICES ASSUME NEW k \in 1 .. z PROVE u[k] = t[k]
        OBVIOUS
      <4>1. k \in 1 .. z - 1 + 1 /\ 1 + k - 1 = k OBVIOUS
      <4>2. u[k] = path[k] BY <3>2, <3>3, <4>1
      <4> QED BY <4>2, <2>8
    <3>6. u = t BY <3>4, <3>5, <1>1, SeqEqual
    <3> QED BY <3>3, <3>6
  <2> QED BY <2>12, <2>13
<1> QED BY <1>3, <1>4

\* The heads and tails of the chains but c stay.
Others(h2, h, e2, e, c) == \A d \in Names : d # c => h2[d] = h[d] /\ e2[d] = e[d]

\* The items of u were in t or in no chain; those that leave t link to themselves, and
\* only the links of items of t and u change.
Shifts(t, u, n, n2) ==
  \A x \in Items :
    /\ InChain(u, x) => InChain(t, x) \/ n[x] = x
    /\ ~InChain(t, x) /\ ~InChain(u, x) => n2[x] = n[x]
    /\ InChain(t, x) /\ ~InChain(u, x) => n2[x] = x

\* One chain changes, and the links of its items do.
LEMMA UpdateOne ==
  ASSUME NEW s, NEW n, NEW h, NEW e, Lists(s, n, h, e), NEW c \in Names, NEW u \in Seq(Items),
         Once(u, Len(u)),
         NEW n2 \in [Items -> Target], NEW h2 \in [Names -> Place], NEW e2 \in [Names -> Place],
         Row(n2, u), Bounds(u, h2[c], e2[c]), Others(h2, h, e2, e, c), Shifts(s[c], u, n, n2)
  PROVE  Lists([s EXCEPT ![c] = u], n2, h2, e2)
<1>1. /\ s \in [Names -> Seq(Items)] /\ n \in [Items -> Target] /\ Distinct(s, Names)
      /\ \A d \in Names : Row(n, s[d]) /\ Bounds(s[d], h[d], e[d])
      /\ \A x \in Items : (\A d \in Names : ~InChain(s[d], x)) => n[x] = x
  BY DEF Lists
<1>2. PICK s2 : s2 = [s EXCEPT ![c] = u] OBVIOUS
<1>9. /\ \A d \in Names : d # c => h2[d] = h[d] /\ e2[d] = e[d]
      /\ \A x \in Items : InChain(u, x) => InChain(s[c], x) \/ n[x] = x
      /\ \A x \in Items : ~InChain(s[c], x) /\ ~InChain(u, x) => n2[x] = n[x]
      /\ \A x \in Items : InChain(s[c], x) /\ ~InChain(u, x) => n2[x] = x
  BY DEF Others, Shifts
<1>3. s2 \in [Names -> Seq(Items)] /\ s2[c] = u /\ \A d \in Names : d # c => s2[d] = s[d]
  BY <1>1, <1>2
<1>4. \A d \in Names, x \in Items : d # c /\ InChain(s[d], x) => ~InChain(s[c], x) /\ ~InChain(u, x)
  <2> SUFFICES ASSUME NEW d \in Names, NEW x \in Items, d # c, InChain(s[d], x)
               PROVE  ~InChain(s[c], x) /\ ~InChain(u, x)
    OBVIOUS
  <2>1. ~InChain(s[c], x)
    <3> SUFFICES ASSUME InChain(s[c], x) PROVE FALSE
      OBVIOUS
    <3>1. s[c] \in Seq(Items) /\ s[d] \in Seq(Items) BY <1>1
    <3>2. PICK i \in 1 .. Len(s[d]) : s[d][i] = x BY <3>1, AnySeq
    <3>3. PICK j \in 1 .. Len(s[c]) : s[c][j] = x BY <3>1, AnySeq
    <3> QED BY <3>2, <3>3, <1>1 DEF Distinct
  <2>2. n[x] # x BY FreeIs
  <2> QED BY <2>1, <2>2, <1>9
<1>5. Distinct(s2, Names)
  <2> SUFFICES ASSUME NEW f \in Names, NEW g \in Names,
                      NEW i \in 1 .. Len(s2[f]), NEW j \in 1 .. Len(s2[g]), s2[f][i] = s2[g][j]
               PROVE  f = g /\ i = j
    BY DEF Distinct
  <2>1. CASE f = c /\ g = c BY <2>1, <1>3 DEF Once
  <2>2. CASE f # c /\ g # c
    <3>1. s2[f] = s[f] /\ s2[g] = s[g] BY <2>2, <1>3
    <3> QED BY <3>1, <1>1 DEF Distinct
  <2>3. s2[f] \in Seq(Items) /\ s2[g] \in Seq(Items) BY <1>3
  <2>4. PICK x \in Items : x = s2[f][i] BY <2>3, AnySeq
  <2>5. InChain(s2[f], x) /\ InChain(s2[g], x) BY <2>3, <2>4, AnySeq
  <2>6. CASE f = c /\ g # c BY <2>5, <2>6, <1>3, <1>4
  <2>7. CASE f # c /\ g = c BY <2>5, <2>7, <1>3, <1>4
  <2> QED BY <2>1, <2>2, <2>6, <2>7
<1>6. \A d \in Names : Row(n2, s2[d]) /\ Bounds(s2[d], h2[d], e2[d])
  <2> SUFFICES ASSUME NEW d \in Names, d # c PROVE Row(n2, s[d]) /\ Bounds(s[d], h2[d], e2[d])
    BY <1>3
  <2>1. Row(n, s[d]) /\ Bounds(s[d], h2[d], e2[d]) BY <1>1, <1>9
  <2>2. \A i \in 1 .. Len(s[d]) : n2[s[d][i]] = n[s[d][i]]
    <3> SUFFICES ASSUME NEW i \in 1 .. Len(s[d]) PROVE n2[s[d][i]] = n[s[d][i]]
      OBVIOUS
    <3>1. s[d] \in Seq(Items) BY <1>1
    <3>2. PICK x \in Items : x = s[d][i] BY <3>1, AnySeq
    <3>3. InChain(s[d], x) BY <3>1, <3>2, AnySeq
    <3> QED BY <3>2, <3>3, <1>4, <1>9
  <2> QED BY <2>1, <2>2 DEF Row
<1>7. \A x \in Items : (\A d \in Names : ~InChain(s2[d], x)) => n2[x] = x
  <2> SUFFICES ASSUME NEW x \in Items, \A d \in Names : ~InChain(s2[d], x) PROVE n2[x] = x
    OBVIOUS
  <2>1. ~InChain(u, x) /\ \A d \in Names : d # c => ~InChain(s[d], x) BY <1>3
  <2>2. CASE InChain(s[c], x) BY <2>1, <2>2, <1>9
  <2>3. CASE ~InChain(s[c], x)
    <3>1. n[x] = x BY <2>1, <2>3, <1>1
    <3> QED BY <2>1, <2>3, <3>1, <1>9
  <2> QED BY <2>2, <2>3
<1>8. Lists(s2, n2, h2, e2) BY <1>3, <1>5, <1>6, <1>7 DEF Lists
<1> QED BY <1>2, <1>8

\* But for the items of A and for the last one of t, the links are the same.
Nearly(n2, n, t, A) ==
  \A x \in Items \ A :
    n2[x] = n[x] \/ (Len(t) > 0 /\ x = t[Len(t)] /\ n2[x] \in {None, Wild})

\* An item is put at place k, its neighbour before leads to it, and it to the one behind.
LEMMA PutLists ==
  ASSUME NEW s, NEW n, NEW h, NEW e, Lists(s, n, h, e), NEW c \in Names, NEW x \in Items, n[x] = x,
         NEW t, t = s[c], NEW z, z = Len(t), NEW k \in 1 .. z + 1,
         NEW n2 \in [Items -> Target], NEW h2 \in [Names -> Place], NEW e2 \in [Names -> Place],
         Others(h2, h, e2, e, c),
         h2[c] = IF k = 1 THEN x ELSE h[c], e2[c] = IF k = z + 1 THEN x ELSE e[c],
         IF k = z + 1 THEN n2[x] \in {None, Wild} ELSE n2[x] = t[k],
         k > 1 => n2[t[k - 1]] = x,
         Nearly(n2, n, t, IF k > 1 THEN {x, t[k - 1]} ELSE {x})
  PROVE  Lists([s EXCEPT ![c] = InsertAt(t, k, x)], n2, h2, e2)
<1>1. /\ t \in Seq(Items) /\ Row(n, t) /\ Bounds(t, h[c], e[c]) /\ Once(t, z) /\ z \in Nat
      /\ \A i \in 1 .. z : t[i] \in Items
  BY OneRow
<1>2. k \in Int /\ 1 <= k /\ k <= z + 1 BY <1>1
<1>3. PICK u \in Seq(Items) : u = InsertAt(t, k, x) /\ Len(u) = z + 1 /\ Inserted(u, t, z, k, x)
  <2>1. k \in 1 .. Len(t) + 1 BY <1>1
  <2>2. InsertAt(t, k, x) \in Seq(Items) /\ Len(InsertAt(t, k, x)) = Len(t) + 1 BY <1>1, <2>1, InsertIs
  <2>3. Inserted(InsertAt(t, k, x), t, Len(t), k, x) BY <1>1, <2>1, InsertIs
  <2> QED BY <2>2, <2>3
<1>4. ~InChain(t, x) BY FreeIs
<1>5. Missing(t, z, x) BY <1>1, <1>4, AnySeq DEF Missing
<1>6. Once(u, z + 1) /\ Gains(u, t, z, x) BY <1>1, <1>2, <1>3, <1>5, InsertOnce
<1>7. \A y : InChain(u, y) <=> InChain(t, y) \/ y = x
  <2>1. \A y : InChain(t, y) <=> \E i \in 1 .. z : t[i] = y BY <1>1, AnySeq
  <2>2. \A y : InChain(u, y) <=> \E i \in 1 .. z + 1 : u[i] = y BY <1>3, AnySeq
  <2>3. k \in 1 .. z + 1 /\ u[k] = x BY <1>2, <1>3 DEF Inserted
  <2> SUFFICES ASSUME NEW y PROVE InChain(u, y) <=> InChain(t, y) \/ y = x
    OBVIOUS
  <2>4. InChain(u, y) => InChain(t, y) \/ y = x BY <2>1, <2>2, <1>6 DEF Gains
  <2>5. InChain(t, y) => InChain(u, y)
    <3> SUFFICES ASSUME NEW i \in 1 .. z, t[i] = y PROVE InChain(u, y)
      BY <2>1
    <3>1. PICK j \in 1 .. z + 1 : u[j] = t[i] BY <1>6 DEF Gains
    <3> QED BY <3>1, <2>2
  <2> QED BY <2>2, <2>3, <2>4, <2>5
<1>8. \A i \in 1 .. z : t[i] # x BY <1>5 DEF Missing
<1>9. Row(n2, u)
  <2> SUFFICES ASSUME NEW i \in 1 .. z + 1
               PROVE  IF i < z + 1 THEN n2[u[i]] = u[i + 1] ELSE n2[u[i]] \in {None, Wild}
    BY <1>3 DEF Row
  <2>1. \A j \in 1 .. z + 1 : u[j] = IF j < k THEN t[j] ELSE IF j = k THEN x ELSE t[j - 1]
    BY <1>3 DEF Inserted
  <2>2. i \in Int /\ 1 <= i /\ i <= z + 1 BY <1>1
  <2>3. CASE i < k - 1
    <3>1. i \in 1 .. z /\ i < z /\ i + 1 \in 1 .. z + 1 /\ i + 1 < k /\ i < k /\ i < z + 1
      BY <2>2, <2>3, <1>1, <1>2
    <3>2. u[i] = t[i] /\ u[i + 1] = t[i + 1] BY <2>1, <3>1
    <3>3. n[t[i]] = t[i + 1] BY <3>1, <1>1 DEF Row
    <3>4. t[i] # x /\ t[i] # t[k - 1] /\ t[i] # t[z]
      <4>1. k - 1 \in 1 .. z /\ z \in 1 .. z /\ i # k - 1 /\ i # z BY <3>1, <2>3, <1>1, <1>2
      <4> QED BY <3>1, <4>1, <1>1, <1>8 DEF Once
    <3>5. n2[t[i]] = n[t[i]] BY <3>1, <3>4, <1>1 DEF Nearly
    <3> QED BY <3>1, <3>2, <3>3, <3>5
  <2>4. CASE i = k - 1
    <3>1. k > 1 /\ i < k /\ i < z + 1 /\ i + 1 = k /\ i + 1 \in 1 .. z + 1 BY <2>2, <2>4, <1>2
    <3>2. u[i] = t[k - 1] /\ u[i + 1] = x BY <2>1, <2>4, <3>1
    <3> QED BY <3>1, <3>2
  <2>5. CASE i = k
    <3>1. u[i] = x BY <2>1, <2>5, <1>2
    <3>2. CASE k = z + 1 BY <3>1, <3>2, <2>5, <1>2
    <3>3. CASE k # z + 1
      <4>1. i < z + 1 /\ i + 1 \in 1 .. z + 1 /\ ~(i + 1 < k) /\ i + 1 # k /\ i + 1 - 1 = k
        BY <2>5, <3>3, <1>1, <1>2
      <4>2. u[i + 1] = t[k] BY <2>1, <4>1
      <4> QED BY <3>1, <3>3, <4>1, <4>2
    <3> QED BY <3>2, <3>3
  <2>6. CASE i > k
    <3>1. PICK j \in 1 .. z : j = i - 1 /\ j + 1 = i BY <2>2, <2>6, <1>1, <1>2
    <3>2. u[i] = t[j]
      <4>1. ~(i < k) /\ i # k BY <2>6, <2>2, <1>2
      <4> QED BY <2>1, <3>1, <4>1
    <3>3. t[j] # x BY <1>8
    <3>4. k > 1 => t[j] # t[k - 1]
      <4>1. k > 1 => k - 1 \in 1 .. z /\ j # k - 1 BY <2>6, <3>1, <1>2, <1>1
      <4> QED BY <4>1, <1>1 DEF Once
    <3>5. n2[t[j]] = n[t[j]] \/ (t[j] = t[z] /\ n2[t[j]] \in {None, Wild})
      BY <3>3, <3>4, <1>1 DEF Nearly
    <3>6. CASE j < z
      <4>1. i < z + 1 /\ i + 1 \in 1 .. z + 1 /\ ~(i + 1 < k) /\ i + 1 # k /\ i + 1 - 1 = j + 1
        BY <2>6, <2>2, <3>1, <3>6, <1>1, <1>2
      <4>2. u[i + 1] = t[j + 1] BY <2>1, <4>1
      <4>3. n[t[j]] = t[j + 1] BY <3>6, <1>1 DEF Row
      <4>4. t[j] # t[z]
        <5>1. z \in 1 .. z /\ j # z BY <3>6, <1>1
        <5> QED BY <5>1, <1>1 DEF Once
      <4> QED BY <3>2, <3>5, <4>1, <4>2, <4>3, <4>4
    <3>7. CASE j = z
      <4>1. ~(i < z + 1) BY <3>1, <3>7, <1>1
      <4>2. n[t[j]] \in {None, Wild} BY <3>7, <1>1 DEF Row
      <4> QED BY <3>2, <3>5, <4>1, <4>2
    <3> QED BY <3>6, <3>7, <1>1
  <2> QED BY <2>2, <2>3, <2>4, <2>5, <2>6, <1>2
<1>10. Bounds(u, h2[c], e2[c])
  <2>1. \A j \in 1 .. z + 1 : u[j] = IF j < k THEN t[j] ELSE IF j = k THEN x ELSE t[j - 1]
    BY <1>3 DEF Inserted
  <2>2. z + 1 # 0 /\ 1 \in 1 .. z + 1 /\ z + 1 \in 1 .. z + 1 BY <1>1
  <2>3. u[1] = IF k = 1 THEN x ELSE t[1] BY <2>1, <2>2, <1>2
  <2>4. u[z + 1] = IF k = z + 1 THEN x ELSE t[z]
    <3>1. ~(z + 1 < k) /\ z + 1 - 1 = z BY <1>1, <1>2
    <3> QED BY <2>1, <2>2, <3>1
  <2>5. k # 1 \/ k # z + 1 => z # 0 BY <1>1, <1>2
  <2>6. z # 0 => h[c] = t[1] /\ e[c] = t[z] BY <1>1 DEF Bounds
  <2> QED BY <2>2, <2>3, <2>4, <2>5, <2>6, <1>3 DEF Bounds
<1>11. \A y \in Items : InChain(u, y) => InChain(s[c], y) \/ n[y] = y BY <1>7
<1>12. \A y \in Items : ~InChain(s[c], y) /\ ~InChain(u, y) => n2[y] = n[y]
  <2> SUFFICES ASSUME NEW y \in Items, ~InChain(t, y), ~InChain(u, y) PROVE n2[y] = n[y]
    OBVIOUS
  <2>1. y # x BY <1>7
  <2>2. \A i \in 1 .. z : t[i] # y BY <1>1, AnySeq
  <2>3. k > 1 => k - 1 \in 1 .. z BY <1>1, <1>2
  <2>4. z > 0 => z \in 1 .. z BY <1>1
  <2> QED BY <2>1, <2>2, <2>3, <2>4 DEF Nearly
<1>13. \A y \in Items : InChain(s[c], y) /\ ~InChain(u, y) => n2[y] = y BY <1>7
<1>14. Once(u, Len(u)) BY <1>3, <1>6
<1>15. Shifts(s[c], u, n, n2) BY <1>11, <1>12, <1>13 DEF Shifts
<1>16. Lists([s EXCEPT ![c] = u], n2, h2, e2)
  BY <1>9, <1>10, <1>14, <1>15, UpdateOne
<1> QED BY <1>3, <1>16

\* The item at place k is taken, and its neighbour before leads to the one behind.
LEMMA TakeLists ==
  ASSUME NEW s, NEW n, NEW h, NEW e, Lists(s, n, h, e), NEW c \in Names,
         NEW t, t = s[c], NEW z, z = Len(t), NEW k \in 1 .. z,
         NEW n2 \in [Items -> Target], NEW h2 \in [Names -> Place], NEW e2 \in [Names -> Place],
         Others(h2, h, e2, e, c),
         h2[c] = IF k > 1 THEN h[c] ELSE IF z = 1 THEN None ELSE t[2],
         k < z => e2[c] = e[c], k = z /\ k > 1 => e2[c] = t[k - 1],
         n2[t[k]] = t[k],
         k > 1 => IF k < z THEN n2[t[k - 1]] = t[k + 1] ELSE n2[t[k - 1]] \in {None, Wild},
         Nearly(n2, n, t, IF k > 1 THEN {t[k], t[k - 1]} ELSE {t[k]})
  PROVE  Lists([s EXCEPT ![c] = RemoveAt(t, k)], n2, h2, e2)
<1>1. /\ t \in Seq(Items) /\ Row(n, t) /\ Bounds(t, h[c], e[c]) /\ Once(t, z) /\ z \in Nat
      /\ \A i \in 1 .. z : t[i] \in Items
  BY OneRow
<1>2. k \in Int /\ 1 <= k /\ k <= z BY <1>1
<1>3. PICK u \in Seq(Items) : u = RemoveAt(t, k) /\ Len(u) = z - 1 /\ Removed(u, t, z, k)
  <2>1. k \in 1 .. Len(t) BY <1>1
  <2>2. RemoveAt(t, k) \in Seq(Items) /\ Len(RemoveAt(t, k)) = Len(t) - 1 BY <1>1, <2>1, RemoveIs
  <2>3. Removed(RemoveAt(t, k), t, Len(t), k) BY <1>1, <2>1, RemoveIs
  <2> QED BY <2>2, <2>3
<1>4. PICK x \in Items : x = t[k] BY <1>1
<1>5. Once(u, z - 1) /\ Loses(u, t, z, k) BY <1>1, <1>2, <1>3, RemoveOnce
<1>6. \A y : InChain(u, y) <=> InChain(t, y) /\ y # x
  <2>1. \A y : InChain(t, y) <=> \E i \in 1 .. z : t[i] = y BY <1>1, AnySeq
  <2>2. \A y : InChain(u, y) <=> \E i \in 1 .. z - 1 : u[i] = y
    <3>1. \A y : InChain(u, y) <=> \E i \in 1 .. Len(u) : u[i] = y BY AnySeq
    <3> QED BY <3>1, <1>3
  <2> SUFFICES ASSUME NEW y PROVE InChain(u, y) <=> InChain(t, y) /\ y # x
    OBVIOUS
  <2>3. InChain(u, y) => InChain(t, y) /\ y # x
    <3> SUFFICES ASSUME NEW i \in 1 .. z - 1, u[i] = y PROVE InChain(t, y) /\ y # x
      BY <2>2
    <3>1. PICK j \in 1 .. z : j # k /\ u[i] = t[j] BY <1>5 DEF Loses
    <3>2. t[j] # t[k] BY <3>1, <1>1 DEF Once
    <3> QED BY <3>1, <3>2, <2>1, <1>4
  <2>4. InChain(t, y) /\ y # x => InChain(u, y)
    <3> SUFFICES ASSUME NEW j \in 1 .. z, t[j] = y, y # x PROVE InChain(u, y)
      BY <2>1
    <3>1. j # k BY <1>4
    <3>2. PICK i \in 1 .. z - 1 : u[i] = t[j] BY <3>1, <1>5 DEF Loses
    <3> QED BY <3>2, <2>2
  <2> QED BY <2>3, <2>4
<1>7. Row(n2, u)
  <2> SUFFICES ASSUME NEW i \in 1 .. z - 1
               PROVE  IF i < z - 1 THEN n2[u[i]] = u[i + 1] ELSE n2[u[i]] \in {None, Wild}
    BY <1>3 DEF Row
  <2>1. \A j \in 1 .. z - 1 : u[j] = IF j < k THEN t[j] ELSE t[j + 1] BY <1>3 DEF Removed
  <2>2. i \in Int /\ 1 <= i /\ i <= z - 1 BY <1>1
  <2>3. \A j \in 1 .. z : j # k /\ j # k - 1 => n2[t[j]] = n[t[j]] \/ (j = z /\ n2[t[j]] \in {None, Wild})
    <3> SUFFICES ASSUME NEW j \in 1 .. z, j # k, j # k - 1
                 PROVE  n2[t[j]] = n[t[j]] \/ (j = z /\ n2[t[j]] \in {None, Wild})
      OBVIOUS
    <3>1. t[j] # t[k] BY <1>1 DEF Once
    <3>2. k > 1 => t[j] # t[k - 1]
      <4>1. k > 1 => k - 1 \in 1 .. z BY <1>1, <1>2
      <4> QED BY <4>1, <1>1 DEF Once
    <3>3. t[j] \in Items BY <1>1
    <3>4. n2[t[j]] = n[t[j]] \/ (t[j] = t[z] /\ n2[t[j]] \in {None, Wild})
      BY <3>1, <3>2, <3>3 DEF Nearly
    <3>5. t[j] = t[z] => j = z
      <4>1. z \in 1 .. z BY <1>1, <1>2
      <4> QED BY <4>1, <1>1 DEF Once
    <3> QED BY <3>4, <3>5
  <2>4. CASE i < k - 1
    <3>1. i \in 1 .. z /\ i < z /\ i < k /\ i < z - 1 /\ i + 1 \in 1 .. z - 1 /\ i + 1 < k /\ i # z /\ i # k /\ i # k - 1
      BY <2>2, <2>4, <1>1, <1>2
    <3>2. u[i] = t[i] /\ u[i + 1] = t[i + 1] BY <2>1, <3>1
    <3>3. n[t[i]] = t[i + 1] BY <3>1, <1>1 DEF Row
    <3>4. n2[t[i]] = n[t[i]] BY <2>3, <3>1
    <3> QED BY <3>1, <3>2, <3>3, <3>4
  <2>5. CASE i = k - 1
    <3>1. i < k /\ k > 1 BY <2>5, <2>2, <1>2
    <3>2. u[i] = t[k - 1] BY <2>1, <2>5, <3>1
    <3>3. CASE k < z
      <4>1. i < z - 1 /\ i + 1 \in 1 .. z - 1 /\ ~(i + 1 < k) /\ i + 1 + 1 = k + 1
        BY <2>5, <3>1, <3>3, <1>1, <1>2
      <4>2. u[i + 1] = t[k + 1] BY <2>1, <4>1
      <4> QED BY <3>1, <3>2, <3>3, <4>1, <4>2
    <3>4. CASE ~(k < z)
      <4>1. ~(i < z - 1) BY <2>5, <3>4, <1>1, <1>2
      <4> QED BY <3>1, <3>2, <3>4, <4>1
    <3> QED BY <3>3, <3>4
  <2>6. CASE i >= k
    <3>1. PICK j \in 1 .. z : j = i + 1 BY <2>2, <1>1
    <3>2. ~(i < k) /\ j # k /\ j # k - 1 BY <2>6, <3>1, <2>2, <1>2
    <3>3. u[i] = t[j] BY <2>1, <3>1, <3>2
    <3>4. n2[t[j]] = n[t[j]] \/ (j = z /\ n2[t[j]] \in {None, Wild}) BY <2>3, <3>2
    <3>5. CASE j < z
      <4>1. i < z - 1 /\ i + 1 \in 1 .. z - 1 /\ ~(i + 1 < k) /\ i + 1 + 1 = j + 1
        BY <3>1, <3>5, <2>2, <2>6, <1>1, <1>2
      <4>2. u[i + 1] = t[j + 1] BY <2>1, <4>1
      <4>3. n[t[j]] = t[j + 1] BY <3>5, <1>1 DEF Row
      <4>4. j # z BY <3>5, <1>1
      <4> QED BY <3>3, <3>4, <4>1, <4>2, <4>3, <4>4
    <3>6. CASE j = z
      <4>1. ~(i < z - 1) BY <3>1, <3>6, <1>1
      <4>2. n[t[j]] \in {None, Wild}
        <5>1. ~(j < Len(t)) /\ j \in 1 .. Len(t) BY <3>6, <1>1
        <5> QED BY <5>1, <1>1 DEF Row
      <4> QED BY <3>3, <3>4, <4>1, <4>2
    <3> QED BY <3>5, <3>6, <1>1
  <2> QED BY <2>2, <2>4, <2>5, <2>6, <1>2
<1>8. Bounds(u, h2[c], e2[c])
  <2>1. \A j \in 1 .. z - 1 : u[j] = IF j < k THEN t[j] ELSE t[j + 1] BY <1>3 DEF Removed
  <2>2. h[c] = t[1] /\ e[c] = t[z]
    <3>1. z # 0 BY <1>2
    <3> QED BY <3>1, <1>1 DEF Bounds
  <2>3. CASE z = 1
    <3>1. ~(k > 1) /\ z - 1 = 0 BY <2>3, <1>2
    <3> QED BY <2>3, <3>1, <1>3 DEF Bounds
  <2>4. CASE z # 1
    <3>0. z \in Nat /\ k \in Int /\ 1 <= k /\ k <= z /\ z # 1 BY <2>4, <1>1, <1>2
    <3>1. 1 \in 1 .. z - 1 /\ z - 1 \in 1 .. z - 1 /\ z - 1 # 0 BY ONLY <3>0
    <3>2. u[1] = IF k > 1 THEN t[1] ELSE t[2]
      <4>1. u[1] = IF 1 < k THEN t[1] ELSE t[1 + 1] BY <2>1, <3>1
      <4> QED BY <4>1, <1>2
    <3>3. u[z - 1] = IF k = z THEN t[k - 1] ELSE t[z]
      <4>1. u[z - 1] = IF z - 1 < k THEN t[z - 1] ELSE t[z - 1 + 1] BY <2>1, <3>1
      <4>2. (z - 1 < k <=> k = z) /\ z - 1 + 1 = z BY <1>1, <1>2
      <4> QED BY <4>1, <4>2
    <3>4. k = z => k > 1 BY ONLY <3>0
    <3>5. k # z => k < z BY <1>1, <1>2
    <3> QED BY <2>2, <2>4, <3>1, <3>2, <3>3, <3>4, <3>5, <1>3 DEF Bounds
  <2> QED BY <2>3, <2>4
<1>9. Shifts(s[c], u, n, n2)
  <2>1. \A y \in Items : InChain(u, y) => InChain(s[c], y) \/ n[y] = y BY <1>6
  <2>2. \A y \in Items : ~InChain(s[c], y) /\ ~InChain(u, y) => n2[y] = n[y]
    <3> SUFFICES ASSUME NEW y \in Items, ~InChain(t, y) PROVE n2[y] = n[y]
      OBVIOUS
    <3>1. \A i \in 1 .. z : t[i] # y BY <1>1, AnySeq
    <3>2. k > 1 => k - 1 \in 1 .. z BY <1>1, <1>2
    <3>3. z \in 1 .. z BY <1>1, <1>2
    <3> QED BY <3>1, <3>2, <3>3 DEF Nearly
  <2>3. \A y \in Items : InChain(s[c], y) /\ ~InChain(u, y) => n2[y] = y
    <3> SUFFICES ASSUME NEW y \in Items, InChain(t, y), ~InChain(u, y) PROVE n2[y] = y
      OBVIOUS
    <3>1. y = x BY <1>6
    <3> QED BY <3>1, <1>4
  <2> QED BY <2>1, <2>2, <2>3 DEF Shifts
<1>10. Once(u, Len(u)) BY <1>3, <1>5
<1>11. Lists([s EXCEPT ![c] = u], n2, h2, e2)
  BY <1>7, <1>8, <1>9, <1>10, UpdateOne
<1> QED BY <1>3, <1>11

\* The last item of a leads to the first of b; the tail of the chain that is empty then stays.
LEMMA JoinLists ==
  ASSUME NEW s, NEW n, NEW h, NEW e, Lists(s, n, h, e), NEW a \in Names, NEW b \in Names, a # b,
         Len(s[a]) > 0, Len(s[b]) > 0,
         NEW c, NEW o, (c = a /\ o = b) \/ (c = b /\ o = a)
  PROVE  Lists([s EXCEPT ![c] = s[a] \o s[b], ![o] = << >>],
               [n EXCEPT ![e[a]] = h[b]], [h EXCEPT ![c] = h[a], ![o] = None], [e EXCEPT ![c] = e[b]])
<1>1. PICK t \in Seq(Items) : t = s[a] BY OneRow
<1>2. PICK r \in Seq(Items) : r = s[b] BY OneRow
<1>3. PICK m \in Nat : m = Len(t) /\ m > 0 BY <1>1, AnySeq
<1>4. PICK k \in Nat : k = Len(r) /\ k > 0 BY <1>2, AnySeq
<1>5. PICK u : u = t \o r OBVIOUS
<1>6. /\ u \in Seq(Items) /\ Len(u) = m + k
      /\ \A i \in 1 .. m + k : u[i] = IF i <= m THEN t[i] ELSE r[i - m]
  BY <1>3, <1>4, <1>5, JoinIs
<1>7. PICK s2 : s2 = [s EXCEPT ![c] = u, ![o] = << >>] OBVIOUS
<1>8. c \in Names /\ o \in Names /\ c # o /\ ((c = a /\ o = b) \/ (c = b /\ o = a)) OBVIOUS
<1>9. PICK n2 : n2 = [n EXCEPT ![e[a]] = h[b]] OBVIOUS
<1>10. PICK h2 : h2 = [h EXCEPT ![c] = h[a], ![o] = None] OBVIOUS
<1>11. PICK e2 : e2 = [e EXCEPT ![c] = e[b]] OBVIOUS
<1>12. /\ s \in [Names -> Seq(Items)] /\ n \in [Items -> Target]
       /\ h \in [Names -> Place] /\ e \in [Names -> Place] /\ Distinct(s, Names)
       /\ \A d \in Names : Row(n, s[d]) /\ Bounds(s[d], h[d], e[d])
       /\ \A x \in Items : (\A d \in Names : ~InChain(s[d], x)) => n[x] = x
  BY DEF Lists
<1>13. s2 \in [Names -> Seq(Items)] /\ Distinct(s2, Names)
       /\ \A y : InChain(u, y) <=> InChain(t, y) \/ InChain(r, y)
  BY <1>1, <1>2, <1>5, <1>7, <1>12, JoinDistinct
<1>14. << >> \in Seq(Items) /\ Len(<< >>) = 0 BY EmptySeq
<1>15. s2[c] = u /\ s2[o] = << >> /\ \A d \in Names : d # a /\ d # b => s2[d] = s[d]
  BY <1>7, <1>8, <1>12
<1>16. h[a] = t[1] /\ e[a] = t[m] /\ h[b] = r[1] /\ e[b] = r[k]
  <2>1. Bounds(t, h[a], e[a]) /\ Bounds(r, h[b], e[b]) BY <1>1, <1>2, <1>12
  <2> QED BY <2>1, <1>3, <1>4 DEF Bounds
<1>17. (\A i \in 1 .. m : t[i] \in Items) /\ \A i \in 1 .. k : r[i] \in Items
  BY <1>3, <1>4, AnySeq
<1>18. 1 \in 1 .. m /\ m \in 1 .. m /\ 1 \in 1 .. k /\ k \in 1 .. k BY <1>3, <1>4
<1>19. /\ n2 \in [Items -> Target] /\ n2[t[m]] = r[1]
       /\ \A x \in Items : x # t[m] => n2[x] = n[x]
  BY <1>12, <1>16, <1>17, <1>18, <1>9 DEF Target
<1>20. /\ h2 \in [Names -> Place] /\ e2 \in [Names -> Place]
       /\ h2[c] = t[1] /\ e2[c] = r[k] /\ h2[o] = None
       /\ \A d \in Names : d # a /\ d # b => h2[d] = h[d] /\ e2[d] = e[d]
  BY <1>8, <1>12, <1>16, <1>17, <1>18, <1>10, <1>11 DEF Place
<1>21. /\ \A i, j \in 1 .. m : t[i] = t[j] => i = j
       /\ \A i \in 1 .. m, j \in 1 .. k : t[i] # r[j]
  <2>1. \A i, j \in 1 .. m : t[i] = t[j] => i = j BY <1>1, <1>3, <1>12 DEF Distinct
  <2>2. \A i \in 1 .. m, j \in 1 .. k : t[i] # r[j] BY <1>1, <1>2, <1>3, <1>4, <1>12 DEF Distinct
  <2> QED BY <2>1, <2>2
<1>22. /\ \A i \in 1 .. m : IF i < m THEN n[t[i]] = t[i + 1] ELSE n[t[i]] \in {None, Wild}
       /\ \A i \in 1 .. k : IF i < k THEN n[r[i]] = r[i + 1] ELSE n[r[i]] \in {None, Wild}
  BY <1>1, <1>2, <1>3, <1>4, <1>12 DEF Row
<1>23. Row(n2, u)
  <2> SUFFICES ASSUME NEW i \in 1 .. m + k
               PROVE  IF i < m + k THEN n2[u[i]] = u[i + 1] ELSE n2[u[i]] \in {None, Wild}
    BY <1>6 DEF Row
  <2>1. CASE i < m
    <3>1. i \in 1 .. m /\ i + 1 \in 1 .. m + k /\ i + 1 <= m /\ i <= m /\ i < m + k BY <2>1, <1>4
    <3>2. u[i] = t[i] /\ u[i + 1] = t[i + 1] BY <3>1, <1>6
    <3>3. t[i] # t[m] BY <2>1, <3>1, <1>18, <1>21
    <3>4. n2[t[i]] = n[t[i]] BY <3>1, <3>3, <1>17, <1>19
    <3> QED BY <2>1, <3>1, <3>2, <3>4, <1>22
  <2>2. CASE i = m
    <3>1. i <= m /\ i + 1 \in 1 .. m + k /\ ~(i + 1 <= m) /\ i + 1 - m = 1 /\ i < m + k BY <2>2, <1>4
    <3>2. u[i] = t[m] /\ u[i + 1] = r[1]
      <4>1. \A j \in 1 .. m + k : u[j] = IF j <= m THEN t[j] ELSE r[j - m] BY <1>6
      <4>2. u[i] = t[i] /\ u[i + 1] = r[i + 1 - m] BY ONLY <4>1, <3>1, i \in 1 .. m + k
      <4> QED BY <4>2, <3>1, <2>2
    <3> QED BY <3>1, <3>2, <1>19
  <2>3. CASE i > m
    <3>1. PICK j \in 1 .. k : j = i - m BY <2>3
    <3>2. u[i] = r[j]
      <4>1. ~(i <= m) BY <2>3
      <4> QED BY <3>1, <4>1, <1>6
    <3>3. r[j] # t[m] /\ r[j] \in Items BY <1>17, <1>18, <1>21
    <3>4. n2[r[j]] = n[r[j]] BY <3>3, <1>19
    <3>5. CASE j < k
      <4>1. i + 1 \in 1 .. m + k /\ ~(i + 1 <= m) /\ i + 1 - m = j + 1 /\ i < m + k BY <2>3, <3>1, <3>5
      <4>2. u[i + 1] = r[j + 1] BY <4>1, <1>6
      <4> QED BY <3>2, <3>4, <3>5, <4>1, <4>2, <1>22
    <3>6. CASE j = k
      <4>1. ~(i < m + k) /\ ~(j < k) BY <3>1, <3>6
      <4> QED BY <3>2, <3>4, <4>1, <1>22
    <3> QED BY <3>5, <3>6
  <2> QED BY <2>1, <2>2, <2>3
<1>24. \A d \in Names : Row(n2, s2[d]) /\ Bounds(s2[d], h2[d], e2[d])
  <2> SUFFICES ASSUME NEW d \in Names PROVE Row(n2, s2[d]) /\ Bounds(s2[d], h2[d], e2[d])
    OBVIOUS
  <2>1. CASE d = c
    <3>1. u[1] = t[1] /\ u[m + k] = r[k] /\ m + k # 0
      <4>1. m > 0 /\ k > 0 BY <1>3, <1>4
      <4>2. 1 \in 1 .. m + k /\ 1 <= m /\ m + k \in 1 .. m + k /\ ~(m + k <= m) /\ m + k - m = k /\ m + k # 0
        BY ONLY <4>1, m \in Nat, k \in Nat
      <4>3. \A i \in 1 .. m + k : u[i] = IF i <= m THEN t[i] ELSE r[i - m] BY <1>6
      <4>4. u[1] = t[1] BY ONLY <4>2, <4>3
      <4>5. u[m + k] = r[k] BY ONLY <4>2, <4>3
      <4> QED BY <4>2, <4>4, <4>5
    <3>2. Bounds(u, h2[c], e2[c]) BY <3>1, <1>6, <1>20 DEF Bounds
    <3> QED BY <2>1, <3>2, <1>15, <1>23
  <2>2. CASE d = o
    <3>1. s2[d] = << >> /\ h2[d] = None BY <2>2, <1>15, <1>20
    <3> QED BY <3>1, <1>14 DEF Row, Bounds
  <2>3. CASE d # c /\ d # o
    <3>1. d # a /\ d # b /\ s2[d] = s[d] /\ h2[d] = h[d] /\ e2[d] = e[d] BY <2>3, <1>8, <1>15, <1>20
    <3>2. PICK q \in Seq(Items) : q = s[d] BY <1>12
    <3>3. Row(n, q) /\ Bounds(q, h[d], e[d]) BY <3>2, <1>12
    <3>4. \A i \in 1 .. Len(q) : n2[q[i]] = n[q[i]]
      <4> SUFFICES ASSUME NEW i \in 1 .. Len(q) PROVE n2[q[i]] = n[q[i]]
        OBVIOUS
      <4>1. q[i] \in Items BY AnySeq
      <4>2. m \in 1 .. Len(s[a]) BY <1>1, <1>3
      <4>3. q[i] # t[m] BY <3>1, <3>2, <4>2, <1>1, <1>12 DEF Distinct
      <4> QED BY <4>1, <4>3, <1>19
    <3>5. Row(n2, q) BY <3>3, <3>4 DEF Row
    <3> QED BY <3>1, <3>2, <3>3, <3>5
  <2> QED BY <2>1, <2>2, <2>3
<1>25. \A x \in Items : (\A d \in Names : ~InChain(s2[d], x)) => n2[x] = x
  <2> SUFFICES ASSUME NEW x \in Items, \A d \in Names : ~InChain(s2[d], x) PROVE n2[x] = x
    OBVIOUS
  <2>1. ~InChain(t, x) /\ ~InChain(r, x) BY <1>8, <1>13, <1>15
  <2>2. \A d \in Names : ~InChain(s[d], x) BY <2>1, <1>1, <1>2, <1>15
  <2>3. n[x] = x BY <2>2, <1>12
  <2>4. x # t[m] BY <2>1, <1>3, <1>18, AnySeq
  <2> QED BY <2>3, <2>4, <1>19
<1>26. Lists(s2, n2, h2, e2) BY <1>13, <1>19, <1>20, <1>24, <1>25 DEF Lists
<1> QED BY <1>1, <1>2, <1>5, <1>7, <1>26, <1>9, <1>10, <1>11

\* Two chains change places, and no link changes.
LEMMA SwapLists ==
  ASSUME NEW s, NEW n, NEW h, NEW e, Lists(s, n, h, e), NEW c \in Names, NEW d \in Names
  PROVE  Lists([s EXCEPT ![c] = s[d], ![d] = s[c]], n,
               [h EXCEPT ![c] = h[d], ![d] = h[c]], [e EXCEPT ![c] = e[d], ![d] = e[c]])
<1>1. PICK s2 : s2 = [s EXCEPT ![c] = s[d], ![d] = s[c]] OBVIOUS
<1>2. PICK h2 : h2 = [h EXCEPT ![c] = h[d], ![d] = h[c]] OBVIOUS
<1>3. PICK e2 : e2 = [e EXCEPT ![c] = e[d], ![d] = e[c]] OBVIOUS
<1>4. /\ s \in [Names -> Seq(Items)] /\ n \in [Items -> Target]
      /\ h \in [Names -> Place] /\ e \in [Names -> Place] /\ Distinct(s, Names)
      /\ \A f \in Names : Row(n, s[f]) /\ Bounds(s[f], h[f], e[f])
      /\ \A x \in Items : (\A f \in Names : ~InChain(s[f], x)) => n[x] = x
  BY DEF Lists
<1>5. PICK p \in [Names -> Names] : p = [f \in Names |-> IF f = d THEN c ELSE IF f = c THEN d ELSE f]
  OBVIOUS
<1>6. (\A f, g \in Names : p[f] = p[g] => f = g) /\ \A f \in Names : p[p[f]] = f
  BY <1>5
<1>7. s2 \in [Names -> Seq(Items)] /\ \A f \in Names : s2[f] = s[p[f]]
  BY <1>1, <1>4, <1>5
<1>8. h2 \in [Names -> Place] /\ \A f \in Names : h2[f] = h[p[f]] BY <1>2, <1>4, <1>5
<1>9. e2 \in [Names -> Place] /\ \A f \in Names : e2[f] = e[p[f]] BY <1>3, <1>4, <1>5
<1>10. Distinct(s2, Names) BY <1>4, <1>6, <1>7 DEF Distinct
<1>11. \A f \in Names : Row(n, s2[f]) /\ Bounds(s2[f], h2[f], e2[f]) BY <1>4, <1>7, <1>8, <1>9
<1>12. \A x \in Items : (\A f \in Names : ~InChain(s2[f], x)) => n[x] = x
  <2> SUFFICES ASSUME NEW x \in Items, \A f \in Names : ~InChain(s2[f], x) PROVE n[x] = x
    OBVIOUS
  <2>1. \A f \in Names : ~InChain(s[f], x) BY <1>6, <1>7
  <2> QED BY <2>1, <1>4
<1>13. Lists(s2, n, h2, e2) BY <1>4, <1>7, <1>8, <1>9, <1>10, <1>11, <1>12 DEF Lists
<1> QED BY <1>1, <1>2, <1>3, <1>13

\* Item i of a chain; None before the first and behind the last
Beside(t, i) == IF i \in 1 .. Len(t) THEN t[i] ELSE None

\* Where an iterator of t can be: it has the item before and the current one.
Spots(t) == {<<Beside(t, j - 1), Beside(t, j)>> : j \in 1 .. Len(t) + 1}

\* There is None exactly before the first item and behind the last.
LEMMA BesideIs ==
  ASSUME NEW t \in Seq(Items), NEW i \in Int
  PROVE  Beside(t, i) \in Place /\ (Beside(t, i) = None <=> i \notin 1 .. Len(t))
<1>1. Len(t) \in Nat /\ \A k \in 1 .. Len(t) : t[k] \in Items BY AnySeq
<1>2. None \notin Items BY ForwardAssumption
<1> QED BY <1>1, <1>2 DEF Beside, Place

\* begin() makes the last item lead nowhere, and changes nothing else.
LEMMA ClosedIs ==
  ASSUME NEW s, Lists(s, next, head, tail), NEW c \in Names, MayBegin(c), NEW t, t = s[c]
  PROVE  /\ ClosedAt(c) \in [Items -> Target]
         /\ \A j \in 1 .. Len(t) : ClosedAt(c)[t[j]] = Beside(t, j + 1)
         /\ \A x \in Items : \/ ClosedAt(c)[x] = next[x]
                             \/ Len(t) > 0 /\ x = t[Len(t)] /\ ClosedAt(c)[x] = None
<1>1. /\ t \in Seq(Items) /\ Row(next, t) /\ Bounds(t, head[c], tail[c]) /\ Once(t, Len(t))
      /\ Len(t) \in Nat /\ \A i \in 1 .. Len(t) : t[i] \in Items
  BY OneRow
<1>2. next \in [Items -> Target] BY DEF Lists
<1>3. PICK z \in Nat : z = Len(t) BY <1>1
<1>4. CASE z = 0
  <2>1. head[c] = None BY <1>1, <1>3, <1>4 DEF Bounds
  <2>2. ClosedAt(c) = next BY <2>1 DEF MayBegin, ClosedAt
  <2>3. 1 .. Len(t) = {} BY <1>3, <1>4
  <2> QED BY <2>2, <2>3, <1>2
<1>5. CASE z # 0
  <2>1. z \in 1 .. z BY <1>5
  <2>2. tail[c] = t[z] /\ t[z] \in Items BY <2>1, <1>1, <1>3, <1>5 DEF Bounds
  <2>3. ClosedAt(c) = [next EXCEPT ![t[z]] = None] BY <2>2, ForwardAssumption DEF ClosedAt
  <2>4. None \in Target BY DEF Target
  <2>5. PICK f : f = ClosedAt(c) OBVIOUS
  <2>6. f \in [Items -> Target] /\ f[t[z]] = None /\ \A x \in Items : x # t[z] => f[x] = next[x]
    BY <2>2, <2>3, <2>4, <2>5, <1>2
  <2>7. \A j \in 1 .. z : f[t[j]] = Beside(t, j + 1)
    <3> SUFFICES ASSUME NEW j \in 1 .. z PROVE f[t[j]] = Beside(t, j + 1)
      OBVIOUS
    <3>1. CASE j = z
      <4>1. j + 1 \notin 1 .. z BY <3>1
      <4> QED BY <3>1, <4>1, <2>6, <1>3 DEF Beside
    <3>2. CASE j # z
      <4>1. j + 1 \in 1 .. z /\ j < z BY <3>2
      <4>2. t[j] # t[z] BY <3>2, <2>1, <1>1, <1>3 DEF Once
      <4>3. next[t[j]] = t[j + 1] BY <4>1, <1>1, <1>3 DEF Row
      <4>4. t[j] \in Items BY <1>1, <1>3
      <4> QED BY <4>1, <4>2, <4>3, <4>4, <2>6, <1>3 DEF Beside
    <3> QED BY <3>1, <3>2
  <2>8. \A x \in Items : f[x] = next[x] \/ (z > 0 /\ x = t[z] /\ f[x] = None) BY <2>6, <1>5
  <2> QED BY <2>5, <2>6, <2>7, <2>8, <1>3
<1> QED BY <1>4, <1>5

\* The pairs that ++ gives from those of X
Further(c, X) == X \cup {p \in Positions(c) : p[1] # None /\ \E q \in X : q[2] = p[1]}

\* ++ leads from a place of the chain to the next.
LEMMA FurtherIn ==
  ASSUME NEW s, Lists(s, next, head, tail), NEW c \in Names, MayBegin(c), NEW X, X \subseteq Spots(s[c])
  PROVE  Further(c, X) \subseteq Spots(s[c])
<1>1. PICK t \in Seq(Items) : t = s[c] BY OneRow
<1>2. Len(t) \in Nat BY AnySeq
<1> SUFFICES ASSUME NEW p \in Positions(c), p[1] # None, NEW q \in X, q[2] = p[1] PROVE p \in Spots(t)
  BY <1>1 DEF Further
<1>3. PICK j \in 1 .. Len(t) + 1 : q = <<Beside(t, j - 1), Beside(t, j)>> BY <1>1 DEF Spots
<1>4. p[1] = Beside(t, j) BY <1>3
<1>5. j \in Int BY <1>2
<1>6. j \in 1 .. Len(t) BY <1>4, <1>5, BesideIs
<1>7. p[1] = t[j] BY <1>4, <1>6 DEF Beside
<1>8. p = <<p[1], ClosedAt(c)[p[1]]>>
  BY DEF Positions
<1>9. ClosedAt(c)[t[j]] = Beside(t, j + 1) BY <1>1, <1>6, ClosedIs
<1>10. PICK k \in 1 .. Len(t) + 1 : k = j + 1 /\ k - 1 = j BY <1>2, <1>6
<1>11. p = <<Beside(t, k - 1), Beside(t, k)>> BY <1>4, <1>7, <1>8, <1>9, <1>10
<1> QED BY <1>11 DEF Spots

\* An iterator is always at one of the items of the chain, or behind the last.
LEMMA ReachedIn ==
  ASSUME NEW s, Lists(s, next, head, tail), NEW c \in Names, MayBegin(c)
  PROVE  Reached(c) \subseteq Spots(s[c])
<1> DEFINE N     == Cardinality(Items)
           first == {<<None, head[c]>>}
           V     == SUBSET (first \cup Positions(c))
           step  == [i \in 1 .. N |-> [X \in V |-> Further(c, X)]]
           Value(f, k) == IF k = 0 THEN first ELSE Further(c, f[k - 1])
           within == CHOOSE f : f = [k \in 0 .. N |-> Value(f, k)]
<1>1. N \in Nat BY FS_CardinalityType, ForwardAssumption
<1>2. first \in V OBVIOUS
<1>3. \A X \in V : Further(c, X) \in V BY DEF Further
<1>4. Reached(c) = within[N] BY DEF Reached, Further
<1> HIDE DEF N, first, V
<1>5. step \in [1 .. N -> [V -> V]] /\ \A i \in 1 .. N, X \in V : step[i][X] = Further(c, X)
  BY <1>3
<1> HIDE DEF step
<1>6. PICK f \in [0 .. N -> V] : Recurs(f, N, first, step)
  BY <1>1, <1>2, <1>5, Recursion
<1>7. f = [k \in 0 .. N |-> Value(f, k)]
  <2>1. f[0] = first /\ \A i \in 1 .. N : f[i] = step[i][f[i - 1]] BY <1>6 DEF Recurs
  <2>2. \A i \in 1 .. N : f[i - 1] \in V BY <1>1, <1>6
  <2>3. \A k \in 0 .. N : f[k] = Value(f, k)
    <3> SUFFICES ASSUME NEW k \in 0 .. N PROVE f[k] = Value(f, k)
      OBVIOUS
    <3>1. k = 0 \/ k \in 1 .. N BY <1>1
    <3> QED BY <3>1, <2>1, <2>2, <1>5
  <2> HIDE DEF Value
  <2> QED BY <2>3
<1>8. within = [k \in 0 .. N |-> Value(within, k)]
  <2> HIDE DEF Value
  <2> QED BY <1>7
<1> HIDE DEF within
<1>9. \A k \in 0 .. N : within[k] = Value(within, k)
  <2> HIDE DEF Value
  <2> QED BY <1>8
<1>10. first \subseteq Spots(s[c])
  <2>1. PICK t \in Seq(Items) : t = s[c] BY OneRow
  <2>2. Len(t) \in Nat BY AnySeq
  <2>3. PICK j \in 1 .. Len(t) + 1 : j = 1 BY <2>2
  <2>4. Beside(t, j - 1) = None BY <2>3 DEF Beside
  <2>5. Beside(t, j) = head[c]
    <3>1. Bounds(t, head[c], tail[c]) BY <2>1, OneRow
    <3>2. (1 \in 1 .. Len(t)) <=> Len(t) # 0 BY <2>2
    <3> QED BY <3>1, <3>2, <2>3 DEF Beside, Bounds
  <2> QED BY <2>1, <2>4, <2>5 DEF Spots, first
<1> DEFINE T == {k \in Nat : k <= N => within[k] \subseteq Spots(s[c])}
<1>11. 0 \in T
  <2>1. within[0] = first BY <1>1, <1>9
  <2> QED BY <2>1, <1>10
<1>12. \A k \in Nat : k \in T => k + 1 \in T
  <2> SUFFICES ASSUME NEW k \in Nat, k \in T, k + 1 <= N PROVE within[k + 1] \subseteq Spots(s[c])
    OBVIOUS
  <2>1. within[k] \subseteq Spots(s[c]) BY <1>1
  <2>2. k + 1 \in 0 .. N /\ k + 1 # 0 /\ k + 1 - 1 = k BY <1>1
  <2>3. within[k + 1] = Further(c, within[k]) BY <2>2, <1>9
  <2> QED BY <2>1, <2>3, FurtherIn
<1>13. \A k \in Nat : k \in T
  <2> HIDE DEF T
  <2> QED BY <1>11, <1>12, SetInduction
<1> QED BY <1>1, <1>4, <1>13

\* The operation has the links go from the chains s to others.
Leads(s, n, h, e) == \E s2 : Lists(s2, n, h, e) /\ Changes(s, s2, Names, Items)

\* A chain without a head is an empty one.
LEMMA HeadIs ==
  ASSUME NEW s, Lists(s, next, head, tail), NEW c \in Names, NEW t, t = s[c], NEW z, z = Len(t)
  PROVE  /\ t \in Seq(Items) /\ z \in Nat /\ \A i \in 1 .. z : t[i] \in Items
         /\ next \in [Items -> Target] /\ head \in [Names -> Place] /\ tail \in [Names -> Place]
         /\ head[c] = None <=> z = 0
         /\ z > 0 => head[c] = t[1] /\ tail[c] = t[z]
<1>1. next \in [Items -> Target] /\ head \in [Names -> Place] /\ tail \in [Names -> Place] BY DEF Lists
<1>2. t \in Seq(Items) /\ z \in Nat /\ (\A i \in 1 .. z : t[i] \in Items) /\ Bounds(t, head[c], tail[c])
  BY OneRow
<1>3. z > 0 => head[c] # None BY OneRow
<1> QED BY <1>1, <1>2, <1>3 DEF Bounds

\* push_front() adds an item at place 1.
LEMMA ForwardPushFrontLeads ==
  ASSUME NEW s, Lists(s, next, head, tail), NEW c \in Names, NEW item \in Items, push_front(c, item)
  PROVE  Leads(s, next', head', tail')
<1>1. PICK t : t = s[c] OBVIOUS
<1>2. PICK z : z = Len(t) OBVIOUS
<1>3. /\ t \in Seq(Items) /\ z \in Nat /\ \A i \in 1 .. z : t[i] \in Items
      /\ next \in [Items -> Target] /\ head \in [Names -> Place] /\ tail \in [Names -> Place]
      /\ head[c] = None <=> z = 0
      /\ z > 0 => head[c] = t[1] /\ tail[c] = t[z]
  BY <1>1, <1>2, HeadIs
<1>4. PICK k \in 1 .. z + 1 : k = 1 BY <1>3
<1>5. next[item] = item BY DEF push_front, Free
<1>6. next' = [next EXCEPT ![item] = IF z = 0 THEN Wild ELSE t[1]]
  <2>1. CASE z = 0 BY <2>1, <1>3 DEF push_front
  <2>2. CASE z > 0 BY <2>2, <1>3 DEF push_front
  <2> QED BY <2>1, <2>2, <1>3
<1>7. next' \in [Items -> Target] BY <1>3, <1>6 DEF Target
<1>8. /\ head' \in [Names -> Place] /\ tail' \in [Names -> Place]
      /\ Others(head', head, tail', tail, c)
      /\ head'[c] = item /\ tail'[c] = IF z = 0 THEN item ELSE tail[c]
  BY <1>3 DEF push_front, Place, Others
<1>9. head'[c] = IF k = 1 THEN item ELSE head[c] BY <1>4, <1>8
<1>10. tail'[c] = IF k = z + 1 THEN item ELSE tail[c] BY <1>3, <1>4, <1>8
<1>11. IF k = z + 1 THEN next'[item] \in {None, Wild} ELSE next'[item] = t[k] BY <1>3, <1>4, <1>6
<1>12. k > 1 => next'[t[k - 1]] = item BY <1>4
<1>13. Nearly(next', next, t, IF k > 1 THEN {item, t[k - 1]} ELSE {item}) BY <1>3, <1>4, <1>6 DEF Nearly
<1>14. Lists([s EXCEPT ![c] = InsertAt(t, k, item)], next', head', tail')
  BY <1>1, <1>2, <1>5, <1>7, <1>8, <1>9, <1>10, <1>11, <1>12, <1>13, PutLists
<1>15. \A d \in Names : ~InChain(s[d], item) BY <1>5, FreeIs
<1>16. Changes(s, [s EXCEPT ![c] = InsertAt(t, k, item)], Names, Items) BY <1>1, <1>2, <1>15 DEF Changes
<1> QED BY <1>14, <1>16 DEF Leads

\* push_back() adds an item behind the last.
LEMMA ForwardPushBackLeads ==
  ASSUME NEW s, Lists(s, next, head, tail), NEW c \in Names, NEW item \in Items, push_back(c, item)
  PROVE  Leads(s, next', head', tail')
<1>1. PICK t : t = s[c] OBVIOUS
<1>2. PICK z : z = Len(t) OBVIOUS
<1>3. /\ t \in Seq(Items) /\ z \in Nat /\ \A i \in 1 .. z : t[i] \in Items
      /\ next \in [Items -> Target] /\ head \in [Names -> Place] /\ tail \in [Names -> Place]
      /\ head[c] = None <=> z = 0
      /\ z > 0 => head[c] = t[1] /\ tail[c] = t[z]
  BY <1>1, <1>2, HeadIs
<1>4. PICK k \in 1 .. z + 1 : k = z + 1 BY <1>3
<1>5. next[item] = item BY DEF push_back, Free
<1>6. z > 0 => t[z] \in Items /\ t[z] # item
  <2>1. ~InChain(t, item) BY <1>1, <1>5, FreeIs
  <2>2. z > 0 => z \in 1 .. z BY <1>3
  <2> QED BY <2>1, <2>2, <1>2, <1>3, AnySeq
<1>7. /\ next' \in [Items -> Target] /\ next'[item] = Wild
      /\ z > 0 => next'[t[z]] = item
      /\ \A x \in Items : x # item /\ (z > 0 => x # t[z]) => next'[x] = next[x]
  <2>1. CASE z = 0
    <3>1. next' = [next EXCEPT ![item] = Wild] BY <2>1, <1>3 DEF push_back
    <3> QED BY <2>1, <3>1, <1>3 DEF Target
  <2>2. CASE z > 0
    <3>1. next' = [next EXCEPT ![item] = Wild, ![t[z]] = item] BY <2>2, <1>3 DEF push_back
    <3> QED BY <2>2, <3>1, <1>3, <1>6 DEF Target
  <2> QED BY <2>1, <2>2, <1>3
<1>8. /\ head' \in [Names -> Place] /\ tail' \in [Names -> Place]
      /\ Others(head', head, tail', tail, c)
      /\ head'[c] = (IF z = 0 THEN item ELSE head[c]) /\ tail'[c] = item
  BY <1>3 DEF push_back, Place, Others
<1>9. head'[c] = IF k = 1 THEN item ELSE head[c] BY <1>3, <1>4, <1>8
<1>10. tail'[c] = IF k = z + 1 THEN item ELSE tail[c] BY <1>4, <1>8
<1>11. IF k = z + 1 THEN next'[item] \in {None, Wild} ELSE next'[item] = t[k] BY <1>4, <1>7
<1>12. k > 1 => next'[t[k - 1]] = item
  <2>1. k - 1 = z /\ (k > 1 => z > 0) BY <1>3, <1>4
  <2> QED BY <2>1, <1>7
<1>13. Nearly(next', next, t, IF k > 1 THEN {item, t[k - 1]} ELSE {item})
  <2>1. k - 1 = z /\ (k > 1 <=> z > 0) BY <1>3, <1>4
  <2> QED BY <2>1, <1>7 DEF Nearly
<1>14. Lists([s EXCEPT ![c] = InsertAt(t, k, item)], next', head', tail')
  <2>1. next' \in [Items -> Target] BY <1>7
  <2>2. head' \in [Names -> Place] /\ tail' \in [Names -> Place] /\ Others(head', head, tail', tail, c) BY <1>8
  <2> QED BY <1>1, <1>2, <1>5, <1>9, <1>10, <1>11, <1>12, <1>13, <2>1, <2>2, PutLists
<1>15. \A d \in Names : ~InChain(s[d], item) BY <1>5, FreeIs
<1>16. Changes(s, [s EXCEPT ![c] = InsertAt(t, k, item)], Names, Items) BY <1>1, <1>2, <1>15 DEF Changes
<1> QED BY <1>14, <1>16 DEF Leads

\* insert() adds an item where the iterator is.
LEMMA ForwardInsertLeads ==
  ASSUME NEW s, Lists(s, next, head, tail), NEW c \in Names, NEW item \in Items, insert(c, item)
  PROVE  Leads(s, next', head', tail')
<1>1. PICK t : t = s[c] OBVIOUS
<1>2. PICK z : z = Len(t) OBVIOUS
<1>3. /\ t \in Seq(Items) /\ z \in Nat /\ \A i \in 1 .. z : t[i] \in Items
      /\ next \in [Items -> Target] /\ head \in [Names -> Place] /\ tail \in [Names -> Place]
  BY <1>1, <1>2, HeadIs
<1>4. next[item] = item /\ MayBegin(c) BY DEF insert, Free
<1>5. PICK at \in Reached(c) :
        /\ head' = [head EXCEPT ![c] = IF at[1] = None THEN item ELSE @]
        /\ tail' = [tail EXCEPT ![c] = IF at[2] = None THEN item ELSE @]
        /\ next' = [i \in Items |-> IF i = item THEN at[2] ELSE IF i = at[1] THEN item ELSE ClosedAt(c)[i]]
  BY DEF insert
<1>6. at \in Spots(t) BY <1>1, <1>4, ReachedIn
<1>7. PICK k \in 1 .. z + 1 : at[1] = Beside(t, k - 1) /\ at[2] = Beside(t, k)
  BY <1>2, <1>6 DEF Spots
<1>8. k \in Int /\ 1 <= k /\ k <= z + 1 BY <1>3
<1>9. /\ at[1] \in Place /\ (at[1] = None <=> k = 1) /\ (k > 1 => at[1] = t[k - 1])
      /\ at[2] \in Place /\ (at[2] = None <=> k = z + 1) /\ (k < z + 1 => at[2] = t[k])
  <2>1. k - 1 \in Int BY <1>8
  <2>2. Beside(t, k - 1) \in Place /\ (Beside(t, k - 1) = None <=> k - 1 \notin 1 .. z) BY <2>1, <1>2, <1>3, BesideIs
  <2>3. Beside(t, k) \in Place /\ (Beside(t, k) = None <=> k \notin 1 .. z) BY <1>2, <1>3, <1>8, BesideIs
  <2>4. (k > 1 <=> k - 1 \in 1 .. z) /\ (k < z + 1 <=> k \in 1 .. z) /\ (k > 1 <=> k # 1) /\ (k < z + 1 <=> k # z + 1)
    BY <1>3, <1>8
  <2> QED BY <2>2, <2>3, <2>4, <1>2, <1>7 DEF Beside
<1>10. PICK f : f = ClosedAt(c) OBVIOUS
<1>11. /\ f \in [Items -> Target]
       /\ \A x \in Items : f[x] = next[x] \/ (z > 0 /\ x = t[z] /\ f[x] = None)
  BY <1>1, <1>2, <1>4, <1>10, ClosedIs
<1>12. next' = [i \in Items |-> IF i = item THEN at[2] ELSE IF i = at[1] THEN item ELSE f[i]] BY <1>5, <1>10
<1>13. next' \in [Items -> Target] BY <1>9, <1>11, <1>12 DEF Target, Place
<1>14. /\ head' \in [Names -> Place] /\ tail' \in [Names -> Place]
       /\ Others(head', head, tail', tail, c)
       /\ head'[c] = (IF k = 1 THEN item ELSE head[c]) /\ tail'[c] = IF k = z + 1 THEN item ELSE tail[c]
  BY <1>3, <1>5, <1>9 DEF Place, Others
<1>15. IF k = z + 1 THEN next'[item] \in {None, Wild} ELSE next'[item] = t[k]
  <2>1. next'[item] = at[2] BY <1>12
  <2>2. k # z + 1 => k < z + 1 BY <1>3, <1>8
  <2> QED BY <2>1, <2>2, <1>9
<1>16. k > 1 => next'[t[k - 1]] = item
  <2> SUFFICES ASSUME k > 1 PROVE next'[t[k - 1]] = item
    OBVIOUS
  <2>1. k - 1 \in 1 .. z BY <1>3, <1>8
  <2>2. t[k - 1] \in Items BY <2>1, <1>3
  <2>3. t[k - 1] # item
    <3>1. ~InChain(t, item) BY <1>1, <1>4, FreeIs
    <3> QED BY <2>1, <3>1, <1>2, <1>3, AnySeq
  <2> QED BY <2>2, <2>3, <1>9, <1>12
<1>17. Nearly(next', next, t, IF k > 1 THEN {item, t[k - 1]} ELSE {item})
  <2>1. \A x \in Items : x # item /\ (k > 1 => x # t[k - 1]) => next'[x] = f[x]
    <3> SUFFICES ASSUME NEW x \in Items, x # item, k > 1 => x # t[k - 1] PROVE next'[x] = f[x]
      OBVIOUS
    <3>1. x # at[1]
      <4>1. k = 1 \/ k > 1 BY <1>8
      <4>2. x # None BY ForwardAssumption
      <4> QED BY <4>1, <4>2, <1>9
    <3> QED BY <3>1, <1>12
  <2> QED BY <2>1, <1>2, <1>11 DEF Nearly
<1>18. Lists([s EXCEPT ![c] = InsertAt(t, k, item)], next', head', tail')
  BY <1>1, <1>2, <1>4, <1>13, <1>14, <1>15, <1>16, <1>17, PutLists
<1>19. \A d \in Names : ~InChain(s[d], item) BY <1>4, FreeIs
<1>20. Changes(s, [s EXCEPT ![c] = InsertAt(t, k, item)], Names, Items) BY <1>1, <1>2, <1>19 DEF Changes
<1> QED BY <1>18, <1>20 DEF Leads

\* pop_front() takes the first item.
LEMMA ForwardPopFrontLeads ==
  ASSUME NEW s, Lists(s, next, head, tail), NEW c \in Names, pop_front(c)
  PROVE  Leads(s, next', head', tail')
<1>1. PICK t : t = s[c] OBVIOUS
<1>2. PICK z : z = Len(t) OBVIOUS
<1>3. /\ t \in Seq(Items) /\ z \in Nat /\ \A i \in 1 .. z : t[i] \in Items
      /\ next \in [Items -> Target] /\ head \in [Names -> Place] /\ tail \in [Names -> Place]
      /\ head[c] = None <=> z = 0
      /\ z > 0 => head[c] = t[1] /\ tail[c] = t[z]
  BY <1>1, <1>2, HeadIs
<1>4. z > 0 /\ head[c] = t[1] /\ tail[c] = t[z] BY <1>3 DEF pop_front
<1>5. PICK k \in 1 .. z : k = 1 BY <1>3, <1>4
<1>6. Row(next, t) /\ Once(t, z) BY <1>1, <1>2, OneRow
<1>7. t[1] = t[z] <=> z = 1
  <2>1. 1 \in 1 .. z /\ z \in 1 .. z BY <1>3, <1>4
  <2> QED BY <2>1, <1>6 DEF Once
<1>8. t[1] \in Items BY <1>3, <1>5
<1>9. next' = [next EXCEPT ![t[1]] = t[1]] BY <1>4 DEF pop_front
<1>10. next' \in [Items -> Target] /\ next'[t[k]] = t[k] BY <1>3, <1>5, <1>8, <1>9 DEF Target
<1>11. z # 1 => next[t[1]] = t[2] /\ t[2] \in Items
  <2> SUFFICES ASSUME z # 1 PROVE next[t[1]] = t[2] /\ t[2] \in Items
    OBVIOUS
  <2>1. 1 \in 1 .. z /\ 2 \in 1 .. z /\ 1 < z /\ 1 + 1 = 2 BY <1>3, <1>4
  <2>2. next[t[1]] = t[1 + 1] BY <2>1, <1>2, <1>6 DEF Row
  <2> QED BY <2>1, <2>2, <1>3
<1>12. /\ head' \in [Names -> Place] /\ tail' \in [Names -> Place] /\ Others(head', head, tail', tail, c)
       /\ head'[c] = (IF z = 1 THEN None ELSE t[2]) /\ (z # 1 => tail'[c] = tail[c])
  <2>1. CASE z = 1
    <3>1. head' = [head EXCEPT ![c] = None] /\ tail' = [tail EXCEPT ![c] = None]
      BY <2>1, <1>4, <1>7 DEF pop_front
    <3> QED BY <2>1, <3>1, <1>3 DEF Place, Others
  <2>2. CASE z # 1
    <3>1. head' = [head EXCEPT ![c] = next[t[1]]] /\ tail' = tail
      BY <2>2, <1>4, <1>7 DEF pop_front
    <3> QED BY <2>2, <3>1, <1>3, <1>11 DEF Place, Others
  <2> QED BY <2>1, <2>2
<1>13. head'[c] = IF k > 1 THEN head[c] ELSE IF z = 1 THEN None ELSE t[2] BY <1>5, <1>12
<1>14. k < z => tail'[c] = tail[c] BY <1>5, <1>12
<1>15. k = z /\ k > 1 => tail'[c] = t[k - 1] BY <1>5
<1>16. k > 1 => IF k < z THEN next'[t[k - 1]] = t[k + 1] ELSE next'[t[k - 1]] \in {None, Wild} BY <1>5
<1>17. Nearly(next', next, t, IF k > 1 THEN {t[k], t[k - 1]} ELSE {t[k]}) BY <1>3, <1>5, <1>9 DEF Nearly
<1>18. Lists([s EXCEPT ![c] = RemoveAt(t, k)], next', head', tail')
  BY <1>1, <1>2, <1>10, <1>12, <1>13, <1>14, <1>15, <1>16, <1>17, TakeLists
<1>19. Changes(s, [s EXCEPT ![c] = RemoveAt(t, k)], Names, Items) BY <1>1, <1>2 DEF Changes
<1> QED BY <1>18, <1>19 DEF Leads

\* erase() takes the item that the iterator is at; the tail moves back with the last.
LEMMA ForwardEraseLeads ==
  ASSUME NEW s, Lists(s, next, head, tail), NEW c \in Names, erase(c)
  PROVE  Leads(s, next', head', tail')
<1>1. PICK t : t = s[c] OBVIOUS
<1>2. PICK z : z = Len(t) OBVIOUS
<1>3. /\ t \in Seq(Items) /\ z \in Nat /\ \A i \in 1 .. z : t[i] \in Items
      /\ next \in [Items -> Target] /\ head \in [Names -> Place] /\ tail \in [Names -> Place]
      /\ z > 0 => tail[c] = t[z]
  BY <1>1, <1>2, HeadIs
<1>4. MayBegin(c) BY DEF erase
<1>5. PICK f : f = ClosedAt(c) OBVIOUS
<1>6. PICK at \in {p \in Reached(c) : p[2] # None} :
        /\ head' = [head EXCEPT ![c] = IF at[1] = None THEN ClosedAt(c)[at[2]] ELSE @]
        /\ tail' = [tail EXCEPT ![c] = IF at[2] = @ THEN at[1] ELSE @]
        /\ next' = [i \in Items |-> IF i = at[2] THEN i ELSE IF i = at[1] THEN ClosedAt(c)[at[2]] ELSE ClosedAt(c)[i]]
  BY Zenon DEF erase
<1>7. head' = [head EXCEPT ![c] = IF at[1] = None THEN f[at[2]] ELSE @] BY <1>5, <1>6
<1>8. next' = [i \in Items |-> IF i = at[2] THEN i ELSE IF i = at[1] THEN f[at[2]] ELSE f[i]] BY <1>5, <1>6
<1>9. at \in Spots(t) BY <1>1, <1>4, ReachedIn
<1>10. PICK k \in 1 .. z + 1 : at[1] = Beside(t, k - 1) /\ at[2] = Beside(t, k)
  BY <1>2, <1>9 DEF Spots
<1>11. k \in 1 .. z
  <2>1. k \in Int BY <1>3
  <2> QED BY <2>1, <1>2, <1>3, <1>6, <1>10, BesideIs
<1>12. k \in Int /\ 1 <= k /\ k <= z BY <1>3, <1>11
<1>13. at[2] = t[k] /\ t[k] \in Items BY <1>2, <1>3, <1>10, <1>11 DEF Beside
<1>14. at[1] \in Place /\ (at[1] = None <=> k = 1) /\ (k > 1 => at[1] = t[k - 1])
  <2>1. k - 1 \in Int BY <1>12
  <2>2. Beside(t, k - 1) \in Place /\ (Beside(t, k - 1) = None <=> k - 1 \notin 1 .. z) BY <2>1, <1>2, <1>3, BesideIs
  <2>3. (k > 1 <=> k - 1 \in 1 .. z) /\ (k > 1 <=> k # 1) BY <1>3, <1>12
  <2> QED BY <2>2, <2>3, <1>2, <1>10 DEF Beside
<1>15. /\ f \in [Items -> Target] /\ f[t[k]] = Beside(t, k + 1)
       /\ \A x \in Items : f[x] = next[x] \/ (z > 0 /\ x = t[z] /\ f[x] = None)
  BY <1>1, <1>2, <1>4, <1>5, <1>11, ClosedIs
<1>16. Once(t, z) BY <1>1, <1>2, OneRow
<1>17. PICK after \in Place : after = f[t[k]]
  <2>1. k + 1 \in Int BY <1>12
  <2>2. Beside(t, k + 1) \in Place BY <2>1, <1>3, BesideIs
  <2> QED BY <2>2, <1>15
<1>18. after = IF k < z THEN t[k + 1] ELSE None
  <2>1. k < z <=> k + 1 \in 1 .. z BY <1>3, <1>12
  <2> QED BY <2>1, <1>2, <1>15, <1>17 DEF Beside
<1>19. next' = [i \in Items |-> IF i = t[k] THEN i ELSE IF i = at[1] THEN after ELSE f[i]]
  BY <1>8, <1>13, <1>17
<1>20. next' \in [Items -> Target] /\ next'[t[k]] = t[k]
  BY <1>13, <1>15, <1>19 DEF Target, Place
<1>21. tail[c] = t[z] /\ (t[k] = t[z] <=> k = z)
  <2>1. z \in 1 .. z /\ z > 0 BY <1>3, <1>12
  <2> QED BY <2>1, <1>3, <1>11, <1>16 DEF Once
<1>22. /\ head' \in [Names -> Place] /\ tail' \in [Names -> Place] /\ Others(head', head, tail', tail, c)
       /\ head'[c] = (IF k = 1 THEN after ELSE head[c]) /\ tail'[c] = IF k = z THEN at[1] ELSE tail[c]
  <2>1. head' = [head EXCEPT ![c] = IF k = 1 THEN after ELSE @] BY <1>7, <1>13, <1>14, <1>17
  <2>2. tail' = [tail EXCEPT ![c] = IF k = z THEN at[1] ELSE @] BY <1>6, <1>13, <1>21
  <2> QED BY <2>1, <2>2, <1>3, <1>14 DEF Others
<1>23. head'[c] = IF k > 1 THEN head[c] ELSE IF z = 1 THEN None ELSE t[2]
  <2>1. CASE k > 1
    <3>1. k # 1 BY <2>1
    <3> QED BY <2>1, <3>1, <1>22
  <2>2. CASE k = 1
    <3>1. ~(k > 1) /\ (k < z <=> z # 1) /\ k + 1 = 2 BY <2>2, <1>3, <1>12
    <3> QED BY <2>2, <3>1, <1>18, <1>22
  <2> QED BY <2>1, <2>2, <1>12
<1>24. k < z => tail'[c] = tail[c] BY <1>3, <1>12, <1>22
<1>25. k = z /\ k > 1 => tail'[c] = t[k - 1] BY <1>14, <1>22
<1>26. k > 1 => IF k < z THEN next'[t[k - 1]] = t[k + 1] ELSE next'[t[k - 1]] \in {None, Wild}
  <2> SUFFICES ASSUME k > 1 PROVE next'[t[k - 1]] = after
    BY <1>18
  <2>1. k - 1 \in 1 .. z /\ k - 1 # k BY <1>3, <1>12
  <2>2. t[k - 1] \in Items /\ t[k - 1] # t[k] BY <2>1, <1>3, <1>11, <1>16 DEF Once
  <2> QED BY <2>2, <1>14, <1>19
<1>27. Nearly(next', next, t, IF k > 1 THEN {t[k], t[k - 1]} ELSE {t[k]})
  <2>1. \A x \in Items : x # t[k] /\ (k > 1 => x # t[k - 1]) => next'[x] = f[x]
    <3> SUFFICES ASSUME NEW x \in Items, x # t[k], k > 1 => x # t[k - 1] PROVE next'[x] = f[x]
      OBVIOUS
    <3>1. x # at[1]
      <4>1. k = 1 \/ k > 1 BY <1>12
      <4>2. x # None BY ForwardAssumption
      <4> QED BY <4>1, <4>2, <1>14
    <3> QED BY <3>1, <1>19
  <2> QED BY <2>1, <1>2, <1>15 DEF Nearly
<1>28. Lists([s EXCEPT ![c] = RemoveAt(t, k)], next', head', tail')
  BY <1>1, <1>2, <1>11, <1>20, <1>22, <1>23, <1>24, <1>25, <1>26, <1>27, TakeLists
<1>29. Changes(s, [s EXCEPT ![c] = RemoveAt(t, k)], Names, Items) BY <1>1, <1>2, <1>11 DEF Changes
<1> QED BY <1>28, <1>29 DEF Leads

\* swap() has two chains change places.
LEMMA ForwardSwapLeads ==
  ASSUME NEW s, Lists(s, next, head, tail), NEW c \in Names, NEW d \in Names, c # d, swap(c, d)
  PROVE  Leads(s, next', head', tail')
<1>1. Lists([s EXCEPT ![c] = s[d], ![d] = s[c]], next', head', tail') BY SwapLists DEF swap
<1>2. Changes(s, [s EXCEPT ![c] = s[d], ![d] = s[c]], Names, Items) BY DEF Changes
<1> QED BY <1>1, <1>2 DEF Leads

\* push_front() and push_back() of a chain splice, and swap when the chain is empty.
LEMMA ForwardPushChainLeads ==
  ASSUME NEW s, Lists(s, next, head, tail), NEW c \in Names, NEW d \in Names, c # d,
         push_front_chain(c, d) \/ push_back_chain(c, d)
  PROVE  Leads(s, next', head', tail')
<1>1. /\ head \in [Names -> Place] /\ tail \in [Names -> Place]
      /\ Len(s[c]) \in Nat /\ Len(s[d]) \in Nat
      /\ head[c] = None <=> Len(s[c]) = 0
      /\ head[d] = None <=> Len(s[d]) = 0
  <2>1. PICK t : t = s[c] OBVIOUS
  <2>2. PICK m : m = Len(t) OBVIOUS
  <2>3. PICK r : r = s[d] OBVIOUS
  <2>4. PICK n : n = Len(r) OBVIOUS
  <2>5. /\ m \in Nat /\ (head[c] = None <=> m = 0)
        /\ head \in [Names -> Place] /\ tail \in [Names -> Place]
    BY <2>1, <2>2, HeadIs
  <2>6. n \in Nat /\ (head[d] = None <=> n = 0) BY <2>3, <2>4, HeadIs
  <2> QED BY <2>1, <2>2, <2>3, <2>4, <2>5, <2>6
<1>2. CASE head[c] = None
  <2>1. swap(c, d) BY <1>2 DEF push_front_chain, push_back_chain
  <2> QED BY <2>1, ForwardSwapLeads
<1>3. CASE head[c] # None /\ push_front_chain(c, d)
  <2>1. Len(s[c]) > 0 /\ Len(s[d]) > 0 BY <1>1, <1>3 DEF push_front_chain
  <2>2. next' = [next EXCEPT ![tail[d]] = head[c]] BY <1>3 DEF push_front_chain
  <2>3. head' = [head EXCEPT ![c] = head[d], ![d] = None] BY <1>3 DEF push_front_chain
  <2>4. tail' = [tail EXCEPT ![c] = tail[c]]
    <3>1. tail' = tail BY <1>3 DEF push_front_chain
    <3> QED BY <3>1, <1>1
  <2>5. (c = d /\ d = c) \/ (c = c /\ d = d) OBVIOUS
  <2>6. Lists([s EXCEPT ![c] = s[d] \o s[c], ![d] = << >>],
              [next EXCEPT ![tail[d]] = head[c]], [head EXCEPT ![c] = head[d], ![d] = None],
              [tail EXCEPT ![c] = tail[c]])
    BY <2>1, <2>5, JoinLists
  <2>7. Changes(s, [s EXCEPT ![c] = s[d] \o s[c], ![d] = << >>], Names, Items) BY DEF Changes
  <2> QED BY <2>2, <2>3, <2>4, <2>6, <2>7 DEF Leads
<1>4. CASE head[c] # None /\ push_back_chain(c, d)
  <2>1. Len(s[c]) > 0 /\ Len(s[d]) > 0 BY <1>1, <1>4 DEF push_back_chain
  <2>2. next' = [next EXCEPT ![tail[c]] = head[d]] BY <1>4 DEF push_back_chain
  <2>3. head' = [head EXCEPT ![c] = head[c], ![d] = None]
    <3>1. head' = [head EXCEPT ![d] = None] BY <1>4 DEF push_back_chain
    <3> QED BY <3>1, <1>1
  <2>4. tail' = [tail EXCEPT ![c] = tail[d]] BY <1>4 DEF push_back_chain
  <2>5. (c = c /\ d = d) \/ (c = d /\ d = c) OBVIOUS
  <2>6. Lists([s EXCEPT ![c] = s[c] \o s[d], ![d] = << >>],
              [next EXCEPT ![tail[c]] = head[d]], [head EXCEPT ![c] = head[c], ![d] = None],
              [tail EXCEPT ![c] = tail[d]])
    BY <2>1, <2>5, JoinLists
  <2>7. Changes(s, [s EXCEPT ![c] = s[c] \o s[d], ![d] = << >>], Names, Items) BY DEF Changes
  <2> QED BY <2>2, <2>3, <2>4, <2>6, <2>7 DEF Leads
<1> QED BY <1>2, <1>3, <1>4

\* A step from the chains s
LEMMA ForwardGoes ==
  ASSUME NEW s, Lists(s, next, head, tail), ForwardNext
  PROVE  Leads(s, next', head', tail')
<1>1. PICK c \in Names :
    \/ \E item \in Items : push_front(c, item) \/ push_back(c, item) \/ insert(c, item)
    \/ pop_front(c) \/ erase(c)
    \/ \E d \in Names \ {c} : push_front_chain(c, d) \/ push_back_chain(c, d) \/ swap(c, d)
  BY DEF ForwardNext
<1>2. ASSUME NEW item \in Items, push_front(c, item) PROVE Leads(s, next', head', tail')
  BY <1>2, ForwardPushFrontLeads
<1>3. ASSUME NEW item \in Items, push_back(c, item) PROVE Leads(s, next', head', tail')
  BY <1>3, ForwardPushBackLeads
<1>4. ASSUME NEW item \in Items, insert(c, item) PROVE Leads(s, next', head', tail')
  BY <1>4, ForwardInsertLeads
<1>5. ASSUME pop_front(c) PROVE Leads(s, next', head', tail')
  BY <1>5, ForwardPopFrontLeads
<1>6. ASSUME erase(c) PROVE Leads(s, next', head', tail')
  BY <1>6, ForwardEraseLeads
<1>7. ASSUME NEW d \in Names \ {c}, push_front_chain(c, d) \/ push_back_chain(c, d)
      PROVE  Leads(s, next', head', tail')
  BY <1>7, ForwardPushChainLeads
<1>8. ASSUME NEW d \in Names \ {c}, swap(c, d) PROVE Leads(s, next', head', tail')
  BY <1>8, ForwardSwapLeads
<1> QED BY <1>1, <1>2, <1>3, <1>4, <1>5, <1>6, <1>7, <1>8

\* The chains as a loop from the head to the tail finds them
Listed == [c \in Names |-> Contents(c)]

\* What the loop finds is the chains that the links hold.
LEMMA ListedIs ==
  ASSUME NEW s, Lists(s, next, head, tail)
  PROVE  Listed = s
<1>1. \A c \in Names : Trail(next, head[c], tail[c]) = s[c]
  <2> SUFFICES ASSUME NEW c \in Names PROVE Trail(next, head[c], tail[c]) = s[c]
    OBVIOUS
  <2>1. PICK t \in Seq(Items) : t = s[c] BY OneRow
  <2>2. Row(next, t) /\ Bounds(t, head[c], tail[c]) /\ Once(t, Len(t)) BY <2>1, OneRow
  <2>3. next \in [Items -> Target] BY DEF Lists
  <2>4. Trail(next, head[c], tail[c]) = t BY <2>2, <2>3, TrailIs
  <2> QED BY <2>1, <2>4
<1>2. \A c \in Names : Contents(c) = Trail(next, head[c], tail[c])
  BY DEF Contents, Trail
<1>3. s = [c \in Names |-> s[c]] BY DEF Lists
<1> QED BY <1>1, <1>2, <1>3 DEF Listed

\* The same, after a step
LEMMA ListedNext ==
  ASSUME NEW s, Lists(s, next', head', tail')
  PROVE  Listed' = s
<1>1. \A c \in Names : Trail(next', head'[c], tail'[c]) = s[c]
  <2> SUFFICES ASSUME NEW c \in Names PROVE Trail(next', head'[c], tail'[c]) = s[c]
    OBVIOUS
  <2>1. PICK t \in Seq(Items) : t = s[c] BY OneRow
  <2>2. Row(next', t) /\ Bounds(t, head'[c], tail'[c]) /\ Once(t, Len(t)) BY <2>1, OneRow
  <2>3. next' \in [Items -> Target] BY DEF Lists
  <2>4. Trail(next', head'[c], tail'[c]) = t BY <2>2, <2>3, TrailIs
  <2> QED BY <2>1, <2>4
<1>2. s = [c \in Names |-> s[c]] BY DEF Lists
<1>3. Listed' = [c \in Names |-> Trail(next', head'[c], tail'[c])]
  BY DEF Listed, Contents, Trail
<1> QED BY <1>1, <1>2, <1>3

\* Initially all chains are empty.
LEMMA ForwardInvInit == ForwardInit => ForwardInv /\ Listed = [c \in Names |-> << >>]
<1> SUFFICES ASSUME ForwardInit PROVE ForwardInv /\ Listed = [c \in Names |-> << >>]
  OBVIOUS
<1> DEFINE s == [c \in Names |-> << >>]
<1>1. << >> \in Seq(Items) /\ Len(<< >>) = 0 BY EmptySeq
<1>2. Lists(s, next, head, tail)
  BY <1>1 DEF ForwardInit, Lists, Distinct, Row, Bounds, Target, Place
<1> QED BY <1>2, ListedIs DEF ForwardInv

\* The operations implement those of the pair of sequences.
LEMMA ForwardStep ==
  ForwardInv /\ [ForwardNext]_forwardVars => ForwardInv' /\ [Sequences!ChainPairNext]_Listed
<1> SUFFICES ASSUME ForwardInv, [ForwardNext]_forwardVars PROVE ForwardInv' /\ [Sequences!ChainPairNext]_Listed
  OBVIOUS
<1>1. PICK s : Lists(s, next, head, tail) BY DEF ForwardInv
<1>2. CASE UNCHANGED forwardVars
  <2>1. next' = next /\ head' = head /\ tail' = tail BY <1>2 DEF forwardVars
  <2>2. ForwardInv' BY <1>1, <2>1 DEF ForwardInv
  <2>3. Listed' = Listed BY <1>1, <2>1, ListedIs, ListedNext
  <2> QED BY <2>2, <2>3
<1>3. CASE ForwardNext
  <2>1. PICK s2 : Lists(s2, next', head', tail') /\ Changes(s, s2, Names, Items)
    BY <1>1, <1>3, ForwardGoes DEF Leads
  <2>2. ForwardInv' BY <2>1 DEF ForwardInv
  <2>3. Listed = s /\ Listed' = s2 BY <1>1, <2>1, ListedIs, ListedNext
  <2>4. Sequences!ChainPairNext
    <3>1. \A m : m \in Sequences!Linked <=> \E c \in Names : InChain(s[c], m)
      <4>1. \A m : m \in Sequences!Linked <=> \E c \in Names : m \in Range(Listed[c])
        BY DEF Sequences!Linked, Sequences!Range, Range, Listed
      <4> QED BY <4>1, <2>3 DEF Range, InChain
    <3>2. PICK c \in Names :
            \/ \E item \in Items : /\ \A d \in Names : ~InChain(s[d], item)
                                   /\ \E k \in 1 .. Len(s[c]) + 1 : s2 = [s EXCEPT ![c] = InsertAt(s[c], k, item)]
            \/ \E k \in 1 .. Len(s[c]) : s2 = [s EXCEPT ![c] = RemoveAt(s[c], k)]
            \/ \E d \in Names :
                 /\ c # d
                 /\ \/ s2 = [s EXCEPT ![c] = s[c] \o s[d], ![d] = << >>]
                    \/ s2 = [s EXCEPT ![c] = s[d] \o s[c], ![d] = << >>]
                    \/ s2 = [s EXCEPT ![c] = s[d], ![d] = s[c]]
      BY <2>1 DEF Changes
    <3>3. DOMAIN s[c] = 1 .. Len(s[c])
      <4>1. s[c] \in Seq(Items) BY <1>1, OneRow
      <4> QED BY <4>1, LenProperties
    <3>4. ASSUME NEW item \in Items, \A d \in Names : ~InChain(s[d], item),
                 NEW k \in 1 .. Len(s[c]) + 1, s2 = [s EXCEPT ![c] = InsertAt(s[c], k, item)]
          PROVE  Sequences!Add(c, item)
      <4>1. item \notin Sequences!Linked BY <3>1, <3>4
      <4>2. Listed' = [Listed EXCEPT ![c] = InsertAt(@, k, item)] /\ k \in 1 .. Len(Listed[c]) + 1 BY <2>3, <3>4
      <4> QED BY <4>1, <4>2 DEF Sequences!Add, Sequences!InsertAt, InsertAt, Listed
    <3>5. ASSUME NEW k \in 1 .. Len(s[c]), s2 = [s EXCEPT ![c] = RemoveAt(s[c], k)]
          PROVE  Sequences!Take(c)
      <4>1. Listed' = [Listed EXCEPT ![c] = RemoveAt(@, k)] /\ k \in DOMAIN Listed[c] BY <2>3, <3>3, <3>5
      <4> QED BY <4>1 DEF Sequences!Take, Sequences!RemoveAt, RemoveAt, Listed
    <3>6. ASSUME NEW d \in Names, c # d,
                 \/ s2 = [s EXCEPT ![c] = s[c] \o s[d], ![d] = << >>]
                 \/ s2 = [s EXCEPT ![c] = s[d] \o s[c], ![d] = << >>]
          PROVE  Sequences!Splice(c, d)
      <4>1. Listed' \in {[Listed EXCEPT ![c] = @ \o Listed[d], ![d] = << >>],
                         [Listed EXCEPT ![c] = Listed[d] \o @, ![d] = << >>]}
        BY <2>3, <3>6
      <4> QED BY <4>1, <3>6 DEF Sequences!Splice, Listed
    <3>7. ASSUME NEW d \in Names, s2 = [s EXCEPT ![c] = s[d], ![d] = s[c]]
          PROVE  Sequences!Swap(c, d)
      <4>1. Listed' = [Listed EXCEPT ![c] = Listed[d], ![d] = Listed[c]] BY <2>3, <3>7
      <4> QED BY <4>1 DEF Sequences!Swap, Listed
    <3> QED BY <3>2, <3>4, <3>5, <3>6, <3>7 DEF Sequences!ChainPairNext
  <2> QED BY <2>2, <2>4
<1> QED BY <1>2, <1>3

\* The links of a MultiForwardChain always lead through some sequences, in which nothing is
\* twice; what the last item links to and the tail of an empty chain do not matter (mforwardchain.h).
THEOREM ForwardInvariant == ForwardSpec => []ForwardInv
<1> QED BY ForwardInvInit, ForwardStep, PTL DEF ForwardSpec

\* A MultiForwardChain implements a sequence: every push, pop, insert, erase and swap is the
\* one of ChainPair, and an item in no chain may always be put into one, however many items
\* and chains there are.
THEOREM ForwardImplementsSequences == ForwardSpec => ImplementsSequences
<1>1. ForwardInv => \A item \in Items : Free(item) <=> item \notin Sequences!Linked
  <2> SUFFICES ASSUME ForwardInv PROVE \A item \in Items : Free(item) <=> item \notin Sequences!Linked
    OBVIOUS
  <2>1. PICK s : Lists(s, next, head, tail) BY DEF ForwardInv
  <2>2. Listed = s BY <2>1, ListedIs
  <2>3. \A item \in Items : Free(item) <=> \A c \in Names : ~InChain(s[c], item)
    BY <2>1, FreeIs DEF Free
  <2>4. \A m : m \in Sequences!Linked <=> \E c \in Names : InChain(s[c], m)
    <3>1. \A m : m \in Sequences!Linked <=> \E c \in Names : m \in Range(Listed[c])
      BY DEF Sequences!Linked, Sequences!Range, Range, Listed
    <3> QED BY <3>1, <2>2 DEF Range, InChain
  <2> QED BY <2>3, <2>4
<1>2. ForwardInit => [c \in Names |-> Contents(c)] = [c \in Names |-> << >>]
  BY ForwardInvInit DEF Listed
<1>3. ForwardInv /\ [ForwardNext]_forwardVars => [Sequences!ChainPairNext]_[c \in Names |-> Contents(c)]
  BY ForwardStep DEF Listed
<1> QED BY <1>1, <1>2, <1>3, ForwardInvariant, PTL
        DEF ForwardSpec, ImplementsSequences, Sequences!ChainPairSpec
=============================================================================
