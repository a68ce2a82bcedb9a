-------------------------- MODULE SublistTheorems ---------------------------
(***************************************************************************)
(* Facts about the list operators of Sublists, about the lists of          *)
(* consecutive numbers they are applied to, about counting (positions,     *)
(* ranks and sums), and about tables whose rows hold each block once.      *)
(***************************************************************************)
EXTENDS Sublists, FiniteSetTheorems, TLAPS

(* 1 .. n, c + 1 .. c + d and c down to c - d + 1, as lists.               *)
Prefix(n) == [i \in 1 .. n |-> i]
Up(c, d) == [i \in 1 .. d |-> c + i]
Down(c, d) == [i \in 1 .. d |-> c + 1 - i]

(* Filtering a list whose kept elements are consecutive cuts out that run. *)
LEMMA KeepRun ==
  ASSUME NEW s, NEW S, NEW lo \in Nat, NEW hi \in Nat, lo >= 1, hi >= lo - 1,
         {i \in DOMAIN s : s[i] \in S} = lo .. hi
  PROVE  Keep(s, S) = [n \in 1 .. hi - lo + 1 |-> s[lo + n - 1]]
<1> DEFINE kept == {i \in DOMAIN s : s[i] \in S}
           Rank(i) == Cardinality({j \in kept : j <= i})
<1>1. Keep(s, S) = [n \in 1 .. Cardinality(kept) |-> s[CHOOSE i \in kept : Rank(i) = n]]
  BY DEF Keep
<1>2. kept = lo .. hi /\ lo \in Int /\ hi \in Int
  OBVIOUS
<1> HIDE DEF kept
<1>3. Cardinality(kept) = hi - lo + 1
  <2>1. Cardinality(lo .. hi) = IF lo > hi THEN 0 ELSE hi - lo + 1
    BY <1>2, FS_Interval, Zenon
  <2> QED BY <1>2, <2>1
<1>4. ASSUME NEW i \in lo .. hi
      PROVE  Rank(i) = i - lo + 1
  <2>1. {j \in kept : j <= i} = lo .. i /\ i \in Int
    BY <1>2
  <2>2. Cardinality(lo .. i) = IF lo > i THEN 0 ELSE i - lo + 1
    BY <1>2, <2>1, FS_Interval, Zenon
  <2>3. Rank(i) = Cardinality(lo .. i)
    BY <2>1, Zenon DEF Rank
  <2>4. Cardinality(lo .. i) = i - lo + 1
    BY <2>2, <1>2
  <2> QED BY <2>3, <2>4, Zenon
<1> HIDE DEF Rank
<1>5. ASSUME NEW n \in 1 .. hi - lo + 1
      PROVE  (CHOOSE i \in kept : Rank(i) = n) = lo + n - 1
  <2>1. lo + n - 1 \in kept /\ Rank(lo + n - 1) = n
    BY <1>2, <1>4
  <2>2. \A i \in kept : Rank(i) = n => i = lo + n - 1
    BY <1>2, <1>4
  <2> QED BY <2>1, <2>2
<1> QED BY <1>1, <1>3, <1>5

(* The three shapes of list have the lengths they are written with. *)
LEMMA ListLengths ==
  ASSUME NEW n \in Nat, NEW c \in Int
  PROVE  /\ Len(Prefix(n)) = n /\ Len(Up(c, n)) = n /\ Len(Down(c, n)) = n
         /\ DOMAIN Prefix(n) = 1 .. n /\ DOMAIN Up(c, n) = 1 .. n /\ DOMAIN Down(c, n) = 1 .. n
         /\ Prefix(n) \in Seq(1 .. n)
BY DEF Prefix, Up, Down

(* The layers in a list of each shape: the first n, the n above c, the n up to c. *)
LEMMA ListElements ==
  ASSUME NEW n \in Nat, NEW c \in Int
  PROVE  /\ Elements(Prefix(n)) = 1 .. n
         /\ Elements(Up(c, n)) = c + 1 .. c + n
         /\ Elements(Down(c, n)) = c - n + 1 .. c
<1>1. Elements(Prefix(n)) = 1 .. n
  BY DEF Elements, Prefix
<1>2. ASSUME NEW l \in c + 1 .. c + n
      PROVE  \E i \in 1 .. n : c + i = l
  <2>1. l - c \in 1 .. n /\ c + (l - c) = l
    OBVIOUS
  <2> QED BY <2>1
<1>3. ASSUME NEW l \in c - n + 1 .. c
      PROVE  \E i \in 1 .. n : c + 1 - i = l
  <2>1. c + 1 - l \in 1 .. n /\ c + 1 - (c + 1 - l) = l
    OBVIOUS
  <2> QED BY <2>1
<1>4. Elements(Up(c, n)) = c + 1 .. c + n
  BY <1>2 DEF Elements, Up
<1>5. Elements(Down(c, n)) = c - n + 1 .. c
  BY <1>3 DEF Elements, Down
<1> QED BY <1>1, <1>4, <1>5

(* Appending the next profile position to a prefix of the profile gives the next prefix. *)
LEMMA PrefixGrows ==
  ASSUME NEW n \in Nat
  PROVE  Append(Prefix(n), n + 1) = Prefix(n + 1)
<1>1. Prefix(n) \in Seq(Nat) /\ Len(Prefix(n)) = n
  BY DEF Prefix
<1> QED BY <1>1 DEF Prefix

(* The positions above c, appended to the first c, give the first c + d (active_layers
   after a commit). *)
LEMMA PrefixThenUp ==
  ASSUME NEW c \in Nat, NEW d \in Nat
  PROVE  Prefix(c) \o Up(c, d) = Prefix(c + d)
<1>1. Prefix(c) \in Seq(Nat) /\ Len(Prefix(c)) = c /\ Up(c, d) \in Seq(Nat) /\ Len(Up(c, d)) = d
  BY DEF Prefix, Up
<1> QED BY <1>1 DEF Prefix, Up

(* Dropping the last m of a prefix leaves a shorter prefix (kv_groups.pop). *)
LEMMA PrefixCut ==
  ASSUME NEW n \in Nat, NEW m \in 0 .. n
  PROVE  DropLast(Prefix(n), m) = Prefix(n - m)
BY ListLengths DEF DropLast, Prefix

(* The last m of a prefix, newest first, are the positions n downwards
   (reversed(active[-m:])). *)
LEMMA PrefixNewest ==
  ASSUME NEW n \in Nat, NEW m \in 0 .. n
  PROVE  NewestFirst(Prefix(n), m) = Down(n, m)
BY ListLengths DEF NewestFirst, Prefix, Down

(* A comprehension over a prefix whose filter holds of its first m positions leaves those m. *)
LEMMA PrefixKeep ==
  ASSUME NEW n \in Nat, NEW m \in 0 .. n, NEW S, \A i \in 1 .. n : i \in S <=> i <= m
  PROVE  Keep(Prefix(n), S) = Prefix(m)
<1>1. {i \in DOMAIN Prefix(n) : Prefix(n)[i] \in S} = 1 .. m
  BY DEF Prefix
<1>2. Keep(Prefix(n), S) = [j \in 1 .. m - 1 + 1 |-> Prefix(n)[1 + j - 1]]
  BY <1>1, KeepRun, SMTT(30)
<1> QED BY <1>2 DEF Prefix

(* A comprehension over a prefix whose filter holds above m leaves the positions above
   m, in order. *)
LEMMA PrefixKeepRest ==
  ASSUME NEW n \in Nat, NEW m \in 0 .. n, NEW S, \A i \in 1 .. n : i \in S <=> i > m
  PROVE  Keep(Prefix(n), S) = Up(m, n - m)
<1>1. {i \in DOMAIN Prefix(n) : Prefix(n)[i] \in S} = m + 1 .. n
  BY DEF Prefix
<1>2. Keep(Prefix(n), S) = [j \in 1 .. n - (m + 1) + 1 |-> Prefix(n)[m + 1 + j - 1]]
  BY <1>1, KeepRun, SMTT(30)
<1> QED BY <1>2 DEF Prefix, Up

(* The first d of n ascending positions are the first min(d, n) of them (a slice may
   come out shorter). *)
LEMMA UpTaken ==
  ASSUME NEW c \in Nat, NEW n \in Nat, NEW d \in Nat
  PROVE  Take(Up(c, n), d) = Up(c, IF d < n THEN d ELSE n)
BY ListLengths DEF Take, Up

(* The layers of a failed batch that did morph, newest first.              *)
LEMMA UpReversedKeep ==
  ASSUME NEW c \in Nat, NEW d \in Nat, NEW a \in c .. c + d
  PROVE  Keep(Reversed(Up(c, d)), 1 .. a) = Down(a, a - c)
<1> DEFINE s == Reversed(Up(c, d))
<1>1. s = Down(c + d, d)
  BY ListLengths DEF Reversed, NewestFirst, Up, Down
<1>2. {i \in DOMAIN s : s[i] \in 1 .. a} = c + d + 1 - a .. d
  BY <1>1 DEF Down
<1>3. Keep(s, 1 .. a) = [j \in 1 .. d - (c + d + 1 - a) + 1 |-> s[c + d + 1 - a + j - 1]]
  <2>1. /\ c + d + 1 - a \in Nat /\ d \in Nat
        /\ c + d + 1 - a >= 1 /\ d >= c + d + 1 - a - 1
    OBVIOUS
  <2> DEFINE lo == c + d + 1 - a
             S == 1 .. a
  <2>2. {i \in DOMAIN s : s[i] \in S} = lo .. d /\ lo \in Nat /\ d \in Nat /\ lo >= 1 /\ d >= lo - 1
    BY <1>2, <2>1
  <2> HIDE DEF s, lo, S
  <2>3. Keep(s, S) = [j \in 1 .. d - lo + 1 |-> s[lo + j - 1]]
    BY <2>2, KeepRun, SMTT(30)
  <2> QED BY <2>3 DEF lo, S
<1>4. ASSUME NEW j \in 1 .. a - c
      PROVE  s[c + d + 1 - a + j - 1] = a + 1 - j
  BY <1>1 DEF Down
<1>5. d - (c + d + 1 - a) + 1 = a - c
  OBVIOUS
<1> HIDE DEF s
<1>6. Keep(s, 1 .. a) = Down(a, a - c)
  BY <1>3, <1>4, <1>5 DEF Down
<1> QED BY <1>6 DEF s

(* ----------------------------------------------------------------------- *)
(* Least and largest numbers, and ranks                                    *)

(* Any set of naturals has a least element: what stands in for induction. *)
LEMMA Smallest ==
  ASSUME NEW K \in SUBSET Nat, K # {}
  PROVE  \E m \in K : \A n \in K : m <= n
<1> DEFINE T == {1 .. n : n \in K}
           S == FiniteSubsetsOf(Nat)
           R == StrictSubsetOrdering(Nat)
<1>1. IsWellFoundedOn(R, S)
  BY FS_StrictSubsetOrderingWellFounded, Zenon
<1>2. T \subseteq S /\ T # {}
  <2>1. ASSUME NEW n \in K PROVE 1 .. n \in S
    <3>1. 1 \in Int /\ n \in Int /\ 1 .. n \in SUBSET Nat
      OBVIOUS
    <3>2. IsFiniteSet(1 .. n)
      BY <3>1, FS_Interval, Zenon
    <3> QED BY <3>1, <3>2, Zenon DEF FiniteSubsetsOf
  <2> HIDE DEF S
  <2> QED BY <2>1, Zenon
<1>3. PICK t \in T : \A u \in T : ~(<<u, t>> \in R)
  <2> HIDE DEF T, S, R
  <2> QED BY <1>1, <1>2, WFMin, Zenon
<1>4. PICK m \in K : t = 1 .. m
  OBVIOUS
<1>5. ASSUME NEW n \in K, n < m PROVE FALSE
  <2>1. 1 .. n \subseteq 1 .. m /\ 1 .. n # 1 .. m
    <3>1. m \in 1 .. m /\ m \notin 1 .. n
      BY <1>5
    <3>2. \A i \in 1 .. n : i \in 1 .. m
      BY <1>5
    <3> QED BY <3>1, <3>2
  <2>2. <<1 .. n, 1 .. m>> \in R
    BY <2>1 DEF StrictSubsetOrdering
  <2> QED BY <1>3, <1>4, <2>2
<1> QED BY <1>5

(* A bounded set of naturals has a largest element. *)
LEMMA Largest ==
  ASSUME NEW K \in SUBSET Nat, K # {}, NEW bound \in Nat, \A i \in K : i <= bound
  PROVE  \E m \in K : \A i \in K : i <= m
<1> DEFINE gaps == {bound - i : i \in K}
<1>1. gaps \in SUBSET Nat /\ gaps # {}
  <2>1. \A i \in K : bound - i \in Nat
    <3> SUFFICES ASSUME NEW i \in K PROVE bound - i \in Nat
      OBVIOUS
    <3>1. i \in Nat /\ i <= bound
      OBVIOUS
    <3> QED BY <3>1
  <2> QED BY <2>1, Zenon
<1>2. PICK g \in gaps : \A h \in gaps : g <= h
  <2> HIDE DEF gaps
  <2> QED BY <1>1, Smallest
<1>3. PICK m \in K : g = bound - m
  OBVIOUS
<1>4. ASSUME NEW i \in K PROVE i <= m
  <2>1. g <= bound - i /\ i \in Nat /\ m \in Nat
    BY <1>2
  <2> QED BY <2>1, <1>3
<1> QED BY <1>4

(* The place of i among the elements of K. *)
RankIn(K, i) == Cardinality({j \in K : j <= i})

(* Counting the elements up to each one numbers a finite set of integers from 1, in order. *)
LEMMA RankNumbers ==
  ASSUME NEW K \in SUBSET Int, IsFiniteSet(K)
  PROVE  /\ Cardinality(K) \in Nat
         /\ \A i \in K : RankIn(K, i) \in 1 .. Cardinality(K)
         /\ \A i, j \in K : i < j <=> RankIn(K, i) < RankIn(K, j)
         /\ \A n \in 1 .. Cardinality(K) : \E i \in K : RankIn(K, i) = n
<1> DEFINE upto(i) == {j \in K : j <= i}
           rank == [i \in K |-> RankIn(K, i)]
           all == 1 .. Cardinality(K)
<1>1. Cardinality(K) \in Nat
  BY FS_CardinalityType, Zenon
<1>2. ASSUME NEW i \in K
      PROVE  IsFiniteSet(upto(i)) /\ RankIn(K, i) \in Nat /\ RankIn(K, i) \in all
  <2>1. upto(i) \in SUBSET K /\ i \in upto(i)
    OBVIOUS
  <2>2. IsFiniteSet(upto(i)) /\ Cardinality(upto(i)) <= Cardinality(K)
    BY <2>1, FS_Subset, Zenon
  <2>3. Cardinality(upto(i)) \in Nat /\ Cardinality(upto(i)) # 0
    BY <2>1, <2>2, FS_CardinalityType, FS_EmptySet, Zenon
  <2> HIDE DEF upto
  <2>4. RankIn(K, i) = Cardinality(upto(i))
    BY Zenon DEF RankIn, upto
  <2> QED BY <1>1, <2>2, <2>3, <2>4
<1> HIDE DEF upto
<1>6. \A i \in K : i \in Int /\ RankIn(K, i) \in Int
  BY <1>2
<1>3. ASSUME NEW i \in K, NEW j \in K, i < j
      PROVE  RankIn(K, i) < RankIn(K, j)
  <2>4. i \in Int /\ j \in Int
    BY <1>6
  <2>1. upto(i) \in SUBSET upto(j) /\ j \in upto(j) /\ j \notin upto(i)
    <3>1. \A l \in K : l \in Int /\ (l <= i => l <= j)
      BY <1>3, <1>6, <2>4
    <3>2. j <= j /\ ~(j <= i)
      BY <1>3, <2>4
    <3> QED BY <3>1, <3>2, Zenon DEF upto
  <2>2. Cardinality(upto(i)) <= Cardinality(upto(j)) /\ Cardinality(upto(i)) # Cardinality(upto(j))
    BY <1>2, <2>1, FS_Subset, Zenon
  <2>3. RankIn(K, i) = Cardinality(upto(i)) /\ RankIn(K, j) = Cardinality(upto(j))
    BY Zenon DEF RankIn, upto
  <2> QED BY <1>2, <2>2, <2>3
<1>4. \A i, j \in K : i < j <=> RankIn(K, i) < RankIn(K, j)
  <2> SUFFICES ASSUME NEW i \in K, NEW j \in K PROVE i < j <=> RankIn(K, i) < RankIn(K, j)
    OBVIOUS
  <2>1. i \in Int /\ j \in Int /\ RankIn(K, i) \in Int /\ RankIn(K, j) \in Int
    BY <1>6
  <2>2. i < j \/ i = j \/ j < i
    BY <2>1
  <2> QED BY <1>3, <2>1, <2>2
<1>5. ASSUME NEW n \in all PROVE \E i \in K : RankIn(K, i) = n
  <2>1. 1 \in Int /\ Cardinality(K) \in Int
    BY <1>1
  <2>2. IsFiniteSet(all) /\ Cardinality(all) = IF 1 > Cardinality(K) THEN 0 ELSE Cardinality(K) - 1 + 1
    BY <2>1, FS_Interval, Zenon
  <2>3. Cardinality(K) = Cardinality(all)
    BY <1>1, <2>2
  <2>4. \A i, j \in K : rank[i] = rank[j] => i = j
    <3> SUFFICES ASSUME NEW i \in K, NEW j \in K, rank[i] = rank[j] PROVE i = j
      OBVIOUS
    <3>1. i \in Int /\ j \in Int /\ RankIn(K, i) = RankIn(K, j) /\ RankIn(K, i) \in Int
      BY <1>6 DEF rank
    <3> QED BY <3>1, <1>4
  <2>5. rank \in [K -> all]
    BY <1>2, Zenon
  <2> HIDE DEF rank, all
  <2>6. rank \in Injection(K, all)
    BY <2>4, <2>5, Zenon DEF Injection, IsInjective
  <2>7. rank \in Surjection(K, all)
    BY <2>2, <2>3, <2>6, FS_Injection, Zenon
  <2>8. \E i \in K : rank[i] = n
    BY <2>7, Zenon DEF Surjection
  <2> QED BY <2>8 DEF rank
<1> QED BY <1>1, <1>2, <1>4, <1>5, Zenon

(* The elements ranked a + 1 to b of a finite set of integers are b - a. *)
LEMMA RankSlice ==
  ASSUME NEW K \in SUBSET Int, IsFiniteSet(K), NEW a \in Nat, NEW b \in Nat, a <= b, b <= Cardinality(K)
  PROVE  Cardinality({i \in K : RankIn(K, i) \in a + 1 .. b}) = b - a
<1> DEFINE slice == {i \in K : RankIn(K, i) \in a + 1 .. b}
           rank == [i \in slice |-> RankIn(K, i)]
           I == a + 1 .. b
<1>1. /\ Cardinality(K) \in Nat
      /\ \A i \in K : RankIn(K, i) \in 1 .. Cardinality(K)
      /\ \A i, j \in K : i < j <=> RankIn(K, i) < RankIn(K, j)
      /\ \A n \in 1 .. Cardinality(K) : \E i \in K : RankIn(K, i) = n
  BY RankNumbers, Zenon
<1>2. \A i \in K : i \in Int /\ RankIn(K, i) \in Int
  BY <1>1
<1>3. \A n \in I : n \in 1 .. Cardinality(K)
  BY <1>1
<1>4. IsFiniteSet(slice)
  <2>1. slice \in SUBSET K
    OBVIOUS
  <2> HIDE DEF slice
  <2> QED BY <2>1, FS_Subset, Zenon
<1>5. Cardinality(I) = b - a
  <2>1. a + 1 \in Int /\ b \in Int
    OBVIOUS
  <2>2. Cardinality(a + 1 .. b) = IF a + 1 > b THEN 0 ELSE b - (a + 1) + 1
    BY <2>1, FS_Interval, Zenon
  <2> QED BY <2>2
<1>6. \A i, j \in slice : rank[i] = rank[j] => i = j
  <2> SUFFICES ASSUME NEW i \in slice, NEW j \in slice, RankIn(K, i) = RankIn(K, j) PROVE i = j
    OBVIOUS
  <2>1. i \in K /\ j \in K
    OBVIOUS
  <2>2. i \in Int /\ j \in Int /\ ~(i < j) /\ ~(j < i)
    BY <2>1, <1>1, <1>2
  <2> QED BY <2>2
<1>7. \A n \in I : \E i \in slice : rank[i] = n
  <2> SUFFICES ASSUME NEW n \in I PROVE \E i \in slice : rank[i] = n
    OBVIOUS
  <2>1. PICK i \in K : RankIn(K, i) = n
    BY <1>1, <1>3, Zenon
  <2>2. i \in slice
    BY <2>1, Zenon
  <2> QED BY <2>1, <2>2, Zenon
<1>8. rank \in [slice -> I]
  OBVIOUS
<1> HIDE DEF rank, slice, I
<1>9. rank \in Bijection(slice, I)
  BY <1>6, <1>7, <1>8, Zenon DEF Bijection, Injection, Surjection, IsInjective
<1>10. ExistsBijection(slice, I)
  BY <1>9, Zenon DEF ExistsBijection
<1>11. Cardinality(I) = Cardinality(slice)
  BY <1>4, <1>10, FS_Bijection, Zenon
<1> QED BY <1>5, <1>11 DEF slice

(* ----------------------------------------------------------------------- *)
(* Comprehensions over any list                                            *)

(* The positions a comprehension keeps. *)
KeptIn(s, S) == {i \in DOMAIN s : s[i] \in S}

(* The position of the a-th kept element. *)
KeptAt(s, S) == [a \in 1 .. Cardinality(KeptIn(s, S)) |->
                   CHOOSE i \in KeptIn(s, S) : RankIn(KeptIn(s, S), i) = a]

(* A comprehension picks the kept elements in the order of their positions. *)
LEMMA KeepPositions ==
  ASSUME NEW X, NEW s \in Seq(X), NEW S
  PROVE  /\ Cardinality(KeptIn(s, S)) \in 0 .. Len(s)
         /\ KeptAt(s, S) \in [1 .. Cardinality(KeptIn(s, S)) -> KeptIn(s, S)]
         /\ Keep(s, S) = [a \in 1 .. Cardinality(KeptIn(s, S)) |-> s[KeptAt(s, S)[a]]]
         /\ \A a, b \in 1 .. Cardinality(KeptIn(s, S)) : a < b => KeptAt(s, S)[a] < KeptAt(s, S)[b]
         /\ \A i \in KeptIn(s, S) : \E a \in 1 .. Cardinality(KeptIn(s, S)) : KeptAt(s, S)[a] = i
<1> DEFINE kept == KeptIn(s, S)
           c == Cardinality(kept)
           u == KeptAt(s, S)
<1>1. IsFiniteSet(kept) /\ c \in 0 .. Len(s) /\ kept \in SUBSET Int
  <2>1. 1 \in Int /\ Len(s) \in Int /\ DOMAIN s = 1 .. Len(s)
    OBVIOUS
  <2> DEFINE n == Len(s)
  <2>2. n \in Nat /\ kept \in SUBSET (1 .. n) /\ kept \in SUBSET Int
    BY <2>1 DEF KeptIn
  <2>3. IsFiniteSet(1 .. n) /\ Cardinality(1 .. n) = IF 1 > n THEN 0 ELSE n - 1 + 1
    BY <2>1, <2>2, FS_Interval, Zenon
  <2> HIDE DEF kept, n
  <2>4. IsFiniteSet(kept) /\ Cardinality(kept) <= Cardinality(1 .. n) /\ Cardinality(kept) \in Nat
    BY <2>2, <2>3, FS_Subset, FS_CardinalityType, Zenon
  <2> QED BY <2>2, <2>3, <2>4 DEF n
<1>2. Keep(s, S) = [a \in 1 .. c |-> s[u[a]]]
  <2>1. Keep(s, S) = [a \in 1 .. c |-> s[CHOOSE i \in kept : RankIn(kept, i) = a]]
    BY DEF Keep, RankIn, KeptIn
  <2> QED BY <2>1, Zenon DEF KeptAt
<1> HIDE DEF kept
<1>3. /\ \A i \in kept : RankIn(kept, i) \in 1 .. c
      /\ \A i, j \in kept : i < j <=> RankIn(kept, i) < RankIn(kept, j)
      /\ \A a \in 1 .. c : \E i \in kept : RankIn(kept, i) = a
  BY <1>1, RankNumbers, Zenon
<1>4. ASSUME NEW a \in 1 .. c PROVE u[a] \in kept /\ RankIn(kept, u[a]) = a
  BY <1>3, Zenon DEF KeptAt, kept
<1> HIDE DEF u
<1>5. \A a, b \in 1 .. c : a < b => u[a] < u[b]
  BY <1>3, <1>4, Zenon
<1>6. \A i \in kept : \E a \in 1 .. c : u[a] = i
  <2> SUFFICES ASSUME NEW i \in kept PROVE u[RankIn(kept, i)] = i /\ RankIn(kept, i) \in 1 .. c
    OBVIOUS
  <2>1. RankIn(kept, i) \in 1 .. c
    BY <1>3
  <2>2. u[RankIn(kept, i)] \in kept /\ RankIn(kept, u[RankIn(kept, i)]) = RankIn(kept, i)
    BY <2>1, <1>4, Zenon
  <2>3. ~(u[RankIn(kept, i)] < i) /\ ~(i < u[RankIn(kept, i)])
    BY <2>1, <2>2, <1>3
  <2>4. i \in Int /\ u[RankIn(kept, i)] \in Int
    BY <2>2, <1>1
  <2> QED BY <2>1, <2>3, <2>4
<1>7. u \in [1 .. c -> kept]
  <2>1. u = [a \in 1 .. c |-> u[a]]
    BY DEF u, KeptAt, kept
  <2> QED BY <1>4, <2>1, Zenon
<1> QED BY <1>1, <1>2, <1>5, <1>6, <1>7, Zenon DEF kept, u

(* What a comprehension over a list contains. *)
LEMMA KeepList ==
  ASSUME NEW X, NEW s \in Seq(X), NEW S
  PROVE  /\ Keep(s, S) \in Seq(X) /\ Len(Keep(s, S)) \in 0 .. Len(s)
         /\ Elements(Keep(s, S)) = Elements(s) \cap S
         /\ IsInjective(s) => IsInjective(Keep(s, S))
<1> DEFINE kept == KeptIn(s, S)
           c == Cardinality(kept)
           u == KeptAt(s, S)
<1>1. Len(s) \in Nat /\ DOMAIN s = 1 .. Len(s) /\ \A i \in DOMAIN s : s[i] \in X
  OBVIOUS
<1>2. c \in 0 .. Len(s)
  BY KeepPositions, Zenon
<1>3. /\ u \in [1 .. c -> kept]
      /\ Keep(s, S) = [a \in 1 .. c |-> s[u[a]]]
      /\ \A a, b \in 1 .. c : a < b => u[a] < u[b]
      /\ \A i \in kept : \E a \in 1 .. c : u[a] = i
  BY KeepPositions, SMTT(30)
<1> HIDE DEF u
<1>4. \A i \in kept : i \in DOMAIN s /\ s[i] \in S /\ i \in Int /\ s[i] \in X
  BY <1>1 DEF KeptIn
<1>5. \A i \in DOMAIN s : s[i] \in S => i \in kept
  BY DEF KeptIn
<1> HIDE DEF kept
<1>6. c \in Nat /\ c <= Len(s)
  BY <1>1, <1>2
<1> HIDE DEF c
<1> DEFINE l == [a \in 1 .. c |-> s[u[a]]]
<1>7. \A a \in 1 .. c : l[a] = s[u[a]] /\ u[a] \in kept /\ l[a] \in X /\ l[a] \in S
  BY <1>3, <1>4
<1>8. l \in Seq(X) /\ Len(l) = c /\ DOMAIN l = 1 .. c
  <2>1. l \in [1 .. c -> X]
    BY <1>7
  <2> QED BY <2>1, <1>6
<1> HIDE DEF l
<1>9. Elements(l) = Elements(s) \cap S
  <2>1. \A x \in Elements(l) : x \in Elements(s) \cap S
    BY <1>4, <1>7, <1>8, Zenon DEF Elements
  <2>2. ASSUME NEW x \in Elements(s) \cap S PROVE x \in Elements(l)
    <3>1. PICK i \in DOMAIN s : s[i] = x
      BY Zenon DEF Elements
    <3>2. i \in kept
      BY <1>5, <3>1
    <3>3. PICK a \in 1 .. c : u[a] = i
      BY <1>3, <3>2, Zenon
    <3>4. l[a] = x /\ a \in DOMAIN l
      BY <1>7, <1>8, <3>1, <3>3
    <3> QED BY <3>4, Zenon DEF Elements
  <2> QED BY <2>1, <2>2, Zenon
<1>10. ASSUME IsInjective(s) PROVE IsInjective(l)
  <2> SUFFICES ASSUME NEW a \in 1 .. c, NEW b \in 1 .. c, l[a] = l[b] PROVE a = b
    BY <1>8, Zenon DEF IsInjective
  <2>1. u[a] = u[b]
    <3>1. s[u[a]] = s[u[b]] /\ u[a] \in DOMAIN s /\ u[b] \in DOMAIN s
      BY <1>7, <1>4
    <3> QED BY <1>10, <3>1, Zenon DEF IsInjective
  <2>2. ~(a < b) /\ ~(b < a)
    <3>1. u[a] \in Int /\ u[b] \in Int
      BY <1>7, <1>4
    <3> QED BY <3>1, <1>3, <2>1
  <2> QED BY <2>2, <1>6
<1>11. Keep(s, S) = l
  BY <1>3 DEF l
<1> QED BY <1>6, <1>8, <1>9, <1>10, <1>11

(* As many elements as places, when none repeats. *)
LEMMA InjectiveElements ==
  ASSUME NEW X, NEW s \in Seq(X), IsInjective(s)
  PROVE  IsFiniteSet(Elements(s)) /\ Cardinality(Elements(s)) = Len(s)
<1>1. 1 \in Int /\ Len(s) \in Int /\ Len(s) \in Nat /\ DOMAIN s = 1 .. Len(s)
  OBVIOUS
<1>2. IsFiniteSet(1 .. Len(s)) /\ Cardinality(1 .. Len(s)) = IF 1 > Len(s) THEN 0 ELSE Len(s) - 1 + 1
  BY <1>1, FS_Interval, Zenon
<1>3. Cardinality(1 .. Len(s)) = Len(s)
  BY <1>1, <1>2
<1>4. s = [i \in 1 .. Len(s) |-> s[i]]
  BY <1>1
<1>5. s \in [1 .. Len(s) -> Elements(s)]
  BY <1>1, <1>4, Zenon DEF Elements
<1>6. s \in Bijection(1 .. Len(s), Elements(s))
  BY <1>1, <1>5, Zenon DEF Bijection, Injection, Surjection, IsInjective, Elements
<1>7. ExistsBijection(1 .. Len(s), Elements(s))
  BY <1>6, Zenon DEF ExistsBijection
<1> QED BY <1>2, <1>3, <1>7, FS_Bijection, Zenon

(* extend: the elements of both lists; without repetition when they share none. *)
LEMMA ConcatList ==
  ASSUME NEW X, NEW s \in Seq(X), NEW t \in Seq(X)
  PROVE  /\ s \o t \in Seq(X) /\ Len(s \o t) = Len(s) + Len(t)
         /\ Elements(s \o t) = Elements(s) \cup Elements(t)
         /\ IsInjective(s) /\ IsInjective(t) /\ Elements(s) \cap Elements(t) = {} => IsInjective(s \o t)
<1>1. /\ s \o t \in Seq(X) /\ Len(s \o t) = Len(s) + Len(t)
      /\ Len(s) \in Nat /\ Len(t) \in Nat
      /\ DOMAIN s = 1 .. Len(s) /\ DOMAIN t = 1 .. Len(t) /\ DOMAIN (s \o t) = 1 .. Len(s) + Len(t)
  OBVIOUS
<1>2. /\ \A i \in 1 .. Len(s) : (s \o t)[i] = s[i] /\ i \in 1 .. Len(s) + Len(t)
      /\ \A i \in 1 .. Len(t) : (s \o t)[Len(s) + i] = t[i] /\ Len(s) + i \in 1 .. Len(s) + Len(t)
  BY <1>1
<1>3. \A i \in 1 .. Len(s) + Len(t) : \/ i \in 1 .. Len(s) /\ (s \o t)[i] = s[i]
                                      \/ i - Len(s) \in 1 .. Len(t) /\ (s \o t)[i] = t[i - Len(s)]
  BY <1>1
<1> DEFINE l == s \o t
<1> HIDE DEF l
<1>4. Elements(l) = Elements(s) \cup Elements(t)
  <2>1. \A x \in Elements(l) : x \in Elements(s) \cup Elements(t)
    BY <1>1, <1>3, Zenon DEF Elements, l
  <2>2. \A x \in Elements(s) : x \in Elements(l)
    BY <1>1, <1>2, Zenon DEF Elements, l
  <2>3. \A x \in Elements(t) : x \in Elements(l)
    BY <1>1, <1>2, Zenon DEF Elements, l
  <2> QED BY <2>1, <2>2, <2>3, Zenon
<1>5. ASSUME IsInjective(s), IsInjective(t), Elements(s) \cap Elements(t) = {}
      PROVE  IsInjective(l)
  <2> SUFFICES ASSUME NEW i \in 1 .. Len(s) + Len(t), NEW j \in 1 .. Len(s) + Len(t), l[i] = l[j]
               PROVE  i = j
    BY <1>1, Zenon DEF IsInjective, l
  <2>1. /\ \A n \in 1 .. Len(s) : s[n] \in Elements(s)
        /\ \A n \in 1 .. Len(t) : t[n] \in Elements(t)
    BY <1>1, Zenon DEF Elements
  <2>2. CASE i \in 1 .. Len(s) /\ l[i] = s[i] /\ j \in 1 .. Len(s) /\ l[j] = s[j]
    BY <1>1, <1>5, <2>2, Zenon DEF IsInjective
  <2>3. CASE i - Len(s) \in 1 .. Len(t) /\ l[i] = t[i - Len(s)] /\ j - Len(s) \in 1 .. Len(t) /\ l[j] = t[j - Len(s)]
    <3>1. i - Len(s) = j - Len(s)
      BY <1>1, <1>5, <2>3, Zenon DEF IsInjective
    <3> QED BY <1>1, <3>1
  <2>4. CASE i \in 1 .. Len(s) /\ l[i] = s[i] /\ j - Len(s) \in 1 .. Len(t) /\ l[j] = t[j - Len(s)]
    BY <1>5, <2>1, <2>4, Zenon
  <2>5. CASE j \in 1 .. Len(s) /\ l[j] = s[j] /\ i - Len(s) \in 1 .. Len(t) /\ l[i] = t[i - Len(s)]
    BY <1>5, <2>1, <2>5, Zenon
  <2> QED BY <1>3, <2>2, <2>3, <2>4, <2>5, Zenon DEF l
<1> QED BY <1>1, <1>4, <1>5 DEF l

(* The first n of a list. *)
LEMMA FirstOfList ==
  ASSUME NEW X, NEW s \in Seq(X), NEW n \in 0 .. Len(s)
  PROVE  /\ SubSeq(s, 1, n) \in Seq(X) /\ Len(SubSeq(s, 1, n)) = n
         /\ \A i \in 1 .. n : SubSeq(s, 1, n)[i] = s[i] /\ i \in DOMAIN s
         /\ Elements(SubSeq(s, 1, n)) = {s[i] : i \in 1 .. n}
         /\ Elements(SubSeq(s, 1, n)) \subseteq Elements(s)
         /\ IsInjective(s) => IsInjective(SubSeq(s, 1, n))
<1> DEFINE l == SubSeq(s, 1, n)
<1>1. l \in Seq(X) /\ Len(l) = n /\ DOMAIN l = 1 .. n /\ \A i \in 1 .. n : l[i] = s[i] /\ i \in DOMAIN s
  OBVIOUS
<1> HIDE DEF l
<1>2. Elements(l) = {s[i] : i \in 1 .. n} /\ Elements(l) \subseteq Elements(s)
  BY <1>1, Zenon DEF Elements
<1>3. IsInjective(s) => IsInjective(l)
  BY <1>1, Zenon DEF IsInjective
<1> QED BY <1>1, <1>2, <1>3 DEF l

(* What is picked from the numbers in order is in order. *)
LEMMA KeepAscends ==
  ASSUME NEW n \in Nat, NEW S
  PROVE  /\ Keep(Prefix(n), S) \in Seq(1 .. n)
         /\ Elements(Keep(Prefix(n), S)) = (1 .. n) \cap S
         /\ IsInjective(Keep(Prefix(n), S))
         /\ \A a, b \in DOMAIN Keep(Prefix(n), S) : a < b => Keep(Prefix(n), S)[a] < Keep(Prefix(n), S)[b]
<1> DEFINE s == Prefix(n)
           c == Cardinality(KeptIn(s, S))
<1>1. /\ s \in Seq(1 .. n) /\ Len(s) = n /\ Elements(s) = 1 .. n /\ \A i \in 1 .. n : s[i] = i
      /\ DOMAIN s = 1 .. n
  <2>1. s \in Seq(1 .. n) /\ Len(s) = n /\ \A i \in 1 .. n : s[i] = i
    BY DEF Prefix
  <2>2. 0 \in Int
    OBVIOUS
  <2> QED BY <2>1, <2>2, ListElements
<1>2. IsInjective(s)
  BY <1>1 DEF IsInjective
<1> HIDE DEF s
<1>3. /\ Keep(s, S) \in Seq(1 .. n) /\ Elements(Keep(s, S)) = (1 .. n) \cap S /\ IsInjective(Keep(s, S))
  BY <1>1, <1>2, KeepList, Zenon
<1>4. \A a, b \in DOMAIN Keep(s, S) : a < b => Keep(s, S)[a] < Keep(s, S)[b]
  <2> DEFINE u == KeptAt(s, S)
             l == Keep(s, S)
  <2>1. /\ u \in [1 .. c -> KeptIn(s, S)] /\ l = [a \in 1 .. c |-> s[u[a]]]
        /\ \A a, b \in 1 .. c : a < b => u[a] < u[b]
    BY <1>1, KeepPositions, SMTT(30)
  <2>2. \A a \in 1 .. c : l[a] = u[a]
    <3>1. \A i \in KeptIn(s, S) : s[i] = i
      BY <1>1 DEF KeptIn
    <3> HIDE DEF u, l, c
    <3> QED BY <2>1, <3>1
  <2>3. DOMAIN l = 1 .. c
    BY <2>1, Zenon
  <2> HIDE DEF u, l, c
  <2>4. \A a, b \in DOMAIN l : a < b => l[a] < l[b]
    BY <2>1, <2>2, <2>3, Zenon
  <2> QED BY <2>4 DEF l
<1> QED BY <1>3, <1>4 DEF s

(* ----------------------------------------------------------------------- *)
(* Sums                                                                    *)

(* One pair for each unit of each of the values f[x]. *)
Tally(f, T) == {p \in T \X Nat : p[2] \in 1 .. f[p[1]]}
Tallied(f, x) == {x} \X (1 .. f[x])

(* The pairs that are counted by a sum of naturals are finitely many. *)
LEMMA TallyFinite ==
  ASSUME NEW T, IsFiniteSet(T), NEW f, \A x \in T : f[x] \in Nat
  PROVE  IsFiniteSet(Tally(f, T))
<1> DEFINE rows == [x \in T |-> Tallied(f, x)]
           R == {rows[x] : x \in T}
<1>1. ASSUME NEW x \in T PROVE IsFiniteSet(rows[x])
  <2>1. IsFiniteSet({x})
    BY FS_Singleton, Zenon
  <2>2. 1 \in Int /\ f[x] \in Int
    OBVIOUS
  <2>3. IsFiniteSet(1 .. f[x])
    BY <2>2, FS_Interval, Zenon
  <2>4. IsFiniteSet({x} \X (1 .. f[x]))
    BY <2>1, <2>3, FS_Product, Zenon
  <2> QED BY <2>4 DEF Tallied
<1>2. IsFiniteSet(R)
  <2>1. rows \in Surjection(T, R)
    BY Zenon DEF Surjection
  <2> HIDE DEF rows, R
  <2> QED BY <2>1, FS_Surjection, Zenon
<1>3. IsFiniteSet(UNION R)
  <2>1. \A S \in R : IsFiniteSet(S)
    BY <1>1, Zenon
  <2> HIDE DEF R
  <2> QED BY <1>2, <2>1, FS_UNION, Zenon
<1>4. Tally(f, T) \subseteq UNION R
  <2> SUFFICES ASSUME NEW p \in Tally(f, T) PROVE p \in rows[p[1]] /\ p[1] \in T
    BY Zenon
  <2>1. p \in T \X Nat /\ p[2] \in 1 .. f[p[1]]
    BY DEF Tally
  <2> QED BY <2>1 DEF Tallied
<1> HIDE DEF R
<1> QED BY <1>3, <1>4, FS_Subset, Zenon

(* Taking an index out of a tally takes out as many pairs as its value. *)
LEMMA TallyStep ==
  ASSUME NEW T, IsFiniteSet(T), NEW f, \A x \in T : f[x] \in Nat, NEW x \in T
  PROVE  Cardinality(Tally(f, T)) = f[x] + Cardinality(Tally(f, T \ {x}))
<1> DEFINE rest == Tally(f, T \ {x})
           row == Tallied(f, x)
<1>1. IsFiniteSet(rest)
  <2>1. IsFiniteSet(T \ {x}) /\ \A y \in T \ {x} : f[y] \in Nat
    BY FS_RemoveElement, Zenon
  <2> QED BY <2>1, TallyFinite, Zenon
<1>2. IsFiniteSet(row) /\ Cardinality(row) = f[x]
  <2>1. IsFiniteSet({x}) /\ Cardinality({x}) = 1
    BY FS_Singleton, Zenon
  <2>2. 1 \in Int /\ f[x] \in Int
    OBVIOUS
  <2>3. IsFiniteSet(1 .. f[x]) /\ Cardinality(1 .. f[x]) = IF 1 > f[x] THEN 0 ELSE f[x] - 1 + 1
    BY <2>2, FS_Interval, Zenon
  <2>4. Cardinality(1 .. f[x]) = f[x]
    BY <2>3
  <2>5. IsFiniteSet(row) /\ Cardinality(row) = Cardinality({x}) * Cardinality(1 .. f[x])
    BY <2>1, <2>3, FS_Product, Zenon DEF Tallied
  <2> QED BY <2>1, <2>4, <2>5
<1>3. rest \cap row = {}
  BY DEF Tally, Tallied
<1>4. rest \cup row = Tally(f, T)
  BY DEF Tally, Tallied
<1> HIDE DEF rest, row
<1>5. Cardinality(rest \cup row) = Cardinality(rest) + Cardinality(row) - Cardinality(rest \cap row)
  BY <1>1, <1>2, FS_Union, Zenon
<1>6. Cardinality({}) = 0 /\ Cardinality(rest) \in Nat
  BY <1>1, FS_EmptySet, FS_CardinalityType, Zenon
<1>7. Cardinality(Tally(f, T)) = Cardinality(rest) + f[x] - 0
  BY <1>2, <1>3, <1>4, <1>5, <1>6, Zenon
<1>8. f[x] \in Nat
  OBVIOUS
<1>9. Cardinality(Tally(f, T)) = f[x] + Cardinality(rest)
  BY <1>6, <1>7, <1>8
<1> QED BY <1>9 DEF rest

(* The sum of naturals over a finite set, whatever order the library adds
   them in, is the number of those pairs. *)
LEMMA SumIsTally ==
  ASSUME NEW T, IsFiniteSet(T), NEW f, \A x \in T : f[x] \in Nat
  PROVE  SumFunctionOnSet(f, T) = Cardinality(Tally(f, T))
<1> DEFINE Any(s) == CHOOSE x \in s : TRUE
           Unfold(g) == [s \in SUBSET T |-> IF s = {} THEN 0 ELSE f[Any(s)] + g[s \ {Any(s)}]]
           G == [s \in SUBSET T |-> Cardinality(Tally(f, s))]
           H == CHOOSE g : g = Unfold(g)
<1>1. G = Unfold(G)
  <2>1. ASSUME NEW s \in SUBSET T PROVE G[s] = Unfold(G)[s]
    <3>1. CASE s = {}
      <4>1. Tally(f, s) = {} 
        BY <3>1 DEF Tally
      <4> QED BY <4>1, <3>1, FS_EmptySet
    <3>2. CASE s # {}
      <4>1. Any(s) \in s
        BY <3>2, Zenon
      <4>2. IsFiniteSet(s) /\ \A x \in s : f[x] \in Nat
        BY FS_Subset, Zenon
      <4> HIDE DEF Any
      <4>3. Cardinality(Tally(f, s)) = f[Any(s)] + Cardinality(Tally(f, s \ {Any(s)}))
        BY <4>1, <4>2, TallyStep, Zenon
      <4>4. s \ {Any(s)} \in SUBSET T
        OBVIOUS
      <4> QED BY <3>2, <4>3, <4>4, Zenon
    <3> QED BY <3>1, <3>2, Zenon
  <2> HIDE DEF Any
  <2> QED BY <2>1, Zenon
<1>2. H = Unfold(H)
  <2> HIDE DEF G, Unfold
  <2> QED BY <1>1, Zenon
<1>3. SumFunctionOnSet(f, T) = H[T]
  BY Zenon DEF SumFunctionOnSet, FoldFunctionOnSet, MapThenFoldSet
<1> DEFINE bad == {s \in SUBSET T : H[s] # G[s]}
<1>4. bad = {}
  <2> SUFFICES ASSUME bad # {} PROVE FALSE
    OBVIOUS
  <2> DEFINE R == StrictSubsetOrdering(T)
  <2>1. IsWellFoundedOn(R, SUBSET T)
    BY FS_StrictSubsetOrderingWellFounded, FS_FiniteSubsetsOfFinite, Zenon
  <2>2. PICK s \in bad : \A u \in bad : ~(<<u, s>> \in R)
    <3> HIDE DEF R, H, G
    <3>1. bad \subseteq SUBSET T /\ bad # {}
      OBVIOUS
    <3> HIDE DEF bad
    <3> QED BY <2>1, <3>1, WFMin, Zenon
  <2>3. s \in SUBSET T /\ H[s] # G[s] /\ Unfold(H)[s] = H[s] /\ Unfold(G)[s] = G[s]
    <3> HIDE DEF Unfold, H, G
    <3> QED BY <1>1, <1>2, <2>2
  <2>4. CASE s = {}
    <3> HIDE DEF Any, H, G
    <3> QED BY <2>3, <2>4
  <2>5. CASE s # {}
    <3>1. Any(s) \in s
      BY <2>5, Zenon
    <3> HIDE DEF Any, H, G
    <3>2. s \ {Any(s)} \in SUBSET T /\ <<s \ {Any(s)}, s>> \in R
      BY <3>1, <2>3 DEF StrictSubsetOrdering
    <3>3. H[s \ {Any(s)}] = G[s \ {Any(s)}]
      BY <3>2, <2>2
    <3>4. H[s] = f[Any(s)] + H[s \ {Any(s)}] /\ G[s] = f[Any(s)] + G[s \ {Any(s)}]
      BY <2>3, <2>5, Zenon
    <3> QED BY <3>3, <3>4, <2>3
  <2> QED BY <2>4, <2>5
<1>5. T \in SUBSET T /\ T \notin bad
  BY <1>4
<1> HIDE DEF H
<1> QED BY <1>3, <1>5

(* The sum over no index is zero. *)
LEMMA SumEmpty ==
  ASSUME NEW f
  PROVE  SumFunctionOnSet(f, {}) = 0
<1>1. IsFiniteSet({}) /\ Cardinality({}) = 0 /\ \A x \in {} : f[x] \in Nat
  BY FS_EmptySet, Zenon
<1>2. Tally(f, {}) = {}
  BY DEF Tally
<1> QED BY <1>1, <1>2, SumIsTally, Zenon

(* A sum is the value at any one index and the sum over the others. *)
LEMMA SumStep ==
  ASSUME NEW T, IsFiniteSet(T), NEW f, \A x \in T : f[x] \in Nat, NEW x \in T
  PROVE  SumFunctionOnSet(f, T) = f[x] + SumFunctionOnSet(f, T \ {x})
<1>1. IsFiniteSet(T \ {x}) /\ \A y \in T \ {x} : f[y] \in Nat
  BY FS_RemoveElement, Zenon
<1>2. SumFunctionOnSet(f, T) = Cardinality(Tally(f, T))
  BY SumIsTally, Zenon
<1>3. SumFunctionOnSet(f, T \ {x}) = Cardinality(Tally(f, T \ {x}))
  BY <1>1, SumIsTally, Zenon
<1>4. Cardinality(Tally(f, T)) = f[x] + Cardinality(Tally(f, T \ {x}))
  BY TallyStep, Zenon
<1> QED BY <1>2, <1>3, <1>4, Zenon

(* A sum of naturals is a natural. *)
LEMMA SumNat ==
  ASSUME NEW T, IsFiniteSet(T), NEW f, \A x \in T : f[x] \in Nat
  PROVE  SumFunctionOnSet(f, T) \in Nat
BY SumIsTally, TallyFinite, FS_CardinalityType, Zenon

(* Equal values have equal sums. *)
LEMMA SumSame ==
  ASSUME NEW T, IsFiniteSet(T), NEW f, NEW g, \A x \in T : f[x] \in Nat /\ g[x] = f[x]
  PROVE  SumFunctionOnSet(f, T) = SumFunctionOnSet(g, T)
<1>1. \A x \in T : f[x] \in Nat
  OBVIOUS
<1>2. \A x \in T : g[x] \in Nat
  OBVIOUS
<1>3. Tally(f, T) = Tally(g, T)
  BY Zenon DEF Tally
<1>4. SumFunctionOnSet(f, T) = Cardinality(Tally(f, T))
  BY <1>1, SumIsTally, Zenon
<1>5. SumFunctionOnSet(g, T) = Cardinality(Tally(g, T))
  BY <1>2, SumIsTally, Zenon
<1> QED BY <1>3, <1>4, <1>5, Zenon

(* Naturals over fewer indices have a smaller sum. *)
LEMMA SumSubset ==
  ASSUME NEW T, IsFiniteSet(T), NEW f, \A x \in T : f[x] \in Nat, NEW U \in SUBSET T
  PROVE  SumFunctionOnSet(f, U) <= SumFunctionOnSet(f, T)
<1>1. IsFiniteSet(U) /\ \A x \in U : f[x] \in Nat
  BY FS_Subset, Zenon
<1>2. Tally(f, U) \in SUBSET Tally(f, T)
  BY DEF Tally
<1>3. IsFiniteSet(Tally(f, T))
  BY TallyFinite, Zenon
<1>4. Cardinality(Tally(f, U)) <= Cardinality(Tally(f, T))
  BY <1>2, <1>3, FS_Subset, Zenon
<1> QED BY <1>1, <1>4, SumIsTally, Zenon

(* What corresponds one to one is equally many. *)
LEMMA OneToOne ==
  ASSUME NEW S, IsFiniteSet(S), NEW T, NEW m \in [S -> T],
         \A x, y \in S : m[x] = m[y] => x = y, \A z \in T : \E x \in S : m[x] = z
  PROVE  IsFiniteSet(T) /\ Cardinality(T) = Cardinality(S)
<1>1. IsInjective(m) /\ m \in Surjection(S, T)
  BY Zenon DEF IsInjective, Surjection
<1>2. m \in Bijection(S, T)
  BY <1>1, Zenon DEF Bijection, Injection
<1>3. ExistsBijection(S, T)
  BY <1>2, Zenon DEF ExistsBijection
<1> QED BY <1>3, FS_Bijection, Zenon

(* Indices whose value is zero do not count. *)
LEMMA SumSupport ==
  ASSUME NEW T, IsFiniteSet(T), NEW f, \A x \in T : f[x] \in Nat,
         NEW U \in SUBSET T, \A x \in T \ U : f[x] = 0
  PROVE  SumFunctionOnSet(f, T) = SumFunctionOnSet(f, U)
<1>1. IsFiniteSet(U) /\ \A x \in U : f[x] \in Nat
  BY FS_Subset, Zenon
<1>2. Tally(f, U) = Tally(f, T)
  BY DEF Tally
<1> QED BY <1>1, <1>2, SumIsTally, Zenon

(* The sums over two disjoint sets add up. *)
LEMMA SumDisjoint ==
  ASSUME NEW S, IsFiniteSet(S), NEW T, IsFiniteSet(T), S \cap T = {},
         NEW f, \A x \in S \cup T : f[x] \in Nat
  PROVE  SumFunctionOnSet(f, S \cup T) = SumFunctionOnSet(f, S) + SumFunctionOnSet(f, T)
<1>1. IsFiniteSet(S \cup T) /\ (\A x \in S : f[x] \in Nat) /\ (\A x \in T : f[x] \in Nat)
  BY FS_Union, Zenon
<1>2. IsFiniteSet(Tally(f, S)) /\ IsFiniteSet(Tally(f, T))
  BY <1>1, TallyFinite, Zenon
<1>3. Tally(f, S) \cap Tally(f, T) = {}
  BY DEF Tally
<1>4. Tally(f, S) \cup Tally(f, T) = Tally(f, S \cup T)
  BY DEF Tally
<1>5. Cardinality(Tally(f, S) \cup Tally(f, T))
        = Cardinality(Tally(f, S)) + Cardinality(Tally(f, T)) - Cardinality(Tally(f, S) \cap Tally(f, T))
  BY <1>2, FS_Union, Zenon
<1>6. Cardinality({}) = 0 /\ Cardinality(Tally(f, S)) \in Nat /\ Cardinality(Tally(f, T)) \in Nat
  BY <1>2, FS_EmptySet, FS_CardinalityType, Zenon
<1>7. Cardinality(Tally(f, S \cup T)) = Cardinality(Tally(f, S)) + Cardinality(Tally(f, T))
  <2> DEFINE a == Cardinality(Tally(f, S))
             b == Cardinality(Tally(f, T))
  <2>1. Cardinality(Tally(f, S \cup T)) = a + b - 0
    BY <1>3, <1>4, <1>5, <1>6, Zenon
  <2>2. a \in Nat /\ b \in Nat
    BY <1>6, Zenon
  <2> HIDE DEF a, b
  <2>3. Cardinality(Tally(f, S \cup T)) = a + b
    BY <2>1, <2>2
  <2> QED BY <2>3, Zenon DEF a, b
<1> QED BY <1>1, <1>7, SumIsTally, Zenon

(* Renaming the indices one to one leaves a sum as it is. *)
LEMMA SumRenamed ==
  ASSUME NEW T, IsFiniteSet(T), NEW g, \A x, y \in T : g[x] = g[y] => x = y,
         NEW f, \A x \in T : f[g[x]] \in Nat
  PROVE  SumFunctionOnSet([x \in T |-> f[g[x]]], T) = SumFunctionOnSet(f, {g[x] : x \in T})
<1> DEFINE h == [x \in T |-> f[g[x]]]
           U == {g[x] : x \in T}
           G == [x \in T |-> g[x]]
           pair == [p \in Tally(h, T) |-> <<g[p[1]], p[2]>>]
<1>1. IsFiniteSet(U)
  <2>1. G \in Surjection(T, U)
    BY Zenon DEF Surjection
  <2> HIDE DEF G, U
  <2> QED BY <2>1, FS_Surjection, Zenon
<1>2. (\A x \in T : h[x] \in Nat) /\ \A y \in U : f[y] \in Nat
  OBVIOUS
<1>3. SumFunctionOnSet(h, T) = Cardinality(Tally(h, T))
  <2> HIDE DEF h
  <2> QED BY <1>2, SumIsTally, Zenon
<1>4. SumFunctionOnSet(f, U) = Cardinality(Tally(f, U))
  <2> HIDE DEF U
  <2> QED BY <1>1, <1>2, SumIsTally, Zenon
<1>5. IsFiniteSet(Tally(h, T))
  <2> HIDE DEF h
  <2> QED BY <1>2, TallyFinite, Zenon
<1>6. Cardinality(Tally(h, T)) = Cardinality(Tally(f, U))
  <2>1. \A p \in Tally(h, T) : p \in T \X Nat /\ p[2] \in 1 .. f[g[p[1]]]
    BY DEF Tally
  <2>2. pair \in [Tally(h, T) -> Tally(f, U)]
    <3> SUFFICES ASSUME NEW p \in Tally(h, T) PROVE <<g[p[1]], p[2]>> \in Tally(f, U)
      BY Zenon
    <3> QED BY <2>1 DEF Tally
  <2>3. \A p, q \in Tally(h, T) : pair[p] = pair[q] => p = q
    <3> TAKE p, q \in Tally(h, T)
    <3> HAVE pair[p] = pair[q]
    <3>1. g[p[1]] = g[q[1]] /\ p[2] = q[2]
      OBVIOUS
    <3>2. p[1] = q[1]
      BY <3>1, <2>1
    <3> QED BY <3>1, <3>2, <2>1
  <2>4. \A q \in Tally(f, U) : \E p \in Tally(h, T) : pair[p] = q
    <3> TAKE q \in Tally(f, U)
    <3>1. q \in U \X Nat /\ q[2] \in 1 .. f[q[1]]
      BY DEF Tally
    <3>2. PICK x \in T : q[1] = g[x]
      BY <3>1
    <3>3. <<x, q[2]>> \in Tally(h, T)
      BY <3>1, <3>2 DEF Tally
    <3>4. pair[<<x, q[2]>>] = q
      BY <3>1, <3>2, <3>3
    <3> QED BY <3>3, <3>4, Zenon
  <2> HIDE DEF pair, h, U
  <2> QED BY <1>5, <2>2, <2>3, <2>4, OneToOne, Zenon
<1> QED BY <1>3, <1>4, <1>6

(* A sum splits with its values. *)
LEMMA SumSplit ==
  ASSUME NEW T, IsFiniteSet(T), NEW f, NEW g, NEW d,
         \A x \in T : g[x] \in Nat /\ d[x] \in Nat /\ f[x] = g[x] + d[x]
  PROVE  SumFunctionOnSet(f, T) = SumFunctionOnSet(g, T) + SumFunctionOnSet(d, T)
<1> DEFINE upper == {p \in T \X Nat : p[2] \in g[p[1]] + 1 .. f[p[1]]}
           shift == [p \in Tally(d, T) |-> <<p[1], g[p[1]] + p[2]>>]
<1>1. \A x \in T : f[x] \in Nat /\ g[x] \in Nat /\ d[x] \in Nat
  OBVIOUS
<1>2. IsFiniteSet(Tally(f, T)) /\ IsFiniteSet(Tally(g, T)) /\ IsFiniteSet(Tally(d, T))
  BY <1>1, TallyFinite, Zenon
<1>3. upper \in SUBSET Tally(f, T) /\ Tally(g, T) \cap upper = {} /\ Tally(g, T) \cup upper = Tally(f, T)
  BY <1>1 DEF Tally
<1>4. Cardinality(Tally(d, T)) = Cardinality(upper) /\ IsFiniteSet(upper)
  <2>1. \A p \in Tally(d, T) : p \in T \X Nat /\ p[2] \in 1 .. d[p[1]] /\ g[p[1]] \in Nat
                               /\ f[p[1]] = g[p[1]] + d[p[1]] /\ d[p[1]] \in Nat
    BY DEF Tally
  <2>2. shift \in [Tally(d, T) -> upper]
    <3> SUFFICES ASSUME NEW p \in Tally(d, T) PROVE <<p[1], g[p[1]] + p[2]>> \in upper
      BY Zenon
    <3> QED BY <2>1
  <2>3. \A p, q \in Tally(d, T) : shift[p] = shift[q] => p = q
    <3> TAKE p, q \in Tally(d, T)
    <3> HAVE shift[p] = shift[q]
    <3>1. p[1] = q[1] /\ g[p[1]] + p[2] = g[q[1]] + q[2]
      OBVIOUS
    <3>2. p[2] = q[2]
      BY <3>1, <2>1
    <3> QED BY <3>1, <3>2, <2>1
  <2>4. \A q \in upper : \E p \in Tally(d, T) : shift[p] = q
    <3> TAKE q \in upper
    <3>1. q \in T \X Nat /\ q[2] \in g[q[1]] + 1 .. f[q[1]] /\ q[1] \in T
      OBVIOUS
    <3>2. q[2] - g[q[1]] \in 1 .. d[q[1]] /\ q[2] - g[q[1]] \in Nat /\ g[q[1]] + (q[2] - g[q[1]]) = q[2]
      BY <3>1, <1>1
    <3>3. <<q[1], q[2] - g[q[1]]>> \in Tally(d, T)
      BY <3>1, <3>2 DEF Tally
    <3>4. shift[<<q[1], q[2] - g[q[1]]>>] = q
      BY <3>1, <3>2, <3>3
    <3> QED BY <3>3, <3>4, Zenon
  <2> HIDE DEF shift, upper
  <2> QED BY <1>2, <2>2, <2>3, <2>4, OneToOne, Zenon
<1> HIDE DEF shift, upper
<1>6. Cardinality(Tally(g, T) \cup upper)
        = Cardinality(Tally(g, T)) + Cardinality(upper) - Cardinality(Tally(g, T) \cap upper)
  BY <1>2, <1>4, FS_Union, Zenon
<1>7. Cardinality({}) = 0 /\ Cardinality(Tally(g, T)) \in Nat /\ Cardinality(Tally(d, T)) \in Nat
  BY <1>2, FS_EmptySet, FS_CardinalityType, Zenon
<1>8. Cardinality(Tally(f, T)) = Cardinality(Tally(g, T)) + Cardinality(Tally(d, T))
  <2> DEFINE a == Cardinality(Tally(g, T))
             b == Cardinality(Tally(d, T))
  <2>1. Cardinality(Tally(f, T)) = a + b - 0
    BY <1>3, <1>4, <1>6, <1>7, Zenon
  <2>2. a \in Nat /\ b \in Nat
    BY <1>7, Zenon
  <2> HIDE DEF a, b
  <2>3. Cardinality(Tally(f, T)) = a + b
    BY <2>1, <2>2
  <2> QED BY <2>3, Zenon DEF a, b
<1>9. /\ SumFunctionOnSet(f, T) = Cardinality(Tally(f, T))
      /\ SumFunctionOnSet(g, T) = Cardinality(Tally(g, T))
      /\ SumFunctionOnSet(d, T) = Cardinality(Tally(d, T))
  BY <1>1, SumIsTally, Zenon
<1> QED BY <1>8, <1>9

(* Where the slice of the i-th value starts when the values are laid end to end (cumsum). *)
SliceStart(lens, i) == SumFunctionOnSet(lens, 1 .. i - 1)

(* Slices laid end to end tile their sum: they do not overlap, and every place lies in one. *)
Tiled(n, lens, total) ==
  /\ total \in Nat
  /\ \A i \in 1 .. n : SliceStart(lens, i) \in Nat /\ SliceStart(lens, i) + lens[i] <= total
  /\ \A i, j \in 1 .. n : i < j => SliceStart(lens, i) + lens[i] <= SliceStart(lens, j)
  /\ \A k \in 1 .. total : \E i \in 1 .. n : k - SliceStart(lens, i) \in 1 .. lens[i]

(* Any values tile their sum. *)
LEMMA SlicesTile ==
  ASSUME NEW n \in Nat, NEW lens \in [1 .. n -> Nat]
  PROVE  Tiled(n, lens, SumFunctionOnSet(lens, 1 .. n))
<1> DEFINE sum(m) == SumFunctionOnSet(lens, 1 .. m)
<1>1. ASSUME NEW m \in 0 .. n
      PROVE  /\ IsFiniteSet(1 .. m) /\ \A x \in 1 .. m : lens[x] \in Nat
             /\ sum(m) \in Nat
  <2>1. 1 \in Int /\ m \in Int /\ \A x \in 1 .. m : lens[x] \in Nat
    OBVIOUS
  <2>2. IsFiniteSet(1 .. m)
    BY <2>1, FS_Interval, Zenon
  <2> QED BY <2>1, <2>2, SumNat, Zenon
<1>2. ASSUME NEW i \in 1 .. n PROVE sum(i) = lens[i] + sum(i - 1)
  <2>1. i \in 0 .. n /\ i \in 1 .. i /\ (1 .. i) \ {i} = 1 .. i - 1
    OBVIOUS
  <2>2. SumFunctionOnSet(lens, 1 .. i) = lens[i] + SumFunctionOnSet(lens, (1 .. i) \ {i})
    BY <1>1, <2>1, SumStep, Zenon
  <2> QED BY <2>1, <2>2
<1>3. ASSUME NEW a \in 0 .. n, NEW b \in 0 .. n, a <= b PROVE sum(a) <= sum(b)
  <2>1. 1 .. a \in SUBSET (1 .. b)
    BY <1>3
  <2> QED BY <1>1, <2>1, SumSubset, Zenon
<1>4. \A i \in 1 .. n : SliceStart(lens, i) = sum(i - 1) /\ i - 1 \in 0 .. n /\ i \in 0 .. n /\ lens[i] \in Nat
  BY DEF SliceStart
<1>5. sum(0) = 0
  <2>1. 1 .. 0 = {}
    OBVIOUS
  <2> QED BY <2>1, SumEmpty, Zenon
<1>6. n \in 0 .. n
  OBVIOUS
<1> HIDE DEF sum
<1>7. ASSUME NEW i \in 1 .. n
      PROVE  SliceStart(lens, i) \in Nat /\ SliceStart(lens, i) + lens[i] <= sum(n)
  <2>1. sum(i - 1) \in Nat /\ sum(i) <= sum(n) /\ sum(i) \in Nat /\ sum(n) \in Nat
    BY <1>1, <1>3, <1>4, <1>6
  <2> QED BY <2>1, <1>2, <1>4
<1>8. ASSUME NEW i \in 1 .. n, NEW j \in 1 .. n, i < j
      PROVE  SliceStart(lens, i) + lens[i] <= SliceStart(lens, j)
  <2>1. i <= j - 1
    BY <1>8
  <2>2. sum(i - 1) \in Nat /\ sum(i) <= sum(j - 1) /\ sum(i) \in Nat /\ sum(j - 1) \in Nat
    BY <1>1, <1>3, <1>4, <2>1
  <2> QED BY <2>2, <1>2, <1>4
<1>9. ASSUME NEW k \in 1 .. sum(n)
      PROVE  \E i \in 1 .. n : k - SliceStart(lens, i) \in 1 .. lens[i]
  <2> DEFINE K == {i \in 1 .. n : sum(i - 1) < k}
  <2>0. sum(n) \in Nat
    BY <1>1, <1>6
  <2>1. n # 0
    BY <1>5, <2>0
  <2>2. 1 \in K
    <3>1. sum(1 - 1) = 0
      BY <1>5
    <3> QED BY <2>1, <3>1
  <2>3. K \in SUBSET Nat /\ \A i \in K : i <= n
    OBVIOUS
  <2>4. PICK i \in K : \A j \in K : j <= i
    <3> HIDE DEF K
    <3> QED BY <2>2, <2>3, Largest, Zenon
  <2>5. k <= sum(i)
    <3>1. CASE i = n
      BY <3>1
    <3>2. CASE i < n
      <4>1. i + 1 \in 1 .. n /\ ~(i + 1 \in K) /\ i + 1 - 1 = i
        BY <3>2, <2>4
      <4>2. sum(i) \in Nat /\ ~(sum(i + 1 - 1) < k)
        BY <4>1, <1>1
      <4> QED BY <4>1, <4>2
    <3> QED BY <3>1, <3>2
  <2>6. sum(i - 1) \in Nat /\ sum(i) \in Nat /\ sum(i) = lens[i] + sum(i - 1)
    BY <1>1, <1>2, <1>4
  <2>7. k - sum(i - 1) \in 1 .. lens[i]
    BY <2>5, <2>6, <2>0
  <2> QED BY <2>7, <1>4
<1>10. sum(n) \in Nat
  BY <1>1, <1>6
<1> QED BY <1>7, <1>8, <1>9, <1>10, Zenon DEF sum, Tiled

(* The places of a concatenation. *)
LEMMA ConcatPlaces ==
  ASSUME NEW X, NEW s \in Seq(X), NEW t \in Seq(X)
  PROVE  /\ s \o t \in Seq(X) /\ Len(s \o t) = Len(s) + Len(t)
         /\ DOMAIN (s \o t) = 1 .. Len(s) + Len(t)
         /\ \A k \in 1 .. Len(s) : (s \o t)[k] = s[k]
         /\ \A m \in 1 .. Len(t) : (s \o t)[Len(s) + m] = t[m]
<1>1. Len(s) \in Nat /\ Len(t) \in Nat /\ Len(s \o t) = Len(s) + Len(t) /\ s \o t \in Seq(X)
  OBVIOUS
<1>2. DOMAIN (s \o t) = 1 .. Len(s) + Len(t)
  BY <1>1
<1>3. ASSUME NEW k \in 1 .. Len(s) PROVE (s \o t)[k] = s[k]
  <2>1. k \in 1 .. Len(s) + Len(t) /\ k <= Len(s)
    BY <1>1
  <2> QED BY <2>1
<1>4. ASSUME NEW m \in 1 .. Len(t) PROVE (s \o t)[Len(s) + m] = t[m]
  <2>1. Len(s) + m \in 1 .. Len(s) + Len(t) /\ ~(Len(s) + m <= Len(s)) /\ Len(s) + m - Len(s) = m
    BY <1>1
  <2> QED BY <2>1
<1> QED BY <1>1, <1>2, <1>3, <1>4

(* The places of a slice s[a:a+l]. *)
LEMMA SlicePlaces ==
  ASSUME NEW X, NEW s \in Seq(X), NEW a \in Nat, NEW l \in Nat, a + l <= Len(s)
  PROVE  /\ SubSeq(s, a + 1, a + l) \in Seq(X) /\ Len(SubSeq(s, a + 1, a + l)) = l
         /\ DOMAIN SubSeq(s, a + 1, a + l) = 1 .. l
         /\ \A m \in 1 .. l : /\ a + m \in DOMAIN s
                              /\ SubSeq(s, a + 1, a + l)[m] = s[a + m]
<1>1. /\ Len(s) \in Nat /\ DOMAIN s = 1 .. Len(s)
      /\ a + l - (a + 1) + 1 = l
      /\ \A m \in 1 .. l : a + m \in 1 .. Len(s) /\ m + (a + 1) - 1 = a + m
  OBVIOUS
<1>2. SubSeq(s, a + 1, a + l) = [m \in 1 .. l |-> s[a + m]]
  BY <1>1
<1>3. \A m \in 1 .. l : s[a + m] \in X
  BY <1>1
<1> QED BY <1>1, <1>2, <1>3

(* A function from 1 .. n is a list of n elements. *)
LEMMA FunctionList ==
  ASSUME NEW X, NEW n \in Nat, NEW f \in [1 .. n -> X]
  PROVE  f \in Seq(X) /\ Len(f) = n /\ DOMAIN f = 1 .. n
OBVIOUS

(* ----------------------------------------------------------------------- *)
(* The tables of module BlockManager, of any set of free blocks, counter   *)
(* and table, so that the facts can be used of both devices and of both    *)
(* sides of a step: an allocation and a release keep every block in        *)
(* exactly one place.                                                      *)

(* Every block of the pool is free, or is in one place of one row of the table, and the
   counter is the number of free blocks. *)
OnePlaceEach(rows, pool, free, num, table) ==
  /\ num = Cardinality(free) /\ free \subseteq pool
  /\ \A s \in rows : \A i \in DOMAIN table[s] : table[s][i] \in pool \ free
  /\ \A s, t \in rows : \A i \in DOMAIN table[s], j \in DOMAIN table[t] :
       table[s][i] = table[t][j] => s = t /\ i = j
  /\ \A b \in pool \ free : \E s \in rows : \E i \in DOMAIN table[s] : table[s][i] = b

(* This is what BlockManager's EveryBlockHasOnePlace says of the block in each place. *)
PlacesOf(rows, table) == UNION {{<<s, i>> : i \in DOMAIN table[s]} : s \in rows}
BlockAt(rows, table) == [p \in PlacesOf(rows, table) |-> table[p[1]][p[2]]]

PlacedOnce(pool, free, num, block) ==
  /\ num = Cardinality(free)
  /\ \A p, q \in DOMAIN block : block[p] = block[q] => p = q
  /\ {block[p] : p \in DOMAIN block} = pool \ free
  /\ free \subseteq pool

LEMMA PlacesApart ==
  ASSUME NEW rows, NEW pool, NEW free, NEW num, NEW table
  PROVE  OnePlaceEach(rows, pool, free, num, table) <=>
           PlacedOnce(pool, free, num, BlockAt(rows, table))
<1> DEFINE placed == PlacesOf(rows, table)
           block == BlockAt(rows, table)
<1>a. placed = UNION {{<<s, i>> : i \in DOMAIN table[s]} : s \in rows}
  BY Zenon DEF PlacesOf
<1>b. block = [p \in placed |-> table[p[1]][p[2]]]
  BY Zenon DEF BlockAt
<1> HIDE DEF placed, block
<1>1. DOMAIN block = placed /\ \A p \in placed : block[p] = table[p[1]][p[2]]
  BY <1>b
<1>2. \A s \in rows : \A i \in DOMAIN table[s] : <<s, i>> \in placed /\ block[<<s, i>>] = table[s][i]
  BY <1>a, <1>1
<1>3. \A p \in placed : \E s \in rows : \E i \in DOMAIN table[s] : p = <<s, i>>
  BY <1>a
<1>4. ASSUME OnePlaceEach(rows, pool, free, num, table)
      PROVE  /\ \A p, q \in placed : block[p] = block[q] => p = q
             /\ {block[p] : p \in placed} = pool \ free
  <2>0. /\ \A s \in rows : \A i \in DOMAIN table[s] : table[s][i] \in pool \ free
        /\ \A s, t \in rows : \A i \in DOMAIN table[s], j \in DOMAIN table[t] :
             table[s][i] = table[t][j] => s = t /\ i = j
    BY <1>4, Zenon DEF OnePlaceEach
  <2>1. ASSUME NEW p \in placed, NEW q \in placed, block[p] = block[q] PROVE p = q
    <3>1. PICK s \in rows : \E i \in DOMAIN table[s] : p = <<s, i>>
      BY <1>3
    <3>2. PICK i \in DOMAIN table[s] : p = <<s, i>>
      BY <3>1
    <3>3. PICK t \in rows : \E j \in DOMAIN table[t] : q = <<t, j>>
      BY <1>3
    <3>4. PICK j \in DOMAIN table[t] : q = <<t, j>>
      BY <3>3
    <3>5. table[s][i] = table[t][j]
      BY <1>2, <2>1, <3>2, <3>4
    <3>6. s = t /\ i = j
      BY <2>0, <3>5
    <3> QED BY <3>2, <3>4, <3>6
  <2>2. ASSUME NEW p \in placed PROVE block[p] \in pool \ free
    <3>1. PICK s \in rows : \E i \in DOMAIN table[s] : p = <<s, i>>
      BY <1>3
    <3>2. PICK i \in DOMAIN table[s] : p = <<s, i>>
      BY <3>1
    <3> QED BY <1>2, <2>0, <3>2
  <2>3. ASSUME NEW b \in pool \ free PROVE \E p \in placed : block[p] = b
    <3>1. PICK s \in rows : \E i \in DOMAIN table[s] : table[s][i] = b
      BY <1>4, <2>3, Zenon DEF OnePlaceEach
    <3> QED BY <1>2, <3>1
  <2>4. {block[p] : p \in placed} = pool \ free
    BY <2>2, <2>3, Zenon
  <2> QED BY <2>1, <2>4, Zenon
<1>5. ASSUME /\ num = Cardinality(free) /\ free \subseteq pool
             /\ \A p, q \in placed : block[p] = block[q] => p = q
             /\ {block[p] : p \in placed} = pool \ free
      PROVE  OnePlaceEach(rows, pool, free, num, table)
  <2>1. ASSUME NEW s \in rows, NEW i \in DOMAIN table[s] PROVE table[s][i] \in pool \ free
    <3>1. <<s, i>> \in placed /\ block[<<s, i>>] = table[s][i]
      BY <1>2, Zenon
    <3>2. block[<<s, i>>] \in pool \ free
      BY <1>5, <3>1, Zenon
    <3> QED BY <3>1, <3>2, Zenon
  <2>2. ASSUME NEW s \in rows, NEW t \in rows, NEW i \in DOMAIN table[s], NEW j \in DOMAIN table[t],
               table[s][i] = table[t][j]
        PROVE  s = t /\ i = j
    <3>1. <<s, i>> \in placed /\ <<t, j>> \in placed /\ block[<<s, i>>] = block[<<t, j>>]
      BY <1>2, <2>2, Zenon
    <3>2. <<s, i>> = <<t, j>>
      BY <1>5, <3>1, Zenon
    <3> QED BY <3>2
  <2>3. ASSUME NEW b \in pool \ free PROVE \E s \in rows : \E i \in DOMAIN table[s] : table[s][i] = b
    <3>1. PICK p \in placed : block[p] = b
      BY <1>5, <2>3
    <3> QED BY <1>2, <1>3, <3>1
  <2> QED BY <1>5, <2>1, <2>2, <2>3, Zenon DEF OnePlaceEach
<1> QED BY <1>1, <1>4, <1>5 DEF OnePlaceEach, PlacedOnce, block

(* What an allocation does to a table: the row of ids[i] is extended by the i-th slice of
   the selected blocks. *)
Extended(table, ids, lens, sel) ==
  [s \in DOMAIN table |->
     IF \E i \in DOMAIN ids : ids[i] = s
       THEN LET i == CHOOSE j \in DOMAIN ids : ids[j] = s
            IN  table[s] \o SubSeq(sel, SliceStart(lens, i) + 1, SliceStart(lens, i) + lens[i])
       ELSE table[s]]

(* The rows after an allocation, place by place. *)
RowsExtended(rows, table, ids, lens, sel, total, table2) ==
  /\ \A i \in DOMAIN ids : Len(table2[ids[i]]) = Len(table[ids[i]]) + lens[i]
  /\ \A s \in rows \ Elements(ids) : table2[s] = table[s]
  /\ \A s \in rows : \A k \in DOMAIN table[s] : k \in DOMAIN table2[s] /\ table2[s][k] = table[s][k]
  /\ \A i \in DOMAIN ids : \A m \in 1 .. lens[i] :
       /\ SliceStart(lens, i) + m \in 1 .. total
       /\ Len(table[ids[i]]) + m \in DOMAIN table2[ids[i]]
       /\ table2[ids[i]][Len(table[ids[i]]) + m] = sel[SliceStart(lens, i) + m]
  /\ \A s \in rows : \A k \in DOMAIN table2[s] :
       \/ k \in DOMAIN table[s]
       \/ \E i \in DOMAIN ids : \E m \in 1 .. lens[i] : s = ids[i] /\ k = Len(table[s]) + m

(* Extending the rows does just this. *)
LEMMA ExtendedRows ==
  ASSUME NEW rows, NEW B, NEW table \in [rows -> Seq(B)],
         NEW ids \in Seq(rows), IsInjective(ids), NEW lens \in [DOMAIN ids -> Nat],
         NEW total, total = SumFunctionOnSet(lens, DOMAIN ids),
         NEW sel \in [1 .. total -> B]
  PROVE  /\ Extended(table, ids, lens, sel) \in [rows -> Seq(B)]
         /\ RowsExtended(rows, table, ids, lens, sel, total, Extended(table, ids, lens, sel))
<1> DEFINE n == Len(ids)
           table2 == Extended(table, ids, lens, sel)
           New(i) == SubSeq(sel, SliceStart(lens, i) + 1, SliceStart(lens, i) + lens[i])
<1>1. /\ n \in Nat /\ DOMAIN ids = 1 .. n /\ DOMAIN table = rows
      /\ \A i \in 1 .. n : ids[i] \in rows /\ lens[i] \in Nat
      /\ \A s \in rows : table[s] \in Seq(B) /\ Len(table[s]) \in Nat /\ DOMAIN table[s] = 1 .. Len(table[s])
  OBVIOUS
<1>2. /\ total \in Nat
      /\ \A i \in 1 .. n : SliceStart(lens, i) \in Nat /\ SliceStart(lens, i) + lens[i] <= total
  <2>1. n \in Nat /\ lens \in [1 .. n -> Nat] /\ total = SumFunctionOnSet(lens, 1 .. n)
    BY <1>1
  <2> HIDE DEF n
  <2>2. Tiled(n, lens, total)
    BY <2>1, SlicesTile, Zenon
  <2> QED BY <2>2, Zenon DEF Tiled
<1>3. \A i, j \in 1 .. n : ids[i] = ids[j] => i = j
  BY <1>1, Zenon DEF IsInjective
<1>4. ASSUME NEW i \in 1 .. n
      PROVE  /\ New(i) \in Seq(B) /\ Len(New(i)) = lens[i]
             /\ \A m \in 1 .. lens[i] : SliceStart(lens, i) + m \in 1 .. total
                                        /\ New(i)[m] = sel[SliceStart(lens, i) + m]
  <2> DEFINE a == SliceStart(lens, i)
             l == lens[i]
  <2>1. a \in Nat /\ l \in Nat /\ a + l <= total /\ total \in Nat
    BY <1>1, <1>2
  <2> HIDE DEF a, l
  <2>2. sel \in Seq(B) /\ Len(sel) = total /\ DOMAIN sel = 1 .. total /\ a + l <= Len(sel)
    BY <2>1, FunctionList, Zenon
  <2>3. /\ SubSeq(sel, a + 1, a + l) \in Seq(B) /\ Len(SubSeq(sel, a + 1, a + l)) = l
        /\ \A m \in 1 .. l : a + m \in 1 .. total /\ SubSeq(sel, a + 1, a + l)[m] = sel[a + m]
    BY <2>1, <2>2, SlicePlaces, SMTT(30)
  <2> QED BY <2>2, <2>3 DEF a, l
<1>5. ASSUME NEW i \in 1 .. n
      PROVE  table2[ids[i]] = table[ids[i]] \o New(i)
  <2> DEFINE s == ids[i]
  <2>1. (CHOOSE j \in DOMAIN ids : ids[j] = s) = i
    BY <1>1, <1>3
  <2>2. s \in DOMAIN table /\ \E j \in DOMAIN ids : ids[j] = s
    BY <1>1
  <2> HIDE DEF s
  <2>3. table2[s] = table[s] \o New(i)
    BY <2>1, <2>2 DEF Extended
  <2> QED BY <2>3 DEF s
<1>6. \A s \in rows \ Elements(ids) : table2[s] = table[s]
  BY <1>1 DEF Extended, Elements
<1>7. \A s \in rows : s \in Elements(ids) => \E i \in 1 .. n : s = ids[i]
  BY <1>1 DEF Elements
<1> HIDE DEF New
<1>8. ASSUME NEW i \in 1 .. n
      PROVE  /\ table2[ids[i]] \in Seq(B)
             /\ Len(table2[ids[i]]) = Len(table[ids[i]]) + lens[i]
             /\ DOMAIN table2[ids[i]] = 1 .. Len(table[ids[i]]) + lens[i]
             /\ \A k \in 1 .. Len(table[ids[i]]) : table2[ids[i]][k] = table[ids[i]][k]
             /\ \A m \in 1 .. lens[i] : table2[ids[i]][Len(table[ids[i]]) + m] = sel[SliceStart(lens, i) + m]
  <2> DEFINE t == table[ids[i]]
             u == New(i)
  <2>0. Len(u) = lens[i]
    BY <1>4
  <2>1. t \in Seq(B) /\ u \in Seq(B)
    BY <1>1, <1>4
  <2> HIDE DEF t, u
  <2>2. t \o u \in Seq(B) /\ Len(t \o u) = Len(t) + Len(u)
    BY <2>1, ConcatPlaces
  <2>3. DOMAIN (t \o u) = 1 .. Len(t) + Len(u)
    BY <2>1, ConcatPlaces
  <2>4. \A k \in 1 .. Len(t) : (t \o u)[k] = t[k]
    BY <2>1, ConcatPlaces
  <2>5. \A m \in 1 .. Len(u) : (t \o u)[Len(t) + m] = u[m]
    BY <2>1, ConcatPlaces
  <2> QED BY <2>0, <2>1, <2>2, <2>3, <2>4, <2>5, <1>4, <1>5 DEF t, u
<1>9. \A s \in rows : table2[s] \in Seq(B)
  BY <1>1, <1>6, <1>7, <1>8, ZenonT(40)
<1>10. table2 \in [rows -> Seq(B)]
  <2>1. table2 = [s \in rows |-> table2[s]]
    BY <1>1 DEF Extended
  <2> HIDE DEF table2
  <2> QED BY <1>9, <2>1
<1> HIDE DEF table2
<1>11. ASSUME NEW s \in rows, NEW k \in DOMAIN table[s]
       PROVE  k \in DOMAIN table2[s] /\ table2[s][k] = table[s][k]
  <2>1. CASE s \in Elements(ids)
    <3>1. PICK i \in 1 .. n : s = ids[i]
      BY <1>7, <2>1
    <3>2. k \in 1 .. Len(table[ids[i]]) /\ Len(table[ids[i]]) \in Nat /\ lens[i] \in Nat
      BY <1>1, <3>1
    <3>3. k \in 1 .. Len(table[ids[i]]) + lens[i]
      BY <3>2
    <3> QED BY <3>1, <3>2, <3>3, <1>8
  <2>2. CASE s \notin Elements(ids)
    BY <1>6, <2>2
  <2> QED BY <2>1, <2>2
<1>12. ASSUME NEW i \in 1 .. n, NEW m \in 1 .. lens[i]
       PROVE  Len(table[ids[i]]) + m \in DOMAIN table2[ids[i]]
  BY <1>1, <1>8
<1>13. ASSUME NEW s \in rows, NEW k \in DOMAIN table2[s], ~(k \in DOMAIN table[s])
       PROVE  \E i \in 1 .. n : \E m \in 1 .. lens[i] : s = ids[i] /\ k = Len(table[s]) + m
  <2>1. s \in Elements(ids)
    BY <1>6, <1>13
  <2>2. PICK i \in 1 .. n : s = ids[i]
    BY <1>7, <2>1
  <2>3. k \in 1 .. Len(table[s]) + lens[i] /\ ~(k \in 1 .. Len(table[s])) /\ Len(table[s]) \in Nat /\ lens[i] \in Nat
    BY <1>1, <1>8, <1>13, <2>2
  <2>4. k - Len(table[s]) \in 1 .. lens[i] /\ k = Len(table[s]) + (k - Len(table[s]))
    BY <2>3
  <2> QED BY <2>2, <2>4
<1> QED
  <2>1. /\ \A i \in 1 .. n : Len(table2[ids[i]]) = Len(table[ids[i]]) + lens[i]
        /\ \A i \in 1 .. n : \A m \in 1 .. lens[i] :
             table2[ids[i]][Len(table[ids[i]]) + m] = sel[SliceStart(lens, i) + m]
    BY <1>8
  <2>2. \A i \in 1 .. n : \A m \in 1 .. lens[i] : SliceStart(lens, i) + m \in 1 .. total
    BY <1>4
  <2>3. ASSUME NEW s \in rows, NEW k \in DOMAIN table2[s]
        PROVE
          \/ k \in DOMAIN table[s]
          \/ \E i \in DOMAIN ids : \E m \in 1 .. lens[i] : s = ids[i] /\ k = Len(table[s]) + m
    <3>1. CASE k \in DOMAIN table[s]
      BY <3>1
    <3>2. CASE ~(k \in DOMAIN table[s])
      <4>1. PICK i \in 1 .. n : \E m \in 1 .. lens[i] : s = ids[i] /\ k = Len(table[s]) + m
        BY <1>13, <3>2
      <4>2. i \in DOMAIN ids
        BY <1>1
      <4> QED BY <4>1, <4>2
    <3> QED BY <3>1, <3>2
  <2>4. \A i \in DOMAIN ids : \A m \in 1 .. lens[i] :
          /\ SliceStart(lens, i) + m \in 1 .. total
          /\ Len(table[ids[i]]) + m \in DOMAIN table2[ids[i]]
          /\ table2[ids[i]][Len(table[ids[i]]) + m] = sel[SliceStart(lens, i) + m]
    BY <1>1, <1>12, <2>1, <2>2, Zenon
  <2>5. \A i \in DOMAIN ids : Len(table2[ids[i]]) = Len(table[ids[i]]) + lens[i]
    BY <1>1, <2>1, Zenon
  <2>6. RowsExtended(rows, table, ids, lens, sel, total, table2)
    BY <1>6, <1>11, <2>3, <2>4, <2>5, Zenon DEF RowsExtended
  <2> QED BY <1>10, <2>6, Zenon DEF table2

(* The first n of a finite set of numbers, in order (torch.nonzero(is_block_free)[:n]). *)
SelectedFrom(free, n) == [i \in 1 .. n |-> CHOOSE b \in free : Cardinality({c \in free : c <= b}) = i]

TakenFrom(free, n, sel) ==
  /\ sel \in [1 .. n -> free]
  /\ \A i, j \in 1 .. n : sel[i] = sel[j] => i = j

(* Those are n different ones, if there are as many. *)
LEMMA SelectedApart ==
  ASSUME NEW free \in SUBSET Int, IsFiniteSet(free), NEW n \in Nat, n <= Cardinality(free)
  PROVE  TakenFrom(free, n, SelectedFrom(free, n))
<1> DEFINE sel == SelectedFrom(free, n)
<1>1. \A i \in 1 .. Cardinality(free) : \E b \in free : RankIn(free, b) = i
  BY RankNumbers, Zenon
<1>2. Cardinality(free) \in Nat
  BY FS_CardinalityType, Zenon
<1>3. sel = [i \in 1 .. n |-> CHOOSE b \in free : RankIn(free, b) = i]
  BY Zenon DEF SelectedFrom, RankIn
<1> HIDE DEF sel
<1>4. ASSUME NEW i \in 1 .. n PROVE sel[i] \in free /\ RankIn(free, sel[i]) = i
  <2>1. i \in 1 .. Cardinality(free)
    BY <1>2
  <2>2. sel[i] = CHOOSE b \in free : RankIn(free, b) = i
    BY <1>3, Zenon
  <2> QED BY <1>1, <2>1, <2>2, Zenon
<1>5. \A i, j \in 1 .. n : sel[i] = sel[j] => i = j
  BY <1>4, Zenon
<1>6. sel \in [1 .. n -> free]
  BY <1>3, <1>4
<1> QED BY <1>5, <1>6 DEF TakenFrom, sel

(* An allocation of free blocks keeps every block in one place. *)
LEMMA AllocationKeepsPlaces ==
  ASSUME NEW rows, NEW B, NEW table \in [rows -> Seq(B)],
         NEW pool \in SUBSET B, NEW free, IsFiniteSet(free), NEW num,
         OnePlaceEach(rows, pool, free, num, table),
         NEW ids \in Seq(rows), IsInjective(ids), NEW lens \in [DOMAIN ids -> Nat],
         NEW total, total = SumFunctionOnSet(lens, DOMAIN ids),
         NEW sel \in [1 .. total -> free], \A i, j \in 1 .. total : sel[i] = sel[j] => i = j
  PROVE  OnePlaceEach(rows, pool, free \ Elements(sel), num - total, Extended(table, ids, lens, sel))
<1> DEFINE n == Len(ids)
           table2 == Extended(table, ids, lens, sel)
           At(i) == SliceStart(lens, i)
<1>1. /\ n \in Nat /\ DOMAIN ids = 1 .. n /\ lens \in [1 .. n -> Nat]
      /\ \A i \in 1 .. n : ids[i] \in rows /\ lens[i] \in Nat
      /\ \A s \in rows : Len(table[s]) \in Nat /\ DOMAIN table[s] = 1 .. Len(table[s])
  OBVIOUS
<1>2. /\ num = Cardinality(free) /\ free \subseteq pool
      /\ \A s \in rows : \A i \in DOMAIN table[s] : table[s][i] \in pool \ free
      /\ \A s, t \in rows : \A i \in DOMAIN table[s], j \in DOMAIN table[t] :
           table[s][i] = table[t][j] => s = t /\ i = j
      /\ \A b \in pool \ free : \E s \in rows : \E i \in DOMAIN table[s] : table[s][i] = b
  BY Zenon DEF OnePlaceEach
<1>3. sel \in [1 .. total -> B]
  BY <1>2
<1>4. /\ total \in Nat
      /\ \A i \in 1 .. n : At(i) \in Nat /\ At(i) + lens[i] <= total
      /\ \A i, j \in 1 .. n : i < j => At(i) + lens[i] <= At(j)
      /\ \A k \in 1 .. total : \E i \in 1 .. n : k - At(i) \in 1 .. lens[i]
  <2>1. total = SumFunctionOnSet(lens, 1 .. n)
    BY <1>1
  <2> HIDE DEF n
  <2>2. Tiled(n, lens, total)
    BY <1>1, <2>1, SlicesTile, Zenon
  <2> QED BY <2>2, Zenon DEF Tiled
<1>. HIDE DEF table2, At, n
<1>0. RowsExtended(rows, table, ids, lens, sel, total, table2)
  BY <1>3, ExtendedRows, Zenon DEF table2
<1>5. ASSUME NEW s \in rows, NEW k \in DOMAIN table[s]
      PROVE  k \in DOMAIN table2[s] /\ table2[s][k] = table[s][k]
  BY <1>0, Zenon DEF RowsExtended
<1>6. ASSUME NEW i \in 1 .. n, NEW m \in 1 .. lens[i]
      PROVE  /\ At(i) + m \in 1 .. total
             /\ Len(table[ids[i]]) + m \in DOMAIN table2[ids[i]]
             /\ table2[ids[i]][Len(table[ids[i]]) + m] = sel[At(i) + m]
  BY <1>0, <1>1, Zenon DEF RowsExtended, At
<1>7. ASSUME NEW s \in rows, NEW k \in DOMAIN table2[s], ~(k \in DOMAIN table[s])
      PROVE  \E i \in 1 .. n : \E m \in 1 .. lens[i] : s = ids[i] /\ k = Len(table[s]) + m
  <2>1. \/ k \in DOMAIN table[s]
        \/ \E i \in DOMAIN ids : \E m \in 1 .. lens[i] : s = ids[i] /\ k = Len(table[s]) + m
    BY <1>0, ZenonT(40) DEF RowsExtended
  <2>2. PICK i \in DOMAIN ids : \E m \in 1 .. lens[i] : s = ids[i] /\ k = Len(table[s]) + m
    BY <1>7, <2>1
  <2>3. i \in 1 .. n
    BY <1>1
  <2> QED BY <2>2, <2>3
<1>8. ASSUME NEW i \in 1 .. n, NEW j \in 1 .. n, NEW m \in 1 .. lens[i], NEW l \in 1 .. lens[j],
             At(i) + m = At(j) + l
      PROVE  i = j /\ m = l
  <2>1. /\ At(i) \in Nat /\ At(j) \in Nat /\ lens[i] \in Nat /\ lens[j] \in Nat
        /\ i < j => At(i) + lens[i] <= At(j)
        /\ j < i => At(j) + lens[j] <= At(i)
    BY <1>1, <1>4
  <2>2. ~(i < j)
    BY <1>8, <2>1
  <2>3. ~(j < i)
    BY <1>8, <2>1
  <2>4. i = j
    BY <1>1, <2>2, <2>3
  <2> QED BY <1>8, <2>1, <2>4
<1>9. ASSUME NEW s \in rows, NEW k \in DOMAIN table2[s]
      PROVE  table2[s][k] \in pool \ (free \ Elements(sel))
  <2>1. CASE k \in DOMAIN table[s]
    BY <1>2, <1>5, <2>1
  <2>2. CASE ~(k \in DOMAIN table[s])
    <3>1. PICK i \in 1 .. n : \E m \in 1 .. lens[i] : s = ids[i] /\ k = Len(table[s]) + m
      BY <1>7, <2>2
    <3>2. PICK m \in 1 .. lens[i] : s = ids[i] /\ k = Len(table[s]) + m
      BY <3>1
    <3>3. At(i) + m \in 1 .. total /\ table2[s][k] = sel[At(i) + m]
      BY <1>6, <3>2
    <3>4. sel[At(i) + m] \in Elements(sel) /\ sel[At(i) + m] \in free
      BY <3>3 DEF Elements
    <3> QED BY <1>2, <3>3, <3>4
  <2> QED BY <2>1, <2>2
<1>10. ASSUME NEW s \in rows, NEW t \in rows, NEW k \in DOMAIN table2[s], NEW l \in DOMAIN table2[t],
              table2[s][k] = table2[t][l]
       PROVE  s = t /\ k = l
  <2>1. ASSUME NEW a \in rows, NEW i \in DOMAIN table2[a], ~(i \in DOMAIN table[a])
        PROVE  table2[a][i] \in free
    <3>1. PICK x \in 1 .. n : \E m \in 1 .. lens[x] : a = ids[x] /\ i = Len(table[a]) + m
      BY <1>7, <2>1
    <3>2. PICK m \in 1 .. lens[x] : a = ids[x] /\ i = Len(table[a]) + m
      BY <3>1
    <3>3. At(x) + m \in 1 .. total /\ table2[a][i] = sel[At(x) + m]
      BY <1>6, <3>2
    <3> QED BY <3>3
  <2>2. ASSUME NEW a \in rows, NEW i \in DOMAIN table[a] PROVE ~(table2[a][i] \in free)
    BY <1>2, <1>5
  <2>3. CASE k \in DOMAIN table[s] /\ l \in DOMAIN table[t]
    <3>1. table[s][k] = table[t][l]
      BY <1>5, <1>10, <2>3
    <3> QED BY <1>2, <2>3, <3>1
  <2>4. CASE ~(k \in DOMAIN table[s]) /\ ~(l \in DOMAIN table[t])
    <3>1. PICK i \in 1 .. n : \E m \in 1 .. lens[i] : s = ids[i] /\ k = Len(table[s]) + m
      BY <1>7, <2>4
    <3>2. PICK m \in 1 .. lens[i] : s = ids[i] /\ k = Len(table[s]) + m
      BY <3>1
    <3>3. PICK j \in 1 .. n : \E m2 \in 1 .. lens[j] : t = ids[j] /\ l = Len(table[t]) + m2
      BY <1>7, <2>4
    <3>4. PICK m2 \in 1 .. lens[j] : t = ids[j] /\ l = Len(table[t]) + m2
      BY <3>3
    <3>5. At(i) + m \in 1 .. total /\ At(j) + m2 \in 1 .. total /\ sel[At(i) + m] = sel[At(j) + m2]
      BY <1>6, <1>10, <3>2, <3>4
    <3>6. At(i) + m = At(j) + m2
      BY <3>5, Zenon
    <3>7. i = j /\ m = m2
      BY <1>8, <3>6
    <3> QED BY <3>2, <3>4, <3>7
  <2>5. CASE k \in DOMAIN table[s] /\ ~(l \in DOMAIN table[t])
    BY <2>1, <2>2, <2>5, <1>10
  <2>6. CASE ~(k \in DOMAIN table[s]) /\ l \in DOMAIN table[t]
    BY <2>1, <2>2, <2>6, <1>10
  <2> QED BY <2>3, <2>4, <2>5, <2>6
<1>11. ASSUME NEW b \in pool \ (free \ Elements(sel))
       PROVE  \E s \in rows : \E k \in DOMAIN table2[s] : table2[s][k] = b
  <2>1. CASE b \in free
    <3>1. b \in Elements(sel)
      BY <1>11, <2>1
    <3>2. PICK k \in 1 .. total : sel[k] = b
      BY <3>1 DEF Elements
    <3>3. PICK i \in 1 .. n : k - At(i) \in 1 .. lens[i]
      BY <1>4
    <3>4. At(i) + (k - At(i)) = k
      BY <1>4
    <3>5. table2[ids[i]][Len(table[ids[i]]) + (k - At(i))] = b
          /\ Len(table[ids[i]]) + (k - At(i)) \in DOMAIN table2[ids[i]]
      BY <1>6, <3>2, <3>3, <3>4
    <3> QED BY <1>1, <3>5
  <2>2. CASE b \notin free
    <3>1. PICK s \in rows : \E i \in DOMAIN table[s] : table[s][i] = b
      BY <1>2, <2>2
    <3>2. PICK i \in DOMAIN table[s] : table[s][i] = b
      BY <3>1
    <3> QED BY <1>5, <3>2
  <2> QED BY <2>1, <2>2
<1>12. num - total = Cardinality(free \ Elements(sel))
  <2>1. sel \in Seq(free) /\ Len(sel) = total /\ DOMAIN sel = 1 .. total
    BY <1>4, FunctionList, Zenon
  <2>2. IsInjective(sel)
    BY <2>1, Zenon DEF IsInjective
  <2>3. IsFiniteSet(Elements(sel)) /\ Cardinality(Elements(sel)) = total
    BY <2>1, <2>2, InjectiveElements, Zenon
  <2>4. free \cap Elements(sel) = Elements(sel)
    BY <2>1 DEF Elements
  <2>5. Cardinality(free \ Elements(sel)) = Cardinality(free) - Cardinality(free \cap Elements(sel))
    BY FS_Difference, Zenon
  <2> QED BY <1>2, <2>3, <2>4, <2>5
<1>13. free \ Elements(sel) \subseteq pool
  BY <1>2
<1> QED BY <1>9, <1>10, <1>11, <1>12, <1>13, Zenon DEF OnePlaceEach, table2

(* What gathering returns: the blocks of the ids end to end. *)
RowLengths(table, ids) == [i \in DOMAIN ids |-> Len(table[ids[i]])]
GatheredFrom(table, ids) ==
  LET lens == RowLengths(table, ids) IN
  [k \in 1 .. SumFunctionOnSet(lens, DOMAIN ids) |->
     LET i == CHOOSE j \in DOMAIN ids : k - SliceStart(lens, j) \in 1 .. lens[j]
     IN  table[ids[i]][k - SliceStart(lens, i)]]

(* g holds each block of these rows once and no other block. *)
HoldsRows(B, table, pool, free, ids, g) ==
  /\ g \in Seq(B) /\ IsInjective(g)
  /\ Elements(g) \subseteq pool \ free
  /\ \A i \in DOMAIN ids : \A j \in DOMAIN table[ids[i]] : table[ids[i]][j] \in Elements(g)
  /\ \A b \in Elements(g) : \E i \in DOMAIN ids : \E j \in DOMAIN table[ids[i]] : table[ids[i]][j] = b

(* This is what gathering returns. *)
LEMMA GatheredApart ==
  ASSUME NEW rows, NEW B, NEW table \in [rows -> Seq(B)],
         NEW pool, NEW free, NEW num, OnePlaceEach(rows, pool, free, num, table),
         NEW ids \in Seq(rows), IsInjective(ids)
  PROVE  HoldsRows(B, table, pool, free, ids, GatheredFrom(table, ids))
<1> DEFINE n == Len(ids)
           lens == RowLengths(table, ids)
           total == SumFunctionOnSet(lens, DOMAIN ids)
           g == GatheredFrom(table, ids)
           At(i) == SliceStart(lens, i)
           Of(k) == CHOOSE j \in DOMAIN ids : k - SliceStart(lens, j) \in 1 .. lens[j]
<1>1. /\ n \in Nat /\ DOMAIN ids = 1 .. n /\ lens \in [1 .. n -> Nat]
      /\ \A i \in 1 .. n : ids[i] \in rows /\ lens[i] = Len(table[ids[i]]) /\ lens[i] \in Nat
                           /\ DOMAIN table[ids[i]] = 1 .. lens[i]
      /\ \A s \in rows : table[s] \in Seq(B)
      /\ total = SumFunctionOnSet(lens, DOMAIN ids)
  BY DEF RowLengths
<1>2. /\ \A s \in rows : \A i \in DOMAIN table[s] : table[s][i] \in pool \ free
      /\ \A s, t \in rows : \A i \in DOMAIN table[s], j \in DOMAIN table[t] :
           table[s][i] = table[t][j] => s = t /\ i = j
  BY Zenon DEF OnePlaceEach
<1>3. \A i, j \in 1 .. n : ids[i] = ids[j] => i = j
  BY <1>1, Zenon DEF IsInjective
<1>4. Tiled(n, lens, total)
  <2>1. total = SumFunctionOnSet(lens, 1 .. n)
    BY <1>1
  <2> HIDE DEF n
  <2> QED BY <1>1, <2>1, SlicesTile, Zenon
<1>5. /\ total \in Nat
      /\ \A i \in 1 .. n : At(i) \in Nat /\ At(i) + lens[i] <= total
      /\ \A i, j \in 1 .. n : i < j => At(i) + lens[i] <= At(j)
      /\ \A k \in 1 .. total : \E i \in 1 .. n : k - At(i) \in 1 .. lens[i]
  BY <1>4, Zenon DEF Tiled
<1>6. ASSUME NEW k \in 1 .. total
      PROVE  Of(k) \in 1 .. n /\ k - At(Of(k)) \in 1 .. lens[Of(k)] /\ g[k] = table[ids[Of(k)]][k - At(Of(k))]
  <2>1. \E j \in DOMAIN ids : k - SliceStart(lens, j) \in 1 .. lens[j]
    BY <1>1, <1>5
  <2>2. Of(k) \in DOMAIN ids /\ k - SliceStart(lens, Of(k)) \in 1 .. lens[Of(k)]
    BY <2>1, Zenon
  <2>3. g[k] = table[ids[Of(k)]][k - SliceStart(lens, Of(k))]
    BY DEF GatheredFrom
  <2> HIDE DEF Of
  <2> QED BY <1>1, <2>2, <2>3
<1>7. ASSUME NEW i \in 1 .. n, NEW k \in 1 .. total, k - At(i) \in 1 .. lens[i]
      PROVE  Of(k) = i
  <2> DEFINE j == Of(k)
  <2>1. j \in 1 .. n /\ k - At(j) \in 1 .. lens[j]
    BY <1>6
  <2> HIDE DEF j
  <2>2. /\ At(i) \in Nat /\ At(j) \in Nat /\ lens[i] \in Nat /\ lens[j] \in Nat
        /\ i < j => At(i) + lens[i] <= At(j)
        /\ j < i => At(j) + lens[j] <= At(i)
    BY <1>1, <1>5, <2>1
  <2> HIDE DEF At, Of, n, lens, total, g
  <2>3. ~(i < j) /\ ~(j < i)
    BY <1>7, <2>1, <2>2
  <2>4. i = j
    BY <2>1, <2>3, <1>1
  <2> QED BY <2>4 DEF j
<1>8. DOMAIN g = 1 .. total /\ g = [k \in 1 .. total |-> g[k]]
  BY DEF GatheredFrom
<1> HIDE DEF n, At, Of, lens, total, g
<1>9. ASSUME NEW k \in 1 .. total
      PROVE  /\ ids[Of(k)] \in rows /\ k - At(Of(k)) \in DOMAIN table[ids[Of(k)]]
             /\ g[k] \in B /\ g[k] \in pool \ free
  <2> DEFINE s == ids[Of(k)]
             j == k - At(Of(k))
  <2>1. s \in rows /\ j \in DOMAIN table[s] /\ g[k] = table[s][j]
    BY <1>1, <1>6
  <2> HIDE DEF s, j
  <2>2. table[s] \in Seq(B) /\ g[k] \in pool \ free
    BY <1>1, <1>2, <2>1
  <2> QED BY <2>1, <2>2 DEF s, j
<1>10. g \in Seq(B) /\ Len(g) = total
  <2>2. g \in [1 .. total -> B]
    BY <1>8, <1>9
  <2> QED BY <1>5, <2>2, FunctionList, Zenon
<1>11. ASSUME NEW k \in 1 .. total, NEW l \in 1 .. total, g[k] = g[l]
       PROVE  k = l
  <2>1. ids[Of(k)] = ids[Of(l)] /\ k - At(Of(k)) = l - At(Of(l))
    <3> DEFINE s == ids[Of(k)]
               t == ids[Of(l)]
               i == k - At(Of(k))
               j == l - At(Of(l))
    <3>1. table[s][i] = table[t][j]
      BY <1>6, <1>11
    <3>2. s \in rows /\ t \in rows /\ i \in DOMAIN table[s] /\ j \in DOMAIN table[t]
      BY <1>9
    <3> HIDE DEF s, t, i, j
    <3>3. s = t /\ i = j
      BY <1>2, <3>1, <3>2
    <3> QED BY <3>3 DEF s, t, i, j
  <2>2. Of(k) = Of(l)
    BY <1>3, <1>6, <2>1
  <2>3. At(Of(k)) \in Nat /\ k - At(Of(k)) = l - At(Of(k))
    BY <1>5, <1>6, <2>1, <2>2
  <2> QED BY <2>3
<1>12. IsInjective(g)
  <2> SUFFICES ASSUME NEW a \in DOMAIN g, NEW b \in DOMAIN g, g[a] = g[b] PROVE a = b
    BY DEF IsInjective
  <2> QED BY <1>8, <1>11
<1>13. Elements(g) \subseteq pool \ free
  BY <1>8, <1>9 DEF Elements
<1>14. ASSUME NEW i \in 1 .. n, NEW j \in DOMAIN table[ids[i]]
       PROVE  table[ids[i]][j] \in Elements(g)
  <2> DEFINE k == At(i) + j
  <2>1. /\ j \in 1 .. lens[i] /\ At(i) \in Nat /\ lens[i] \in Nat /\ total \in Nat
        /\ At(i) + lens[i] <= total
    BY <1>1, <1>5, SMTT(30)
  <2>2. k \in 1 .. total /\ k - At(i) = j
    BY <2>1, SMTT(30)
  <2> HIDE DEF k
  <2>3. Of(k) = i
    BY <1>7, <2>1, <2>2
  <2>4. g[k] = table[ids[i]][j]
    BY <1>6, <2>2, <2>3
  <2> QED BY <1>8, <2>2, <2>4 DEF Elements
<1>15. ASSUME NEW b \in Elements(g)
       PROVE  \E i \in 1 .. n : \E j \in DOMAIN table[ids[i]] : table[ids[i]][j] = b
  <2>1. PICK k \in 1 .. total : g[k] = b
    BY <1>8 DEF Elements
  <2> QED BY <1>6, <1>9, <2>1
<1>16. \A i \in DOMAIN ids : \A j \in DOMAIN table[ids[i]] : table[ids[i]][j] \in Elements(g)
  BY <1>1, <1>14
<1>17. ASSUME NEW b \in Elements(g)
       PROVE  \E i \in DOMAIN ids : \E j \in DOMAIN table[ids[i]] : table[ids[i]][j] = b
  <2>1. PICK i \in 1 .. n : \E j \in DOMAIN table[ids[i]] : table[ids[i]][j] = b
    BY <1>15
  <2>2. i \in DOMAIN ids
    BY <1>1
  <2> QED BY <2>1, <2>2
<1>18. HoldsRows(B, table, pool, free, ids, g)
  BY <1>10, <1>12, <1>13, <1>16, <1>17, Zenon DEF HoldsRows
<1> QED BY <1>18 DEF g

(* The rows lie in it one after the other. *)
GatheredInOrder(table, ids, g) ==
  LET lens == RowLengths(table, ids) IN
  /\ lens \in [DOMAIN ids -> Nat]
  /\ SumFunctionOnSet(lens, DOMAIN ids) \in Nat
  /\ DOMAIN g = 1 .. SumFunctionOnSet(lens, DOMAIN ids)
  /\ \A i \in DOMAIN ids : \A m \in 1 .. lens[i] :
       /\ SliceStart(lens, i) + m \in DOMAIN g
       /\ g[SliceStart(lens, i) + m] = table[ids[i]][m]

LEMMA GatheredPlaces ==
  ASSUME NEW rows, NEW B, NEW table \in [rows -> Seq(B)], NEW ids \in Seq(rows)
  PROVE  GatheredInOrder(table, ids, GatheredFrom(table, ids))
<1> DEFINE n == Len(ids)
           lens == RowLengths(table, ids)
           total == SumFunctionOnSet(lens, DOMAIN ids)
           g == GatheredFrom(table, ids)
           At(i) == SliceStart(lens, i)
           Of(k) == CHOOSE j \in DOMAIN ids : k - SliceStart(lens, j) \in 1 .. lens[j]
<1>1. /\ n \in Nat /\ DOMAIN ids = 1 .. n /\ lens \in [1 .. n -> Nat]
      /\ \A i \in 1 .. n : lens[i] \in Nat
      /\ total = SumFunctionOnSet(lens, 1 .. n)
  BY DEF RowLengths
<1>2. Tiled(n, lens, total)
  <2> HIDE DEF n, lens, total
  <2> QED BY <1>1, SlicesTile, Zenon
<1>3. /\ total \in Nat
      /\ \A i \in 1 .. n : At(i) \in Nat /\ At(i) + lens[i] <= total
      /\ \A i, j \in 1 .. n : i < j => At(i) + lens[i] <= At(j)
  BY <1>2, Zenon DEF Tiled
<1>4. DOMAIN g = 1 .. total
  BY DEF GatheredFrom
<1>5. \A k \in 1 .. total : g[k] = table[ids[Of(k)]][k - At(Of(k))]
  BY DEF GatheredFrom
<1>6. ASSUME NEW i \in 1 .. n, NEW m \in 1 .. lens[i]
      PROVE  At(i) + m \in 1 .. total /\ g[At(i) + m] = table[ids[i]][m]
  <2> DEFINE k == At(i) + m
             j == Of(k)
  <2>1. At(i) \in Nat /\ lens[i] \in Nat /\ At(i) + lens[i] <= total
    BY <1>1, <1>3
  <2> HIDE DEF At, Of, lens, total, g, n
  <2>2. k \in 1 .. total /\ k - At(i) = m /\ k \in Nat
    <3>1. total \in Nat /\ m \in 1 .. lens[i]
      BY <1>3
    <3> QED BY <2>1, <3>1, SMTT(30)
  <2>3. j \in 1 .. n /\ k - At(j) \in 1 .. lens[j]
    <3> HIDE DEF k
    <3>1. \E l \in DOMAIN ids : k - SliceStart(lens, l) \in 1 .. lens[l]
      BY <1>1, <2>2 DEF At
    <3> QED BY <1>1, <3>1, Zenon DEF Of, At
  <2>4. j = i
    <3>1. /\ At(j) \in Nat /\ lens[j] \in Nat
          /\ i < j => At(i) + lens[i] <= At(j)
          /\ j < i => At(j) + lens[j] <= At(i)
      BY <1>1, <1>3, <2>3
    <3> HIDE DEF k, j
    <3>2. ~(i < j) /\ ~(j < i)
      <4>1. m \in 1 .. lens[i]
        OBVIOUS
      <4> QED BY <2>1, <2>2, <2>3, <3>1, <4>1, SMTT(30)
    <3> QED BY <1>1, <2>3, <3>2
  <2>5. g[k] = table[ids[j]][k - At(j)]
    BY <1>5, <2>2
  <2> QED BY <2>2, <2>4, <2>5
<1> HIDE DEF At, lens, total, g, n
<1>7. \A i \in DOMAIN ids : \A m \in 1 .. lens[i] :
        At(i) + m \in DOMAIN g /\ g[At(i) + m] = table[ids[i]][m]
  BY <1>1, <1>4, <1>6
<1>8. lens \in [DOMAIN ids -> Nat]
  BY <1>1
<1> QED BY <1>3, <1>4, <1>7, <1>8, Zenon DEF GatheredInOrder, At, lens, total, g

(* Releasing rows keeps every block in one place. *)
RowsReleased(table, ids) == [s \in DOMAIN table |-> IF s \in Elements(ids) THEN <<>> ELSE table[s]]

LEMMA ReleaseKeepsPlaces ==
  ASSUME NEW rows, NEW B, NEW table \in [rows -> Seq(B)],
         NEW pool \in SUBSET B, NEW free, IsFiniteSet(free), NEW num,
         OnePlaceEach(rows, pool, free, num, table),
         NEW ids \in Seq(rows), IsInjective(ids)
  PROVE  OnePlaceEach(rows, pool, free \cup Elements(GatheredFrom(table, ids)),
                      num + Len(GatheredFrom(table, ids)), RowsReleased(table, ids))
<1> DEFINE g == GatheredFrom(table, ids)
           table2 == RowsReleased(table, ids)
<1>0. table2 = [s \in rows |-> IF s \in Elements(ids) THEN <<>> ELSE table[s]]
  BY DEF RowsReleased
<1> HIDE DEF table2
<1>1. /\ g \in Seq(B) /\ IsInjective(g)
      /\ Elements(g) \subseteq pool \ free
      /\ \A i \in DOMAIN ids : \A j \in DOMAIN table[ids[i]] : table[ids[i]][j] \in Elements(g)
      /\ \A b \in Elements(g) : \E i \in DOMAIN ids : \E j \in DOMAIN table[ids[i]] : table[ids[i]][j] = b
  <2>1. HoldsRows(B, table, pool, free, ids, g)
    BY GatheredApart, Zenon
  <2> HIDE DEF g
  <2> QED BY <2>1, Zenon DEF HoldsRows
<1> HIDE DEF g
<1>2. /\ num = Cardinality(free) /\ free \subseteq pool
      /\ \A s \in rows : \A i \in DOMAIN table[s] : table[s][i] \in pool \ free
      /\ \A s, t \in rows : \A i \in DOMAIN table[s], j \in DOMAIN table[t] :
           table[s][i] = table[t][j] => s = t /\ i = j
      /\ \A b \in pool \ free : \E s \in rows : \E i \in DOMAIN table[s] : table[s][i] = b
  BY Zenon DEF OnePlaceEach
<1>3. /\ \A s \in rows : s \in Elements(ids) => table2[s] = <<>>
      /\ \A s \in rows : ~(s \in Elements(ids)) => table2[s] = table[s]
      /\ \A i \in DOMAIN ids : ids[i] \in rows /\ ids[i] \in Elements(ids)
      /\ \A s \in Elements(ids) : \E i \in DOMAIN ids : ids[i] = s
  BY <1>0 DEF Elements
<1>4. ASSUME NEW s \in rows, NEW k \in DOMAIN table2[s]
      PROVE  ~(s \in Elements(ids)) /\ table2[s] = table[s]
  BY <1>3
<1>5. ASSUME NEW s \in rows, NEW k \in DOMAIN table2[s]
      PROVE  table2[s][k] \in pool \ (free \cup Elements(g))
  <2>1. k \in DOMAIN table[s] /\ table2[s][k] = table[s][k] /\ ~(s \in Elements(ids))
    BY <1>4
  <2>2. ~(table[s][k] \in Elements(g))
    <3> SUFFICES ASSUME table[s][k] \in Elements(g) PROVE FALSE
      OBVIOUS
    <3>1. PICK i \in DOMAIN ids : \E j \in DOMAIN table[ids[i]] : table[ids[i]][j] = table[s][k]
      BY <1>1
    <3>2. s = ids[i]
      BY <1>2, <1>3, <2>1, <3>1
    <3> QED BY <1>3, <2>1, <3>2
  <2> QED BY <1>2, <2>1, <2>2
<1>6. ASSUME NEW s \in rows, NEW t \in rows, NEW i \in DOMAIN table2[s], NEW j \in DOMAIN table2[t],
             table2[s][i] = table2[t][j]
      PROVE  s = t /\ i = j
  <2>1. table2[s] = table[s] /\ table2[t] = table[t]
    BY <1>4
  <2> QED BY <1>2, <1>6, <2>1
<1>7. ASSUME NEW b \in pool \ (free \cup Elements(g))
      PROVE  \E s \in rows : \E i \in DOMAIN table2[s] : table2[s][i] = b
  <2>1. PICK s \in rows : \E i \in DOMAIN table[s] : table[s][i] = b
    BY <1>2
  <2>2. PICK i \in DOMAIN table[s] : table[s][i] = b
    BY <2>1
  <2>3. ~(s \in Elements(ids))
    BY <1>1, <1>3, <2>2
  <2> QED BY <1>3, <2>2, <2>3
<1>8. num + Len(g) = Cardinality(free \cup Elements(g))
  <2>1. IsFiniteSet(Elements(g)) /\ Cardinality(Elements(g)) = Len(g)
    BY <1>1, InjectiveElements, Zenon
  <2>2. free \cap Elements(g) = {}
    BY <1>1
  <2> HIDE DEF OnePlaceEach
  <2>3. Cardinality(free \cup Elements(g))
          = Cardinality(free) + Cardinality(Elements(g)) - Cardinality(free \cap Elements(g))
    <3> DEFINE G == Elements(g)
    <3>1. IsFiniteSet(G)
      BY <2>1
    <3> HIDE DEF G
    <3>2. Cardinality(free \cup G) = Cardinality(free) + Cardinality(G) - Cardinality(free \cap G)
      BY <3>1, FS_Union, Zenon
    <3> QED BY <3>2 DEF G
  <2>4. Cardinality({}) = 0 /\ Cardinality(free) \in Nat
    BY FS_EmptySet, FS_CardinalityType, Zenon
  <2>5. num = Cardinality(free) /\ Cardinality(free \cap Elements(g)) = 0 /\ Len(g) \in Nat
    <3>1. num = Cardinality(free)
      BY <1>2, Zenon
    <3>2. Cardinality(free \cap Elements(g)) = 0
      BY <2>2, <2>4, Zenon
    <3>3. Len(g) \in Nat
      BY <1>1
    <3> QED BY <3>1, <3>2, <3>3
  <2> QED BY <2>1, <2>3, <2>4, <2>5
<1>9. free \cup Elements(g) \subseteq pool
  BY <1>1, <1>2
<1> QED BY <1>5, <1>6, <1>7, <1>8, <1>9, Zenon DEF OnePlaceEach, g, table2

(* An allocation that finds enough free blocks. *)
RowsAllocated(rows, size, pool, free, num, table, ids, lens, total, sel) ==
  /\ total \in Nat /\ sel \in [1 .. total -> free]
  /\ OnePlaceEach(rows, pool, free \ Elements(sel), num - total, Extended(table, ids, lens, sel))
  /\ Extended(table, ids, lens, sel) \in [rows -> Seq(1 .. size)]
  /\ RowsExtended(rows, table, ids, lens, sel, total, Extended(table, ids, lens, sel))

(* It keeps every block in one place and extends the rows it is asked to by as many blocks
   as are missing. *)
LEMMA Allocation ==
  ASSUME NEW rows, NEW size \in Nat, NEW table \in [rows -> Seq(1 .. size)],
         NEW pool \in SUBSET (1 .. size), NEW free \in SUBSET (1 .. size), NEW num,
         OnePlaceEach(rows, pool, free, num, table),
         NEW ids \in Seq(rows), IsInjective(ids), NEW lens \in [DOMAIN ids -> Nat],
         SumFunctionOnSet(lens, DOMAIN ids) <= num
  PROVE  RowsAllocated(rows, size, pool, free, num, table, ids, lens, SumFunctionOnSet(lens, DOMAIN ids),
                   SelectedFrom(free, SumFunctionOnSet(lens, DOMAIN ids)))
<1> DEFINE total == SumFunctionOnSet(lens, DOMAIN ids)
           sel == SelectedFrom(free, total)
<1>1. total \in Nat
  <2> DEFINE n == Len(ids)
  <2>1. n \in Nat /\ lens \in [1 .. n -> Nat] /\ total = SumFunctionOnSet(lens, 1 .. n)
    OBVIOUS
  <2> HIDE DEF n, total
  <2>2. Tiled(n, lens, total)
    BY <2>1, SlicesTile, Zenon
  <2> QED BY <2>2, Zenon DEF Tiled
<1>2. IsFiniteSet(free)
  <2>1. 1 \in Int /\ size \in Int
    OBVIOUS
  <2> QED BY <2>1, FS_Interval, FS_Subset, Zenon
<1>3. total <= Cardinality(free)
  BY DEF OnePlaceEach
<1>4. free \in SUBSET Int
  OBVIOUS
<1>5. TakenFrom(free, total, sel)
  <2> HIDE DEF total
  <2> QED BY <1>1, <1>2, <1>3, <1>4, SelectedApart, Zenon
<1> HIDE DEF sel
<1>6. sel \in [1 .. total -> free] /\ \A i, j \in 1 .. total : sel[i] = sel[j] => i = j
  BY <1>5, Zenon DEF TakenFrom
<1>7. sel \in [1 .. total -> 1 .. size]
  BY <1>6
<1>8. OnePlaceEach(rows, pool, free \ Elements(sel), num - total, Extended(table, ids, lens, sel))
  BY <1>2, <1>6, AllocationKeepsPlaces, Zenon
<1>9. /\ Extended(table, ids, lens, sel) \in [rows -> Seq(1 .. size)]
      /\ RowsExtended(rows, table, ids, lens, sel, total, Extended(table, ids, lens, sel))
  BY <1>7, ExtendedRows, Zenon
<1>10. RowsAllocated(rows, size, pool, free, num, table, ids, lens, total, sel)
  <2> HIDE DEF total
  <2> QED BY <1>1, <1>6, <1>8, <1>9, Zenon DEF RowsAllocated
<1> QED BY <1>10 DEF sel

-----------------------------------------------------------------------------
(* A device: its blocks are 1 .. size, of which the pool is in use. *)
DeviceTells(rows, size, pool, free, num, table) ==
  /\ pool \in SUBSET (1 .. size) /\ free \in SUBSET (1 .. size) /\ num \in 0 .. size
  /\ table \in [rows -> Seq(1 .. size)]
  /\ OnePlaceEach(rows, pool, free, num, table)

(* The counter cannot leave its range. *)
LEMMA CounterInRange ==
  ASSUME NEW size \in Nat, NEW free \in SUBSET (1 .. size)
  PROVE  IsFiniteSet(free) /\ Cardinality(free) \in 0 .. size
<1>1. 1 \in Int /\ size \in Int
  OBVIOUS
<1>2. IsFiniteSet(1 .. size) /\ Cardinality(1 .. size) = IF 1 > size THEN 0 ELSE size - 1 + 1
  BY <1>1, FS_Interval, Zenon
<1>3. IsFiniteSet(free) /\ Cardinality(free) <= Cardinality(1 .. size)
  BY <1>2, FS_Subset, Zenon
<1>4. Cardinality(free) \in Nat
  BY <1>3, FS_CardinalityType, Zenon
<1> QED BY <1>2, <1>3, <1>4

LEMMA DeviceCounts ==
  ASSUME NEW rows, NEW size \in Nat, NEW pool \in SUBSET (1 .. size), NEW free \in SUBSET (1 .. size),
         NEW num, NEW table \in [rows -> Seq(1 .. size)], OnePlaceEach(rows, pool, free, num, table)
  PROVE  DeviceTells(rows, size, pool, free, num, table)
<1>1. Cardinality(free) \in 0 .. size
  BY CounterInRange, Zenon
<1>2. num = Cardinality(free)
  BY Zenon DEF OnePlaceEach
<1>3. num \in 0 .. size
  BY <1>1, <1>2, Zenon
<1> QED BY <1>3, Zenon DEF DeviceTells

(* What an allocation leaves: the device in order, the other rows as they were, and the
   rows it was asked for as long as it was asked. *)
AfterAllocation(rows, size, pool, free, num, table, ids, lens) ==
  LET total == SumFunctionOnSet(lens, DOMAIN ids)
      sel == SelectedFrom(free, total)
      table2 == Extended(table, ids, lens, sel)
  IN  /\ DeviceTells(rows, size, pool, free \ Elements(sel), num - total, table2)
      /\ \A s \in rows : ~(s \in Elements(ids)) => table2[s] = table[s]
      /\ \A i \in DOMAIN ids : Len(table2[ids[i]]) = Len(table[ids[i]]) + lens[i]

LEMMA AllocationOnDevice ==
  ASSUME NEW rows, NEW size \in Nat, NEW pool, NEW free, NEW num, NEW table,
         DeviceTells(rows, size, pool, free, num, table),
         NEW ids \in Seq(rows), IsInjective(ids), NEW lens \in [DOMAIN ids -> Nat],
         SumFunctionOnSet(lens, DOMAIN ids) <= num
  PROVE  AfterAllocation(rows, size, pool, free, num, table, ids, lens)
<1> DEFINE total == SumFunctionOnSet(lens, DOMAIN ids)
           sel == SelectedFrom(free, total)
           table2 == Extended(table, ids, lens, sel)
<1>1. /\ pool \in SUBSET (1 .. size) /\ free \in SUBSET (1 .. size)
      /\ table \in [rows -> Seq(1 .. size)] /\ OnePlaceEach(rows, pool, free, num, table)
  BY Zenon DEF DeviceTells
<1>2. RowsAllocated(rows, size, pool, free, num, table, ids, lens, total, sel)
  BY <1>1, Allocation, Zenon
<1>3. /\ OnePlaceEach(rows, pool, free \ Elements(sel), num - total, table2)
      /\ table2 \in [rows -> Seq(1 .. size)]
      /\ RowsExtended(rows, table, ids, lens, sel, total, table2)
  BY <1>2, Zenon DEF RowsAllocated
<1>4. free \ Elements(sel) \in SUBSET (1 .. size)
  BY <1>1
<1> HIDE DEF table2, sel, total
<1>5. DeviceTells(rows, size, pool, free \ Elements(sel), num - total, table2)
  BY <1>1, <1>3, <1>4, DeviceCounts, Zenon
<1>6. /\ \A s \in rows : ~(s \in Elements(ids)) => table2[s] = table[s]
      /\ \A i \in DOMAIN ids : Len(table2[ids[i]]) = Len(table[ids[i]]) + lens[i]
  <2>1. /\ \A i \in DOMAIN ids : Len(table2[ids[i]]) = Len(table[ids[i]]) + lens[i]
        /\ \A s \in rows \ Elements(ids) : table2[s] = table[s]
    BY <1>3, Zenon DEF RowsExtended
  <2> QED BY <2>1
<1> QED BY <1>5, <1>6, Zenon DEF AfterAllocation, table2, sel, total

(* What a release leaves. *)
AfterRelease(rows, size, pool, free, num, table, ids) ==
  /\ GatheredFrom(table, ids) \in Seq(1 .. size) /\ IsInjective(GatheredFrom(table, ids))
  /\ DeviceTells(rows, size, pool, free \cup Elements(GatheredFrom(table, ids)),
                 num + Len(GatheredFrom(table, ids)), RowsReleased(table, ids))
  /\ \A s \in rows : RowsReleased(table, ids)[s] = IF s \in Elements(ids) THEN <<>> ELSE table[s]

LEMMA ReleaseOnDevice ==
  ASSUME NEW rows, NEW size \in Nat, NEW pool, NEW free, NEW num, NEW table,
         DeviceTells(rows, size, pool, free, num, table),
         NEW ids \in Seq(rows), IsInjective(ids)
  PROVE  AfterRelease(rows, size, pool, free, num, table, ids)
<1> DEFINE g == GatheredFrom(table, ids)
           table2 == RowsReleased(table, ids)
<1>1. /\ pool \in SUBSET (1 .. size) /\ free \in SUBSET (1 .. size)
      /\ table \in [rows -> Seq(1 .. size)] /\ OnePlaceEach(rows, pool, free, num, table)
  BY Zenon DEF DeviceTells
<1>2. IsFiniteSet(free)
  BY <1>1, CounterInRange, Zenon
<1>3. HoldsRows(1 .. size, table, pool, free, ids, g)
  BY <1>1, GatheredApart, Zenon
<1>4. OnePlaceEach(rows, pool, free \cup Elements(g), num + Len(g), table2)
  BY <1>1, <1>2, ReleaseKeepsPlaces, Zenon
<1>5. /\ table2 \in [rows -> Seq(1 .. size)]
      /\ \A s \in rows : table2[s] = IF s \in Elements(ids) THEN <<>> ELSE table[s]
  <2> DEFINE gone == Elements(ids)
  <2>1. DOMAIN table = rows /\ \A s \in rows : table[s] \in Seq(1 .. size)
    BY <1>1
  <2>2. table2 = [s \in rows |-> IF s \in gone THEN <<>> ELSE table[s]]
    BY <2>1, Zenon DEF RowsReleased
  <2>3. <<>> \in Seq(1 .. size)
    OBVIOUS
  <2> HIDE DEF gone, table2
  <2>4. \A s \in rows : table2[s] = IF s \in gone THEN <<>> ELSE table[s]
    BY <2>2, Zenon
  <2>5. table2 \in [rows -> Seq(1 .. size)]
    BY <2>1, <2>2, <2>3
  <2> QED BY <2>4, <2>5 DEF gone
<1> HIDE DEF g, table2
<1>6. g \in Seq(1 .. size) /\ IsInjective(g) /\ Elements(g) \subseteq pool \ free
  BY <1>3, Zenon DEF HoldsRows
<1>7. free \cup Elements(g) \in SUBSET (1 .. size)
  BY <1>1, <1>6
<1>8. DeviceTells(rows, size, pool, free \cup Elements(g), num + Len(g), table2)
  BY <1>1, <1>4, <1>5, <1>7, DeviceCounts, Zenon
<1> QED BY <1>5, <1>6, <1>8, Zenon DEF AfterRelease, g, table2

(* New blocks above the pool are free blocks. *)
LEMMA DeviceGrows ==
  ASSUME NEW rows, NEW size \in Nat, NEW a \in Nat, NEW free, NEW num, NEW table,
         DeviceTells(rows, size, 1 .. a, free, num, table),
         NEW d \in Nat, a + d <= size
  PROVE  DeviceTells(rows, size, 1 .. a + d, free \cup (a + 1 .. a + d), num + d, table)
<1> DEFINE new == a + 1 .. a + d
<1>1. /\ free \in SUBSET (1 .. size) /\ table \in [rows -> Seq(1 .. size)]
      /\ num = Cardinality(free) /\ free \subseteq 1 .. a
      /\ \A s \in rows : \A i \in DOMAIN table[s] : table[s][i] \in (1 .. a) \ free
      /\ \A s, t \in rows : \A i \in DOMAIN table[s], j \in DOMAIN table[t] :
           table[s][i] = table[t][j] => s = t /\ i = j
      /\ \A b \in (1 .. a) \ free : \E s \in rows : \E i \in DOMAIN table[s] : table[s][i] = b
  BY Zenon DEF DeviceTells, OnePlaceEach
<1>2. /\ new \cap free = {} /\ (1 .. a + d) \ (free \cup new) = (1 .. a) \ free
      /\ free \cup new \subseteq 1 .. a + d /\ free \cup new \in SUBSET (1 .. size)
      /\ 1 .. a + d \in SUBSET (1 .. size)
  BY <1>1
<1>3. num + d = Cardinality(free \cup new)
  <2>1. a + 1 \in Int /\ a + d \in Int
    OBVIOUS
  <2>2. IsFiniteSet(new) /\ Cardinality(new) = IF a + 1 > a + d THEN 0 ELSE a + d - (a + 1) + 1
    <3> DEFINE lo == a + 1
               hi == a + d
    <3>1. lo \in Int /\ hi \in Int
      BY <2>1
    <3> HIDE DEF lo, hi
    <3>2. IsFiniteSet(lo .. hi) /\ Cardinality(lo .. hi) = IF lo > hi THEN 0 ELSE hi - lo + 1
      BY <3>1, FS_Interval, Zenon
    <3> QED BY <3>2 DEF lo, hi
  <2>3. IsFiniteSet(free) /\ Cardinality(free) \in 0 .. size
    BY <1>1, CounterInRange, Zenon
  <2>4. Cardinality(new) = d
    BY <2>2
  <2> HIDE DEF new
  <2>5. Cardinality(free \cup new) = Cardinality(free) + Cardinality(new) - Cardinality(free \cap new)
    BY <2>2, <2>3, FS_Union, Zenon
  <2>6. Cardinality(free \cap new) = 0
    BY <1>2, FS_EmptySet
  <2> QED BY <1>1, <2>3, <2>4, <2>5, <2>6
<1> HIDE DEF new
<1>4. OnePlaceEach(rows, 1 .. a + d, free \cup new, num + d, table)
  BY <1>1, <1>2, <1>3 DEF OnePlaceEach
<1>5. DeviceTells(rows, size, 1 .. a + d, free \cup new, num + d, table)
  BY <1>1, <1>2, <1>4, DeviceCounts, Zenon
<1> QED BY <1>5 DEF new

(* Free blocks at the end of the pool can be taken away. *)
LEMMA DeviceShrinks ==
  ASSUME NEW rows, NEW size \in Nat, NEW a \in Nat, NEW free, NEW num, NEW table,
         DeviceTells(rows, size, 1 .. a, free, num, table),
         NEW d \in 0 .. a, a - d + 1 .. a \subseteq free
  PROVE  DeviceTells(rows, size, 1 .. a - d, free \cap (1 .. a - d), num - d, table)
<1> DEFINE gone == a - d + 1 .. a
           left == free \cap (1 .. a - d)
<1>1. /\ free \in SUBSET (1 .. size) /\ table \in [rows -> Seq(1 .. size)]
      /\ 1 .. a \in SUBSET (1 .. size)
      /\ num = Cardinality(free) /\ free \subseteq 1 .. a
      /\ \A s \in rows : \A i \in DOMAIN table[s] : table[s][i] \in (1 .. a) \ free
      /\ \A s, t \in rows : \A i \in DOMAIN table[s], j \in DOMAIN table[t] :
           table[s][i] = table[t][j] => s = t /\ i = j
      /\ \A b \in (1 .. a) \ free : \E s \in rows : \E i \in DOMAIN table[s] : table[s][i] = b
  BY Zenon DEF DeviceTells, OnePlaceEach
<1>2. /\ gone \in SUBSET free /\ left = free \ gone /\ (1 .. a - d) \ left = (1 .. a) \ free
      /\ left \subseteq 1 .. a - d /\ left \in SUBSET (1 .. size)
      /\ 1 .. a - d \in SUBSET (1 .. size)
  <2>1. \A b \in 1 .. a : b \in Int /\ (b \in 1 .. a - d <=> b \notin gone)
    OBVIOUS
  <2>2. \A b \in 1 .. a - d : b \in 1 .. a
    OBVIOUS
  <2>3. gone \in SUBSET free
    OBVIOUS
  <2> HIDE DEF gone
  <2>4. left = free \ gone
    BY <1>1, <2>1, <2>2
  <2>5. (1 .. a - d) \ left = (1 .. a) \ free
    BY <1>1, <2>1, <2>2, <2>3
  <2>6. left \subseteq 1 .. a - d /\ left \in SUBSET (1 .. size) /\ 1 .. a - d \in SUBSET (1 .. size)
    BY <1>1, <2>2
  <2> QED BY <2>3, <2>4, <2>5, <2>6
<1>3. num - d = Cardinality(left)
  <2>1. a - d + 1 \in Int /\ a \in Int
    OBVIOUS
  <2>2. IsFiniteSet(gone) /\ Cardinality(gone) = IF a - d + 1 > a THEN 0 ELSE a - (a - d + 1) + 1
    BY <2>1, FS_Interval, Zenon
  <2>3. IsFiniteSet(free) /\ Cardinality(free) \in 0 .. size
    BY <1>1, CounterInRange, Zenon
  <2>4. Cardinality(gone) = d
    BY <2>2
  <2> HIDE DEF gone, left
  <2>5. Cardinality(free \ gone) = Cardinality(free) - Cardinality(free \cap gone)
    BY <2>3, FS_Difference, Zenon
  <2>6. free \cap gone = gone
    BY <1>2
  <2> QED BY <1>1, <1>2, <2>3, <2>4, <2>5, <2>6
<1> HIDE DEF gone, left
<1>4. OnePlaceEach(rows, 1 .. a - d, left, num - d, table)
  BY <1>1, <1>2, <1>3 DEF OnePlaceEach
<1>5. DeviceTells(rows, size, 1 .. a - d, left, num - d, table)
  BY <1>1, <1>2, <1>4, DeviceCounts, Zenon
<1> QED BY <1>5 DEF left

(* The free blocks and the lengths of all rows add up to the pool. *)
LEMMA DeviceAdds ==
  ASSUME NEW rows, IsFiniteSet(rows), NEW size \in Nat, NEW a \in Nat, NEW free, NEW num, NEW table,
         DeviceTells(rows, size, 1 .. a, free, num, table)
  PROVE  /\ num \in Nat
         /\ \A s \in rows : Len(table[s]) \in Nat
         /\ num + SumFunctionOnSet([s \in rows |-> Len(table[s])], rows) = a
<1> DEFINE lens == [s \in rows |-> Len(table[s])]
           places == Tally(lens, rows)
           used == (1 .. a) \ free
           m == [p \in places |-> table[p[1]][p[2]]]
<1>1. /\ free \in SUBSET (1 .. a) /\ num = Cardinality(free) /\ table \in [rows -> Seq(1 .. size)]
      /\ \A s \in rows : \A i \in DOMAIN table[s] : table[s][i] \in used
      /\ \A s, t \in rows : \A i \in DOMAIN table[s], j \in DOMAIN table[t] :
           table[s][i] = table[t][j] => s = t /\ i = j
      /\ \A b \in used : \E s \in rows : \E i \in DOMAIN table[s] : table[s][i] = b
  BY DEF DeviceTells, OnePlaceEach
<1>2. \A s \in rows : Len(table[s]) \in Nat /\ DOMAIN table[s] = 1 .. Len(table[s])
  <2> TAKE s \in rows
  <2>1. table[s] \in Seq(1 .. size)
    BY <1>1
  <2> QED BY <2>1
<1>3. \A s \in rows : lens[s] = Len(table[s]) /\ lens[s] \in Nat
  BY <1>2
<1> HIDE DEF lens
<1>4. IsFiniteSet(places) /\ SumFunctionOnSet(lens, rows) = Cardinality(places)
  BY <1>3, TallyFinite, SumIsTally, Zenon
<1>5. /\ \A p \in places : p[1] \in rows /\ p[2] \in DOMAIN table[p[1]] /\ p = <<p[1], p[2]>>
      /\ \A s \in rows : \A i \in DOMAIN table[s] : <<s, i>> \in places
  BY <1>2, <1>3 DEF Tally
<1> HIDE DEF places, used
<1>6. /\ \A p \in places : m[p] = table[p[1]][p[2]]
      /\ m \in [places -> used]
  <2>1. \A p \in places : table[p[1]][p[2]] \in used
    BY <1>1, <1>5, Zenon
  <2> QED BY <2>1, Zenon
<1> HIDE DEF m
<1>7. \A p, q \in places : m[p] = m[q] => p = q
  <2> SUFFICES ASSUME NEW p \in places, NEW q \in places, m[p] = m[q] PROVE p = q
    BY Zenon
  <2>a. m[p] = m[q]
    OBVIOUS
  <2>0. table[p[1]][p[2]] = table[q[1]][q[2]]
    BY <1>6, <2>a, Zenon
  <2>1. p[1] = q[1] /\ p[2] = q[2]
    BY <1>1, <1>5, <2>0
  <2>2. p = <<p[1], p[2]>> /\ q = <<q[1], q[2]>>
    BY <1>5, Zenon
  <2> QED BY <2>1, <2>2, Zenon
<1>8. \A b \in used : \E p \in places : m[p] = b
  <2> TAKE b \in used
  <2>1. PICK s \in rows : \E i \in DOMAIN table[s] : table[s][i] = b
    BY <1>1, Zenon
  <2>2. PICK i \in DOMAIN table[s] : table[s][i] = b
    BY <2>1, Zenon
  <2>3. <<s, i>> \in places
    BY <1>5, Zenon
  <2>4. m[<<s, i>>] = table[<<s, i>>[1]][<<s, i>>[2]]
    BY <1>6, <2>3, Zenon
  <2> QED BY <2>2, <2>3, <2>4
<1>9. Cardinality(used) = SumFunctionOnSet(lens, rows)
  BY <1>4, <1>6, <1>7, <1>8, OneToOne, Zenon
<1>10. num + Cardinality(used) = a /\ num \in Nat
  <2>1. IsFiniteSet(1 .. a) /\ Cardinality(1 .. a) = IF 1 > a THEN 0 ELSE a - 1 + 1
    <3>1. 1 \in Int /\ a \in Int
      OBVIOUS
    <3> QED BY <3>1, FS_Interval, Zenon
  <2>2. IsFiniteSet(free) /\ Cardinality(free) \in Nat
    BY <1>1, CounterInRange
  <2>3. Cardinality((1 .. a) \ free) = Cardinality(1 .. a) - Cardinality((1 .. a) \cap free)
    BY <2>1, FS_Difference, Zenon
  <2>4. (1 .. a) \cap free = free
    BY <1>1
  <2> DEFINE c == Cardinality(1 .. a)
             f == Cardinality(free)
             u == Cardinality((1 .. a) \ free)
  <2>5. c = a /\ num = f /\ f \in Nat /\ u = c - f
    <3>1. c = a
      BY <2>1
    <3> QED BY <1>1, <2>2, <2>3, <2>4, <3>1, Zenon
  <2> HIDE DEF c, f, u
  <2>6. num + u = a /\ num \in Nat
    BY <2>5
  <2> QED BY <2>6, Zenon DEF u, used
<1>11. num \in Nat /\ num + SumFunctionOnSet(lens, rows) = a
  BY <1>9, <1>10
<1> QED BY <1>2, <1>11 DEF lens
=============================================================================
