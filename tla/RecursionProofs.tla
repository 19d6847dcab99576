-------------------------- MODULE RecursionProofs --------------------------
(***************************************************************************)
(* What GpgCard and QRAnimation compute by going through lists: which key  *)
(* goes into which slot of a card, and which fragments of a UR are known   *)
(* after any parts in any order.  Induction is over sets of numbers (Ind), *)
(* a recursive function is one by Iterate, and each of the two components  *)
(* has its inductive invariant (ScanInv, CardInv).                         *)
(***************************************************************************)
EXTENDS Integers, QRAnimation, GpgCard, FiniteSetTheorems, WellFoundedInduction, SequenceTheorems, TLAPS

----------------------------------------------------------------------------
(* Lists, and induction over them *)

(* The numbers are well founded under <, stated for the relation as it is   *)
(* written here.                                                            *)
LEMMA LessIsWellFounded == IsWellFoundedOn({pair \in Nat \X Nat : pair[1] < pair[2]}, Nat)
BY NatLessThanWellFounded DEF OpToRel

(* Induction, for a set instead of a predicate: a set with 0 in it, and     *)
(* with n + 1 whenever n is in it, has all numbers.                         *)
LEMMA Ind ==
    ASSUME NEW S, 0 \in S, \A n \in Nat : n \in S => n + 1 \in S
    PROVE  Nat \subseteq S
<1> DEFINE less == {pair \in Nat \X Nat : pair[1] < pair[2]}
<1>1. IsWellFoundedOn(less, Nat)
  BY LessIsWellFounded
<1>2. CASE Nat \ S # {}
  <2>1. PICK m \in Nat \ S : \A k \in Nat \ S : ~ (<<k, m>> \in less)
    BY <1>1, <1>2, WFMin
  <2>2. m # 0 /\ m - 1 \in Nat
    BY <2>1
  <2>3. <<m - 1, m>> \in less
    BY <2>2
  <2>4. m - 1 \in S
    BY <2>1, <2>2, <2>3
  <2> QED
    BY <2>1, <2>2, <2>4
<1> QED
  BY <1>2

Steps(N, X) == [1..N -> [X -> X]]
Follows(f, b, N, X, g) == f \in [0..N -> X] /\ f[0] = b /\ \A n \in 1..N : f[n] = g[n][f[n - 1]]

(* Recursion along a list of functions: there is a function that starts     *)
(* with b and takes one of them after the other.                            *)
LEMMA Iterate ==
    ASSUME NEW X, NEW b \in X, NEW N \in Nat, NEW g \in Steps(N, X)
    PROVE  \E f : Follows(f, b, N, X, g)
<1> USE DEF Steps, Follows
<1> DEFINE Ok(n, h) == h \in [0..n -> X] /\ h[0] = b /\ \A m \in 1..n : h[m] = g[m][h[m - 1]]
           S == {n \in Nat : n <= N => \E h : Ok(n, h)}
<1>1. 0 \in S
  <2>1. Ok(0, [m \in 0..0 |-> b])
    OBVIOUS
  <2> QED
    BY <2>1
<1>2. \A n \in Nat : n \in S => n + 1 \in S
  <2> SUFFICES ASSUME NEW n \in Nat, n + 1 <= N, NEW h, Ok(n, h) PROVE \E k : Ok(n + 1, k)
    OBVIOUS
  <2> DEFINE k == [m \in 0..(n + 1) |-> IF m <= n THEN h[m] ELSE g[n + 1][h[n]]]
  <2>0. h \in [0..n -> X] /\ h[0] = b /\ \A m \in 1..n : h[m] = g[m][h[m - 1]]
    OBVIOUS
  <2>1. g[n + 1][h[n]] \in X
    BY <2>0
  <2>2. k \in [0..(n + 1) -> X] /\ k[0] = b
    BY <2>0, <2>1
  <2>3. ASSUME NEW m \in 1..(n + 1) PROVE k[m] = g[m][k[m - 1]]
    <3>1. CASE m <= n
      BY <2>0, <3>1
    <3>2. CASE m = n + 1
      <4>1. k[n + 1] = g[n + 1][h[n]] /\ k[n] = h[n] /\ m - 1 = n
        BY <3>2
      <4> QED
        BY <3>2, <4>1
    <3> QED
      BY <3>1, <3>2
  <2>4. Ok(n + 1, k)
    BY <2>2, <2>3
  <2> QED
    BY <2>4
<1> HIDE DEF S
<1>3. Nat \subseteq S
  BY <1>1, <1>2, Ind
<1>4. \E h : Ok(N, h)
  <2>1. N \in S
    BY <1>3
  <2> HIDE DEF Ok
  <2> QED
    BY <2>1 DEF S
<1> QED
  BY <1>4

(* The sums of the first n numbers, as SumOf takes them.                    *)
Sums(list) == CHOOSE sum : sum = [n \in 0..Len(list) |-> IF n = 0 THEN 0 ELSE sum[n - 1] + list[n]]

(* The sums of the first numbers of a list: 0, and each one the next number *)
(* more.                                                                    *)
LEMMA SumsAre ==
    ASSUME NEW list \in Seq(Nat)
    PROVE  /\ Sums(list) \in [0..Len(list) -> Nat]
           /\ Sums(list)[0] = 0
           /\ \A n \in 1..Len(list) : Sums(list)[n] = Sums(list)[n - 1] + list[n]
           /\ SumOf(list) = Sums(list)[Len(list)]
<1> DEFINE N == Len(list)
           g == [n \in 1..N |-> [x \in Nat |-> x + list[n]]]
           s == Sums(list)
<1>1. N \in Nat /\ \A n \in 1..N : list[n] \in Nat
  OBVIOUS
<1>2. g \in [1..N -> [Nat -> Nat]]
  BY <1>1
<1>3. \A n \in 1..N, x \in Nat : g[n][x] = x + list[n]
  OBVIOUS
<1> HIDE DEF g, N
<1>4. PICK f \in [0..N -> Nat] : f[0] = 0 /\ \A n \in 1..N : f[n] = g[n][f[n - 1]]
  <2>1. 0 \in Nat /\ g \in Steps(N, Nat)
    BY <1>2 DEF Steps
  <2>2. PICK f : Follows(f, 0, N, Nat, g)
    BY <1>1, <2>1, Iterate
  <2> QED
    BY <2>2 DEF Follows
<1>5. f = [n \in 0..N |-> IF n = 0 THEN 0 ELSE f[n - 1] + list[n]]
  <2>1. \A n \in 0..N : f[n] = IF n = 0 THEN 0 ELSE f[n - 1] + list[n]
    <3> TAKE n \in 0..N
    <3>1. CASE n = 0
      BY <1>4, <3>1
    <3>2. CASE n # 0
      <4>1. n \in 1..N /\ n - 1 \in 0..N
        BY <1>1, <3>2
      <4>2. f[n - 1] \in Nat
        BY <1>4, <4>1
      <4> QED
        BY <1>3, <1>4, <3>2, <4>1, <4>2
    <3> QED
      BY <3>1, <3>2
  <2> QED
    BY <1>4, <2>1
<1>6. s = [n \in 0..N |-> IF n = 0 THEN 0 ELSE s[n - 1] + list[n]]
  BY <1>5 DEF Sums, N
<1> HIDE DEF s
<1> DEFINE T == {n \in Nat : n <= N => s[n] \in Nat}
<1>7. 0 \in T
  BY <1>1, <1>6
<1>8. \A n \in Nat : n \in T => n + 1 \in T
  <2> SUFFICES ASSUME NEW n \in Nat, n + 1 <= N, s[n] \in Nat PROVE s[n + 1] \in Nat
    BY <1>1
  <2>1. s[n + 1] = s[n] + list[n + 1]
    BY <1>1, <1>6
  <2> QED
    BY <1>1, <2>1
<1> HIDE DEF T
<1>9. Nat \subseteq T
  BY <1>7, <1>8, Ind
<1>10. \A n \in 0..N : s[n] \in Nat
  BY <1>1, <1>9 DEF T
<1>11. s \in [0..N -> Nat] /\ s[0] = 0 /\ \A n \in 1..N : s[n] = s[n - 1] + list[n]
  BY <1>1, <1>6, <1>10
<1>12. SumOf(list) = s[N]
  BY DEF SumOf, Sums, N, s
<1> QED
  BY <1>11, <1>12 DEF N, s

(* The elements at some places of a list.                                   *)
LEMMA ThoseAre ==
    ASSUME NEW S, NEW list \in Seq(S), NEW P \in SUBSET (DOMAIN list)
    PROVE  /\ IsFiniteSet(P) /\ Cardinality(P) \in Nat
           /\ Those(list, P) \in [1..Cardinality(P) -> S]
           /\ \A n \in 1..Cardinality(P) : \E k \in P : Those(list, P)[n] = list[k]
           /\ \A k \in P : \E n \in 1..Cardinality(P) : Those(list, P)[n] = list[k]
<1> DEFINE size == Cardinality(P)
           upTo == [k \in P |-> {j \in P : j <= k}]
           rank == [k \in P |-> Cardinality({j \in P : j <= k})]
<1>0. Len(list) \in Nat /\ DOMAIN list = 1..Len(list)
  OBVIOUS
<1>1. P \in SUBSET Nat
  BY <1>0
<1>2. IsFiniteSet(P)
  <2>1. IsFiniteSet(1..Len(list))
    BY <1>0, FS_Interval
  <2>2. P \in SUBSET (1..Len(list))
    BY <1>0
  <2> QED
    BY <2>1, <2>2, FS_Subset
<1>3. size \in Nat
  BY <1>2, FS_CardinalityType
<1> HIDE DEF size
<1>4. \A k \in P : rank[k] \in 1..size
  <2> TAKE k \in P
  <2>0. upTo[k] = {j \in P : j <= k} /\ rank[k] = Cardinality({j \in P : j <= k})
    OBVIOUS
  <2>1. upTo[k] \in SUBSET P /\ k \in upTo[k] /\ rank[k] = Cardinality(upTo[k])
    BY <1>1, <2>0
  <2> HIDE DEF upTo, rank
  <2>2. IsFiniteSet(upTo[k]) /\ Cardinality(upTo[k]) <= size
    BY <1>2, <2>1, FS_Subset DEF size
  <2>3. Cardinality(upTo[k]) \in Nat /\ Cardinality(upTo[k]) # 0
    BY <2>1, <2>2, FS_CardinalityType, FS_EmptySet
  <2> QED
    BY <1>3, <2>1, <2>2, <2>3
<1>5. ASSUME NEW k \in P, NEW l \in P, k < l PROVE rank[k] # rank[l]
  <2>0. /\ upTo[k] = {j \in P : j <= k} /\ rank[k] = Cardinality({j \in P : j <= k})
        /\ upTo[l] = {j \in P : j <= l} /\ rank[l] = Cardinality({j \in P : j <= l})
    OBVIOUS
  <2>1. /\ upTo[k] \in SUBSET upTo[l] /\ l \in upTo[l] /\ l \notin upTo[k]
        /\ upTo[l] \in SUBSET P
        /\ rank[k] = Cardinality(upTo[k]) /\ rank[l] = Cardinality(upTo[l])
    BY <1>1, <1>5, <2>0
  <2> HIDE DEF upTo, rank
  <2>2. IsFiniteSet(upTo[l]) /\ upTo[k] # upTo[l]
    BY <1>2, <2>1, FS_Subset
  <2>3. Cardinality(upTo[l]) # Cardinality(upTo[k])
    BY <2>1, <2>2, FS_Subset
  <2> QED
    BY <2>1, <2>3
<1>6. \A k, l \in P : rank[k] = rank[l] => k = l
  <2> HIDE DEF rank
  <2> SUFFICES ASSUME NEW k \in P, NEW l \in P, k # l PROVE rank[k] # rank[l]
    OBVIOUS
  <2>1. CASE k < l
    BY <1>5, <2>1
  <2>2. CASE l < k
    BY <1>5, <2>2
  <2> QED
    BY <1>1, <2>1, <2>2
<1>7. rank \in Injection(P, 1..size)
  <2>1. rank = [k \in P |-> rank[k]]
    OBVIOUS
  <2> HIDE DEF rank
  <2>2. rank \in [P -> 1..size]
    BY <1>4, <2>1
  <2> QED
    BY <1>6, <2>2 DEF Injection, IsInjective
<1>8. IsFiniteSet(1..size) /\ Cardinality(1..size) = size
  BY <1>3, FS_Interval
<1>9. \A n \in 1..size : \E k \in P : rank[k] = n
  <2>1. rank \in Surjection(P, 1..size)
    <3> HIDE DEF rank
    <3>1. Cardinality(P) = Cardinality(1..size)
      BY <1>8 DEF size
    <3> QED
      BY <1>7, <1>8, <3>1, FS_Injection
  <2> HIDE DEF rank
  <2> QED
    BY <2>1 DEF Surjection
<1> DEFINE those == Those(list, P)
<1>10. those = [n \in 1..size |-> list[CHOOSE k \in P : rank[k] = n]]
  BY DEF Those, size
<1> HIDE DEF rank, those
<1>11. \A n \in 1..size : \E k \in P : rank[k] = n /\ those[n] = list[k]
  BY <1>9, <1>10
<1>12. \A k \in P : those[rank[k]] = list[k]
  BY <1>4, <1>6, <1>11
<1>13. \A n \in 1..size : those[n] \in S
  BY <1>0, <1>11
<1>14. those \in [1..size -> S]
  BY <1>10, <1>13
<1> QED
  BY <1>2, <1>3, <1>4, <1>11, <1>12, <1>14 DEF those, size

(* They are a list of whatever they all are.                                *)
LEMMA ThoseAreSeq ==
    ASSUME NEW S, NEW list \in Seq(S), NEW P \in SUBSET (DOMAIN list), NEW T, \A k \in P : list[k] \in T
    PROVE  Those(list, P) \in Seq(T) /\ Len(Those(list, P)) = Cardinality(P)
<1> DEFINE n == Cardinality(P)
           those == Those(list, P)
<1>1. n \in Nat /\ those \in [1..n -> S] /\ \A i \in 1..n : \E k \in P : those[i] = list[k]
  BY ThoseAre
<1> HIDE DEF n, those
<1>2. those \in [1..n -> T]
  BY <1>1
<1>3. those \in Seq(T) /\ Len(those) = n
  BY <1>1, <1>2
<1> QED
  BY <1>3 DEF n, those

(* A sum that is not too large for any number of it.                        *)
LEMMA SumIsBounded ==
    ASSUME NEW list \in Seq(Nat), NEW most \in Nat, \A n \in 1..Len(list) : list[n] <= most
    PROVE  SumOf(list) \in Nat /\ SumOf(list) <= most * Len(list)
<1> DEFINE N == Len(list)
           s == Sums(list)
           T == {n \in Nat : n <= N => s[n] <= most * n}
<1>1. N \in Nat /\ \A n \in 1..N : list[n] \in Nat
  OBVIOUS
<1>2. s \in [0..N -> Nat] /\ s[0] = 0 /\ (\A n \in 1..N : s[n] = s[n - 1] + list[n]) /\ SumOf(list) = s[N]
  BY SumsAre
<1> HIDE DEF s
<1>3. 0 \in T
  BY <1>2
<1>4. \A n \in Nat : n \in T => n + 1 \in T
  <2> SUFFICES ASSUME NEW n \in Nat, n + 1 <= N, s[n] <= most * n PROVE s[n + 1] <= most * (n + 1)
    BY <1>1
  <2>1. n + 1 \in 1..N /\ (n + 1) - 1 = n /\ n \in 0..N
    BY <1>1
  <2>11. s[n] \in Nat /\ s[n + 1] = s[n] + list[n + 1]
    <3> HIDE DEF N
    <3> QED
      BY <1>2, <2>1
  <2>2. list[n + 1] \in Nat /\ list[n + 1] <= most
    BY <1>1, <2>1
  <2>3. most * (n + 1) = most * n + most /\ most * n \in Nat
    OBVIOUS
  <2> DEFINE m == most * n
             m1 == most * (n + 1)
  <2>4. s[n] <= m /\ m1 = m + most /\ m \in Nat
    BY <2>3
  <2> HIDE DEF m, m1
  <2>5. s[n + 1] <= m1
    BY <2>11, <2>2, <2>4
  <2> QED
    BY <2>5 DEF m1
<1> HIDE DEF T
<1>5. N \in T
  BY <1>1, <1>3, <1>4, Ind
<1>6. s[N] <= most * N /\ s[N] \in Nat
  <2> HIDE DEF N
  <2> QED
    BY <1>1, <1>2, <1>5 DEF T
<1> QED
  BY <1>2, <1>6

----------------------------------------------------------------------------
(* The fountain decoder and the scan *)

(* A set of numbers that is not empty has a smallest one, and a largest one *)
(* if it has a bound.                                                       *)
LEMMA SmallestIs ==
    ASSUME NEW P \in SUBSET Nat, P # {}
    PROVE  Min(P) \in P /\ \A k \in P : Min(P) <= k
<1> DEFINE less == {pair \in Nat \X Nat : pair[1] < pair[2]}
<1>1. PICK m \in P : \A k \in P : ~ (<<k, m>> \in less)
  <2>1. IsWellFoundedOn(less, Nat)
    BY LessIsWellFounded
  <2> HIDE DEF less
  <2> QED
    BY <2>1, WFMin
<1>2. ASSUME NEW k \in P PROVE m <= k
  <2>1. m \in Nat /\ k \in Nat /\ ~ (<<k, m>> \in less)
    BY <1>1
  <2>2. ~ (k < m)
    BY <2>1
  <2> QED
    BY <2>1, <2>2
<1>3. \E k \in P : \A j \in P : k <= j
  BY <1>2
<1>4. Min(P) = CHOOSE k \in P : \A j \in P : k <= j
  BY DEF Min
<1> QED
  BY <1>3, <1>4

(* The same for the largest.                                                *)
LEMMA LargestIs ==
    ASSUME NEW P \in SUBSET Nat, P # {}, NEW N \in Nat, \A k \in P : k <= N
    PROVE  Max(P) \in P /\ \A k \in P : k <= Max(P)
<1> DEFINE Q == {N - k : k \in P}
<1>1. Q \in SUBSET Nat /\ Q # {}
  <2>1. \A k \in P : N - k \in Nat
    OBVIOUS
  <2> QED
    BY <2>1
<1>2. Min(Q) \in Q /\ \A q \in Q : Min(Q) <= q
  BY <1>1, SmallestIs
<1>3. PICK m \in P : Min(Q) = N - m
  BY <1>2
<1>4. \A k \in P : m >= k
  <2> TAKE k \in P
  <2>1. N - k \in Q
    OBVIOUS
  <2>2. N - m <= N - k
    BY <1>2, <1>3, <2>1
  <2> QED
    BY <2>2
<1>5. Max(P) \in P /\ \A k \in P : Max(P) >= k
  BY <1>3, <1>4 DEF Max
<1> QED
  BY <1>5

(* SetToSeq lists a finite set, each element of it once.                    *)
LEMMA ListedAreAll ==
    ASSUME NEW D, IsFiniteSet(D)
    PROVE  /\ SetToSeq(D) \in Seq(D) /\ Len(SetToSeq(D)) = Cardinality(D)
           /\ \A k \in D : \E n \in DOMAIN SetToSeq(D) : SetToSeq(D)[n] = k
<1> DEFINE size == Cardinality(D)
           seq == SetToSeq(D)
<1>1. size \in Nat /\ ExistsBijection(1..size, D)
  BY FS_CardinalityType
<1>2. IsFiniteSet(1..size) /\ Cardinality(1..size) = size
  BY <1>1, FS_Interval
<1>3. PICK f \in [1..size -> D] : IsInjective(f)
  BY <1>1 DEF ExistsBijection, Bijection, Injection
<1>4. seq \in [1..size -> D] /\ IsInjective(seq)
  BY <1>3 DEF SetToSeq
<1> HIDE DEF seq
<1>5. seq \in Surjection(1..size, D)
  <2>1. seq \in Injection(1..size, D)
    BY <1>4 DEF Injection
  <2>2. Cardinality(1..size) = Cardinality(D)
    BY <1>2
  <2> HIDE DEF size
  <2> QED
    BY <1>2, <2>1, <2>2, FS_Injection
<1>6. \A k \in D : \E n \in 1..size : seq[n] = k
  BY <1>5 DEF Surjection
<1> HIDE DEF size
<1>7. seq \in Seq(D) /\ Len(seq) = size /\ DOMAIN seq = 1..size
  BY <1>1, <1>4
<1> QED
  BY <1>6, <1>7 DEF seq, size

----------------------------------------------------------------------------
(* Fragments *)
Parts(u) == {Part(x, Fragments(u, x)) : x \in (SUBSET Indexes(u)) \ {{}}}

(* A part holds the fragments it is listed with, of one at least; it is     *)
(* simple when this is one.                                                 *)
LEMMA PartIs ==
    ASSUME NEW u \in Urs, NEW p \in Parts(u)
    PROVE  /\ p = Part(p.indexes, Fragments(u, p.indexes))
           /\ p.indexes \in SUBSET Indexes(u) /\ p.indexes # {}
           /\ p.data = Fragments(u, p.indexes)
           /\ IsFiniteSet(p.indexes) /\ Cardinality(p.indexes) \in Nat \ {0}
           /\ IsSimple(p) => p.indexes = {IndexOf(p)} /\ IndexOf(p) \in Indexes(u)
           /\ \A k : p.indexes = {k} => IsSimple(p)
<1>1. /\ p = Part(p.indexes, Fragments(u, p.indexes))
      /\ p.indexes \in SUBSET Indexes(u) /\ p.indexes # {}
      /\ p.data = Fragments(u, p.indexes)
  BY DEF Parts, Part
<1>2. IsFiniteSet(Indexes(u))
  <2>1. 0 \in Int /\ FragmentCount(u) - 1 \in Int
    BY ScanAssumption
  <2> QED
    BY <2>1, FS_Interval DEF Indexes
<1>3. IsFiniteSet(p.indexes)
  BY <1>1, <1>2, FS_Subset
<1>4. Cardinality(p.indexes) \in Nat /\ Cardinality(p.indexes) # 0
  BY <1>1, <1>3, FS_CardinalityType, FS_EmptySet
<1>5. ASSUME IsSimple(p) PROVE p.indexes = {IndexOf(p)}
  <2>1. Cardinality(p.indexes) = 1
    BY <1>5 DEF IsSimple
  <2>2. \E k : p.indexes = {k}
    BY <1>3, <2>1, FS_Singleton
  <2> QED
    BY <2>2 DEF IndexOf
<1>6. ASSUME NEW k, p.indexes = {k} PROVE IsSimple(p)
  BY <1>6, FS_Singleton DEF IsSimple
<1> QED
  BY <1>1, <1>3, <1>4, <1>5, <1>6

(* A part that is reduced by another one holds what it is listed with, and  *)
(* not all of the other one, unless this is all it holds.                   *)
LEMMA ReducedIs ==
    ASSUME NEW u \in Urs, NEW a \in Parts(u), NEW b \in Parts(u)
    PROVE  /\ ReduceByPart(a, b) \in Parts(u)
           /\ ReduceByPart(a, b).indexes \subseteq a.indexes
           /\ b.indexes \subseteq ReduceByPart(a, b).indexes => ReduceByPart(a, b).indexes = b.indexes
<1> DEFINE A == a.indexes
           B == b.indexes
           r == ReduceByPart(a, b)
<1>1. /\ A \in SUBSET Indexes(u) /\ A # {} /\ a.data = Fragments(u, A)
      /\ B \in SUBSET Indexes(u) /\ B # {} /\ b.data = Fragments(u, B)
  BY PartIs
<1>2. CASE B \subseteq A /\ B # A
  <2>1. r = Part(A \ B, Xor(a.data, b.data))
    BY <1>2 DEF ReduceByPart
  <2>2. Xor(a.data, b.data) = Fragments(u, A \ B)
    BY <1>1, <1>2 DEF Xor, Fragments
  <2>3. A \ B \in (SUBSET Indexes(u)) \ {{}}
    BY <1>1, <1>2
  <2>4. r.indexes = A \ B
    BY <2>1 DEF Part
  <2>5. r \in Parts(u)
    BY <2>1, <2>2, <2>3 DEF Parts
  <2> QED
    BY <1>1, <2>4, <2>5
<1>3. CASE ~(B \subseteq A /\ B # A)
  <2>1. r = a
    BY <1>3 DEF ReduceByPart
  <2> QED
    BY <1>1, <1>3, <2>1
<1> QED
  BY <1>2, <1>3

(* A part after the first n reductions, as ReduceByParts takes them.        *)
Reductions(p, parts) ==
    CHOOSE reduced : reduced = [n \in 0..Len(parts) |-> IF n = 0 THEN p ELSE ReduceByPart(reduced[n - 1], parts[n])]

(* So does one that is reduced by a list of others, and none of them is in  *)
(* it then, unless it is all of it.                                         *)
LEMMA AllReduced ==
    ASSUME NEW u \in Urs, NEW p \in Parts(u), NEW parts \in Seq(Parts(u))
    PROVE  /\ ReduceByParts(p, parts) \in Parts(u)
           /\ ReduceByParts(p, parts).indexes \subseteq p.indexes
           /\ \A n \in DOMAIN parts :
                parts[n].indexes \subseteq ReduceByParts(p, parts).indexes
                    => ReduceByParts(p, parts).indexes = parts[n].indexes
<1> DEFINE N == Len(parts)
           g == [n \in 1..N |-> [x \in Parts(u) |-> ReduceByPart(x, parts[n])]]
           r == Reductions(p, parts)
<1>1. N \in Nat /\ DOMAIN parts = 1..N /\ \A n \in 1..N : parts[n] \in Parts(u)
  OBVIOUS
<1>2. g \in Steps(N, Parts(u))
  BY <1>1, ReducedIs DEF Steps
<1>3. \A n \in 1..N, x \in Parts(u) : g[n][x] = ReduceByPart(x, parts[n])
  OBVIOUS
<1> HIDE DEF g, N
<1>4. PICK f : Follows(f, p, N, Parts(u), g)
  BY <1>1, <1>2, Iterate
<1>5. f = [n \in 0..N |-> IF n = 0 THEN p ELSE ReduceByPart(f[n - 1], parts[n])]
  <2>1. \A n \in 0..N : f[n] = IF n = 0 THEN p ELSE ReduceByPart(f[n - 1], parts[n])
    <3> TAKE n \in 0..N
    <3>1. CASE n = 0
      BY <1>4, <3>1 DEF Follows
    <3>2. CASE n # 0
      <4>1. n \in 1..N /\ n - 1 \in 0..N
        BY <1>1, <3>2
      <4>2. f[n - 1] \in Parts(u) /\ f[n] = g[n][f[n - 1]]
        BY <1>4, <4>1 DEF Follows
      <4> QED
        BY <1>3, <3>2, <4>1, <4>2
    <3> QED
      BY <3>1, <3>2
  <2> QED
    BY <1>4, <2>1 DEF Follows
<1>6. r = [n \in 0..N |-> IF n = 0 THEN p ELSE ReduceByPart(r[n - 1], parts[n])]
  BY <1>5 DEF Reductions, N
<1> HIDE DEF r
<1>7. r[0] = p /\ \A n \in Nat : n + 1 <= N => n + 1 \in 1..N /\ r[n + 1] = ReduceByPart(r[n], parts[n + 1])
  <2>1. r[0] = p
    BY <1>1, <1>6
  <2>2. ASSUME NEW n \in Nat, n + 1 <= N PROVE n + 1 \in 1..N /\ r[n + 1] = ReduceByPart(r[n], parts[n + 1])
    <3>1. n + 1 \in 0..N /\ n + 1 # 0 /\ (n + 1) - 1 = n /\ n + 1 \in 1..N
      BY <1>1, <2>2
    <3> QED
      BY <1>6, <3>1
  <2> QED
    BY <2>1, <2>2
<1> DEFINE Held(n, x) ==
             /\ x \in Parts(u) /\ x.indexes \subseteq p.indexes
             /\ \A m \in 1..n : parts[m].indexes \subseteq x.indexes => x.indexes = parts[m].indexes
           T == {n \in Nat : n <= N => Held(n, r[n])}
<1>8. 0 \in T
  BY <1>7
<1>9. \A n \in Nat : n \in T => n + 1 \in T
  <2> SUFFICES ASSUME NEW n \in Nat, n + 1 <= N, Held(n, r[n]) PROVE Held(n + 1, r[n + 1])
    BY <1>1
  <2>1. n + 1 \in 1..N /\ r[n + 1] = ReduceByPart(r[n], parts[n + 1])
    BY <1>7
  <2>2. /\ r[n + 1] \in Parts(u) /\ r[n + 1].indexes \subseteq r[n].indexes
        /\ parts[n + 1].indexes \subseteq r[n + 1].indexes => r[n + 1].indexes = parts[n + 1].indexes
    BY <1>1, <2>1, ReducedIs
  <2>3. r[n + 1].indexes # {}
    BY <2>2, PartIs
  <2>4. ASSUME NEW m \in 1..(n + 1), parts[m].indexes \subseteq r[n + 1].indexes
        PROVE  r[n + 1].indexes = parts[m].indexes
    <3>1. CASE m = n + 1
      BY <2>2, <2>4, <3>1
    <3>2. CASE m # n + 1
      <4>1. m \in 1..n
        BY <3>2
      <4>2. r[n].indexes = parts[m].indexes
        BY <2>2, <2>4, <4>1
      <4> QED
        BY <2>2, <2>4, <4>2
    <3> QED
      BY <3>1, <3>2
  <2> QED
    BY <2>2, <2>4
<1> HIDE DEF T, Held
<1>10. N \in T
  BY <1>1, <1>8, <1>9, Ind
<1>11. Held(N, r[N])
  BY <1>1, <1>10 DEF T
<1>12. ReduceByParts(p, parts) = r[N]
  BY DEF ReduceByParts, Reductions, N, r
<1> QED
  BY <1>1, <1>11, <1>12 DEF Held

(* What a dictionary of parts has is among the parts.                       *)
LEMMA DictionaryIs ==
    ASSUME NEW S, NEW parts \in Seq(S)
    PROVE  Dictionary(parts) \in Seq(S) /\ Len(Dictionary(parts)) <= Len(parts)
<1> DEFINE N == Len(parts)
           Same(k) == {j \in DOMAIN parts : parts[j].indexes = parts[k].indexes}
           last == [k \in DOMAIN parts |-> parts[Max(Same(k))]]
           P == {k \in DOMAIN parts : k = Min(Same(k))}
<1>1. N \in Nat /\ DOMAIN parts = 1..N /\ \A k \in 1..N : parts[k] \in S
  OBVIOUS
<1>2. \A k \in 1..N : Max(Same(k)) \in 1..N
  <2> TAKE k \in 1..N
  <2>1. Same(k) \in SUBSET Nat /\ k \in Same(k) /\ (\A j \in Same(k) : j <= N) /\ Same(k) \in SUBSET (1..N)
    BY <1>1
  <2> HIDE DEF Same
  <2>2. Max(Same(k)) \in Same(k)
    <3> HIDE DEF N
    <3> QED
      BY <1>1, <2>1, LargestIs
  <2> QED
    BY <2>1, <2>2
<1> HIDE DEF Same
<1>3. last \in Seq(S) /\ Len(last) = N /\ DOMAIN last = 1..N
  <2>1. last \in [1..N -> S]
    BY <1>1, <1>2
  <2> HIDE DEF last
  <2> QED
    BY <1>1, <2>1
<1>4. P \in SUBSET (1..N)
  BY <1>1
<1>5. Dictionary(parts) = Those(last, P)
  BY DEF Dictionary, Same
<1> HIDE DEF last, P
<1>6. Those(last, P) \in Seq(S) /\ Len(Those(last, P)) = Cardinality(P)
  <2>1. P \in SUBSET (DOMAIN last) /\ \A k \in P : last[k] \in S
    BY <1>3, <1>4
  <2> QED
    BY <1>3, <2>1, ThoseAreSeq
<1>7. Cardinality(P) <= N
  <2>1. IsFiniteSet(1..N) /\ Cardinality(1..N) = N
    <3> HIDE DEF N
    <3> QED
      BY <1>1, FS_Interval
  <2> QED
    BY <1>4, <2>1, FS_Subset
<1> QED
  BY <1>5, <1>6, <1>7

(* The state of the decoder while it works off its queue for a UR: no part  *)
(* that stays mixed holds a fragment that is known, the UR is there once    *)
(* all are known, and of the parts in the queue the first one at most is    *)
(* mixed.                                                                   *)
MixedParts(u, known) == {p \in Parts(u) : ~IsSimple(p) /\ p.indexes \cap known = {}}
SimpleParts(u) == {p \in Parts(u) : IsSimple(p)}
Simples(u) == {[k \in known |-> {<<u, k>>}] : known \in SUBSET Indexes(u)}
AtWork(u, q, f, m, o) == [of |-> u, queue |-> q, simple |-> f, mixed |-> m, result |-> o]
Solving(u) ==
    {s \in [of : {u}, queue : Seq(Parts(u)), simple : Simples(u), mixed : Seq(Parts(u)), result : {NoUr, u}] :
        /\ s.queue # <<>> => Tail(s.queue) \in Seq(SimpleParts(u))
        /\ s.mixed \in Seq(MixedParts(u, DOMAIN s.simple))
        /\ s.result = NoUr <=> DOMAIN s.simple # Indexes(u)}

(* What is known of a fragment is this fragment.                            *)
LEMMA SimplesAre ==
    ASSUME NEW u, NEW f \in Simples(u)
    PROVE  DOMAIN f \in SUBSET Indexes(u) /\ \A k \in DOMAIN f : f[k] = {<<u, k>>}
BY DEF Simples

(* The same, the other way round.                                           *)
LEMMA AreSimples ==
    ASSUME NEW u, NEW known \in SUBSET Indexes(u), NEW f, f = [k \in known |-> {<<u, k>>}]
    PROVE  f \in Simples(u)
BY DEF Simples

(* Reducing the mixed parts by one: those that come out simple go into the  *)
(* queue, the others stay.                                                  *)
Apart(m, p, known) == \A k \in DOMAIN m : ReduceByPart(m[k], p).indexes \cap known = {}
ComesTo(s, u, q, f, m, o, most) == s = AtWork(u, q, f, m, o) /\ Len(q) + Len(m) <= most

(* What comes of it: the queue and the mixed parts are no more together     *)
(* than before, the one is simple, and of the others none holds what is     *)
(* known.                                                                   *)
LEMMA MixedReduced ==
    ASSUME NEW u \in Urs, NEW p \in Parts(u), NEW known,
           NEW q \in Seq(SimpleParts(u)), NEW m \in Seq(Parts(u)),
           NEW f \in Simples(u), NEW o \in {NoUr, u},
           Apart(m, p, known)
    PROVE  \E rq \in Seq(SimpleParts(u)), rm \in Seq(MixedParts(u, known)) :
             ComesTo(ReduceMixedBy(AtWork(u, q, f, m, o), p), u, rq, f, rm, o, Len(q) + Len(m))
<1> DEFINE N == Len(m)
           reduced == [k \in DOMAIN m |-> ReduceByPart(m[k], p)]
           simples == {k \in DOMAIN m : IsSimple(reduced[k])}
           rest == DOMAIN m \ simples
<1>1. N \in Nat /\ DOMAIN m = 1..N /\ \A k \in 1..N : m[k] \in Parts(u)
  OBVIOUS
<1>2. \A k \in 1..N : reduced[k] \in Parts(u) /\ reduced[k] = ReduceByPart(m[k], p)
  BY <1>1, ReducedIs
<1>3. DOMAIN reduced = 1..N
  BY <1>1
<1>4. reduced \in Seq(Parts(u))
  BY <1>1, <1>2
<1>5. simples \in SUBSET (1..N) /\ rest \in SUBSET (1..N) /\ rest = (1..N) \ simples
  BY <1>1
<1>6. Those(reduced, simples) \in Seq(SimpleParts(u)) /\ Len(Those(reduced, simples)) = Cardinality(simples)
  <2>1. \A k \in simples : reduced[k] \in SimpleParts(u)
    BY <1>1, <1>2 DEF SimpleParts
  <2>2. simples \in SUBSET (DOMAIN reduced)
    BY <1>3, <1>5
  <2> HIDE DEF reduced, simples
  <2> QED
    BY <1>4, <2>1, <2>2, ThoseAreSeq
<1>7. Those(reduced, rest) \in Seq(MixedParts(u, known)) /\ Len(Those(reduced, rest)) = Cardinality(rest)
  <2>1. \A k \in rest : reduced[k] \in MixedParts(u, known)
    BY <1>1, <1>2 DEF MixedParts, Apart
  <2>2. rest \in SUBSET (DOMAIN reduced)
    BY <1>3, <1>5
  <2> HIDE DEF reduced, rest
  <2> QED
    BY <1>4, <2>1, <2>2, ThoseAreSeq
<1>8. Cardinality(simples) \in Nat /\ Cardinality(rest) \in Nat /\ Cardinality(simples) + Cardinality(rest) = N
  <2>1. IsFiniteSet(1..N) /\ Cardinality(1..N) = N
    <3> HIDE DEF N
    <3> QED
      BY <1>1, FS_Interval
  <2> HIDE DEF simples, rest
  <2> DEFINE U == 1..N
  <2>11. IsFiniteSet(U) /\ Cardinality(U) = N /\ simples \in SUBSET U /\ rest \in SUBSET U /\ rest = U \ simples
    BY <1>5, <2>1
  <2> HIDE DEF U, N
  <2>12. IsFiniteSet(simples)
    BY <2>11, FS_Subset
  <2>2. IsFiniteSet(simples) /\ U \cap simples = simples
    BY <2>11, <2>12
  <2>3. Cardinality(rest) = N - Cardinality(simples)
    BY <2>11, <2>2, FS_Difference
  <2>4. Cardinality(simples) \in Nat /\ IsFiniteSet(rest)
    BY <2>11, <2>2, FS_CardinalityType, FS_Subset
  <2>5. Cardinality(rest) \in Nat
    BY <2>4, FS_CardinalityType
  <2> QED
    BY <1>1, <2>3, <2>4, <2>5
<1>9. ReduceMixedBy(AtWork(u, q, f, m, o), p)
        = AtWork(u, q \o Those(reduced, simples), f, Dictionary(Those(reduced, rest)), o)
  <2> DEFINE s == AtWork(u, q, f, m, o)
  <2>1. s.mixed = m /\ s.queue = q
    BY DEF AtWork
  <2>2. s = [of |-> u, queue |-> q, simple |-> f, mixed |-> m, result |-> o]
    BY DEF AtWork
  <2> HIDE DEF s
  <2>3. ReduceMixedBy(s, p) = [s EXCEPT !.queue = q \o Those(reduced, simples), !.mixed = Dictionary(Those(reduced, rest))]
    BY <2>1 DEF ReduceMixedBy
  <2> HIDE DEF reduced, simples, rest
  <2> QED
    BY <2>2, <2>3 DEF AtWork
<1> HIDE DEF reduced, simples, rest
<1> DEFINE now == Those(reduced, simples)
           dict == Dictionary(Those(reduced, rest))
<1>10. dict \in Seq(MixedParts(u, known)) /\ Len(dict) <= Cardinality(rest)
  BY <1>7, DictionaryIs
<1>11. now \in Seq(SimpleParts(u)) /\ Len(now) = Cardinality(simples)
  BY <1>6
<1>12. ReduceMixedBy(AtWork(u, q, f, m, o), p)
         = AtWork(u, q \o now, f, dict, o)
  BY <1>9
<1> HIDE DEF now, dict
<1>13. q \o now \in Seq(SimpleParts(u)) /\ Len(q \o now) = Len(q) + Len(now) /\ Len(q) \in Nat
  BY <1>11
<1>14. Len(dict) \in Nat
  BY <1>10
<1>15. Len(q \o now) + Len(dict) <= Len(q) + N
  BY <1>8, <1>10, <1>11, <1>13, <1>14
<1> QED
  BY <1>10, <1>12, <1>13, <1>15 DEF ComesTo

(* A simple part: known already, the last one, or one more that is known.   *)
LEMMA SimpleProcessed ==
    ASSUME NEW u \in Urs, NEW p \in SimpleParts(u), NEW q \in Seq(SimpleParts(u)), NEW f \in Simples(u),
           NEW m \in Seq(MixedParts(u, DOMAIN f)), DOMAIN f # Indexes(u)
    PROVE  \E rq \in Seq(SimpleParts(u)), rf \in Simples(u), ro \in {NoUr, u} :
             \E rm \in Seq(MixedParts(u, DOMAIN rf)) :
               /\ ProcessSimple(AtWork(u, q, f, m, NoUr), p) = AtWork(u, rq, rf, rm, ro)
               /\ ro = NoUr <=> DOMAIN rf # Indexes(u)
               /\ Len(rq) + Len(rm) <= Len(q) + Len(m)
<1> DEFINE k == IndexOf(p)
           known == DOMAIN f
           now == known \cup {k}
           s == AtWork(u, q, f, m, NoUr)
           simples == [i \in now |-> IF i \in known THEN f[i] ELSE p.data]
<1>1. p \in Parts(u) /\ IsSimple(p)
  BY DEF SimpleParts
<1>2. p.indexes = {k} /\ k \in Indexes(u) /\ p.data = {<<u, k>>}
  <2>1. p.indexes = {k} /\ k \in Indexes(u) /\ p.data = Fragments(u, p.indexes)
    BY <1>1, PartIs
  <2> HIDE DEF k
  <2>2. Fragments(u, {k}) = {<<u, k>>}
    BY DEF Fragments
  <2> QED
    BY <2>1, <2>2
<1>3. known \in SUBSET Indexes(u) /\ \A i \in known : f[i] = {<<u, i>>}
  BY SimplesAre
<1>4. NoUr # u
  BY ScanAssumption
<1>5. \A i \in DOMAIN m : m[i] \in Parts(u) /\ ~IsSimple(m[i]) /\ m[i].indexes \cap known = {}
  BY DEF MixedParts
<1>6. s.simple = f /\ s.of = u /\ [s EXCEPT !.simple = simples] = AtWork(u, q, simples, m, NoUr)
  BY DEF AtWork
<1>7. DOMAIN simples = now /\ simples = [i \in now |-> {<<u, i>>}]
  BY <1>2, <1>3
<1>8. simples \in Simples(u)
  <2> HIDE DEF simples
  <2>1. now \in SUBSET Indexes(u)
    BY <1>2, <1>3
  <2> HIDE DEF now
  <2> QED
    BY <1>7, <2>1, AreSimples
<1>9. ProcessSimple(s, p) =
        IF k \in known THEN s
        ELSE IF now = Indexes(u)
             THEN [AtWork(u, q, simples, m, NoUr) EXCEPT !.result = Joined(AtWork(u, q, simples, m, NoUr))]
             ELSE ReduceMixedBy(AtWork(u, q, simples, m, NoUr), p)
  <2> HIDE DEF s
  <2>1. [s EXCEPT !.simple = [i \in DOMAIN s.simple \cup {IndexOf(p)} |->
                                IF i \in DOMAIN s.simple THEN s.simple[i] ELSE p.data]]
          = AtWork(u, q, simples, m, NoUr)
    BY <1>6
  <2> QED
    BY <1>6, <1>7, <2>1 DEF ProcessSimple
<1> HIDE DEF s, simples, now, known, k
<1>10. CASE k \in known
  <2>1. ProcessSimple(s, p) = s
    BY <1>9, <1>10
  <2>2. Len(q) \in Nat /\ Len(m) \in Nat
    OBVIOUS
  <2> QED
    BY <2>1, <2>2 DEF s
<1>11. CASE k \notin known /\ now = Indexes(u)
  <2>1. Joined(AtWork(u, q, simples, m, NoUr)) = u
    <3>1. UNION {simples[i] : i \in DOMAIN simples} = Fragments(u, Indexes(u))
      BY <1>7, <1>11 DEF Fragments
    <3> QED
      BY <3>1 DEF Joined, AtWork
  <2>2. ProcessSimple(s, p) = AtWork(u, q, simples, m, u)
    BY <1>9, <1>11, <2>1 DEF AtWork
  <2>3. m = <<>>
    <3>1. ASSUME NEW i \in DOMAIN m PROVE FALSE
      <4>1. m[i] \in Parts(u) /\ ~IsSimple(m[i]) /\ m[i].indexes \cap known = {}
        BY <1>5
      <4>2. m[i].indexes \in SUBSET Indexes(u) /\ m[i].indexes # {}
        BY <4>1, PartIs
      <4>3. m[i].indexes = {k}
        BY <1>11, <4>1, <4>2 DEF now
      <4> QED
        BY <4>1, <4>3, PartIs
    <3>2. DOMAIN m = {}
      BY <3>1
    <3>21. Len(m) \in Nat /\ DOMAIN m = 1..Len(m)
      OBVIOUS
    <3>3. Len(m) = 0
      BY <3>2, <3>21
    <3> QED
      BY <3>3, EmptySeq
  <2>4. m \in Seq(MixedParts(u, DOMAIN simples))
    BY <2>3
  <2>5. Len(q) + Len(m) \in Nat
    BY <2>3
  <2>6. u = NoUr <=> DOMAIN simples # Indexes(u)
    BY <1>4, <1>7, <1>11
  <2> QED
    BY <1>8, <2>2, <2>4, <2>5, <2>6 DEF s
<1>12. CASE k \notin known /\ now # Indexes(u)
  <2>1. \A i \in DOMAIN m : ReduceByPart(m[i], p).indexes \cap now = {}
    <3> TAKE i \in DOMAIN m
    <3> DEFINE r == ReduceByPart(m[i], p)
    <3>1. m[i] \in Parts(u) /\ ~IsSimple(m[i]) /\ m[i].indexes \cap known = {}
      BY <1>5
    <3>2. m[i].indexes # {k}
      BY <3>1, PartIs
    <3>3. r.indexes = m[i].indexes \ {k}
      <4>1. CASE k \in m[i].indexes
        BY <1>2, <3>2, <4>1 DEF ReduceByPart, Part
      <4>2. CASE k \notin m[i].indexes
        BY <1>2, <4>2 DEF ReduceByPart
      <4> QED
        BY <4>1, <4>2
    <3> QED
      BY <3>1, <3>3 DEF now
  <2>2. m \in Seq(Parts(u))
    BY DEF MixedParts
  <2>3. PICK rq \in Seq(SimpleParts(u)), rm \in Seq(MixedParts(u, now)) :
          ComesTo(ReduceMixedBy(AtWork(u, q, simples, m, NoUr), p), u, rq, simples, rm, NoUr, Len(q) + Len(m))
    <3>1. NoUr \in {NoUr, u} /\ Apart(m, p, now)
      BY <2>1 DEF Apart
    <3> QED
      BY <1>1, <1>8, <2>2, <3>1, MixedReduced
  <2>4. ProcessSimple(s, p) = AtWork(u, rq, simples, rm, NoUr)
    BY <1>9, <1>12, <2>3 DEF ComesTo
  <2> QED
    BY <1>7, <1>8, <1>12, <2>3, <2>4 DEF s, ComesTo
<1> QED
  BY <1>10, <1>11, <1>12

(* A mixed part: what is known of it, and the mixed parts in it, are taken   *)
(* out.                                                                     *)
LEMMA MixedProcessed ==
    ASSUME NEW u \in Urs, NEW p \in Parts(u), NEW q \in Seq(SimpleParts(u)), NEW f \in Simples(u),
           NEW m \in Seq(MixedParts(u, DOMAIN f))
    PROVE  \E rq \in Seq(SimpleParts(u)) :
             \E rm \in Seq(MixedParts(u, DOMAIN f)) :
               /\ ProcessMixed(AtWork(u, q, f, m, NoUr), p) = AtWork(u, rq, f, rm, NoUr)
               /\ Len(rq) + Len(rm) <= Len(q) + Len(m) + 1
<1> DEFINE F == DOMAIN f
           s == AtWork(u, q, f, m, NoUr)
           known == SetToSeq(F)
           simples == [n \in DOMAIN known |-> Part({known[n]}, f[known[n]])]
           parts == simples \o m
           r == ReduceByParts(p, parts)
<1>1. F \in SUBSET Indexes(u) /\ \A i \in F : f[i] = {<<u, i>>}
  BY SimplesAre
<1>2. IsFiniteSet(F)
  <2>1. 0 \in Int /\ FragmentCount(u) - 1 \in Int
    BY ScanAssumption
  <2>2. IsFiniteSet(Indexes(u))
    BY <2>1, FS_Interval DEF Indexes
  <2> QED
    BY <1>1, <2>2, FS_Subset
<1>3. known \in Seq(F) /\ \A k \in F : \E n \in DOMAIN known : known[n] = k
  BY <1>2, ListedAreAll
<1>4. s.simple = f /\ s.mixed = m /\ s.queue = q
  BY DEF AtWork
<1> HIDE DEF known, F
<1>5. \A n \in DOMAIN known : known[n] \in F /\ simples[n] \in Parts(u) /\ simples[n].indexes = {known[n]}
  <2> TAKE n \in DOMAIN known
  <2>1. known[n] \in F
    BY <1>3
  <2>2. simples[n] = Part({known[n]}, Fragments(u, {known[n]}))
    <3>1. simples[n] = Part({known[n]}, f[known[n]])
      OBVIOUS
    <3>2. Fragments(u, {known[n]}) = {<<u, known[n]>>} /\ f[known[n]] = {<<u, known[n]>>}
      BY <1>1, <2>1 DEF Fragments
    <3> QED
      BY <3>1, <3>2
  <2>3. {known[n]} \in (SUBSET Indexes(u)) \ {{}}
    BY <1>1, <2>1
  <2> HIDE DEF simples
  <2> QED
    <3> DEFINE x == {known[n]}
    <3>1. simples[n] = Part(x, Fragments(u, x)) /\ x \in (SUBSET Indexes(u)) \ {{}}
      BY <2>2, <2>3
    <3> HIDE DEF x
    <3>2. simples[n] \in Parts(u) /\ simples[n].indexes = x
      BY <3>1 DEF Parts, Part
    <3> QED
      BY <2>1, <3>2 DEF x
<1>6. simples \in Seq(Parts(u)) /\ DOMAIN simples = DOMAIN known
  <2>1. DOMAIN known = 1..Len(known) /\ Len(known) \in Nat
    BY <1>3
  <2>2. simples = [n \in DOMAIN known |-> simples[n]]
    OBVIOUS
  <2> HIDE DEF simples
  <2> QED
    BY <1>5, <2>1, <2>2
<1>7. m \in Seq(Parts(u)) /\ \A i \in DOMAIN m : m[i] \in Parts(u) /\ m[i].indexes \cap F = {}
  BY DEF MixedParts, F
<1>8. ProcessMixed(s, p) =
        IF IsSimple(r) THEN [s EXCEPT !.queue = Append(q, r)]
        ELSE [ReduceMixedBy(s, r) EXCEPT !.mixed = Dictionary(Append(@, r))]
  <2>1. parts = [n \in DOMAIN SetToSeq(DOMAIN s.simple) |->
                   Part({SetToSeq(DOMAIN s.simple)[n]}, s.simple[SetToSeq(DOMAIN s.simple)[n]])] \o s.mixed
    BY <1>4 DEF known, F
  <2> HIDE DEF s, parts
  <2> QED
    BY <1>4, <2>1 DEF ProcessMixed
<1> HIDE DEF simples
<1>9. parts \in Seq(Parts(u)) /\ \A n \in DOMAIN simples : n \in DOMAIN parts /\ parts[n] = simples[n]
  BY <1>6, <1>7
<1> HIDE DEF parts
<1>10. /\ r \in Parts(u)
       /\ \A n \in DOMAIN parts : parts[n].indexes \subseteq r.indexes => r.indexes = parts[n].indexes
  BY <1>9, AllReduced
<1> HIDE DEF r
<1>11. Len(q) \in Nat /\ Len(m) \in Nat
  OBVIOUS
<1>12. CASE IsSimple(r)
  <2>1. ProcessMixed(s, p) = AtWork(u, Append(q, r), f, m, NoUr)
    BY <1>8, <1>12 DEF AtWork
  <2>2. r \in SimpleParts(u)
    BY <1>10, <1>12 DEF SimpleParts
  <2>3. Append(q, r) \in Seq(SimpleParts(u)) /\ Len(Append(q, r)) = Len(q) + 1
    BY <2>2
  <2>4. Len(Append(q, r)) + Len(m) <= Len(q) + Len(m) + 1
    BY <1>11, <2>3
  <2> DEFINE rq == Append(q, r)
  <2>5. /\ rq \in Seq(SimpleParts(u)) /\ Len(rq) + Len(m) <= Len(q) + Len(m) + 1
        /\ ProcessMixed(AtWork(u, q, f, m, NoUr), p) = AtWork(u, rq, f, m, NoUr)
    BY <2>1, <2>3, <2>4
  <2> HIDE DEF rq, s
  <2> QED
    BY <2>5
<1>13. CASE ~IsSimple(r)
  <2>1. r.indexes \cap F = {}
    <3> SUFFICES ASSUME NEW k \in F, k \in r.indexes PROVE FALSE
      OBVIOUS
    <3>1. PICK n \in DOMAIN known : known[n] = k
      BY <1>3
    <3>2. n \in DOMAIN parts /\ parts[n].indexes = {k}
      BY <1>5, <1>6, <1>9, <3>1
    <3>3. r.indexes = {k}
      BY <1>10, <3>2
    <3> QED
      BY <1>10, <1>13, <3>3, PartIs
  <2>2. \A i \in DOMAIN m : ReduceByPart(m[i], r).indexes \cap F = {}
    <3> TAKE i \in DOMAIN m
    <3>1. ReduceByPart(m[i], r).indexes \subseteq m[i].indexes
      BY <1>7, <1>10, ReducedIs
    <3> QED
      BY <1>7, <3>1
  <2>3. PICK rq \in Seq(SimpleParts(u)), rm \in Seq(MixedParts(u, F)) :
          ComesTo(ReduceMixedBy(s, r), u, rq, f, rm, NoUr, Len(q) + Len(m))
    <3>1. NoUr \in {NoUr, u} /\ Apart(m, r, F)
      BY <2>2 DEF Apart
    <3> QED
      BY <1>7, <1>10, <3>1, MixedReduced
  <2>4. ProcessMixed(s, p) = AtWork(u, rq, f, Dictionary(Append(rm, r)), NoUr)
    <3> DEFINE d == Dictionary(Append(rm, r))
    <3>1. ProcessMixed(s, p) = [AtWork(u, rq, f, rm, NoUr) EXCEPT !.mixed = Dictionary(Append(@, r))]
      BY <1>8, <1>13, <2>3 DEF ComesTo
    <3>2. ProcessMixed(s, p) = [AtWork(u, rq, f, rm, NoUr) EXCEPT !.mixed = d]
      <4>1. AtWork(u, rq, f, rm, NoUr).mixed = rm
        BY DEF AtWork
      <4> QED
        BY <3>1, <4>1
    <3> HIDE DEF d
    <3>3. ProcessMixed(s, p) = AtWork(u, rq, f, d, NoUr)
      BY <3>2 DEF AtWork
    <3> QED
      BY <3>3 DEF d
  <2>5. r \in MixedParts(u, F)
    BY <1>10, <1>13, <2>1 DEF MixedParts
  <2>6. Append(rm, r) \in Seq(MixedParts(u, F)) /\ Len(Append(rm, r)) = Len(rm) + 1
    BY <2>5
  <2> DEFINE dict == Dictionary(Append(rm, r))
  <2>7. dict \in Seq(MixedParts(u, F)) /\ Len(dict) <= Len(rm) + 1
    BY <2>6, DictionaryIs
  <2> HIDE DEF dict, s
  <2>8. Len(rq) \in Nat /\ Len(rm) \in Nat /\ Len(dict) \in Nat
    BY <2>7
  <2>9. Len(rq) + Len(dict) <= Len(q) + Len(m) + 1
    BY <1>11, <2>3, <2>7, <2>8 DEF ComesTo
  <2> QED
    BY <2>4, <2>7, <2>9 DEF s, F, dict
<1> QED
  BY <1>12, <1>13

(* What is left to do of a queue: a mixed part at its head counts for two.  *)
Weight(s) == Len(s.queue) + Len(s.mixed) + (IF s.queue = <<>> \/ IsSimple(Head(s.queue)) THEN 0 ELSE 1)

(* One turn: less is left to do, and what is left in the queue is simple.   *)
LEMMA ItemProcessed ==
    ASSUME NEW u \in Urs, NEW s \in Solving(u), ~IsComplete(s)
    PROVE  ProcessQueueItem(s) \in Solving(u) /\ Weight(s) \in Nat /\ Weight(ProcessQueueItem(s)) + 1 <= Weight(s)
<1> DEFINE q == s.queue
           f == s.simple
           m == s.mixed
           p == Head(q)
           t == Tail(q)
           r == ProcessQueueItem(s)
<1>1. /\ q \in Seq(Parts(u)) /\ f \in Simples(u)
      /\ q # <<>> => t \in Seq(SimpleParts(u))
      /\ m \in Seq(MixedParts(u, DOMAIN f))
      /\ s.result = NoUr <=> DOMAIN f # Indexes(u)
      /\ s = [of |-> u, queue |-> q, simple |-> f, mixed |-> m, result |-> s.result]
  BY DEF Solving
<1>2. q # <<>> /\ s.result = NoUr
  BY DEF IsComplete
<1>3. [s EXCEPT !.queue = t] = AtWork(u, t, f, m, NoUr)
  <2>1. s = [of |-> u, queue |-> q, simple |-> f, mixed |-> m, result |-> NoUr]
    BY <1>1, <1>2
  <2> HIDE DEF q, f, m, t
  <2> QED
    BY <2>1 DEF AtWork
<1>4. r = IF IsSimple(p) THEN ProcessSimple(AtWork(u, t, f, m, NoUr), p) ELSE ProcessMixed(AtWork(u, t, f, m, NoUr), p)
  BY <1>3 DEF ProcessQueueItem
<1>5. Weight(s) = Len(q) + Len(m) + (IF IsSimple(p) THEN 0 ELSE 1)
  BY <1>2 DEF Weight
<1> HIDE DEF q, f, m, p, t, r
<1>6. p \in Parts(u) /\ Len(q) \in Nat /\ Len(t) \in Nat /\ Len(m) \in Nat /\ Len(q) = Len(t) + 1 /\ t \in Seq(SimpleParts(u))
  <2>1. p \in Parts(u) /\ Len(q) \in Nat /\ Len(t) \in Nat /\ Len(q) = Len(t) + 1
    BY <1>1, <1>2 DEF p, t
  <2> QED
    BY <1>1, <1>2, <2>1
<1>7. \E rq \in Seq(SimpleParts(u)), rf \in Simples(u), ro \in {NoUr, u} :
        \E rm \in Seq(MixedParts(u, DOMAIN rf)) :
          /\ r = AtWork(u, rq, rf, rm, ro)
          /\ ro = NoUr <=> DOMAIN rf # Indexes(u)
          /\ Len(rq) + Len(rm) + 1 <= Weight(s)
  <2>1. CASE IsSimple(p)
    <3>1. p \in SimpleParts(u) /\ DOMAIN f # Indexes(u)
      BY <1>1, <1>2, <1>6, <2>1 DEF SimpleParts
    <3>2. PICK rq \in Seq(SimpleParts(u)), rf \in Simples(u), ro \in {NoUr, u} :
            \E rm \in Seq(MixedParts(u, DOMAIN rf)) :
              /\ ProcessSimple(AtWork(u, t, f, m, NoUr), p) = AtWork(u, rq, rf, rm, ro)
              /\ ro = NoUr <=> DOMAIN rf # Indexes(u)
              /\ Len(rq) + Len(rm) <= Len(t) + Len(m)
      BY <1>1, <1>6, <3>1, SimpleProcessed
    <3>3. PICK rm \in Seq(MixedParts(u, DOMAIN rf)) :
              /\ ProcessSimple(AtWork(u, t, f, m, NoUr), p) = AtWork(u, rq, rf, rm, ro)
              /\ ro = NoUr <=> DOMAIN rf # Indexes(u)
              /\ Len(rq) + Len(rm) <= Len(t) + Len(m)
      BY <3>2
    <3>4. r = AtWork(u, rq, rf, rm, ro)
      BY <1>4, <2>1, <3>3
    <3>5. Len(rq) \in Nat /\ Len(rm) \in Nat
      OBVIOUS
    <3>6. Len(rq) + Len(rm) + 1 <= Weight(s)
      BY <1>5, <1>6, <2>1, <3>3, <3>5
    <3> QED
      BY <3>3, <3>4, <3>6
  <2>2. CASE ~IsSimple(p)
    <3>1. PICK rq \in Seq(SimpleParts(u)) :
            \E rm \in Seq(MixedParts(u, DOMAIN f)) :
              /\ ProcessMixed(AtWork(u, t, f, m, NoUr), p) = AtWork(u, rq, f, rm, NoUr)
              /\ Len(rq) + Len(rm) <= Len(t) + Len(m) + 1
      BY <1>1, <1>6, MixedProcessed
    <3>2. PICK rm \in Seq(MixedParts(u, DOMAIN f)) :
              /\ ProcessMixed(AtWork(u, t, f, m, NoUr), p) = AtWork(u, rq, f, rm, NoUr)
              /\ Len(rq) + Len(rm) <= Len(t) + Len(m) + 1
      BY <3>1
    <3>3. r = AtWork(u, rq, f, rm, NoUr)
      BY <1>4, <2>2, <3>2
    <3>4. Len(rq) \in Nat /\ Len(rm) \in Nat
      OBVIOUS
    <3>5. Len(rq) + Len(rm) + 1 <= Weight(s)
      BY <1>5, <1>6, <2>2, <3>2, <3>4
    <3>6. NoUr \in {NoUr, u} /\ (NoUr = NoUr <=> DOMAIN f # Indexes(u))
      BY <1>1, <1>2
    <3> QED
      BY <1>1, <3>3, <3>5, <3>6
  <2> QED
    BY <2>1, <2>2
<1>8. PICK rq \in Seq(SimpleParts(u)), rf \in Simples(u), ro \in {NoUr, u} :
        \E rm \in Seq(MixedParts(u, DOMAIN rf)) :
          /\ r = AtWork(u, rq, rf, rm, ro)
          /\ ro = NoUr <=> DOMAIN rf # Indexes(u)
          /\ Len(rq) + Len(rm) + 1 <= Weight(s)
  BY <1>7
<1>9. PICK rm \in Seq(MixedParts(u, DOMAIN rf)) :
          /\ r = AtWork(u, rq, rf, rm, ro)
          /\ ro = NoUr <=> DOMAIN rf # Indexes(u)
          /\ Len(rq) + Len(rm) + 1 <= Weight(s)
  BY <1>8
<1>10. /\ r.of = u /\ r.queue = rq /\ r.simple = rf /\ r.mixed = rm /\ r.result = ro
       /\ r = [of |-> u, queue |-> rq, simple |-> rf, mixed |-> rm, result |-> ro]
  BY <1>9 DEF AtWork
<1>11. rq \in Seq(Parts(u)) /\ rm \in Seq(Parts(u))
  BY DEF SimpleParts, MixedParts
<1>12. rq # <<>> => Tail(rq) \in Seq(SimpleParts(u)) /\ Head(rq) \in SimpleParts(u)
  BY HeadTailProperties
<1>13. r \in Solving(u)
  BY <1>9, <1>10, <1>11, <1>12 DEF Solving
<1>14. Weight(r) = Len(rq) + Len(rm)
  <2>1. rq = <<>> \/ IsSimple(Head(rq))
    BY <1>12 DEF SimpleParts
  <2>2. Len(rq) + Len(rm) \in Nat
    OBVIOUS
  <2> QED
    BY <1>10, <2>1, <2>2 DEF Weight
<1>15. Weight(s) \in Nat
  BY <1>5, <1>6
<1> QED
  BY <1>9, <1>13, <1>14, <1>15 DEF r

(* The states of the decoder after the first n turns, as ProcessQueue takes *)
(* them.                                                                    *)
TurnsOf(s) ==
    CHOOSE after : after = [n \in 0..Turns(s) |->
            IF n = 0 THEN s
            ELSE IF IsComplete(after[n - 1]) THEN after[n - 1] ELSE ProcessQueueItem(after[n - 1])]

(* The queue is worked off, and the parts are solved as far as they go.     *)
THEOREM QueueProcessed ==
    ASSUME NEW u \in Urs, NEW s \in Solving(u)
    PROVE  ProcessQueue(s) \in Solving(u) /\ IsComplete(ProcessQueue(s))
<1> DEFINE N == Turns(s)
           Item(x) == IF IsComplete(x) THEN x ELSE ProcessQueueItem(x)
           g == [n \in 1..N |-> [x \in Solving(u) |-> Item(x)]]
           after == TurnsOf(s)
<1>1. N \in Nat /\ Weight(s) \in Nat /\ Weight(s) <= N
  <2>1. s.queue \in Seq(Parts(u)) /\ s.mixed \in Seq(Parts(u))
    BY DEF Solving
  <2>2. Len(s.queue) \in Nat /\ Len(s.mixed) \in Nat /\ (Len(s.queue) = 0 => s.queue = <<>>)
    BY <2>1, EmptySeq
  <2> DEFINE a == Len(s.queue)
             b == Len(s.mixed)
             c == IF s.queue = <<>> \/ IsSimple(Head(s.queue)) THEN 0 ELSE 1
  <2>3. a \in Nat /\ b \in Nat /\ c \in {0, 1} /\ (a = 0 => c = 0)
    BY <2>2
  <2>4. Weight(s) = a + b + c /\ N = 2 * a + b
    BY DEF Weight, Turns
  <2> HIDE DEF a, b, c, N
  <2> QED
    BY <2>3, <2>4
<1>2. \A x \in Solving(u) : Item(x) \in Solving(u)
  BY ItemProcessed
<1>3. g \in Steps(N, Solving(u))
  BY <1>2 DEF Steps
<1>4. \A n \in 1..N, x \in Solving(u) : g[n][x] = Item(x)
  OBVIOUS
<1> HIDE DEF g, N
<1>5. PICK h : Follows(h, s, N, Solving(u), g)
  BY <1>1, <1>3, Iterate
<1>6. h = [n \in 0..N |-> IF n = 0 THEN s ELSE Item(h[n - 1])]
  <2>1. \A n \in 0..N : h[n] = IF n = 0 THEN s ELSE Item(h[n - 1])
    <3> TAKE n \in 0..N
    <3>1. CASE n = 0
      BY <1>5, <3>1 DEF Follows
    <3>2. CASE n # 0
      <4>1. n \in 1..N /\ n - 1 \in 0..N
        BY <1>1, <3>2
      <4>2. h[n - 1] \in Solving(u) /\ h[n] = g[n][h[n - 1]]
        BY <1>5, <4>1 DEF Follows
      <4> HIDE DEF Item
      <4> QED
        BY <1>4, <3>2, <4>1, <4>2
    <3> QED
      BY <3>1, <3>2
  <2> QED
    BY <1>5, <2>1 DEF Follows
<1>7. after = [n \in 0..N |-> IF n = 0 THEN s ELSE Item(after[n - 1])]
  BY <1>6 DEF TurnsOf, N
<1> HIDE DEF after, Item
<1>8. after[0] = s
  BY <1>1, <1>7
<1>9. ASSUME NEW n \in Nat, n + 1 <= N PROVE after[n + 1] = Item(after[n])
  <2>1. n + 1 \in 0..N /\ n + 1 # 0 /\ (n + 1) - 1 = n
    BY <1>1, <1>9
  <2> QED
    BY <1>7, <2>1
<1> DEFINE Left(n, x) == x \in Solving(u) /\ (IsComplete(x) \/ Weight(x) + n <= N)
           T == {n \in Nat : n <= N => Left(n, after[n])}
<1>10. 0 \in T
  BY <1>1, <1>8
<1>11. \A n \in Nat : n \in T => n + 1 \in T
  <2> SUFFICES ASSUME NEW n \in Nat, n + 1 <= N, Left(n, after[n]) PROVE Left(n + 1, after[n + 1])
    BY <1>1
  <2>1. after[n + 1] = Item(after[n])
    BY <1>9
  <2>2. CASE IsComplete(after[n])
    BY <2>1, <2>2 DEF Item
  <2>3. CASE ~IsComplete(after[n])
    <3> DEFINE x == after[n]
               y == ProcessQueueItem(x)
    <3>1. x \in Solving(u) /\ Weight(x) + n <= N
      BY <2>3
    <3>2. y \in Solving(u) /\ Weight(x) \in Nat /\ Weight(y) + 1 <= Weight(x) /\ after[n + 1] = y
      BY <2>1, <2>3, <3>1, ItemProcessed DEF Item
    <3>3. Weight(y) \in Int
      BY <3>2 DEF Weight, Solving
    <3> HIDE DEF x, y
    <3>4. Weight(y) + (n + 1) <= N
      BY <1>1, <3>1, <3>2, <3>3
    <3> QED
      BY <3>2, <3>4
  <2> QED
    BY <2>2, <2>3
<1> HIDE DEF T, Left
<1>12. N \in T
  BY <1>1, <1>10, <1>11, Ind
<1>13. Left(N, after[N])
  BY <1>1, <1>12 DEF T
<1>14. ProcessQueue(s) = after[N]
  BY DEF ProcessQueue, TurnsOf, N, after
<1>15. CASE Weight(after[N]) + N <= N /\ after[N] \in Solving(u)
  <2>1. after[N].queue \in Seq(Parts(u)) /\ after[N].mixed \in Seq(Parts(u))
    BY <1>15 DEF Solving
  <2>2. Len(after[N].queue) \in Nat /\ Len(after[N].mixed) \in Nat
    BY <2>1
  <2>3. Len(after[N].queue) = 0
    <3> DEFINE x == after[N]
               a == Len(x.queue)
               b == Len(x.mixed)
               c == IF x.queue = <<>> \/ IsSimple(Head(x.queue)) THEN 0 ELSE 1
    <3>1. a \in Nat /\ b \in Nat /\ c \in {0, 1}
      BY <2>2
    <3>2. Weight(x) = a + b + c /\ Weight(x) + N <= N
      BY <1>15 DEF Weight
    <3> HIDE DEF a, b, c, x
    <3>3. a = 0
      BY <1>1, <3>1, <3>2
    <3> QED
      BY <3>3 DEF a, x
  <2> QED
    BY <1>14, <1>15, <2>1, <2>3, EmptySeq DEF IsComplete
<1> QED
  BY <1>13, <1>14, <1>15 DEF Left

(* What may be scanned for.                                                 *)
ScanModes == {"any", "passphrase", "encryption_key", "text"}

(* What a code is taken for, if it is a part of an animation, is one of the *)
(* types it looks like.                                                     *)
LEMMA TypeIsSeen ==
    ASSUME NEW c \in Scanned, NEW md \in ScanModes, NEW t, t = TypeFor(md, c, Preference)
    PROVE  t \in Types /\ (t \in Ur \cup Animated => t \in c.looks)
<1>1. c.payload \subseteq Payloads
  BY ScanAssumption
<1>2. CASE md # "any"
  BY <1>2 DEF TypeFor, ScanModes, Types, Ur, Animated
<1>3. CASE md = "any"
  <2>1. t = DetectedType(c, Preference)
    BY <1>3 DEF TypeFor
  <2> DEFINE passed == {k \in DOMAIN DetectionOrder : DetectionOrder[k] \in c.looks}
  <2>2. CASE c.utf8 /\ passed # {}
    <3>1. passed \in SUBSET Nat
      BY DEF DetectionOrder
    <3>2. Min(passed) \in passed /\ \A j \in passed : Min(passed) <= j
      <4> HIDE DEF passed
      <4> QED
        BY <2>2, <3>1, SmallestIs
    <3> DEFINE k == CHOOSE k \in passed : \A j \in passed : k <= j
    <3>3. k \in passed
      <4> HIDE DEF passed
      <4> QED
        BY <3>2
    <3>4. t = DetectionOrder[k]
      BY <2>1, <2>2 DEF DetectedType
    <3> HIDE DEF k
    <3>5. t \in Looks /\ t \in c.looks
      BY <3>3, <3>4 DEF Looks
    <3> QED
      BY <3>5 DEF Types
  <2>3. CASE ~(c.utf8 /\ passed # {})
    <3>1. t = PayloadType(c, Preference)
      BY <2>1, <2>3 DEF DetectedType
    <3>2. t \in Payloads \cup {"invalid", "seed__ambiguous_qr"}
      <4>1. CASE c.payload = {}
        BY <3>1, <4>1 DEF PayloadType
      <4>2. CASE c.payload # {}
        <5>1. (CHOOSE x \in c.payload : TRUE) \in c.payload
          BY <4>2
        <5> QED
          BY <1>1, <3>1, <4>2, <5>1 DEF PayloadType
      <4> QED
        BY <4>1, <4>2
    <3>3. "seed__xprv" \in Looks
      <4>1. 21 \in DOMAIN DetectionOrder /\ DetectionOrder[21] = "seed__xprv"
        BY DEF DetectionOrder
      <4> QED
        BY <4>1 DEF Looks
    <3> QED
      BY <3>2, <3>3 DEF Types, Payloads, Binary, Ur, Animated
  <2> QED
    BY <2>2, <2>3
<1> QED
  BY <1>2, <1>3

(* What the decoder has of the URs, and the numbered parts that are missing *)
(* until the transaction is complete.                                       *)
Fountain ==
    /\ expected \in Urs \cup {NoUr}
    /\ expected = NoUr => simple = <<>> /\ mixed = <<>>
    /\ expected # NoUr =>
         /\ simple \in Simples(expected) /\ mixed \in Seq(MixedParts(expected, DOMAIN simple))
         /\ DOMAIN simple = Indexes(expected) => result = expected
    /\ result # NoUr => result \in Urs /\ outcome = "complete"

Numbers ==
    /\ segments \in Seq(Range(segments))
    /\ qrType = NoType => segments = <<>>
    /\ qrType \in {"psbt__specter", "psbt__bbqr"} /\ segments # <<>> /\ outcome # "complete" =>
         \E k \in DOMAIN segments : segments[k] = "missing"

(* What holds of a scan after any codes.                                    *)
ScanInv ==
    /\ mode \in ScanModes /\ qrType \in Types \cup {NoType}
    /\ outcome \in {"none", "part_complete", "part_existing", "complete", "invalid", "raises", "left"}
    /\ Fountain /\ Numbers

(* Before the first code nothing is known, and nothing is missing.          *)
LEMMA ScanStart == ScanInit => ScanInv
<1> SUFFICES ASSUME ScanInit PROVE ScanInv
  OBVIOUS
<1>1. <<>> \in Seq(Range(<<>>)) /\ DOMAIN <<>> = {}
  BY EmptySeq
<1> QED
  BY <1>1 DEF ScanInit, ScanInv, ScanModes, Fountain, Numbers

(* A part of the UR, which is the expected one from then on.                *)
LEMMA UrAdded ==
    ASSUME ScanInv, NEW c \in Scanned, ~Over, c.valid, c.looks \cap Ur # {}, AddUr(c)
    PROVE  Fountain' /\ outcome' \in {"part_complete", "complete"}
<1>1. c.of \in Urs /\ NoUr \notin Urs /\ (c.whole \/ c.indexes \in (SUBSET Indexes(c.of)) \ {{}})
  BY ScanAssumption DEF Indexes
<1>2. result = NoUr
  BY DEF ScanInv, Fountain, Over
<1>3. CASE c.whole
  <2>1. result' = c.of /\ outcome' = "complete" /\ UNCHANGED <<expected, simple, mixed>>
    BY <1>3 DEF AddUr, Yields
  <2>2. expected # NoUr => DOMAIN simple # Indexes(expected)
    BY <1>2 DEF ScanInv, Fountain
  <2> QED
    BY <1>1, <2>1, <2>2 DEF ScanInv, Fountain
<1>4. CASE ~c.whole /\ ~ValidatePart(c)
  <2>1. outcome' = "part_complete" /\ UNCHANGED <<expected, simple, mixed, result>>
    BY <1>4 DEF AddUr, Yields, KeepUr
  <2> QED
    BY <1>2, <2>1 DEF ScanInv, Fountain
<1>5. CASE ~c.whole /\ ValidatePart(c)
  <2> DEFINE u == c.of
             p == Part(c.indexes, Fragments(c.of, c.indexes))
             s == [of |-> u, queue |-> <<p>>, simple |-> simple, mixed |-> mixed, result |-> NoUr]
             r == ProcessQueue(s)
  <2>1. /\ expected' = u /\ (expected # NoUr => expected = u)
        /\ simple' = r.simple /\ mixed' = r.mixed /\ result' = r.result
        /\ outcome' = IF r.result = NoUr THEN "part_complete" ELSE "complete"
    BY <1>5 DEF AddUr, ValidatePart, Yields
  <2>2. u \in Urs /\ p \in Parts(u)
    BY <1>1, <1>5 DEF Parts
  <2> HIDE DEF p
  <2>3. simple \in Simples(u) /\ mixed \in Seq(MixedParts(u, DOMAIN simple)) /\ DOMAIN simple # Indexes(u)
    <3>1. CASE expected = u
      BY <1>1, <1>2, <3>1 DEF ScanInv, Fountain
    <3>2. CASE expected = NoUr
      <4>1. simple = <<>> /\ mixed = <<>>
        BY <3>2 DEF ScanInv, Fountain
      <4>2. <<>> = [k \in {} |-> {<<u, k>>}]
        OBVIOUS
      <4>3. <<>> \in Simples(u) /\ DOMAIN <<>> = {}
        BY <4>2, AreSimples
      <4>4. 0 \in Indexes(u)
        BY <1>1, ScanAssumption DEF Indexes
      <4> QED
        BY <4>1, <4>3, <4>4, EmptySeq
    <3> QED
      BY <2>1, <3>1, <3>2
  <2>4. mixed \in Seq(Parts(u)) /\ <<p>> \in Seq(Parts(u)) /\ Tail(<<p>>) = <<>>
    BY <2>2, <2>3 DEF MixedParts
  <2>5. s \in Solving(u)
    <3> DEFINE q == <<p>>
    <3>1. q \in Seq(Parts(u)) /\ (q # <<>> => Tail(q) \in Seq(SimpleParts(u)))
      BY <2>4, EmptySeq
    <3> HIDE DEF q
    <3>2. s = [of |-> u, queue |-> q, simple |-> simple, mixed |-> mixed, result |-> NoUr]
      BY DEF q
    <3> HIDE DEF s
    <3>3. s \in [of : {u}, queue : Seq(Parts(u)), simple : Simples(u), mixed : Seq(Parts(u)), result : {NoUr, u}]
      BY <2>3, <2>4, <3>1, <3>2
    <3> QED
      BY <2>3, <3>1, <3>2, <3>3 DEF Solving
  <2> HIDE DEF s
  <2>6. r \in Solving(u)
    BY <2>2, <2>5, QueueProcessed
  <2> HIDE DEF r
  <2>7. /\ r.simple \in Simples(u) /\ r.mixed \in Seq(MixedParts(u, DOMAIN r.simple))
        /\ r.result \in {NoUr, u} /\ (r.result = NoUr <=> DOMAIN r.simple # Indexes(u))
    BY <2>6 DEF Solving
  <2> QED
    BY <1>1, <2>1, <2>2, <2>7 DEF Fountain
<1> QED
  BY <1>3, <1>4, <1>5

(* A part with a number: of a transaction that is not complete one is still *)
(* missing.                                                                 *)
LEMMA NumberAdded ==
    ASSUME ScanInv, NEW c \in Scanned, c.total \in Nat, ~Over, AddNumbered(c),
           qrType = NoType \/ qrType' = qrType, qrType' \in Animated
    PROVE  /\ Numbers' /\ UNCHANGED <<expected, simple, mixed, result>>
           /\ outcome' \in {"part_complete", "part_existing", "complete", "invalid", "raises"}
<1> DEFINE parts == IF segments = <<>> THEN [k \in 1..c.total |-> "missing"] ELSE segments
           at == Place(c)
           filled == [parts EXCEPT ![at] = c.of]
           full == \A k \in DOMAIN parts : k # at => parts[k] # "missing"
<1>0. UNCHANGED <<expected, simple, mixed, result>>
  BY DEF AddNumbered, KeepUr
<1>1. segments \in Seq(Range(segments)) /\ qrType' # NoType
  BY ScanAssumption DEF ScanInv, Numbers, Types, Looks, DetectionOrder, Animated
<1>2. \E n \in Nat : DOMAIN parts = 1..n /\ parts = [k \in 1..n |-> parts[k]]
  <2>1. CASE segments = <<>>
    BY <2>1
  <2>2. CASE segments # <<>>
    BY <1>1, <2>2
  <2> QED
    BY <2>1, <2>2
<1>3. /\ Len(parts) # c.total \/ at \notin DOMAIN parts => UNCHANGED segments /\ outcome' = "raises"
      /\ ~(Len(parts) # c.total \/ at \notin DOMAIN parts) =>
           IF parts[at] # "missing" THEN outcome' = "part_existing" /\ segments' = parts
           ELSE /\ segments' = filled
                /\ outcome' = IF ~full THEN "part_complete" ELSE IF IsValid(filled) THEN "complete" ELSE "invalid"
  BY DEF AddNumbered, Yields, KeepSegments
<1>4. qrType' \in {"psbt__specter", "psbt__bbqr"} /\ segments # <<>> => \E k \in DOMAIN segments : segments[k] = "missing"
  BY <1>1 DEF ScanInv, Numbers, Over
<1>5. \A f : (\E n \in Nat : DOMAIN f = 1..n /\ f = [k \in 1..n |-> f[k]]) => f \in Seq(Range(f))
  <2> SUFFICES ASSUME NEW f, NEW n \in Nat, DOMAIN f = 1..n, f = [k \in 1..n |-> f[k]] PROVE f \in Seq(Range(f))
    OBVIOUS
  <2>1. \A k \in 1..n : f[k] \in Range(f)
    BY DEF Range
  <2>2. f \in [1..n -> Range(f)]
    BY <2>1
  <2> QED
    BY <2>2
<1> HIDE DEF parts, at, full
<1>6. CASE Len(parts) # c.total \/ at \notin DOMAIN parts
  BY <1>0, <1>1, <1>3, <1>4, <1>6 DEF Numbers
<1>7. CASE at \in DOMAIN parts /\ Len(parts) = c.total /\ parts[at] # "missing"
  <2>1. outcome' = "part_existing" /\ segments' = parts
    BY <1>3, <1>7
  <2>2. parts = segments
    BY <1>7 DEF parts
  <2> QED
    BY <1>0, <1>1, <1>4, <2>1, <2>2 DEF Numbers
<1>8. CASE at \in DOMAIN parts /\ Len(parts) = c.total /\ parts[at] = "missing"
  <2>1. /\ segments' = filled
        /\ outcome' = IF ~full THEN "part_complete" ELSE IF IsValid(filled) THEN "complete" ELSE "invalid"
    BY <1>3, <1>8
  <2>2. filled \in Seq(Range(filled))
    <3>1. \E n \in Nat : DOMAIN filled = 1..n /\ filled = [k \in 1..n |-> filled[k]]
      BY <1>2
    <3> HIDE DEF filled
    <3> QED
      BY <1>5, <3>1
  <2>3. qrType' \in {"psbt__specter", "psbt__bbqr"} /\ outcome' # "complete" =>
          \E k \in DOMAIN filled : filled[k] = "missing"
    <3> SUFFICES ASSUME qrType' \in {"psbt__specter", "psbt__bbqr"}, outcome' # "complete"
                 PROVE  \E k \in DOMAIN filled : filled[k] = "missing"
      OBVIOUS
    <3>1. IsValid(filled)
      BY DEF IsValid
    <3>2. ~full
      BY <2>1, <3>1
    <3>3. PICK k \in DOMAIN parts : k # at /\ parts[k] = "missing"
      BY <3>2 DEF full
    <3> QED
      BY <1>2, <3>3
  <2> HIDE DEF filled
  <2>4. outcome' \in {"part_complete", "complete", "invalid"}
    BY <2>1
  <2> QED
    BY <1>0, <1>1, <2>1, <2>2, <2>3, <2>4 DEF Numbers
<1> QED
  BY <1>6, <1>7, <1>8

(* Every code, and leaving the scan, keeps the invariant of the scan.       *)
LEMMA ScanStep == ScanInv /\ [ScanNext]_scanVars => ScanInv'
<1> SUFFICES ASSUME ScanInv, [ScanNext]_scanVars PROVE ScanInv'
  OBVIOUS
<1>1. CASE UNCHANGED scanVars
  BY <1>1 DEF ScanInv, Fountain, Numbers, scanVars
<1>2. CASE Leave
  BY <1>2 DEF Leave, Yields, KeepSegments, KeepUr, Over, ScanInv, Fountain, Numbers
<1>3. ASSUME NEW c \in Scanned, AddData(c) PROVE ScanInv'
  <2> DEFINE t == TypeFor(mode, c, Preference)
  <2>1. ~Over /\ mode' = mode /\ qrType' = (IF qrType = NoType THEN t ELSE qrType)
    BY <1>3 DEF AddData
  <2>2. t \in Types /\ (t \in Ur \cup Animated => t \in c.looks)
    BY TypeIsSeen DEF ScanInv
  <2>3. /\ t # qrType' => outcome' = "raises" /\ KeepSegments /\ KeepUr
        /\ t = qrType' /\ t \in Ur => IF c.valid THEN AddUr(c) ELSE AddDamagedUr
        /\ t = qrType' /\ t \notin Ur /\ t \in Animated => AddNumbered(c)
        /\ t = qrType' /\ t \notin Ur /\ t \notin Animated =>
             outcome' = Outcome(mode, c, Preference) /\ KeepSegments /\ KeepUr
    BY <1>3 DEF AddData, Yields
  <2> HIDE DEF t
  <2>4. qrType' \in Types /\ mode' \in ScanModes /\ qrType' # NoType
    BY <2>1, <2>2, ScanAssumption DEF ScanInv
  <2>5. result = NoUr /\ outcome # "complete"
    BY <2>1 DEF ScanInv, Fountain, Over
  \* What is kept when the numbers of parts are.
  <2>6. KeepSegments => Numbers'
    <3> SUFFICES ASSUME KeepSegments PROVE Numbers'
      OBVIOUS
    <3>1. segments' = segments /\ (qrType = qrType' \/ segments = <<>>)
      BY <2>1 DEF KeepSegments, ScanInv, Numbers
    <3> QED
      BY <2>4, <2>5, <3>1 DEF ScanInv, Numbers
  <2>7. KeepUr => Fountain'
    BY <2>5 DEF KeepUr, ScanInv, Fountain
  <2>8. CASE t # qrType'
    BY <2>3, <2>4, <2>6, <2>7, <2>8 DEF ScanInv
  <2>9. CASE t = qrType' /\ t \in Ur
    <3>1. CASE c.valid
      <4>1. AddUr(c) /\ c.looks \cap Ur # {}
        BY <2>2, <2>3, <2>9, <3>1
      <4>2. Fountain' /\ outcome' \in {"part_complete", "complete"}
        BY <2>1, <3>1, <4>1, UrAdded
      <4>3. KeepSegments
        BY <4>1 DEF AddUr
      <4> QED
        BY <2>4, <2>6, <4>2, <4>3 DEF ScanInv
    <3>2. CASE ~c.valid
      <4>1. outcome' = "part_existing" /\ KeepSegments /\ KeepUr
        BY <2>3, <2>9, <3>2 DEF AddDamagedUr, Yields
      <4> QED
        BY <2>4, <2>6, <2>7, <4>1 DEF ScanInv
    <3> QED
      BY <3>1, <3>2
  <2>10. CASE t = qrType' /\ t \notin Ur /\ t \in Animated
    <3>1. AddNumbered(c) /\ c.total \in Nat /\ qrType' \in Animated /\ (qrType = NoType \/ qrType' = qrType)
      BY <2>1, <2>2, <2>3, <2>10, ScanAssumption
    <3>2. /\ Numbers' /\ UNCHANGED <<expected, simple, mixed, result>>
          /\ outcome' \in {"part_complete", "part_existing", "complete", "invalid", "raises"}
      BY <2>1, <3>1, NumberAdded
    <3> QED
      BY <2>4, <2>7, <3>2 DEF ScanInv, KeepUr
  <2>11. CASE t = qrType' /\ t \notin Ur /\ t \notin Animated
    <3>1. outcome' = Outcome(mode, c, Preference) /\ KeepSegments /\ KeepUr
      BY <2>3, <2>11
    <3>2. outcome' \in {"invalid", "raises", "complete"}
      BY <3>1 DEF Outcome
    <3> QED
      BY <2>4, <2>6, <2>7, <3>1, <3>2 DEF ScanInv
  <2> QED
    BY <2>8, <2>9, <2>10, <2>11
<1> QED
  BY <1>1, <1>2, <1>3 DEF ScanNext

(* The parts of a scan are of the UR they are taken for.                    *)
THEOREM ScanIsTyped == ScanSpec => []ScanTypeOK
<1>1. ScanInv => ScanTypeOK
  <2> SUFFICES ASSUME ScanInv PROVE ScanTypeOK
    OBVIOUS
  <2>1. \A k \in DOMAIN mixed : mixed[k].indexes \subseteq Indexes(expected)
    <3>1. CASE expected = NoUr
      BY <3>1, EmptySeq DEF ScanInv, Fountain
    <3>2. CASE expected # NoUr
      <4> SUFFICES ASSUME NEW k \in DOMAIN mixed PROVE mixed[k].indexes \subseteq Indexes(expected)
        OBVIOUS
      <4>1. mixed[k] \in Parts(expected) /\ expected \in Urs
        BY <3>2 DEF ScanInv, Fountain, MixedParts
      <4> QED
        BY <4>1, PartIs
    <3> QED
      BY <3>1, <3>2
  <2> QED
    BY <2>1 DEF ScanInv, Fountain, ScanModes, ScanTypeOK
<1> QED
  BY <1>1, ScanStart, ScanStep, PTL DEF ScanSpec

----------------------------------------------------------------------------
(* The share of a fragment in what the preview shows.                       *)
LEMMA SharesAre ==
    ASSUME ScanInv, expected # NoUr, NEW k
    PROVE  Score(k) \in 0..9 /\ (k \in DOMAIN simple => Score(k) = 0)
<1> DEFINE list == [n \in DOMAIN mixed |-> IF k \in mixed[n].indexes THEN Unit \div Cardinality(mixed[n].indexes) ELSE 0]
           N == Len(mixed)
<1>1. expected \in Urs /\ mixed \in Seq(MixedParts(expected, DOMAIN simple))
  BY DEF ScanInv, Fountain
<1>2. N \in Nat /\ DOMAIN mixed = 1..N
  BY <1>1
<1>3. \A n \in 1..N : list[n] \in Nat /\ (k \in DOMAIN simple => list[n] = 0)
  <2> TAKE n \in 1..N
  <2>1. mixed[n] \in Parts(expected) /\ mixed[n].indexes \cap DOMAIN simple = {}
    BY <1>1, <1>2 DEF MixedParts
  <2>2. Cardinality(mixed[n].indexes) \in Nat \ {0}
    BY <1>1, <2>1, PartIs
  <2>3. Unit \div Cardinality(mixed[n].indexes) \in Nat
    BY <2>2 DEF Unit
  <2> QED
    BY <1>2, <2>1, <2>3
<1>4. list \in Seq(Nat) /\ Len(list) = N
  <2>1. list = [n \in 1..N |-> list[n]]
    BY <1>2
  <2> HIDE DEF list
  <2>2. list \in [1..N -> Nat]
    BY <1>3, <2>1
  <2> QED
    BY <1>2, <2>2
<1>5. SumOf(list) \in Nat
  BY <1>4, SumsAre
<1>6. Score(k) = IF 4 * SumOf(list) > 36 THEN 9 ELSE SumOf(list)
  <2>1. (3 * Unit) \div 4 = 9 /\ 3 * Unit = 36
    BY DEF Unit
  <2> QED
    BY <2>1 DEF Score
<1>7. ASSUME k \in DOMAIN simple PROVE SumOf(list) = 0
  <2> HIDE DEF list
  <2>1. \A n \in 1..Len(list) : list[n] <= 0
    BY <1>3, <1>4, <1>7
  <2>2. SumOf(list) <= 0 * Len(list)
    BY <1>4, <2>1, SumIsBounded
  <2> QED
    BY <1>2, <1>4, <1>5, <2>2
<1> HIDE DEF list
<1> QED
  BY <1>5, <1>6, <1>7

(* A sum over all fragments to which those that are known add nothing, and  *)
(* the others nine at most.                                                 *)
LEMMA UnknownAddUp ==
    ASSUME NEW C \in Nat, NEW list \in Seq(Nat), Len(list) = C, NEW D \in SUBSET (0..(C - 1)),
           \A n \in 1..C : list[n] <= 9 /\ (n - 1 \in D => list[n] = 0)
    PROVE  /\ SumOf(list) \in Nat /\ Cardinality(D) \in Nat
           /\ SumOf(list) + 9 * Cardinality(D) <= 9 * C
<1> DEFINE s == Sums(list)
           Below(n) == D \cap 0..(n - 1)
           T == {n \in Nat : n <= C => s[n] + 9 * Cardinality(Below(n)) <= 9 * n}
<1>1. s \in [0..C -> Nat] /\ s[0] = 0 /\ (\A n \in 1..C : s[n] = s[n - 1] + list[n]) /\ SumOf(list) = s[C]
  BY SumsAre
<1>2. \A n \in Nat : IsFiniteSet(Below(n)) /\ Cardinality(Below(n)) \in Nat
  <2> TAKE n \in Nat
  <2> DEFINE U == 0..(n - 1)
  <2>1. IsFiniteSet(U)
    BY FS_Interval
  <2> HIDE DEF U
  <2>2. D \cap U \in SUBSET U
    OBVIOUS
  <2>3. IsFiniteSet(D \cap U)
    BY <2>1, <2>2, FS_Subset
  <2>4. Cardinality(D \cap U) \in Nat
    BY <2>3, FS_CardinalityType
  <2> QED
    BY <2>3, <2>4 DEF U
<1>3. Below(C) = D
  OBVIOUS
<1> HIDE DEF s
<1>4. 0 \in T
  <2>1. Below(0) = {}
    OBVIOUS
  <2>2. Cardinality(Below(0)) = 0
    BY <2>1, FS_EmptySet
  <2> QED
    BY <1>1, <2>2
<1>5. \A n \in Nat : n \in T => n + 1 \in T
  <2> SUFFICES ASSUME NEW n \in Nat, n + 1 <= C, s[n] + 9 * Cardinality(Below(n)) <= 9 * n
               PROVE  s[n + 1] + 9 * Cardinality(Below(n + 1)) <= 9 * (n + 1)
    OBVIOUS
  <2>1. n + 1 \in 1..C /\ (n + 1) - 1 = n /\ n \in 0..C
    OBVIOUS
  <2>2. s[n + 1] = s[n] + list[n + 1] /\ s[n] \in Nat
    BY <1>1, <2>1
  <2>3. list[n + 1] \in Nat /\ list[n + 1] <= 9 /\ (n \in D => list[n + 1] = 0)
    BY <2>1
  <2>4. CASE n \in D
    <3>1. Below(n + 1) = Below(n) \cup {n} /\ n \notin Below(n)
      BY <2>4
    <3> DEFINE B == Below(n)
    <3>2. IsFiniteSet(B) /\ Cardinality(B) \in Nat
      BY <1>2
    <3> HIDE DEF Below, B
    <3>3. Cardinality(Below(n + 1)) = Cardinality(B) + 1
      BY <3>1, <3>2, FS_AddElement DEF B
    <3> QED
      BY <2>2, <2>3, <2>4, <3>2, <3>3 DEF B
  <2>5. CASE n \notin D
    <3>1. Below(n + 1) = Below(n)
      BY <2>5
    <3>2. Cardinality(Below(n)) \in Nat
      BY <1>2
    <3> HIDE DEF Below
    <3> QED
      BY <2>2, <2>3, <3>1, <3>2
  <2> QED
    BY <2>4, <2>5
<1> HIDE DEF T
<1>6. C \in T
  BY <1>4, <1>5, Ind
<1> HIDE DEF Below
<1>7. s[C] + 9 * Cardinality(Below(C)) <= 9 * C
  BY <1>6 DEF T
<1> QED
  BY <1>1, <1>2, <1>3, <1>7

(* Less than all of it is less than 100 %.                                  *)
LEMMA LessThanAll ==
    ASSUME NEW a \in Nat, NEW b \in Nat \ {0}, a < b
    PROVE  (100 * a) \div b # 100
<1> DEFINE q == (100 * a) \div b
           rem == (100 * a) % b
<1>1. 100 * a = b * q + rem /\ rem \in 0..(b - 1)
  OBVIOUS
<1>2. ASSUME q = 100 PROVE FALSE
  <2>1. b * q = 100 * b
    BY <1>2
  <2> HIDE DEF q, rem
  <2> QED
    BY <1>1, <2>1
<1> QED
  BY <1>2

(* The preview tells 100 % of a scan that is complete only: of a UR as long *)
(* as a fragment counts for three quarters at most until it is known, of    *)
(* numbered parts as long as one is missing.                                *)
LEMMA PercentTells == ScanInv => (Percent = 100 => outcome = "complete")
<1> SUFFICES ASSUME ScanInv, Percent = 100, outcome # "complete" PROVE FALSE
  OBVIOUS
<1>1. CASE qrType \in Ur
  <2>1. PercentOfUr = 100 /\ result = NoUr
    <3>1. Percent = PercentOfUr
      BY <1>1 DEF Percent, Ur
    <3> QED
      BY <3>1 DEF ScanInv, Fountain
  <2>2. expected # NoUr
    BY <2>1 DEF PercentOfUr
  <2> DEFINE C == FragmentCount(expected)
             D == DOMAIN simple
             list == [n \in 1..C |-> Score(n - 1)]
             score == Unit * Cardinality(D) + SumOf(list)
  <2>3. expected \in Urs /\ C \in Nat \ {0} /\ D \in SUBSET Indexes(expected) /\ D # Indexes(expected)
    BY <2>1, <2>2, SimplesAre, ScanAssumption DEF ScanInv, Fountain
  <2>4. D \in SUBSET (0..(C - 1)) /\ D # 0..(C - 1)
    BY <2>3 DEF Indexes
  <2>5. (100 * score) \div (Unit * C) = 100
    BY <2>1, <2>2 DEF PercentOfUr
  <2> HIDE DEF C, D
  <2>6. \A n \in 1..C : Score(n - 1) \in 0..9 /\ (n - 1 \in D => Score(n - 1) = 0)
    BY <2>2, SharesAre DEF D
  <2>7. list \in Seq(Nat) /\ Len(list) = C /\ \A n \in 1..C : list[n] = Score(n - 1)
    <3>1. list \in [1..C -> Nat]
      BY <2>6
    <3>2. \A n \in 1..C : list[n] = Score(n - 1)
      OBVIOUS
    <3> HIDE DEF list
    <3> QED
      BY <2>3, <3>1, <3>2
  <2> DEFINE sum == SumOf(list)
             known == Cardinality(D)
  <2>8. sum \in Nat /\ known \in Nat /\ sum + 9 * known <= 9 * C
    <3>1. \A n \in 1..C : list[n] <= 9 /\ (n - 1 \in D => list[n] = 0)
      BY <2>6, <2>7
    <3> HIDE DEF list
    <3> QED
      BY <2>3, <2>4, <2>7, <3>1, UnknownAddUp
  <2>9. known < C
    <3> DEFINE U == 0..(C - 1)
    <3>1. IsFiniteSet(U) /\ Cardinality(U) = C
      BY <2>3, FS_Interval
    <3>2. D \in SUBSET U /\ D # U
      BY <2>4
    <3> HIDE DEF U
    <3>3. Cardinality(D) <= C /\ Cardinality(D) # C
      BY <3>1, <3>2, FS_Subset
    <3> QED
      BY <2>3, <2>8, <3>3
  <2>10. score = 12 * known + sum /\ Unit * C = 12 * C
    BY DEF Unit
  <2> HIDE DEF list, sum, known, score
  <2>11. score \in Nat /\ 12 * C \in Nat \ {0} /\ score < 12 * C
    BY <2>3, <2>8, <2>9, <2>10
  <2> QED
    BY <2>5, <2>10, <2>11, LessThanAll
<1>2. CASE qrType \in {"psbt__specter", "psbt__bbqr"}
  <2> DEFINE collected == {k \in DOMAIN segments : segments[k] # "missing"}
             N == Len(segments)
  <2>1. segments # <<>> /\ (100 * Cardinality(collected)) \div N = 100
    BY <1>2 DEF Percent, Ur
  <2>2. segments \in Seq(Range(segments)) /\ \E k \in DOMAIN segments : segments[k] = "missing"
    BY <1>2, <2>1 DEF ScanInv, Numbers
  <2>3. N \in Nat \ {0} /\ DOMAIN segments = 1..N
    BY <2>1, <2>2, EmptySeq
  <2>4. collected \in SUBSET (1..N) /\ collected # 1..N
    BY <2>2, <2>3
  <2> HIDE DEF collected, N
  <2>5. IsFiniteSet(1..N) /\ Cardinality(1..N) = N
    BY <2>3, FS_Interval
  <2>6. IsFiniteSet(collected) /\ Cardinality(collected) <= N /\ Cardinality(collected) # N
    BY <2>4, <2>5, FS_Subset
  <2>7. Cardinality(collected) \in Nat
    BY <2>6, FS_CardinalityType
  <2>8. Cardinality(collected) < N
    BY <2>3, <2>6, <2>7
  <2> QED
    BY <2>1, <2>3, <2>7, <2>8, LessThanAll
<1>3. CASE qrType \notin Ur /\ qrType \notin {"psbt__specter", "psbt__bbqr"}
  BY <1>3 DEF Percent
<1> QED
  BY <1>1, <1>2, <1>3

(* The fountain decoder solves a UR soundly and as far as the parts allow,  *)
(* for all URs, any number of fragments and any codes in any order, those   *)
(* of other animations among them (fountain_decoder.py:188, 256); the       *)
(* percentage of the preview (decode_qr.py) is 100 for complete scans only. *)
THEOREM EveryUrIsSolved == ScanSpec => []UrIsSolved
<1>1. ScanInv => UrIsSolved
  <2> SUFFICES ASSUME ScanInv PROVE UrIsSolved
    OBVIOUS
  <2>1. \A k \in DOMAIN simple : simple[k] = {<<expected, k>>}
    BY SimplesAre, EmptySeq DEF ScanInv, Fountain
  <2>2. ASSUME NEW k \in DOMAIN mixed
        PROVE  mixed[k].data = Fragments(expected, mixed[k].indexes) /\ mixed[k].indexes \cap DOMAIN simple = {}
    <3>1. CASE expected = NoUr
      BY <2>2, <3>1, EmptySeq DEF ScanInv, Fountain
    <3>2. CASE expected # NoUr
      <4>1. mixed[k] \in Parts(expected) /\ expected \in Urs /\ mixed[k].indexes \cap DOMAIN simple = {}
        BY <3>2 DEF ScanInv, Fountain, MixedParts
      <4> QED
        BY <4>1, PartIs
    <3> QED
      BY <3>1, <3>2
  <2>3. result # "bad_checksum" /\ (expected # NoUr /\ DOMAIN simple = Indexes(expected) => result = expected)
    BY ScanAssumption DEF ScanInv, Fountain
  <2>4. Percent = 100 => outcome = "complete"
    BY PercentTells
  <2> HIDE DEF ScanInv
  <2> QED
    BY <2>1, <2>2, <2>3, <2>4 DEF UrIsSolved
<1> QED
  BY <1>1, ScanStart, ScanStep, PTL DEF ScanSpec

----------------------------------------------------------------------------
(* Keys for an OpenPGP card *)

(* The slots of the card.                                                   *)
SlotNames == {"s", "e", "a"}
CardKeys == {Primary} \cup Range(Subkeys)

(* A key is moved, or imported, where it may be, or was chosen.             *)
Fits(f, k) == IF sel = Whole THEN f \in Caps(k) ELSE k = sel[f]

(* The subkeys are a list of their own elements, and the key at the number  *)
(* of a key (gpg's "key n") is this key.                                    *)
LEMMA SubkeysAre ==
    /\ Len(Subkeys) \in Nat /\ DOMAIN Subkeys = 1..Len(Subkeys)
    /\ \A n \in DOMAIN Subkeys : Subkeys[n] \in Range(Subkeys)
    /\ \A k \in Range(Subkeys) : NthKey(k) = k
<1>1. Len(Subkeys) \in Nat /\ DOMAIN Subkeys = 1..Len(Subkeys) /\ \A n \in DOMAIN Subkeys : Subkeys[n] \in Range(Subkeys)
  BY CardAssumption
<1>2. ASSUME NEW k \in Range(Subkeys) PROVE NthKey(k) = k
  <2>1. \E i \in DOMAIN Subkeys : Subkeys[i] = k
    BY DEF Range
  <2> QED
    BY <2>1 DEF NthKey
<1> QED
  BY <1>1, <1>2

(* A slot that is found for a key is one the key may be used in.            *)
LEMMA SlotForFits ==
    ASSUME NEW k, NEW used
    PROVE  SlotFor(k, used) = "none" \/ (SlotFor(k, used) \in SlotNames /\ SlotFor(k, used) \in Caps(k))
<1> DEFINE free == {n \in DOMAIN Slots : Slots[n] \in Caps(k) /\ Slots[n] \notin used}
<1>1. CASE free = {}
  BY <1>1 DEF SlotFor
<1>2. CASE free # {}
  <2>1. free \in SUBSET Nat /\ DOMAIN Slots = 1..3
    BY DEF Slots
  <2>2. Min(free) \in free
    <3> HIDE DEF free
    <3> QED
      BY <1>2, <2>1, SmallestIs
  <2>3. SlotFor(k, used) = Slots[Min(free)]
    BY <1>2 DEF SlotFor
  <2>4. \A n \in DOMAIN Slots : Slots[n] \in SlotNames
    BY DEF Slots, SlotNames
  <2> QED
    BY <2>2, <2>3, <2>4
<1> QED
  BY <1>1, <1>2

(* The moves of a whole key.                                                *)
FittingMoves == {move \in SlotNames \X CardKeys : move[1] \in Caps(move[2])}
FirstMove == IF SignKey = Primary /\ "s" \notin Caps(Primary) THEN <<>> ELSE << <<"s", SignKey>> >>
WithMove(moves, k) ==
    LET f == SlotFor(k, {moves[i][1] : i \in DOMAIN moves})
    IN IF k = SignKey \/ f = "none" THEN moves ELSE Append(moves, <<f, NthKey(k)>>)
Moves ==
    CHOOSE moved : moved = [n \in 0..Len(Subkeys) |-> IF n = 0 THEN FirstMove ELSE WithMove(moved[n - 1], Subkeys[n])]

(* Of a whole key every move is of a key into a slot it may be used in.     *)
LEMMA WholeFits == MovedWhole \in Seq(FittingMoves)
<1> DEFINE N == Len(Subkeys)
           X == Seq(FittingMoves)
           g == [n \in 1..N |-> [x \in X |-> WithMove(x, Subkeys[n])]]
<1>1. N \in Nat /\ DOMAIN Subkeys = 1..N /\ \A n \in 1..N : Subkeys[n] \in Range(Subkeys) /\ NthKey(Subkeys[n]) = Subkeys[n]
  BY SubkeysAre
<1>2. SignKey \in CardKeys /\ (SignKey # Primary => "s" \in Caps(SignKey))
  <2> DEFINE can == {i \in DOMAIN Subkeys : "s" \in Caps(Subkeys[i])}
  <2>1. CASE can = {}
    BY <2>1 DEF SignKey, CardKeys
  <2>2. CASE can # {}
    <3>1. can \in SUBSET Nat
      BY <1>1
    <3>2. Min(can) \in can /\ \A j \in can : Min(can) <= j
      <4> HIDE DEF can
      <4> QED
        BY <2>2, <3>1, SmallestIs
    <3> DEFINE i == CHOOSE i \in can : \A j \in can : i <= j
    <3>3. i \in can
      <4> HIDE DEF can
      <4> QED
        BY <3>2
    <3>4. SignKey = Subkeys[i]
      BY <2>2 DEF SignKey
    <3> HIDE DEF i
    <3> QED
      BY <1>1, <3>3, <3>4 DEF CardKeys
  <2> QED
    BY <2>1, <2>2
<1>3. FirstMove \in X
  <2>1. CASE SignKey = Primary /\ "s" \notin Caps(Primary)
    BY <2>1 DEF FirstMove
  <2>2. CASE ~(SignKey = Primary /\ "s" \notin Caps(Primary))
    <3> DEFINE move == <<"s", SignKey>>
    <3>1. move \in FittingMoves
      BY <1>2, <2>2 DEF FittingMoves, SlotNames
    <3>2. FirstMove = <<move>>
      BY <2>2 DEF FirstMove
    <3> HIDE DEF move
    <3> QED
      BY <3>1, <3>2
  <2> QED
    BY <2>1, <2>2
<1>4. \A x \in X, n \in 1..N : WithMove(x, Subkeys[n]) \in X
  <2> SUFFICES ASSUME NEW x \in X, NEW n \in 1..N PROVE WithMove(x, Subkeys[n]) \in X
    OBVIOUS
  <2> DEFINE k == Subkeys[n]
             f == SlotFor(k, {x[i][1] : i \in DOMAIN x})
             move == <<f, NthKey(k)>>
  <2>1. k \in CardKeys /\ NthKey(k) = k
    BY <1>1 DEF CardKeys
  <2>2. WithMove(x, k) = IF k = SignKey \/ f = "none" THEN x ELSE Append(x, move)
    BY DEF WithMove
  <2>3. f = "none" \/ (f \in SlotNames /\ f \in Caps(k))
    BY SlotForFits
  <2> HIDE DEF f, k
  <2>4. f # "none" => move \in FittingMoves
    BY <2>1, <2>3 DEF FittingMoves
  <2> HIDE DEF move
  <2>5. WithMove(x, k) \in X
    BY <2>2, <2>4
  <2> QED
    BY <2>5 DEF k
<1> HIDE DEF X, N
<1>5. g \in Steps(N, X)
  BY <1>4 DEF Steps
<1>6. \A n \in 1..N, x \in X : g[n][x] = WithMove(x, Subkeys[n])
  OBVIOUS
<1> HIDE DEF g
<1>7. PICK h : Follows(h, FirstMove, N, X, g)
  BY <1>1, <1>3, <1>5, Iterate
<1>8. h = [n \in 0..N |-> IF n = 0 THEN FirstMove ELSE WithMove(h[n - 1], Subkeys[n])]
  <2>1. \A n \in 0..N : h[n] = IF n = 0 THEN FirstMove ELSE WithMove(h[n - 1], Subkeys[n])
    <3> TAKE n \in 0..N
    <3>1. CASE n = 0
      BY <1>7, <3>1 DEF Follows
    <3>2. CASE n # 0
      <4>1. n \in 1..N /\ n - 1 \in 0..N
        BY <1>1, <3>2
      <4>2. h[n - 1] \in X /\ h[n] = g[n][h[n - 1]]
        BY <1>7, <4>1 DEF Follows
      <4> QED
        BY <1>6, <3>2, <4>1, <4>2
    <3> QED
      BY <3>1, <3>2
  <2> QED
    BY <1>7, <2>1 DEF Follows
<1>9. Moves = [n \in 0..N |-> IF n = 0 THEN FirstMove ELSE WithMove(Moves[n - 1], Subkeys[n])]
  BY <1>8 DEF Moves, N
<1> DEFINE T == {n \in Nat : n <= N => Moves[n] \in X}
<1>10. 0 \in T
  BY <1>1, <1>3, <1>9
<1>11. \A n \in Nat : n \in T => n + 1 \in T
  <2> SUFFICES ASSUME NEW n \in Nat, n + 1 <= N, Moves[n] \in X PROVE Moves[n + 1] \in X
    BY <1>1
  <2>1. n + 1 \in 1..N /\ n + 1 \in 0..N /\ (n + 1) - 1 = n /\ n + 1 # 0
    BY <1>1
  <2>2. Moves[n + 1] = WithMove(Moves[n], Subkeys[n + 1])
    BY <1>9, <2>1
  <2> QED
    BY <1>4, <2>1, <2>2
<1> HIDE DEF T
<1>12. N \in T
  BY <1>1, <1>10, <1>11, Ind
<1>13. Moves[N] \in X
  BY <1>1, <1>12 DEF T
<1>14. MovedWhole = Moves[N]
  BY DEF MovedWhole, Moves, FirstMove, WithMove, N
<1> QED
  BY <1>13, <1>14 DEF X

(* The slots that were chosen for, in their order, and only these.          *)
LEMMA ChosenSlotsAre ==
    /\ ChosenSlots \in Seq(SlotNames) /\ Len(ChosenSlots) \in Nat /\ DOMAIN ChosenSlots = 1..Len(ChosenSlots)
    /\ \A i \in DOMAIN ChosenSlots : ChosenSlots[i] \in SlotNames /\ Chosen(ChosenSlots[i])
<1> DEFINE P == {n \in DOMAIN Slots : Chosen(Slots[n])}
           T == {f \in SlotNames : Chosen(f)}
<1>1. Slots \in Seq(SlotNames) /\ P \in SUBSET (DOMAIN Slots) /\ \A n \in P : Slots[n] \in T
  BY DEF Slots, SlotNames
<1>2. ChosenSlots = Those(Slots, P)
  BY DEF ChosenSlots
<1> HIDE DEF P, T
<1>3. ChosenSlots \in Seq(T)
  BY <1>1, <1>2, ThoseAreSeq
<1> QED
  BY <1>3 DEF T

(* With no subkeys chosen every slot counts as chosen for.                  *)
LEMMA WholeIsChosen == sel = Whole => \A f \in SlotNames : sel[f] = Primary
BY DEF Whole, SlotNames

(* Every key goes where it may be, or where it was chosen for.              *)
LEMMA MovedFits ==
    ASSUME sel \in Selections
    PROVE  /\ Len(Moved) \in Nat /\ DOMAIN Moved = 1..Len(Moved) /\ Moved \in Seq(Range(Moved))
           /\ \A i \in DOMAIN Moved : Moved[i][1] \in SlotNames /\ Fits(Moved[i][1], Moved[i][2])
<1>1. CASE sel = Whole
  <2>1. Moved = MovedWhole /\ MovedWhole \in Seq(FittingMoves)
    BY <1>1, WholeFits DEF Moved
  <2>2. \A i \in DOMAIN Moved : Moved[i] \in FittingMoves
    BY <2>1
  <2>3. Moved \in Seq(Range(Moved))
    BY <2>1, SeqOfRange DEF Range
  <2> QED
    BY <1>1, <2>1, <2>2, <2>3 DEF FittingMoves, Fits
<1>2. CASE sel # Whole
  <2>1. Moved = [i \in DOMAIN ChosenSlots |-> <<ChosenSlots[i], NthKey(sel[ChosenSlots[i]])>>]
    BY <1>2 DEF Moved, MovedChosen
  <2>2. \A f \in SlotNames : Chosen(f) => NthKey(sel[f]) = sel[f]
    <3> SUFFICES ASSUME NEW f \in SlotNames, Chosen(f) PROVE NthKey(sel[f]) = sel[f]
      OBVIOUS
    <3>1. sel[f] \in Range(Subkeys)
      BY <1>2 DEF Selections, Chosen, Range, SlotNames
    <3> QED
      BY <3>1, SubkeysAre
  <2>3. ASSUME NEW i \in DOMAIN ChosenSlots PROVE Moved[i][1] \in SlotNames /\ Fits(Moved[i][1], Moved[i][2])
    <3>1. ChosenSlots[i] \in SlotNames /\ Chosen(ChosenSlots[i])
      BY ChosenSlotsAre
    <3>2. Moved[i] = <<ChosenSlots[i], sel[ChosenSlots[i]]>>
      BY <2>1, <2>2, <3>1
    <3> QED
      BY <1>2, <3>1, <3>2 DEF Fits
  <2>4. DOMAIN Moved = 1..Len(ChosenSlots) /\ Len(ChosenSlots) \in Nat
    BY <2>1, ChosenSlotsAre
  <2>5. \A i \in 1..Len(ChosenSlots) : Moved[i] \in Range(Moved)
    BY <2>4 DEF Range
  <2>6. Moved = [i \in 1..Len(ChosenSlots) |-> Moved[i]]
    BY <2>1, <2>4
  <2>7. Moved \in Seq(Range(Moved)) /\ Len(Moved) = Len(ChosenSlots)
    BY <2>4, <2>5, <2>6
  <2> QED
    BY <2>3, <2>4, <2>7, ChosenSlotsAre
<1> QED
  BY <1>1, <1>2

(* The same of what the importer writes, if it has a slot for it.           *)
LEMMA ImportedFits ==
    /\ Len(Imported) \in Nat /\ DOMAIN Imported = 1..Len(Imported) /\ Imported \in Seq(Range(Imported))
    /\ \A i \in DOMAIN Imported : Imported[i][1] \in SlotNames => Fits(Imported[i][1], Imported[i][2])
<1>1. CASE sel # Whole
  <2>1. Imported = [i \in DOMAIN ChosenSlots |-> <<ChosenSlots[i], sel[ChosenSlots[i]]>>]
    BY <1>1 DEF Imported
  <2>2. \A i \in DOMAIN Imported : Fits(Imported[i][1], Imported[i][2])
    BY <1>1, <2>1 DEF Fits
  <2>4. DOMAIN Imported = 1..Len(ChosenSlots) /\ Len(ChosenSlots) \in Nat
    BY <2>1, ChosenSlotsAre
  <2>5. \A i \in 1..Len(ChosenSlots) : Imported[i] \in Range(Imported)
    BY <2>4 DEF Range
  <2>6. Imported = [i \in 1..Len(ChosenSlots) |-> Imported[i]]
    BY <2>1, <2>4
  <2>7. Imported \in Seq(Range(Imported)) /\ Len(Imported) = Len(ChosenSlots)
    BY <2>4, <2>5, <2>6
  <2> QED
    BY <2>2, <2>4, <2>7
<1>2. CASE sel = Whole
  <2> DEFINE P == {n \in DOMAIN Subkeys : Caps(Subkeys[n]) # {}}
             ks == IF Subkeys = <<>> THEN <<Primary>> ELSE Those(Subkeys, P)
  <2>1. Imported = [i \in DOMAIN ks |-> <<SlotFor(ks[i], {}), ks[i]>>]
    BY <1>2 DEF Imported
  <2>2. ks \in Seq(CardKeys)
    <3>1. P \in SUBSET (DOMAIN Subkeys) /\ \A n \in P : Subkeys[n] \in CardKeys
      BY SubkeysAre DEF CardKeys
    <3>2. Subkeys \in Seq(Range(Subkeys))
      BY CardAssumption
    <3> HIDE DEF P
    <3>3. Those(Subkeys, P) \in Seq(CardKeys)
      BY <3>1, <3>2, ThoseAreSeq
    <3>4. <<Primary>> \in Seq(CardKeys)
      BY DEF CardKeys
    <3> QED
      BY <3>3, <3>4
  <2> HIDE DEF ks
  <2>3. Len(ks) \in Nat /\ DOMAIN Imported = 1..Len(ks)
    BY <2>1, <2>2
  <2>4. ASSUME NEW i \in DOMAIN Imported, Imported[i][1] \in SlotNames PROVE Fits(Imported[i][1], Imported[i][2])
    <3>1. Imported[i] = <<SlotFor(ks[i], {}), ks[i]>>
      BY <2>1, <2>4
    <3>2. SlotFor(ks[i], {}) # "none"
      BY <2>4, <3>1 DEF SlotNames
    <3>3. SlotFor(ks[i], {}) \in Caps(ks[i])
      BY <3>2, SlotForFits
    <3> QED
      BY <1>2, <3>1, <3>3 DEF Fits
  <2>5. \A i \in 1..Len(ks) : Imported[i] \in Range(Imported)
    BY <2>3 DEF Range
  <2>6. Imported = [i \in 1..Len(ks) |-> Imported[i]]
    BY <2>1, <2>3
  <2>7. Imported \in Seq(Range(Imported)) /\ Len(Imported) = Len(ks)
    BY <2>3, <2>5, <2>6
  <2> QED
    BY <2>3, <2>4, <2>7
<1> QED
  BY <1>1, <1>2

(* What is moved and imported depends on the selection alone.               *)
LEMMA SameSelection ==
    ASSUME sel' = sel
    PROVE  /\ Imported' = Imported /\ Moved' = Moved
           /\ \A f : Chosen(f)' <=> Chosen(f)
<1>1. \A f : Chosen(f)' <=> Chosen(f)
  BY DEF Chosen
<1>2. ChosenSlots' = ChosenSlots
  BY DEF ChosenSlots, Chosen
<1>3. MovedChosen' = MovedChosen
  BY <1>2 DEF MovedChosen
<1>4. Moved' = Moved
  BY <1>3 DEF Moved
<1>5. Imported' = Imported
  BY <1>2 DEF Imported
<1> QED
  BY <1>1, <1>4, <1>5

----------------------------------------------------------------------------
(* A slot that was written holds what fits, under its own fingerprint.      *)
SlotFits(f) ==
    f \in SlotNames => prints[f] = slots[f] /\ Fits(f, slots[f])

(* The importer: all but what is left is written, of a key whose fingerprint *)
(* is to follow the key is.                                                 *)
Importing ==
    \E n \in 0..Len(Imported) :
        /\ keysLeft \in Seq(Range(Imported)) /\ Len(keysLeft) = Len(Imported) - n
        /\ \A i \in 1..Len(keysLeft) : keysLeft[i] = Imported[n + i]
        /\ step = "key" => \A i \in 1..n : SlotFits(Imported[i][1])
        /\ step = "print" =>
             /\ n < Len(Imported)
             /\ \A i \in 1..n : Imported[i][1] # Imported[n + 1][1] => SlotFits(Imported[i][1])
             /\ Imported[n + 1][1] \in SlotNames => slots[Imported[n + 1][1]] = Imported[n + 1][2]

(* What holds of a card after any steps.                                    *)
CardInv ==
    /\ CardTypeOK
    /\ DOMAIN slots = SlotNames /\ DOMAIN prints = SlotNames
    /\ step # "menu" => cardTold = "nothing"
    /\ SlotsFit
    /\ step \in {"key", "print"} => Importing

(* A card without keys, and nothing told.                                   *)
LEMMA CardStart == CardInit => CardInv
<1> SUFFICES ASSUME CardInit PROVE CardInv
  OBVIOUS
<1>1. Whole \in Selections
  BY DEF Selections
<1> QED
  BY <1>1, CardAssumption DEF CardInit, CardInv, CardTypeOK, SlotsFit, SlotNames, Empty

(* What gpg moved last into a slot stays there.                             *)
LastMoved(f) == Moved[Max({i \in DOMAIN Moved : Moved[i][1] = f})][2]

(* What gpg wrote after all moves: in a slot it moved to, the key it moved  *)
(* there last, which fits.                                                  *)
LEMMA WrittenIs ==
    ASSUME sel \in Selections, NEW s, NEW n \in 0..Len(Moved)
    PROVE  /\ DOMAIN Written(s, SubSeq(Moved, 1, n)) = DOMAIN s
           /\ n = Len(Moved) => \A f \in DOMAIN s :
                (\E j \in DOMAIN Moved : Moved[j][1] = f) =>
                    Written(s, SubSeq(Moved, 1, n))[f] = LastMoved(f) /\ Fits(f, LastMoved(f))
<1>1. DOMAIN Written(s, SubSeq(Moved, 1, n)) = DOMAIN s
  BY DEF Written
<1>2. /\ Len(Moved) \in Nat /\ DOMAIN Moved = 1..Len(Moved) /\ Moved \in Seq(Range(Moved))
      /\ \A i \in DOMAIN Moved : Moved[i][1] \in SlotNames /\ Fits(Moved[i][1], Moved[i][2])
  BY MovedFits
<1>3. ASSUME n = Len(Moved), NEW f \in DOMAIN s, NEW j \in DOMAIN Moved, Moved[j][1] = f
      PROVE  Written(s, SubSeq(Moved, 1, n))[f] = LastMoved(f) /\ Fits(f, LastMoved(f))
  <2>1. SubSeq(Moved, 1, n) = Moved
    BY <1>2, <1>3, SubSeqFull
  <2> DEFINE into == {i \in DOMAIN Moved : Moved[i][1] = f}
             last == Max(into)
  <2>2. into \in SUBSET Nat /\ into # {} /\ \A i \in into : i <= Len(Moved)
    BY <1>2, <1>3
  <2>3. last \in into
    <3> HIDE DEF into
    <3> QED
      BY <1>2, <2>2, LargestIs
  <2>4. Written(s, Moved)[f] = Moved[last][2] /\ LastMoved(f) = Moved[last][2]
    BY <1>3, <2>2 DEF Written, LastMoved
  <2> HIDE DEF last
  <2> QED
    BY <1>2, <2>1, <2>3, <2>4
<1> QED
  BY <1>1, <1>3

\* What an import that ends leaves.
LEMMA Ended ==
    ASSUME NEW what, EndImport(what)
    PROVE  step' = "menu" /\ cardTold' = what /\ sel' = sel
BY DEF EndImport

(* A PIN that is tried leaves a number of tries.                            *)
LEMMA Tried == ASSUME CardTypeOK, NEW p, Try(p) PROVE pinTries' \in 0..MaxTries
BY CardAssumption DEF CardTypeOK, Try

(* A step that leaves the card and the selection alone keeps a true answer  *)
(* true.                                                                    *)
LEMMA StillFits ==
    ASSUME SlotsFit, sel' = sel, cardTold' = "imported" => cardTold = "imported", UNCHANGED <<slots, prints>>
    PROVE  SlotsFit'
<1>1. Imported' = Imported /\ Moved' = Moved /\ Whole' = Whole /\ \A f : Chosen(f)' <=> Chosen(f)
  BY SameSelection DEF Whole
<1> QED
  BY <1>1 DEF SlotsFit

(* A step that does not tell of an import has nothing to keep.              *)
LEMMA NotImported == ASSUME cardTold' # "imported" PROVE SlotsFit'
BY DEF SlotsFit

\* Steps that leave the card, and what is imported, alone.
LEMMA OtherCardStep ==
    ASSUME CardInv,
           Insert \/ GoHome \/ ChangeAdminPin \/ ChooseKeys \/ ReplaceDefault \/ AskPin \/ CheckKeys
    PROVE  CardInv'
<1>1. step \in {"menu", "ask", "check"}
  BY DEF Insert, GoHome, ChangeAdminPin, ChooseKeys, ReplaceDefault, AskPin, CheckKeys
<1>2. CASE Insert
  <2>1. CardTypeOK'
    BY <1>2, CardAssumption DEF Insert, CardInv, CardTypeOK, Selections
  <2>2. DOMAIN slots' = SlotNames /\ DOMAIN prints' = SlotNames /\ cardTold' = "nothing" /\ step' = step
    BY <1>2 DEF Insert, Empty, SlotNames
  <2> QED
    BY <1>1, <2>1, <2>2, NotImported DEF CardInv
<1>3. CASE GoHome
  <2>1. step' = "menu" /\ UNCHANGED <<pin, pinTries, slots, prints, sel, cardTold>> /\ cached' = NoPin
    BY <1>3 DEF GoHome
  <2>2. CardTypeOK' /\ SlotsFit'
    BY <2>1, StillFits DEF CardInv, CardTypeOK, Selections
  <2> QED
    BY <2>1, <2>2 DEF CardInv
<1>4. CASE ChangeAdminPin
  <2>1. PICK old \in Pins \cup {DefaultPin}, new \in Pins :
         /\ Try(old)
         /\ pin' = IF Right(old) THEN new ELSE pin
         /\ cardTold' = IF Right(old) THEN "changed" ELSE "not changed"
    BY <1>4 DEF ChangeAdminPin
  <2>2. step = "menu" /\ UNCHANGED <<slots, prints, cached, step, sel>>
    BY <1>4 DEF ChangeAdminPin
  <2>3. pinTries' \in 0..MaxTries
    BY <2>1, Tried DEF CardInv
  <2>4. CardTypeOK'
    BY <2>1, <2>2, <2>3 DEF CardInv, CardTypeOK, Selections
  <2>5. cardTold' # "imported"
    BY <2>1
  <2> QED
    BY <2>2, <2>4, <2>5, NotImported DEF CardInv
<1>5. CASE ChooseKeys
  <2>1. step' = "ask" /\ sel' \in Selections /\ cardTold' = "nothing" /\ UNCHANGED <<pin, pinTries, slots, prints, cached>>
    BY <1>5 DEF ChooseKeys
  <2>2. CardTypeOK'
    BY <2>1 DEF CardInv, CardTypeOK, Selections
  <2> QED
    BY <2>1, <2>2, NotImported DEF CardInv
<1>6. CASE ReplaceDefault
  <2>1. step = "ask" /\ Try(DefaultPin) /\ UNCHANGED <<slots, prints>> /\ cardTold = "nothing"
    BY <1>6 DEF ReplaceDefault, CardInv
  <2>2. PICK new \in Pins :
         IF Right(DefaultPin)
         THEN /\ pin' = new
              /\ cached' = new
              /\ \/ step' = "check" /\ admin' = new /\ UNCHANGED <<sel, keysLeft, cardTold>>
                 \/ EndImport("no user PIN")
         ELSE EndImport("not changed") /\ UNCHANGED <<pin, cached>>
    BY <1>6 DEF ReplaceDefault
  <2>3. /\ pin' \in Pins \cup {DefaultPin} /\ cached' \in Pins \cup {NoPin} /\ sel' = sel
        /\ \/ step' = "check" /\ cardTold' = "nothing"
           \/ step' = "menu" /\ cardTold' \in {"no user PIN", "not changed"}
    BY <2>1, <2>2, Ended DEF CardInv, CardTypeOK
  <2>4. CardTypeOK'
    BY <2>1, <2>3, Tried DEF CardInv, CardTypeOK, Selections
  <2> QED
    BY <2>1, <2>3, <2>4, NotImported DEF CardInv
<1>7. CASE AskPin
  <2>1. step = "ask" /\ UNCHANGED <<pin, pinTries, slots, prints, sel, keysLeft>> /\ cardTold = "nothing"
    BY <1>7 DEF AskPin, CardInv
  <2>2. /\ cached' \in Pins \cup {NoPin}
        /\ \/ step' = "check" /\ cardTold' = "nothing"
           \/ step' = "menu" /\ cardTold' = "back"
    BY <1>7, <2>1 DEF AskPin, CardInv, CardTypeOK
  <2>3. CardTypeOK'
    BY <2>1, <2>2 DEF CardInv, CardTypeOK, Selections
  <2> QED
    BY <2>1, <2>2, <2>3, NotImported DEF CardInv
<1>8. CASE CheckKeys
  <2>1. step = "check" /\ UNCHANGED <<pin, slots, prints>> /\ cardTold = "nothing"
    BY <1>8 DEF CheckKeys, CardInv
  <2>2. /\ cached' \in {cached, NoPin} /\ sel' = sel
        /\ pinTries' = pinTries \/ Try(admin)
        /\ \/ step' = "gpg" /\ cardTold' = "nothing"
           \/ step' = "menu" /\ cardTold' \in {"refused", "failed", "wrong PIN"}
    BY <1>8, <2>1, Ended DEF CheckKeys
  <2>3. pinTries' \in 0..MaxTries
    BY <2>2, Tried DEF CardInv, CardTypeOK
  <2>4. CardTypeOK'
    BY <2>1, <2>2, <2>3 DEF CardInv, CardTypeOK, Selections
  <2> QED
    BY <2>1, <2>2, <2>4, NotImported DEF CardInv
<1> QED
  BY <1>2, <1>3, <1>4, <1>5, <1>6, <1>7, <1>8

(* gpg moves all keys, or fails after some.                                 *)
LEMMA GpgStep == ASSUME CardInv, Gpg PROVE CardInv'
<1>1. step = "gpg" /\ Try(admin) /\ UNCHANGED <<pin, cached>> /\ cardTold = "nothing"
  BY DEF Gpg, CardInv
<1>2. PICK n \in 0..Len(Moved) :
         /\ n > 0 => Right(admin)
         /\ slots' = Written(slots, SubSeq(Moved, 1, n))
         /\ prints' = Written(prints, SubSeq(Moved, 1, n))
         /\ \/ n = Len(Moved) /\ Right(admin) /\ EndImport("imported")
            \/ (n < Len(Moved) \/ ~Right(admin)) /\ step' = "fallback" /\ UNCHANGED <<admin, sel, keysLeft, cardTold>>
  BY DEF Gpg
<1>3. sel' = sel /\ sel \in Selections
  BY <1>2 DEF EndImport, CardInv, CardTypeOK
<1>4. /\ DOMAIN slots' = SlotNames /\ DOMAIN prints' = SlotNames
      /\ n = Len(Moved) => \A f \in SlotNames :
           (\E j \in DOMAIN Moved : Moved[j][1] = f) =>
               slots'[f] = LastMoved(f) /\ prints'[f] = LastMoved(f) /\ Fits(f, LastMoved(f))
  BY <1>2, <1>3, WrittenIs DEF CardInv
<1>5. step' \in {"menu", "fallback"} /\ (step' # "menu" => cardTold' = "nothing")
  BY <1>1, <1>2 DEF EndImport
<1>6. CardTypeOK'
  BY <1>1, <1>3, <1>5, Tried DEF CardInv, CardTypeOK, Selections
<1>7. SlotsFit'
  <2>1. CASE cardTold' # "imported"
    BY <2>1, NotImported
  <2>2. CASE cardTold' = "imported"
    <3>1. n = Len(Moved)
      BY <1>1, <1>2, <2>2
    <3>2. Imported' = Imported /\ Moved' = Moved /\ Whole' = Whole
      BY <1>3, SameSelection DEF Whole
    <3>3. ASSUME NEW f, \E j \in DOMAIN Moved : Moved[j][1] = f
          PROVE  /\ prints'[f] = slots'[f]
                 /\ IF sel = Whole THEN f \in Caps(slots'[f]) ELSE slots'[f] = sel[f]
      <4>1. f \in SlotNames
        BY <1>3, <3>3, MovedFits
      <4> QED
        BY <1>4, <3>1, <3>3, <4>1 DEF Fits
    <3> QED
      BY <1>3, <3>2, <3>3 DEF SlotsFit
  <2> QED
    BY <2>1, <2>2
<1> QED
  BY <1>4, <1>5, <1>6, <1>7 DEF CardInv

(* The importer starts with all that is to be imported.                     *)
LEMMA FallbackStep == ASSUME CardInv, Fallback PROVE CardInv'
<1>1. step = "fallback" /\ UNCHANGED <<pin, slots, prints>> /\ cardTold = "nothing" /\ sel \in Selections
  BY DEF Fallback, CardInv, CardTypeOK
<1>2. /\ cached' \in {cached, NoPin} /\ sel' = sel
      /\ pinTries' = pinTries \/ Try(admin)
      /\ \/ step' = "key" /\ cardTold' = "nothing" /\ keysLeft' = Imported
         \/ step' = "menu" /\ cardTold' \in {"failed", "wrong PIN"}
  BY <1>1, Ended DEF Fallback
<1>3. pinTries' \in 0..MaxTries
  BY <1>2, Tried DEF CardInv, CardTypeOK
<1>4. CardTypeOK'
  BY <1>1, <1>2, <1>3 DEF CardInv, CardTypeOK, Selections
<1>5. step' = "key" => Importing'
  <2> SUFFICES ASSUME step' = "key" PROVE Importing'
    OBVIOUS
  <2>1. keysLeft' = Imported /\ Imported' = Imported /\ step' = "key"
    BY <1>2, SameSelection
  <2>2. Imported \in Seq(Range(Imported)) /\ Len(Imported) \in Nat
    BY ImportedFits
  <2>3. keysLeft' \in Seq(Range(Imported')) /\ Len(keysLeft') = Len(Imported') - 0 /\ 0 \in 0..Len(Imported')
    BY <2>1, <2>2
  <2>4. \A i \in 1..Len(keysLeft') : keysLeft'[i] = Imported'[0 + i]
    BY <2>1, <2>2
  <2>5. (step' = "key" => \A i \in 1..0 : SlotFits(Imported[i][1])') /\ step' # "print"
    BY <2>1
  <2> QED
    BY <2>3, <2>4, <2>5 DEF Importing
<1> QED
  BY <1>1, <1>2, <1>4, <1>5, NotImported DEF CardInv

(* The importer writes a key, or its fingerprint, or is through with all.   *)
LEMMA WriteStep == ASSUME CardInv, WriteKeys PROVE CardInv'
<1>1. /\ step \in {"key", "print"} /\ UNCHANGED <<pin, pinTries, cached>> /\ cardTold = "nothing" /\ sel \in Selections
      /\ DOMAIN slots = SlotNames /\ DOMAIN prints = SlotNames
  BY DEF WriteKeys, CardInv, CardTypeOK
<1>2. PICK n \in 0..Len(Imported) :
        /\ keysLeft \in Seq(Range(Imported)) /\ Len(keysLeft) = Len(Imported) - n
        /\ \A i \in 1..Len(keysLeft) : keysLeft[i] = Imported[n + i]
        /\ step = "key" => \A i \in 1..n : SlotFits(Imported[i][1])
        /\ step = "print" =>
             /\ n < Len(Imported)
             /\ \A i \in 1..n : Imported[i][1] # Imported[n + 1][1] => SlotFits(Imported[i][1])
             /\ Imported[n + 1][1] \in SlotNames => slots[Imported[n + 1][1]] = Imported[n + 1][2]
  BY <1>1 DEF CardInv, Importing
<1>3. /\ Len(Imported) \in Nat
      /\ \A i \in 1..Len(Imported) : Imported[i][1] \in SlotNames => Fits(Imported[i][1], Imported[i][2])
  BY ImportedFits
<1>4. sel' = sel
  BY DEF WriteKeys, Write, EndImport
<1>5. Imported' = Imported /\ Moved' = Moved /\ Whole' = Whole
  BY <1>4, SameSelection DEF Whole
<1>6. \A f, k : Fits(f, k)' <=> Fits(f, k)
  BY <1>4, <1>5 DEF Fits
<1>7. CASE keysLeft = <<>>
  <2>1. EndImport("imported") /\ UNCHANGED <<slots, prints>>
    BY <1>7 DEF WriteKeys, Write
  <2>2. n = Len(Imported) /\ step = "key"
    BY <1>1, <1>2, <1>3, <1>7
  <2>3. \A i \in DOMAIN Imported : SlotFits(Imported[i][1])
    BY <1>2, <2>2, ImportedFits
  <2>4. SlotsFit'
    <3>1. ASSUME NEW i \in DOMAIN Imported, \E j \in DOMAIN Moved : Moved[j][1] = Imported[i][1]
          PROVE  LET f == Imported[i][1]
                 IN prints[f] = slots[f] /\ IF sel = Whole THEN f \in Caps(slots[f]) ELSE slots[f] = sel[f]
      <4>1. Imported[i][1] \in SlotNames
        BY <1>1, <3>1, MovedFits
      <4> QED
        BY <2>3, <4>1 DEF SlotFits, Fits
    <3> QED
      BY <1>4, <1>5, <2>1, <3>1 DEF SlotsFit
  <2>5. step' = "menu"
    BY <2>1 DEF EndImport
  <2>6. CardTypeOK'
    BY <1>1, <1>4, <2>5 DEF CardInv, CardTypeOK, Selections
  <2> QED
    BY <1>1, <2>1, <2>4, <2>5, <2>6 DEF CardInv
<1>8. CASE keysLeft # <<>> /\ EndImport("failed") /\ UNCHANGED <<slots, prints>>
  <2>1. step' = "menu" /\ cardTold' # "imported"
    BY <1>8 DEF EndImport
  <2>2. CardTypeOK'
    BY <1>1, <1>4, <2>1 DEF CardInv, CardTypeOK, Selections
  <2> QED
    BY <1>1, <1>8, <2>1, <2>2, NotImported DEF CardInv
<1> DEFINE f == Imported[n + 1][1]
           k == Imported[n + 1][2]
<1>9. ASSUME keysLeft # <<>>
      PROVE  /\ n + 1 \in 1..Len(Imported) /\ Head(keysLeft) = Imported[n + 1]
             /\ Tail(keysLeft) \in Seq(Range(Imported)) /\ Len(Tail(keysLeft)) = Len(Imported) - (n + 1)
             /\ \A i \in 1..Len(Tail(keysLeft)) : Tail(keysLeft)[i] = Imported[(n + 1) + i]
  <2> DEFINE rest == Tail(keysLeft)
  <2>1. Len(keysLeft) \in Nat \ {0} /\ Head(keysLeft) = keysLeft[1]
    BY <1>2, <1>9, EmptySeq
  <2>2. /\ rest \in Seq(Range(Imported)) /\ Len(rest) = Len(keysLeft) - 1
        /\ \A i \in 1..Len(rest) : rest[i] = keysLeft[i + 1]
    BY <1>2, <1>9
  <2> HIDE DEF rest
  <2>3. ASSUME NEW i \in 1..Len(rest) PROVE rest[i] = Imported[(n + 1) + i]
    <3>1. i + 1 \in 1..Len(keysLeft) /\ n + (i + 1) = (n + 1) + i
      BY <1>3, <2>1, <2>2
    <3> QED
      BY <1>2, <2>2, <3>1
  <2> QED
    BY <1>2, <1>3, <2>1, <2>2, <2>3 DEF rest
<1>10. CASE keysLeft # <<>> /\ step = "key" /\ ~(EndImport("failed") /\ UNCHANGED <<slots, prints>>)
  <2>1. slots' = [slots EXCEPT ![f] = k] /\ prints' = prints /\ step' = "print" /\ keysLeft' = keysLeft /\ cardTold' = cardTold
    BY <1>9, <1>10 DEF WriteKeys, Write
  <2>2. CardTypeOK'
    BY <1>1, <1>4, <2>1 DEF CardInv, CardTypeOK, Selections
  <2>3. ASSUME NEW i \in 1..n, Imported[i][1] # f PROVE SlotFits(Imported[i][1])'
    <3>1. SlotFits(Imported[i][1])
      BY <1>2, <1>10
    <3> DEFINE x == Imported[i][1]
    <3>2. x \in SlotNames => slots'[x] = slots[x] /\ prints'[x] = prints[x]
      BY <1>1, <2>1, <2>3
    <3>3. x' = x
      BY <1>5
    <3> HIDE DEF x
    <3>4. SlotFits(x)'
      BY <1>6, <3>1, <3>2, <3>3 DEF SlotFits, x
    <3> QED
      BY <3>4 DEF x
  <2>4. f \in SlotNames => slots'[f] = k
    BY <1>1, <2>1
  <2>5. n < Len(Imported)
    BY <1>2, <1>3, <1>9, <1>10
  <2>6. Importing'
    BY <1>2, <1>5, <2>1, <2>3, <2>4, <2>5 DEF Importing
  <2> QED
    BY <1>1, <2>1, <2>2, <2>6, NotImported DEF CardInv
<1>11. CASE keysLeft # <<>> /\ step = "print" /\ ~(EndImport("failed") /\ UNCHANGED <<slots, prints>>)
  <2>1. prints' = [prints EXCEPT ![f] = k] /\ slots' = slots /\ step' = "key" /\ keysLeft' = Tail(keysLeft) /\ cardTold' = cardTold
    BY <1>9, <1>11 DEF WriteKeys, Write
  <2>2. CardTypeOK'
    BY <1>1, <1>4, <2>1 DEF CardInv, CardTypeOK, Selections
  <2>3. ASSUME NEW i \in 1..(n + 1) PROVE SlotFits(Imported[i][1])'
    <3> DEFINE x == Imported[i][1]
    <3>1. x' = x
      BY <1>5
    <3>2. CASE x = f
      <4>1. x \in SlotNames => prints'[x] = k /\ slots'[x] = k /\ Fits(x, k)
        BY <1>1, <1>2, <1>3, <1>9, <1>11, <2>1, <3>2
      <4> HIDE DEF x, k
      <4>2. SlotFits(x)'
        BY <1>6, <3>1, <4>1 DEF SlotFits
      <4> QED
        BY <4>2 DEF x
    <3>3. CASE x # f
      <4>1. i \in 1..n
        BY <1>2, <1>3, <3>3
      <4>2. SlotFits(x)
        BY <1>2, <1>11, <3>3, <4>1
      <4>3. x \in SlotNames => slots'[x] = slots[x] /\ prints'[x] = prints[x]
        BY <1>1, <2>1, <3>3
      <4> HIDE DEF x
      <4>4. SlotFits(x)'
        BY <1>6, <3>1, <4>2, <4>3 DEF SlotFits
      <4> QED
        BY <4>4 DEF x
    <3> QED
      BY <3>2, <3>3
  <2>4. n + 1 \in 0..Len(Imported)
    BY <1>9, <1>11
  <2>5. Importing'
    BY <1>5, <1>9, <1>11, <2>1, <2>3, <2>4 DEF Importing
  <2> QED
    BY <1>1, <2>1, <2>2, <2>5, NotImported DEF CardInv
<1> QED
  BY <1>1, <1>7, <1>8, <1>10, <1>11

(* Every step keeps the invariant of the card.                              *)
LEMMA CardStep == CardInv /\ [CardNext]_cardVars => CardInv'
<1> SUFFICES ASSUME CardInv, [CardNext]_cardVars PROVE CardInv'
  OBVIOUS
<1>1. CASE UNCHANGED cardVars
  <2>1. sel' = sel /\ UNCHANGED <<pin, pinTries, slots, prints, cached, step, keysLeft, cardTold>>
    BY <1>1 DEF cardVars
  <2>2. CardTypeOK'
    BY <2>1 DEF CardInv, CardTypeOK, Selections
  <2>3. Imported' = Imported /\ Whole' = Whole
    BY <2>1, SameSelection DEF Whole
  <2>4. step \in {"key", "print"} => Importing'
    BY <2>1, <2>3 DEF CardInv, Importing, SlotFits, Fits
  <2> QED
    BY <2>1, <2>2, <2>4, StillFits DEF CardInv
<1> QED
  BY <1>1, OtherCardStep, GpgStep, FallbackStep, WriteStep DEF CardNext

(* When the user is told that the keys were imported, the slots hold the    *)
(* keys that were chosen, or keys that may be used so, under their own      *)
(* fingerprints: for any number of subkeys with any uses, whichever of the  *)
(* two importers wrote them, and whatever failed or was refused before      *)
(* (ToolsGPGImportKeyToCardView, gpg_views.py:7896).                        *)
THEOREM EverySlotFits == CardSpec => []SlotsFit
<1>1. CardInv => SlotsFit
  BY DEF CardInv
<1> QED
  BY <1>1, CardStart, CardStep, PTL DEF CardSpec

(* The PINs, tries, steps and selections are what GpgCard says they are.    *)
THEOREM CardIsTyped == CardSpec => []CardTypeOK
<1>1. CardInv => CardTypeOK
  BY DEF CardInv
<1> QED
  BY <1>1, CardStart, CardStep, PTL DEF CardSpec
=============================================================================
