--------------------------- MODULE SelectionProofs ---------------------------
(***************************************************************************)
(* What is picked out of a sequence in order: the two streams of the       *)
(* message queue, and the arguments of a system process.                   *)
(***************************************************************************)
EXTENDS RuntimeProofs

-----------------------------------------------------------------------------
(***************************************************************************)
(* Ranks.  The ranks of a finite set of numbers I are 1 to Cardinality(I), *)
(* each that of one number.                                                *)
(***************************************************************************)
LEMMA RankType ==
    ASSUME NEW I \in SUBSET Nat, IsFiniteSet(I), NEW i \in I
    PROVE  Rank(I, i) \in 1..Cardinality(I)
<1> DEFINE J == {j \in I : j <= i}
<1>1. J \in SUBSET I /\ i \in J
    OBVIOUS
<1>2. IsFiniteSet(J) /\ Cardinality(J) <= Cardinality(I)
    BY <1>1, FS_Subset
<1>3. Cardinality(J) \in Nat /\ Cardinality(I) \in Nat /\ Cardinality(J) # 0
    BY <1>1, <1>2, FS_CardinalityType, FS_EmptySet
<1> QED
    BY <1>2, <1>3 DEF Rank

\* The ranks grow with the numbers.
LEMMA RankGrows ==
    ASSUME NEW I \in SUBSET Nat, IsFiniteSet(I), NEW i \in I, NEW k \in I, i < k
    PROVE  Rank(I, i) < Rank(I, k)
<1> DEFINE J == {j \in I : j <= i}
           K == {j \in I : j <= k}
<1>1. J \in SUBSET K /\ J # K /\ K \in SUBSET I
  <2>1. k \in K /\ k \notin J
      OBVIOUS
  <2>2. i \in Nat /\ k \in Nat /\ \A j \in I : j \in Nat
      OBVIOUS
  <2>3. \A j \in I : j <= i => j <= k
      BY <2>2
  <2> QED
      BY <2>1, <2>3
<1>2. IsFiniteSet(K) /\ IsFiniteSet(J)
    BY <1>1, FS_Subset
<1>3. Cardinality(J) <= Cardinality(K) /\ Cardinality(J) # Cardinality(K)
    BY <1>1, <1>2, FS_Subset
<1>4. Cardinality(J) \in Nat /\ Cardinality(K) \in Nat
    BY <1>2, FS_CardinalityType
<1> QED
    BY <1>3, <1>4 DEF Rank

\* Two numbers never share a rank.
LEMMA RankInjective ==
    ASSUME NEW I \in SUBSET Nat, IsFiniteSet(I), NEW i \in I, NEW k \in I,
           Rank(I, i) = Rank(I, k)
    PROVE  i = k
<1>1. Rank(I, i) \in Int /\ Rank(I, k) \in Int
    BY RankType, FS_CardinalityType
<1>2. ~(i < k) /\ ~(k < i)
    BY <1>1, RankGrows
<1> QED
    BY <1>2

\* The number of a rank is found by it.
LEMMA NthOfRank ==
    ASSUME NEW I \in SUBSET Nat, IsFiniteSet(I), NEW i \in I
    PROVE  Nth(I, Rank(I, i)) = i
<1>1. \E k \in I : Rank(I, k) = Rank(I, i)
    OBVIOUS
<1>2. PICK k \in I : k = Nth(I, Rank(I, i)) /\ Rank(I, k) = Rank(I, i)
    BY <1>1 DEF Nth
<1>3. k = i
    BY <1>2, RankInjective
<1> QED
    BY <1>2, <1>3

\* Each of 1 to Cardinality(I) is a rank: as many numbers as ranks, and none shared.
LEMMA RankOfNth ==
    ASSUME NEW I \in SUBSET Nat, IsFiniteSet(I), NEW n \in 1..Cardinality(I)
    PROVE  Nth(I, n) \in I /\ Rank(I, Nth(I, n)) = n
<1> DEFINE N == 1..Cardinality(I)
           r == [i \in I |-> Rank(I, i)]
<1>1. r \in Injection(I, N)
  <2>1. r \in [I -> N]
      BY RankType
  <2>2. \A a, b \in I : r[a] = r[b] => a = b
      BY RankInjective
  <2> QED
      BY <2>1, <2>2 DEF Injection, IsInjective
<1>2. Cardinality(I) \in Nat
    BY FS_CardinalityType
<1>3. IsFiniteSet(N) /\ Cardinality(N) = Cardinality(I)
    BY <1>2, FS_Interval
<1>4. r \in Surjection(I, N)
    BY <1>1, <1>3, FS_Injection
<1>5. \E i \in I : r[i] = n
    BY <1>4 DEF Surjection
<1>6. \E i \in I : Rank(I, i) = n
    BY <1>5
<1> QED
    BY <1>6 DEF Nth

(***************************************************************************)
(* Renumbering.  When the numbers of one set are mapped to those of        *)
(* another in the same order, so are their ranks.                          *)
(***************************************************************************)
LEMMA RankMapped ==
    ASSUME NEW I \in SUBSET Nat, IsFiniteSet(I), NEW K \in SUBSET Nat,
           NEW d \in Surjection(I, K), \A i, j \in I : i < j => d[i] < d[j],
           NEW i \in I
    PROVE  /\ IsFiniteSet(K)
           /\ Cardinality(K) = Cardinality(I)
           /\ Rank(K, d[i]) = Rank(I, i)
<1> DEFINE A == {j \in I : j <= i}
           B == {k \in K : k <= d[i]}
           e == [j \in A |-> d[j]]
<1>1. d \in [I -> K] /\ \A k \in K : \E j \in I : d[j] = k
    BY DEF Surjection
<1>2. d \in Injection(I, K)
  <2>1. \A a, b \in I : d[a] = d[b] => a = b
    <3> SUFFICES ASSUME NEW a \in I, NEW b \in I, d[a] = d[b] PROVE a = b
        OBVIOUS
    <3>1. d[a] \in Nat /\ d[b] \in Nat
        BY <1>1
    <3>2. ~(a < b) /\ ~(b < a)
        BY <3>1
    <3> QED
        BY <3>2
  <2> QED
      BY <1>1, <2>1 DEF Injection, IsInjective
<1>3. IsFiniteSet(K) /\ Cardinality(K) = Cardinality(I)
    BY <1>2, FS_Surjection
<1>4. \A j \in I : j <= i <=> d[j] <= d[i]
  <2> SUFFICES ASSUME NEW j \in I PROVE j <= i <=> d[j] <= d[i]
      OBVIOUS
  <2>1. d[i] \in Nat /\ d[j] \in Nat
      BY <1>1
  <2>2. CASE j < i
      BY <2>1, <2>2
  <2>3. CASE j = i
      BY <2>1, <2>3
  <2>4. CASE i < j
      BY <2>1, <2>4
  <2> QED
      BY <2>2, <2>3, <2>4
<1>5. e \in Bijection(A, B)
  <2>1. e \in [A -> B]
      BY <1>1, <1>4
  <2>2. \A a, b \in A : e[a] = e[b] => a = b
      BY <1>2 DEF Injection, IsInjective
  <2>3. \A b \in B : \E a \in A : e[a] = b
      BY <1>1, <1>4
  <2> QED
      BY <2>1, <2>2, <2>3 DEF Bijection, Injection, Surjection, IsInjective
<1>6. IsFiniteSet(A)
    BY FS_Subset
<1>7. Cardinality(B) = Cardinality(A)
    BY <1>5, <1>6, FS_Bijection DEF ExistsBijection
<1> QED
    BY <1>3, <1>7 DEF Rank

(***************************************************************************)
(* What is picked.                                                         *)
(***************************************************************************)
LEMMA PickType ==
    ASSUME NEW S, NEW s \in Seq(S), NEW I \in SUBSET DOMAIN s
    PROVE  /\ I \in SUBSET Nat
           /\ IsFiniteSet(I)
           /\ Cardinality(I) \in Nat
           /\ Pick(s, I) \in Seq(S)
           /\ Len(Pick(s, I)) = Cardinality(I)
           /\ \A n \in 1..Cardinality(I) : Pick(s, I)[n] = s[Nth(I, n)]
<1>1. DOMAIN s = 1..Len(s) /\ Len(s) \in Nat /\ \A i \in DOMAIN s : s[i] \in S
    BY ElementOfSeq
<1>2. I \in SUBSET Nat
    BY <1>1
<1>2a. IsFiniteSet(1..Len(s)) /\ I \in SUBSET (1..Len(s))
    BY <1>1, FS_Interval
<1>2b. IsFiniteSet(I)
    BY <1>2a, FS_Subset
<1>3. Cardinality(I) \in Nat
    BY <1>2b, FS_CardinalityType
<1>4. \A n \in 1..Cardinality(I) : Nth(I, n) \in I
    BY <1>2, <1>2b, RankOfNth
<1>5. Pick(s, I) \in [1..Cardinality(I) -> S]
    BY <1>1, <1>4 DEF Pick
<1> QED
    BY <1>2, <1>2b, <1>3, <1>5 DEF Pick

\* Each index of I is picked once, where its rank says.
LEMMA PickAtRank ==
    ASSUME NEW S, NEW s \in Seq(S), NEW I \in SUBSET DOMAIN s, NEW i \in I
    PROVE  Rank(I, i) \in 1..Cardinality(I) /\ Pick(s, I)[Rank(I, i)] = s[i]
<1>1. I \in SUBSET Nat /\ IsFiniteSet(I)
    BY PickType
<1>2. Rank(I, i) \in 1..Cardinality(I) /\ Nth(I, Rank(I, i)) = i
    BY <1>1, RankType, NthOfRank
<1> QED
    BY <1>2, PickType

(***************************************************************************)
(* Two picks are equal when the indices of one are those of the other,     *)
(* renumbered in the same order, and the elements are the same.            *)
(***************************************************************************)
LEMMA PickMapped ==
    ASSUME NEW S, NEW s \in Seq(S), NEW I \in SUBSET DOMAIN s,
           NEW t \in Seq(S), NEW K \in SUBSET DOMAIN t,
           NEW d \in Surjection(I, K), \A i, j \in I : i < j => d[i] < d[j],
           \A i \in I : t[d[i]] = s[i]
    PROVE  Pick(t, K) = Pick(s, I)
<1>1. /\ I \in SUBSET Nat /\ IsFiniteSet(I) /\ Cardinality(I) \in Nat
      /\ Pick(s, I) \in Seq(S) /\ Len(Pick(s, I)) = Cardinality(I)
      /\ \A n \in 1..Cardinality(I) : Pick(s, I)[n] = s[Nth(I, n)]
    BY PickType
<1>2. /\ K \in SUBSET Nat /\ IsFiniteSet(K)
      /\ Pick(t, K) \in Seq(S) /\ Len(Pick(t, K)) = Cardinality(K)
    BY PickType
<1>3. d \in [I -> K] /\ \A k \in K : \E i \in I : d[i] = k
    BY DEF Surjection
<1>4. Cardinality(K) = Cardinality(I)
  <2>1. CASE I = {}
      BY <2>1, <1>3
  <2>2. CASE I # {}
      BY <2>2, <1>1, <1>2, RankMapped
  <2> QED
      BY <2>1, <2>2
<1>5. ASSUME NEW n \in 1..Cardinality(I) PROVE Pick(t, K)[n] = Pick(s, I)[n]
  <2>1. PICK i \in I : i = Nth(I, n) /\ Rank(I, i) = n
      BY <1>1, RankOfNth
  <2>2. Rank(K, d[i]) = n
      BY <2>1, <1>1, <1>2, RankMapped
  <2>3. d[i] \in K
      BY <1>3
  <2>4. Pick(t, K)[n] = t[d[i]]
      BY <2>2, <2>3, PickAtRank
  <2> QED
      BY <2>1, <2>4, <1>1
<1> QED
    BY <1>1, <1>2, <1>4, <1>5, SeqEqual

\* What is not picked out of a longer sequence.
LEMMA PickAppend ==
    ASSUME NEW S, NEW s \in Seq(S), NEW I \in SUBSET DOMAIN s, NEW e \in S,
           NEW l, l = Len(s) + 1
    PROVE  /\ Pick(Append(s, e), I) = Pick(s, I)
           /\ Pick(Append(s, e), I \cup {l}) = Append(Pick(s, I), e)
<1> DEFINE t == Append(s, e)
           K == I \cup {l}
           d == [i \in I |-> i]
<1>1. /\ t \in Seq(S) /\ DOMAIN t = 1..l /\ DOMAIN s = 1..Len(s) /\ Len(s) \in Nat
      /\ t[l] = e /\ \A i \in DOMAIN s : t[i] = s[i]
    OBVIOUS
<1> HIDE DEF t
<1>2. /\ I \in SUBSET Nat /\ IsFiniteSet(I) /\ Cardinality(I) \in Nat
      /\ Pick(s, I) \in Seq(S) /\ Len(Pick(s, I)) = Cardinality(I)
      /\ \A n \in 1..Cardinality(I) : Pick(s, I)[n] = s[Nth(I, n)]
    BY PickType
<1>3. I \in SUBSET DOMAIN t /\ K \in SUBSET DOMAIN t /\ l \notin I /\ \A i \in I : i < l
    BY <1>1
<1>4. Pick(t, I) = Pick(s, I)
  <2>1. d \in Surjection(I, I)
      BY DEF Surjection
  <2>2. \A i, j \in I : i < j => d[i] < d[j]
      OBVIOUS
  <2>3. \A i \in I : t[d[i]] = s[i]
      BY <1>1
  <2> QED
      BY <2>1, <2>2, <2>3, <1>1, <1>3, PickMapped
<1>5. /\ IsFiniteSet(K) /\ Cardinality(K) = Cardinality(I) + 1
      /\ Pick(t, K) \in Seq(S) /\ Len(Pick(t, K)) = Cardinality(K)
  <2>1. IsFiniteSet(K) /\ Cardinality(K) = Cardinality(I) + 1
      BY <1>2, <1>3, FS_AddElement
  <2> QED
      BY <2>1, <1>1, <1>3, PickType
<1>6. Rank(K, l) = Cardinality(I) + 1
  <2>1. {j \in K : j <= l} = K
      BY <1>1, <1>2, <1>3
  <2> QED
      BY <2>1, <1>5 DEF Rank
<1>7. \A i \in I : Rank(K, i) = Rank(I, i)
  <2> SUFFICES ASSUME NEW i \in I PROVE Rank(K, i) = Rank(I, i)
      OBVIOUS
  <2>1. ~(l <= i)
      BY <1>1, <1>2, <1>3
  <2>2. {j \in K : j <= i} = {j \in I : j <= i}
      BY <2>1
  <2> QED
      BY <2>2 DEF Rank
<1>8. ASSUME NEW n \in 1..Cardinality(K) PROVE Pick(t, K)[n] = Append(Pick(s, I), e)[n]
  <2>1. CASE n = Cardinality(I) + 1
    <3>1. Pick(t, K)[n] = t[l]
        BY <2>1, <1>1, <1>3, <1>6, PickAtRank
    <3> QED
        BY <2>1, <3>1, <1>1, <1>2
  <2>2. CASE n \in 1..Cardinality(I)
    <3>1. PICK i \in I : i = Nth(I, n) /\ Rank(I, i) = n
        BY <2>2, <1>2, RankOfNth
    <3>2. i \in K /\ Rank(K, i) = n
        BY <3>1, <1>7
    <3>3. Pick(t, K)[n] = t[i]
        BY <3>2, <1>1, <1>3, PickAtRank
    <3> QED
        BY <2>2, <3>1, <3>3, <1>1, <1>2
  <2> QED
      BY <2>1, <2>2, <1>2, <1>5
<1>9. Append(Pick(s, I), e) \in Seq(S) /\ Len(Append(Pick(s, I), e)) = Cardinality(K)
    BY <1>2, <1>5
<1>10. Pick(t, K) = Append(Pick(s, I), e)
    BY <1>5, <1>8, <1>9, SeqEqual
<1> QED
    BY <1>4, <1>10 DEF t

\* Without the first index of I the rest is picked.
LEMMA PickFirst ==
    ASSUME NEW S, NEW s \in Seq(S), NEW I \in SUBSET DOMAIN s,
           NEW r \in I, \A i \in I : r <= i
    PROVE  /\ Pick(s, I) # <<>>
           /\ Head(Pick(s, I)) = s[r]
           /\ Tail(Pick(s, I)) = Pick(s, I \ {r})
<1> DEFINE K == I \ {r}
<1>1. /\ I \in SUBSET Nat /\ IsFiniteSet(I) /\ Cardinality(I) \in Nat
      /\ Pick(s, I) \in Seq(S) /\ Len(Pick(s, I)) = Cardinality(I)
    BY PickType
<1>2. /\ K \in SUBSET DOMAIN s /\ IsFiniteSet(K) /\ Cardinality(K) = Cardinality(I) - 1
      /\ Pick(s, K) \in Seq(S) /\ Len(Pick(s, K)) = Cardinality(K)
      /\ Cardinality(K) \in Nat
  <2>1. K \in SUBSET DOMAIN s
      OBVIOUS
  <2>2. IsFiniteSet(K) /\ Cardinality(K) = Cardinality(I) - 1
      BY <1>1, FS_RemoveElement
  <2> QED
      BY <2>1, <2>2, PickType
<1>3. Rank(I, r) = 1
  <2>1. {j \in I : j <= r} = {r}
      BY <1>1
  <2> QED
      BY <2>1, FS_Singleton DEF Rank
<1>4. Pick(s, I) # <<>> /\ Head(Pick(s, I)) = s[r]
  <2>1. 1 \in 1..Cardinality(I) /\ Pick(s, I)[1] = s[r]
      BY <1>3, PickAtRank
  <2> QED
      BY <2>1, <1>1
<1>5. ASSUME NEW i \in K PROVE Rank(I, i) = Rank(K, i) + 1
  <2> DEFINE J == {j \in I : j <= i}
  <2>1. r \in J /\ J \in SUBSET I
      OBVIOUS
  <2>2. {j \in K : j <= i} = J \ {r}
      OBVIOUS
  <2>3. IsFiniteSet(J)
      BY <2>1, <1>1, FS_Subset
  <2>4. Cardinality(J \ {r}) = Cardinality(J) - 1 /\ Cardinality(J) \in Nat
      BY <2>1, <2>3, FS_RemoveElement, FS_CardinalityType
  <2>5. Rank(I, i) = Cardinality(J)
      BY DEF Rank
  <2>6. Rank(K, i) = Cardinality(J \ {r})
      BY <2>2 DEF Rank
  <2> QED
      BY <2>4, <2>5, <2>6
<1>6. ASSUME NEW n \in 1..Cardinality(K) PROVE Pick(s, K)[n] = Tail(Pick(s, I))[n]
  <2>1. PICK i \in K : i = Nth(K, n) /\ Rank(K, i) = n
      BY <1>1, <1>2, RankOfNth
  <2>1a. i \in I /\ Rank(I, i) = n + 1
      BY <2>1, <1>5
  <2>2. Pick(s, K)[n] = s[i]
      BY <2>1, <1>2, PickAtRank
  <2>3. Pick(s, I)[n + 1] = s[i]
      BY <2>1a, PickAtRank
  <2>4. Tail(Pick(s, I))[n] = Pick(s, I)[n + 1]
      BY <1>1, <1>2, <1>4
  <2> QED
      BY <2>2, <2>3, <2>4
<1>7. Tail(Pick(s, I)) \in Seq(S) /\ Len(Tail(Pick(s, I))) = Cardinality(K)
    BY <1>1, <1>2, <1>4
<1>8. Pick(s, K) = Tail(Pick(s, I))
    BY <1>2, <1>6, <1>7, SeqEqual
<1> QED
    BY <1>4, <1>8

\* A sequence without its element at r, and where each of the others was.
Without(s, r) == [j \in 1..(Len(s) - 1) |-> IF j < r THEN s[j] ELSE s[j + 1]]
Origin(r, k) == IF k < r THEN k ELSE k + 1

\* What is picked does not change when an element that is not picked goes.
LEMMA PickWithout ==
    ASSUME NEW S, NEW s \in Seq(S), NEW r \in DOMAIN s, NEW I \in SUBSET (DOMAIN s \ {r})
    PROVE  /\ Without(s, r) \in Seq(S)
           /\ Pick(Without(s, r), {k \in DOMAIN Without(s, r) : Origin(r, k) \in I}) = Pick(s, I)
<1> DEFINE t == Without(s, r)
           K == {k \in DOMAIN t : Origin(r, k) \in I}
           d == [i \in I |-> IF i < r THEN i ELSE i - 1]
<1>1. /\ Len(s) \in Nat /\ DOMAIN s = 1..Len(s) /\ r \in 1..Len(s)
      /\ \A i \in 1..Len(s) : s[i] \in S
    BY ElementOfSeq
<1>2. \A j \in 1..(Len(s) - 1) : /\ Origin(r, j) \in 1..Len(s)
                                 /\ t[j] = s[Origin(r, j)]
    BY <1>1 DEF Without, Origin
<1>3. t \in Seq(S) /\ DOMAIN t = 1..(Len(s) - 1)
  <2>1. t \in [1..(Len(s) - 1) -> S]
      BY <1>1, <1>2 DEF Without
  <2>2. Len(s) - 1 \in Nat
      BY <1>1
  <2> QED
      BY <2>1, <2>2
<1>4. \A i \in I : /\ i \in 1..Len(s) /\ i # r
                   /\ d[i] \in 1..(Len(s) - 1) /\ Origin(r, d[i]) = i
    BY <1>1 DEF Origin
<1>5. \A i \in I : d[i] \in K
    BY <1>3, <1>4
<1>6. d \in Surjection(I, K)
  <2>1. d \in [I -> K]
      BY <1>5
  <2>2. \A k \in K : \E i \in I : d[i] = k
    <3> SUFFICES ASSUME NEW k \in K PROVE \E i \in I : d[i] = k
        OBVIOUS
    <3>1. Origin(r, k) \in I /\ k \in 1..(Len(s) - 1)
        BY <1>3
    <3>2. d[Origin(r, k)] = k
        BY <3>1, <1>1 DEF Origin
    <3> QED
        BY <3>1, <3>2
  <2> QED
      BY <2>1, <2>2 DEF Surjection
<1>7. \A i, j \in I : i < j => d[i] < d[j]
    BY <1>1, <1>4
<1>8. \A i \in I : t[d[i]] = s[i]
    BY <1>2, <1>4
<1>9. I \in SUBSET DOMAIN s /\ K \in SUBSET DOMAIN t
    OBVIOUS
<1> HIDE DEF t, K, d
<1>10. Pick(t, K) = Pick(s, I)
    BY <1>3, <1>6, <1>7, <1>8, <1>9, PickMapped
<1> QED
    BY <1>3, <1>10 DEF t, K
-----------------------------------------------------------------------------
(***************************************************************************)
(* The streams.  The pids of one type in a queue of messages.              *)
(***************************************************************************)
Indices(q, type) == {i \in DOMAIN q : q[i].msgType = type}
PidsOf(s) == [n \in DOMAIN s |-> s[n].pid]
StreamOf(q, type) == PidsOf(Pick(q, Indices(q, type)))

\* A stream is the pids of the messages of its type, in the order of the queue.
LEMMA StreamsNow ==
    ASSUME NEW type
    PROVE  Stream(type) = StreamOf(queue, type) /\ Stream(type)' = StreamOf(queue', type)
BY DEF Stream, OfType, StreamOf, PidsOf, Indices

\* The pids of a sequence of messages follow it.
LEMMA PidsFollow ==
    ASSUME NEW s \in Seq(Message), NEW m \in Message
    PROVE  /\ PidsOf(s) \in Seq(Pids \cup {NoPid})
           /\ Len(PidsOf(s)) = Len(s)
           /\ PidsOf(Append(s, m)) = Append(PidsOf(s), m.pid)
           /\ s # <<>> => /\ PidsOf(s) # <<>>
                          /\ Head(PidsOf(s)) = Head(s).pid
                          /\ PidsOf(Tail(s)) = Tail(PidsOf(s))
<1>1. \A i \in 1..Len(s) : s[i].pid \in Pids \cup {NoPid}
  <2>1. \A i \in 1..Len(s) : s[i] \in Message
      OBVIOUS
  <2> QED
      BY <2>1 DEF Message
<1>2. m.pid \in Pids \cup {NoPid}
    BY DEF Message
<1>3. PidsOf(s) \in Seq(Pids \cup {NoPid}) /\ Len(PidsOf(s)) = Len(s)
    BY <1>1 DEF PidsOf
<1>4. PidsOf(Append(s, m)) = Append(PidsOf(s), m.pid)
    BY <1>2, <1>3 DEF PidsOf
<1>5. ASSUME s # <<>>
      PROVE  /\ PidsOf(s) # <<>> /\ Head(PidsOf(s)) = Head(s).pid
             /\ PidsOf(Tail(s)) = Tail(PidsOf(s))
    BY <1>3, <1>5 DEF PidsOf
<1> QED
    BY <1>3, <1>4, <1>5

\* msgsnd: the pid goes to the end of one stream, the other stays.
LEMMA StreamAppend ==
    ASSUME NEW q \in Seq(Message), NEW m \in Message, NEW type
    PROVE  StreamOf(Append(q, m), type)
               = IF m.msgType = type THEN Append(StreamOf(q, type), m.pid)
                 ELSE StreamOf(q, type)
<1> DEFINE I == Indices(q, type)
           l == Len(q) + 1
<1>1. I \in SUBSET DOMAIN q
    BY DEF Indices
<1>2. Indices(Append(q, m), type) = IF m.msgType = type THEN I \cup {l} ELSE I
    BY DEF Indices
<1>3. Pick(q, I) \in Seq(Message)
    BY <1>1, PickType
<1>4. StreamOf(q, type) = PidsOf(Pick(q, I))
    BY DEF StreamOf
<1>5. l = Len(q) + 1
    OBVIOUS
<1> HIDE DEF I, l
<1>6. /\ Pick(Append(q, m), I) = Pick(q, I)
      /\ Pick(Append(q, m), I \cup {l}) = Append(Pick(q, I), m)
    BY <1>1, <1>5, PickAppend
<1>7. CASE m.msgType = type
    BY <1>2, <1>3, <1>4, <1>6, <1>7, PidsFollow DEF StreamOf
<1>8. CASE m.msgType # type
    BY <1>2, <1>4, <1>6, <1>8 DEF StreamOf
<1> QED
    BY <1>7, <1>8

\* msgrcv: the oldest pid of one stream goes, the other stays.
LEMMA StreamWithout ==
    ASSUME NEW q \in Seq(Message), NEW type,
           NEW r \in Indices(q, type), \A i \in Indices(q, type) : r <= i
    PROVE  /\ StreamOf(q, type) # <<>>
           /\ q[r].pid = Head(StreamOf(q, type))
           /\ StreamOf(Without(q, r), type) = Tail(StreamOf(q, type))
           /\ \A other : other # type =>
                 StreamOf(Without(q, r), other) = StreamOf(q, other)
<1>1. r \in DOMAIN q /\ q[r].msgType = type
    BY DEF Indices
<1>2. /\ Len(q) \in Nat /\ DOMAIN q = 1..Len(q)
      /\ DOMAIN Without(q, r) = 1..(Len(q) - 1)
      /\ \A k \in 1..(Len(q) - 1) : /\ Origin(r, k) \in DOMAIN q \ {r}
                                    /\ Without(q, r)[k] = q[Origin(r, k)]
    BY <1>1 DEF Without, Origin
<1>3. \A ty : Indices(Without(q, r), ty)
                = {k \in DOMAIN Without(q, r) : Origin(r, k) \in Indices(q, ty) \ {r}}
    BY <1>2 DEF Indices
<1>4. \A ty : Pick(Without(q, r), Indices(Without(q, r), ty)) = Pick(q, Indices(q, ty) \ {r})
  <2> SUFFICES ASSUME NEW ty
               PROVE  Pick(Without(q, r), Indices(Without(q, r), ty))
                        = Pick(q, Indices(q, ty) \ {r})
      OBVIOUS
  <2> DEFINE I == Indices(q, ty) \ {r}
  <2>1. I \in SUBSET (DOMAIN q \ {r})
      BY DEF Indices
  <2>2. Pick(Without(q, r), {k \in DOMAIN Without(q, r) : Origin(r, k) \in I}) = Pick(q, I)
      BY <2>1, <1>1, PickWithout
  <2> QED
      BY <2>2, <1>3
<1>5. /\ Indices(q, type) \in SUBSET DOMAIN q
      /\ Pick(q, Indices(q, type)) \in Seq(Message)
    BY PickType DEF Indices
<1>6. /\ Pick(q, Indices(q, type)) # <<>>
      /\ Head(Pick(q, Indices(q, type))) = q[r]
      /\ Tail(Pick(q, Indices(q, type))) = Pick(q, Indices(q, type) \ {r})
    BY <1>5, PickFirst
<1>7. \A other : other # type => Indices(q, other) \ {r} = Indices(q, other)
    BY <1>1 DEF Indices
<1>8. q[r] \in Message
    BY <1>1
<1> QED
    BY <1>4, <1>5, <1>6, <1>7, <1>8, PidsFollow DEF StreamOf

\* The messages of both types are all there are.
LEMMA StreamsShare ==
    ASSUME NEW q \in Seq(Message)
    PROVE  /\ Len(StreamOf(q, CREATION_MSG)) + Len(StreamOf(q, TERMINATION_MSG)) = Len(q)
           /\ StreamOf(q, CREATION_MSG) \in Seq(Pids \cup {NoPid})
           /\ StreamOf(q, TERMINATION_MSG) \in Seq(Pids \cup {NoPid})
<1> DEFINE I == Indices(q, CREATION_MSG)
           K == Indices(q, TERMINATION_MSG)
<1>1. /\ Len(q) \in Nat /\ DOMAIN q = 1..Len(q)
      /\ \A i \in DOMAIN q : q[i].msgType \in {CREATION_MSG, TERMINATION_MSG}
  <2>1. Len(q) \in Nat /\ DOMAIN q = 1..Len(q) /\ \A i \in DOMAIN q : q[i] \in Message
      OBVIOUS
  <2> QED
      BY <2>1 DEF Message
<1>2. I \cup K = 1..Len(q) /\ I \cap K = {}
    BY <1>1 DEF Indices, CREATION_MSG, TERMINATION_MSG
<1>3. I \in SUBSET DOMAIN q /\ K \in SUBSET DOMAIN q
    BY <1>1, <1>2
<1>4. /\ IsFiniteSet(I) /\ Cardinality(I) \in Nat
      /\ Pick(q, I) \in Seq(Message) /\ Len(Pick(q, I)) = Cardinality(I)
    BY <1>3, PickType
<1>5. /\ IsFiniteSet(K) /\ Cardinality(K) \in Nat
      /\ Pick(q, K) \in Seq(Message) /\ Len(Pick(q, K)) = Cardinality(K)
    BY <1>3, PickType
<1> HIDE DEF I, K
<1>6. Cardinality(I \cup K) = Cardinality(I) + Cardinality(K)
  <2>1. Cardinality(I \cup K) = Cardinality(I) + Cardinality(K) - Cardinality(I \cap K)
      BY <1>4, <1>5, FS_Union
  <2>2. Cardinality(I \cap K) = 0
      BY <1>2, FS_EmptySet
  <2> QED
      BY <2>1, <2>2, <1>4, <1>5
<1>7. Cardinality(1..Len(q)) = Len(q)
    BY <1>1, FS_Interval
<1>8. /\ Len(PidsOf(Pick(q, I))) = Cardinality(I) /\ Len(PidsOf(Pick(q, K))) = Cardinality(K)
      /\ PidsOf(Pick(q, I)) \in Seq(Pids \cup {NoPid})
      /\ PidsOf(Pick(q, K)) \in Seq(Pids \cup {NoPid})
  <2>1. [msgType |-> CREATION_MSG, pid |-> NoPid] \in Message
      BY DEF Message
  <2> QED
      BY <2>1, <1>4, <1>5, PidsFollow
<1> QED
    BY <1>2, <1>6, <1>7, <1>8 DEF StreamOf, I, K
-----------------------------------------------------------------------------
(***************************************************************************)
(* The promise of MessageQueue.  A thread that sends is a monitor with a   *)
(* report: only a child announces itself.                                  *)
(***************************************************************************)
NoThreadAnnounces == \A t \in Threads : at[t] # "announce"

PromiseInv == KnowInv /\ NoThreadAnnounces

\* No thread is about to send when the program starts.
LEMMA InitPromiseInv == RuntimeInit => PromiseInv
BY InitKnow, ActorFacts DEF RuntimeInit, PromiseInv, NoThreadAnnounces

\* No step takes a thread there.
LEMMA StepAnnounces ==
    ASSUME PromiseInv, Next
    PROVE  NoThreadAnnounces'
<1> USE ActorFacts DEF NoThreadAnnounces, Go
<1>0. NoThreadAnnounces /\ at \in [Actors -> Places]
    BY DEF PromiseInv, KnowInv, TypeInv, OwnTypes
<1>1. CASE ParentStep
  <2>1. CASE Parse \/ Initialize \/ Quit
      BY <1>0, <2>1 DEF Parse, Initialize, Quit
  <2>2. CASE StartThreads
      BY <1>0, <2>2 DEF StartThreads
  <2>3. CASE \/ Decides \/ StoreArg \/ MakerLogs \/ Register \/ CreatorHandles
             \/ TerminatorHandles
      BY <1>0, <2>3 DEF Decides, StoreArg, MakerLogs, Register, CreatorHandles,
            TerminatorHandles
  <2>4. ASSUME NEW c \in Pids, Launch(c) PROVE NoThreadAnnounces'
      BY <1>0, <2>4 DEF Launch
  <2>5. ASSUME NEW t \in Receivers, ReceiveOk(t) \/ ReceiveRetries(t) \/ ReceiverEnds(t)
        PROVE  NoThreadAnnounces'
      BY <1>0, <2>5 DEF ReceiveOk, ReceiveRetries, ReceiverEnds
  <2>6. ASSUME NEW p \in Pids, Poll(p) \/ PollEnds(p) PROVE NoThreadAnnounces'
      BY <1>0, <2>6 DEF Poll, PollEnds
  <2>7. CASE Exit \/ LaunchFails \/ Crash
      BY <1>0, <2>7 DEF Exit, LaunchFails, Crash, ParentGone
  <2> QED
      BY <1>1, <2>1, <2>2, <2>3, <2>4, <2>5, <2>6, <2>7 DEF ParentStep
<1>2. CASE SharedStep
  <2> PICK t \in Actors : LogBegin(t) \/ TakeLock(t) \/ (t \in Senders /\ Sends(t))
      BY <1>2 DEF SharedStep
  <2>1. at' = at \/ \E place \in {AfterSend(t), WhenLost(t)} : at' = [at EXCEPT ![t] = place]
      BY DEF LogBegin, TakeLock, Sends, SendOk, SendRetries, GivesUp, SendFails
  <2>2. AfterSend(t) # "announce" /\ WhenLost(t) # "announce"
      BY DEF AfterSend, WhenLost
  <2> QED
      BY <1>0, <2>1, <2>2
<1>3. CASE ChildStep
    BY <1>0, <1>3 DEF ChildStep, SpinEnds, SaysHello, ResetLogger, CreateLogger, Finishes,
          Killed
<1>4. CASE LoggedStep
  <2>1. PICK t \in Actors : at' = [at EXCEPT ![t] = AfterLog(t)]
      BY <1>4, LoggedFacts
  <2>2. AfterLog(t) # "announce"
      BY DEF AfterLog, AfterSend
  <2> QED
      BY <1>0, <2>1, <2>2
<1> QED
    BY <1>1, <1>2, <1>3, <1>4, StepKinds

\* The queue holds what both streams hold.
LEMMA FullTogether ==
    ASSUME TypeInv
    PROVE  /\ Promise!Full <=> Full
           /\ \A type \in {CREATION_MSG, TERMINATION_MSG} :
                 StreamOf(queue, type) \in Seq(Pids \cup {NoPid})
BY StreamsShare, StreamsNow DEF TypeInv, MessengerTypeOK, Promise!Full, Full

\* A message sent is the announcement or the end of one child, in its stream.
LEMMA SendPromised ==
    ASSUME PromiseInv, NEW t \in Senders, SendOk(t)
    PROVE  PromisedStep
<1> DEFINE m == Outgoing(t)
<1>1. TypeInv /\ KnowInv /\ NoThreadAnnounces
    BY DEF PromiseInv, KnowInv
<1>2. queue \in Seq(Message) /\ m \in Message
    BY <1>1, OutgoingTyped DEF TypeInv, MessengerTypeOK
<1>3. queue' = Append(queue, m) /\ ~Full /\ Sending(t)
    BY DEF SendOk, Send, Stored
<1>4. ~Promise!Full
    BY <1>1, <1>3, FullTogether
<1>5. \A type : Stream(type)' = IF m.msgType = type THEN Append(Stream(type), m.pid)
                               ELSE Stream(type)
    BY <1>2, <1>3, StreamAppend, StreamsNow
<1>6. CREATION_MSG # TERMINATION_MSG
    BY DEF CREATION_MSG, TERMINATION_MSG
<1>7. CASE t \in Pids
  <2>1. m.pid = t
      BY <1>1, <1>3, <1>7 DEF Outgoing, PidOf, KnowInv, KnowOK, ChildKnowsItsPid, Sending, Active,
            Lives
  <2>2. CASE at[t] = "announce"
    <3>1. m.msgType = CREATION_MSG
        BY <1>7, <2>2 DEF Outgoing
    <3>2. Promise!SendCreation(t, TRUE)
        BY <1>4, <1>5, <1>6, <2>1, <3>1 DEF Promise!SendCreation
    <3> QED
        BY <1>7, <2>2, <3>2 DEF PromisedStep
  <2>3. CASE at[t] = "report"
    <3>1. m.msgType = TERMINATION_MSG
        BY <1>7, <2>3 DEF Outgoing
    <3>2. Promise!SendTermination(t, TRUE)
        BY <1>4, <1>5, <1>6, <2>1, <3>1 DEF Promise!SendTermination
    <3> QED
        BY <1>7, <2>3, <3>2 DEF PromisedStep
  <2> QED
      BY <1>3, <2>2, <2>3 DEF Sending
<1>8. CASE t \notin Pids
  <2>1. PICK p \in Pids : t = MonitorOf[p]
      BY <1>8 DEF Senders
  <2>2. \E c \in Pids : MonitorOf[c] = t /\ m = [msgType |-> TERMINATION_MSG, pid |-> c]
    <3>1. (CHOOSE c \in Pids : MonitorOf[c] = t) \in {c \in Pids : MonitorOf[c] = t}
        BY <2>1
    <3> QED
        BY <1>8, <3>1 DEF Outgoing
  <2>3. PICK c \in Pids : MonitorOf[c] = t /\ m = [msgType |-> TERMINATION_MSG, pid |-> c]
      BY <2>2
  <2>4. at[MonitorOf[c]] = "report"
      BY <1>1, <1>3, <2>3, ActorFacts DEF Sending, NoThreadAnnounces
  <2>5. Promise!SendTermination(c, TRUE)
      BY <1>4, <1>5, <1>6, <2>3 DEF Promise!SendTermination
  <2> QED
      BY <2>4, <2>5 DEF PromisedStep
<1> QED
    BY <1>7, <1>8

\* A message received is the oldest of its stream, and the thread has it in hand.
LEMMA ReceivePromised ==
    ASSUME PromiseInv, NEW t \in Receivers, ReceiveOk(t)
    PROVE  PromisedStep
<1> DEFINE type == Wanted(t)
<1>1. TypeInv
    BY DEF PromiseInv, KnowInv
<1>2. queue \in Seq(Message)
    BY <1>1 DEF TypeInv, MessengerTypeOK
<1>3. PICK p \in Pids \cup {NoPid} : /\ Receive(t, type, p)
                                   /\ inHand' = [inHand EXCEPT ![t] = p]
    BY DEF ReceiveOk
<1>4. t \in Busy /\ t \in Actors
    BY ActorFacts DEF Receivers, Busy
<1>5. inHand'[t] = p /\ at'[t] = "log"
    BY <1>1, <1>3, <1>4 DEF ReceiveOk, Go, TypeInv, OwnTypes
<1>6. PICK r \in Indices(queue, type) : /\ \A j \in Indices(queue, type) : r <= j
                                       /\ p = queue[r].pid
                                       /\ queue' = Without(queue, r)
    BY <1>3 DEF Receive, Taken, OfType, Indices, Without
<1>7. /\ Stream(type) # <<>> /\ p = Head(Stream(type)) /\ Stream(type)' = Tail(Stream(type))
      /\ \A other : other # type => Stream(other)' = Stream(other)
    BY <1>2, <1>6, StreamWithout, StreamsNow
<1>8. CREATION_MSG # TERMINATION_MSG
    BY DEF CREATION_MSG, TERMINATION_MSG
<1>9. CASE t = Creator
  <2>1. type = CREATION_MSG
      BY <1>9 DEF Wanted
  <2>2. Promise!ReceiveCreation(p)
      BY <1>7, <1>8, <2>1 DEF Promise!ReceiveCreation
  <2> QED
      BY <1>5, <1>9, <2>2 DEF PromisedStep
<1>10. CASE t = Terminator
  <2>1. type = TERMINATION_MSG
      BY <1>10, ActorFacts DEF Wanted
  <2>2. Promise!ReceiveTermination(p)
      BY <1>7, <1>8, <2>1 DEF Promise!ReceiveTermination
  <2> QED
      BY <1>5, <1>10, <2>2 DEF PromisedStep
<1> QED
    BY <1>9, <1>10 DEF Receivers

(***************************************************************************)
(* Whatever the threads and children do with the mutex, the naps and the   *)
(* time-outs, the one System V queue gives the two first-in first-out      *)
(* streams that the larger models are built on (messenger.cpp:47).         *)
(***************************************************************************)
THEOREM QueuePromiseKept == RuntimeSpec => KeepsQueuePromise
<1>1. RuntimeInit => Promise!QueueInit
  <2> SUFFICES ASSUME queue = <<>> PROVE Promise!QueueInit
      BY DEF RuntimeInit, MessengerInit
  <2>1. \A type : Stream(type) = <<>>
    <3> SUFFICES ASSUME NEW type PROVE Stream(type) = <<>>
        OBVIOUS
    <3>1. OfType(type) = {}
        BY DEF OfType
    <3>2. Pick(queue, OfType(type)) = <<>>
        BY <3>1, FS_EmptySet DEF Pick
    <3> QED
        BY <3>2 DEF Stream
  <2> QED
      BY <2>1 DEF Promise!QueueInit
<1>2. PromiseInv /\ [Next]_vars => PromiseInv'
  <2>1. ASSUME PromiseInv, Next PROVE PromiseInv'
      BY <2>1, KnowStep, StepAnnounces DEF PromiseInv
  <2>2. ASSUME PromiseInv, UNCHANGED vars PROVE PromiseInv'
      BY <2>2, KnowStep DEF vars, PromiseInv, NoThreadAnnounces
  <2> QED
      BY <2>1, <2>2
<1>3. PromiseInv /\ [Next]_vars => [PromisedStep]_queue
  <2> SUFFICES ASSUME PromiseInv, Next, queue' # queue PROVE PromisedStep
      BY DEF vars, messengerVars
  <2>1. CASE ParentStep
    <3>1. \/ \E t \in Receivers : ReceiveOk(t)
          \/ Exit \/ LaunchFails
        BY <2>1 DEF ParentStep, Parse, Initialize, StartThreads, Decides, StoreArg, MakerLogs,
              Register, Launch, ForkMessenger, CreatorHandles, TerminatorHandles, ReceiveRetries,
              ReceiveNothing, ReceiverEnds, Poll, PollEnds, Quit, Crash, messengerVars
    <3>2. CASE Exit \/ LaunchFails
        BY <3>2 DEF Exit, LaunchFails, ParentGone, RemoveQueue, PromisedStep
    <3> QED
        BY <3>1, <3>2, ReceivePromised
  <2>2. CASE SharedStep
    <3>1. \E t \in Senders : SendOk(t)
        BY <2>2 DEF SharedStep, LogBegin, TakeLock, Lock, Sends, SendRetries, SendNaps, SendWakes,
              GivesUp, SendTimesOut, SendFails, QueueIsGone, messengerVars
    <3> QED
        BY <3>1, SendPromised
  <2>3. ~ChildStep
      BY DEF ChildStep, SpinEnds, SaysHello, ResetLogger, CreateLogger, Finishes, Killed,
            messengerVars
  <2>4. ~LoggedStep
    <3>1. LoggedStep => messengerVars' = messengerVars
        BY LoggedFacts
    <3> QED
        BY <3>1 DEF messengerVars
  <2> QED
      BY <2>1, <2>2, <2>3, <2>4, StepKinds
<1> QED
    BY InitPromiseInv, <1>1, <1>2, <1>3, PTL DEF RuntimeSpec, KeepsQueuePromise
-----------------------------------------------------------------------------
(***************************************************************************)
(* The configuration file.  Of the lines with one key the last one counts. *)
(***************************************************************************)
ConfigLine == [key : STRING, value : STRING]

LastLines(lines) ==
    {i \in DOMAIN lines : /\ Stores(lines[i])
                          /\ \A j \in DOMAIN lines :
                                Stores(lines[j]) /\ lines[j].key = lines[i].key => j <= i}

\* A finite set of numbers that is not empty has a greatest one: that of the highest rank.
LEMMA Greatest ==
    ASSUME NEW I \in SUBSET Nat, IsFiniteSet(I), I # {}
    PROVE  \E i \in I : \A j \in I : j <= i
<1>1. Cardinality(I) \in Nat /\ Cardinality(I) # 0
    BY FS_CardinalityType, FS_EmptySet
<1>1a. Cardinality(I) \in 1..Cardinality(I)
    BY <1>1
<1>2. PICK i \in I : Rank(I, i) = Cardinality(I)
    BY <1>1a, RankOfNth
<1>3. {j \in I : j <= i} = I
  <2>1. {j \in I : j <= i} \in SUBSET I /\ Cardinality({j \in I : j <= i}) = Cardinality(I)
      BY <1>2 DEF Rank
  <2> QED
      BY <2>1, FS_Subset
<1> QED
    BY <1>3

\* The map has the keys and the values of the last lines, and each of them once.
LEMMA MapOfLines ==
    ASSUME NEW lines \in Seq(ConfigLine)
    PROVE  /\ IsFiniteSet(DOMAIN ConfigMap(lines))
           /\ Cardinality(LastLines(lines)) = Cardinality(DOMAIN ConfigMap(lines))
           /\ Cardinality(LastLines(lines)) \in Nat
           /\ \A k \in DOMAIN ConfigMap(lines) :
                 k \in STRING /\ ConfigMap(lines)[k] \in STRING \ {Empty}
           /\ \A i \in LastLines(lines) :
                 /\ lines[i].key \in DOMAIN ConfigMap(lines)
                 /\ ConfigMap(lines)[lines[i].key] = lines[i].value
<1> DEFINE Kept == {i \in DOMAIN lines : Stores(lines[i])}
           Keys == {lines[i].key : i \in Kept}
           last == LastLines(lines)
           key == [i \in last |-> lines[i].key]
           Of(k) == {i \in Kept : lines[i].key = k}
           Latest(k) == CHOOSE i \in Kept :
                           lines[i].key = k /\ \A j \in Kept : lines[j].key = k => j <= i
<1>1. /\ DOMAIN lines = 1..Len(lines) /\ Len(lines) \in Nat
      /\ \A i \in DOMAIN lines : lines[i] \in ConfigLine
    OBVIOUS
<1>2. DOMAIN ConfigMap(lines) = Keys /\ \A k \in Keys : ConfigMap(lines)[k] = lines[Latest(k)].value
    BY DEF ConfigMap
<1>3. IsFiniteSet(DOMAIN lines) /\ \A T \in SUBSET DOMAIN lines : IsFiniteSet(T)
  <2>1. IsFiniteSet(DOMAIN lines)
      BY <1>1, FS_Interval
  <2> QED
      BY <2>1, FS_Subset
<1>4. last \in SUBSET Kept
    BY DEF LastLines
<1>5. \A k \in Keys : \E i \in last : lines[i].key = k
  <2> SUFFICES ASSUME NEW k \in Keys PROVE \E i \in last : lines[i].key = k
      OBVIOUS
  <2>1. Of(k) # {} /\ Of(k) \in SUBSET DOMAIN lines /\ Of(k) \in SUBSET Nat
      BY <1>1
  <2>2. PICK i \in Of(k) : \A j \in Of(k) : j <= i
      BY <2>1, <1>3, Greatest
  <2>3. i \in last
      BY <2>2 DEF LastLines
  <2> QED
      BY <2>2, <2>3
<1>6. \A i, j \in last : lines[i].key = lines[j].key => i = j
  <2> SUFFICES ASSUME NEW i \in last, NEW j \in last, lines[i].key = lines[j].key PROVE i = j
      OBVIOUS
  <2>1. i <= j /\ j <= i
      BY DEF LastLines
  <2>2. i \in Nat /\ j \in Nat
      BY <1>1, <1>4
  <2> QED
      BY <2>1, <2>2
<1>7. \A i \in last : Latest(lines[i].key) = i
  <2> SUFFICES ASSUME NEW i \in last PROVE Latest(lines[i].key) = i
      OBVIOUS
  <2>1. i \in Kept /\ \A j \in Kept : lines[j].key = lines[i].key => j <= i
      BY DEF LastLines
  <2>2. PICK l \in Kept : /\ l = Latest(lines[i].key)
                          /\ lines[l].key = lines[i].key
                          /\ \A j \in Kept : lines[j].key = lines[i].key => j <= l
      BY <2>1
  <2>3. i <= l /\ l <= i
      BY <2>1, <2>2
  <2>4. i \in Nat /\ l \in Nat
      BY <1>1, <2>1
  <2> QED
      BY <2>2, <2>3, <2>4
<1>8. key \in Bijection(last, Keys)
  <2>1. key \in [last -> Keys]
      BY <1>4
  <2> QED
      BY <2>1, <1>5, <1>6 DEF Bijection, Injection, Surjection, IsInjective
<1>9. /\ IsFiniteSet(Keys) /\ Cardinality(Keys) = Cardinality(last)
      /\ Cardinality(last) \in Nat
  <2>1. IsFiniteSet(last)
      BY <1>3, <1>4
  <2> QED
      BY <2>1, <1>8, FS_Bijection, FS_CardinalityType DEF ExistsBijection
<1>10. \A k \in Keys : k \in STRING /\ ConfigMap(lines)[k] \in STRING \ {Empty}
  <2> SUFFICES ASSUME NEW k \in Keys
               PROVE  k \in STRING /\ ConfigMap(lines)[k] \in STRING \ {Empty}
      OBVIOUS
  <2>1. PICK i \in last : lines[i].key = k
      BY <1>5
  <2>2. i \in Kept /\ lines[i] \in ConfigLine
      BY <1>1, <1>4
  <2>3. ConfigMap(lines)[k] = lines[i].value
      BY <1>2, <1>7, <2>1
  <2> QED
      BY <2>1, <2>2, <2>3 DEF ConfigLine, Stores
<1>11. \A i \in last : lines[i].key \in Keys /\ ConfigMap(lines)[lines[i].key] = lines[i].value
  <2> SUFFICES ASSUME NEW i \in last
               PROVE  lines[i].key \in Keys /\ ConfigMap(lines)[lines[i].key] = lines[i].value
      OBVIOUS
  <2>1. lines[i].key \in Keys
      BY <1>4
  <2> HIDE DEF Keys
  <2>2. ConfigMap(lines)[lines[i].key] = lines[Latest(lines[i].key)].value
      BY <2>1, <1>2
  <2> QED
      BY <2>1, <2>2, <1>7
<1> QED
    BY <1>2, <1>9, <1>10, <1>11
-----------------------------------------------------------------------------
\* The first index of a sequence and the last l, with m between them.
Ends(m, l) == {1} \cup ((m + 2)..(m + 1 + l))

\* Picked there, they come one behind the other.
LEMMA PickEnds ==
    ASSUME NEW S, NEW s \in Seq(S), NEW m \in Nat, NEW l \in Nat, Len(s) = 1 + m + l,
           NEW J, J = Ends(m, l)
    PROVE  /\ J \in SUBSET DOMAIN s
           /\ Len(Pick(s, J)) = 1 + l
           /\ Pick(s, J)[1] = s[1]
           /\ \A t \in 1..l : Pick(s, J)[1 + t] = s[m + 1 + t]
<1> USE DEF Ends
<1>1. J \in SUBSET DOMAIN s /\ J \in SUBSET Nat /\ 1 \in J
    OBVIOUS
<1>2. \A t \in 0..l : Cardinality({1} \cup ((m + 2)..(m + 1 + t))) = 1 + t
  <2> SUFFICES ASSUME NEW t \in 0..l
               PROVE  Cardinality({1} \cup ((m + 2)..(m + 1 + t))) = 1 + t
      OBVIOUS
  <2> DEFINE a == m + 2
             b == m + 1 + t
             R == a..b
             Z == {1} \cup ((m + 2)..(m + 1 + t))
  <2>1. a \in Int /\ b \in Int /\ 1 \notin R /\ t = (IF a > b THEN 0 ELSE b - a + 1)
      OBVIOUS
  <2>2. Z = R \cup {1}
      OBVIOUS
  <2> HIDE DEF a, b
  <2>3. IsFiniteSet(R) /\ Cardinality(R) = t
      BY <2>1, FS_Interval
  <2> HIDE DEF R, Z
  <2>4. Cardinality(R \cup {1}) = Cardinality(R) + 1
      BY <2>1, <2>3, FS_AddElement
  <2>5. Cardinality(Z) = 1 + t
      BY <2>2, <2>3, <2>4
  <2> QED
      BY <2>5 DEF Z
<1>4. Cardinality(J) = 1 + l
    BY <1>2
<1>5. Rank(J, 1) = 1
  <2>1. {j \in J : j <= 1} = {1}
      OBVIOUS
  <2> QED
      BY <2>1, FS_Singleton DEF Rank
<1>6. \A t \in 1..l : m + 1 + t \in J /\ Rank(J, m + 1 + t) = 1 + t
  <2> SUFFICES ASSUME NEW t \in 1..l PROVE m + 1 + t \in J /\ Rank(J, m + 1 + t) = 1 + t
      OBVIOUS
  <2>1. m + 1 + t \in J
      OBVIOUS
  <2>2. {j \in J : j <= m + 1 + t} = {1} \cup ((m + 2)..(m + 1 + t))
      OBVIOUS
  <2> QED
      BY <2>1, <2>2, <1>2 DEF Rank
<1>7. Len(Pick(s, J)) = 1 + l
    BY <1>1, <1>4, PickType
<1>8. Pick(s, J)[1] = s[1]
    BY <1>1, <1>5, PickAtRank
<1>9. \A t \in 1..l : Pick(s, J)[1 + t] = s[m + 1 + t]
  <2> SUFFICES ASSUME NEW t \in 1..l PROVE Pick(s, J)[1 + t] = s[m + 1 + t]
      OBVIOUS
  <2> DEFINE i == m + 1 + t
  <2>1. i \in J /\ Rank(J, i) = 1 + t
      BY <1>6
  <2> HIDE DEF i
  <2>2. Pick(s, J)[1 + t] = s[i]
      BY <2>1, <1>1, PickAtRank
  <2> QED
      BY <2>2 DEF i
<1> QED
    BY <1>1, <1>7, <1>8, <1>9
-----------------------------------------------------------------------------
(***************************************************************************)
(* The vector of posix_spawn for a map and an order of its entries.  Each  *)
(* key but process_file is listed once, and gives a flag and a value; the  *)
(* empty strings, and nothing else, are dropped again.                     *)
(***************************************************************************)
\* Empty is in STRING; it stands beside it because the provers know no literal to be there.
Argument == [dash : BOOLEAN, text : STRING \cup {Empty}]

Listing(order) == Pick(order, {i \in DOMAIN order : order[i] # "process_file"})

\* Each key but process_file is listed once.
LEMMA ListedKeys ==
    ASSUME NEW map, IsFiniteSet(DOMAIN map), "process_file" \in DOMAIN map,
           NEW order \in Orders(map)
    PROVE  /\ order \in Seq(DOMAIN map) /\ Len(order) = Cardinality(DOMAIN map)
           /\ Cardinality(DOMAIN map) \in Nat \ {0}
           /\ Listing(order) \in Seq(DOMAIN map)
           /\ Len(Listing(order)) = Cardinality(DOMAIN map) - 1
           /\ \A k \in DOMAIN map \ {"process_file"} :
                 \E r \in 1..(Cardinality(DOMAIN map) - 1) : Listing(order)[r] = k
<1> DEFINE K == DOMAIN map
           n == Cardinality(K)
           I == {i \in DOMAIN order : order[i] # "process_file"}
<1>1. n \in Nat /\ n # 0
    BY FS_CardinalityType, FS_EmptySet
<1>2. order \in [1..n -> K] /\ \A i, j \in 1..n : i # j => order[i] # order[j]
    BY DEF Orders, SetToSeqs
<1>3. order \in Seq(K) /\ Len(order) = n /\ DOMAIN order = 1..n
    BY <1>1, <1>2
<1>4. \A k \in K : \E i \in 1..n : order[i] = k
  <2>1. order \in Injection(1..n, K)
      BY <1>2 DEF Injection, IsInjective
  <2>2. IsFiniteSet(1..n) /\ Cardinality(1..n) = n
      BY <1>1, FS_Interval
  <2>3. order \in Surjection(1..n, K)
      BY <2>1, <2>2, FS_Injection
  <2> QED
      BY <2>3 DEF Surjection
<1>5. PICK f \in 1..n : order[f] = "process_file"
    BY <1>4
<1>6. I = (1..n) \ {f}
    BY <1>2, <1>3, <1>5
<1>7. Cardinality(I) = n - 1
  <2>1. IsFiniteSet(1..n) /\ Cardinality(1..n) = n
      BY <1>1, FS_Interval
  <2>2. Cardinality((1..n) \ {f}) = Cardinality(1..n) - 1
      BY <2>1, <1>5, FS_RemoveElement
  <2> QED
      BY <1>6, <2>1, <2>2
<1>8. I \in SUBSET DOMAIN order
    OBVIOUS
<1>9. Listing(order) \in Seq(K) /\ Len(Listing(order)) = n - 1
    BY <1>3, <1>7, <1>8, PickType DEF Listing
<1>10. \A k \in K \ {"process_file"} : \E r \in 1..(n - 1) : Listing(order)[r] = k
  <2> SUFFICES ASSUME NEW k \in K \ {"process_file"}
               PROVE  \E r \in 1..(n - 1) : Listing(order)[r] = k
      OBVIOUS
  <2>1. PICK i \in I : order[i] = k
      BY <1>3, <1>4
  <2> HIDE DEF I
  <2>2. Rank(I, i) \in 1..Cardinality(I) /\ Pick(order, I)[Rank(I, i)] = order[i]
      BY <1>3, <1>8, PickAtRank
  <2>3. Listing(order) = Pick(order, I)
      BY DEF Listing, I
  <2> QED
      BY <2>1, <2>2, <2>3, <1>7
<1> QED
    BY <1>1, <1>3, <1>9, <1>10

\* A concatenation, with the lengths by name.
LEMMA Concatenated ==
    ASSUME NEW S, NEW s \in Seq(S), NEW t \in Seq(S), NEW m, m = Len(s), NEW l, l = Len(t)
    PROVE  /\ s \o t \in Seq(S) /\ Len(s \o t) = m + l
           /\ \A i \in 1..m : (s \o t)[i] = s[i]
           /\ \A i \in 1..l : (s \o t)[m + i] = t[i]
BY ConcatProperties

\* What ConfigReader puts behind the file: empty strings, then flags and values.
LEMMA ParametersOf ==
    ASSUME NEW map, IsFiniteSet(DOMAIN map), "process_file" \in DOMAIN map,
           \A k \in DOMAIN map : k \in STRING /\ map[k] \in STRING \ {Empty},
           NEW order \in Orders(map), NEW n, n = Cardinality(DOMAIN map)
    PROVE  /\ ConsecutiveParameters(map, order) \in Seq(Argument)
           /\ Len(ConsecutiveParameters(map, order)) = 2 * n + 2 * (n - 1)
           /\ \A i \in 1..(2 * n) : ConsecutiveParameters(map, order)[i] = Word(Empty)
           /\ \A r \in 1..(n - 1) :
                 /\ ConsecutiveParameters(map, order)[2 * n + 2 * r - 1] = Flag(Listing(order)[r])
                 /\ ConsecutiveParameters(map, order)[2 * n + 2 * r]
                        = Word(map[Listing(order)[r]])
           /\ \A i \in 1..(2 * (n - 1)) :
                 ConsecutiveParameters(map, order)[2 * n + i] # Word(Empty)
<1> DEFINE L == Listing(order)
           E == [i \in 1..(2 * n) |-> Word(Empty)]
           F == [i \in 1..(2 * (n - 1)) |->
                   LET k == L[(i + 1) \div 2] IN IF i % 2 = 1 THEN Flag(k) ELSE Word(map[k])]
<1>1. /\ n \in Nat \ {0} /\ Len(order) = n
      /\ L \in Seq(DOMAIN map) /\ Len(L) = n - 1
    BY ListedKeys
<1>2. ConsecutiveParameters(map, order) = E \o F
    BY <1>1 DEF ConsecutiveParameters, Listing
<1> HIDE DEF L
<1>3. E \in Seq(Argument) /\ Len(E) = 2 * n
  <2>1. Word(Empty) \in Argument
      BY DEF Argument, Word
  <2>2. E \in [1..(2 * n) -> Argument]
      BY <2>1
  <2>3. 2 * n \in Nat
      BY <1>1
  <2> QED
      BY <2>2, <2>3
<1>4. \A i \in 1..(2 * (n - 1)) : (i + 1) \div 2 \in 1..(n - 1)
    BY <1>1
<1>5. \A i \in 1..(2 * (n - 1)) : F[i] \in Argument /\ F[i] # Word(Empty)
  <2> SUFFICES ASSUME NEW i \in 1..(2 * (n - 1))
               PROVE  F[i] \in Argument /\ F[i] # Word(Empty)
      OBVIOUS
  <2>1. PICK k \in DOMAIN map : k = L[(i + 1) \div 2]
      BY <1>1, <1>4
  <2>2. F[i] = IF i % 2 = 1 THEN Flag(k) ELSE Word(map[k])
      BY <2>1
  <2> QED
      BY <2>1, <2>2 DEF Argument, Flag, Word
<1>6. F \in Seq(Argument) /\ Len(F) = 2 * (n - 1)
  <2>1. F \in [1..(2 * (n - 1)) -> Argument]
      BY <1>5
  <2>2. 2 * (n - 1) \in Nat
      BY <1>1
  <2> QED
      BY <2>1, <2>2
<1>7. \A r \in 1..(n - 1) : F[2 * r - 1] = Flag(L[r]) /\ F[2 * r] = Word(map[L[r]])
  <2> SUFFICES ASSUME NEW r \in 1..(n - 1)
               PROVE  F[2 * r - 1] = Flag(L[r]) /\ F[2 * r] = Word(map[L[r]])
      OBVIOUS
  <2>1. /\ 2 * r - 1 \in 1..(2 * (n - 1)) /\ 2 * r \in 1..(2 * (n - 1))
        /\ ((2 * r - 1) + 1) \div 2 = r /\ (2 * r + 1) \div 2 = r
        /\ (2 * r - 1) % 2 = 1 /\ (2 * r) % 2 # 1
      BY <1>1
  <2> QED
      BY <2>1
<1> HIDE DEF E, F
<1>8. /\ E \o F \in Seq(Argument) /\ Len(E \o F) = 2 * n + 2 * (n - 1)
      /\ \A i \in 1..(2 * n) : (E \o F)[i] = E[i]
      /\ \A i \in 1..(2 * (n - 1)) : (E \o F)[2 * n + i] = F[i]
  <2> DEFINE m == 2 * n
             l == 2 * (n - 1)
  <2>1. E \in Seq(Argument) /\ F \in Seq(Argument) /\ m = Len(E) /\ l = Len(F)
      BY <1>3, <1>6
  <2> HIDE DEF m, l
  <2>2. /\ E \o F \in Seq(Argument) /\ Len(E \o F) = m + l
        /\ \A i \in 1..m : (E \o F)[i] = E[i]
        /\ \A i \in 1..l : (E \o F)[m + i] = F[i]
      BY <2>1, Concatenated
  <2> QED
      BY <2>2 DEF m, l
<1>9. \A i \in 1..(2 * n) : E[i] = Word(Empty)
    BY DEF E
<1>10. \A r \in 1..(n - 1) : /\ (E \o F)[2 * n + 2 * r - 1] = Flag(L[r])
                             /\ (E \o F)[2 * n + 2 * r] = Word(map[L[r]])
  <2> SUFFICES ASSUME NEW r \in 1..(n - 1)
               PROVE  /\ (E \o F)[2 * n + 2 * r - 1] = Flag(L[r])
                      /\ (E \o F)[2 * n + 2 * r] = Word(map[L[r]])
      OBVIOUS
  <2>1. /\ 2 * r - 1 \in 1..(2 * (n - 1)) /\ 2 * r \in 1..(2 * (n - 1))
        /\ 2 * n + 2 * r - 1 = 2 * n + (2 * r - 1)
      BY <1>1
  <2> QED
      BY <2>1, <1>7, <1>8
<1>11. \A i \in 1..(2 * (n - 1)) : (E \o F)[2 * n + i] # Word(Empty)
    BY <1>5, <1>8
<1>12. \A i \in 1..(2 * n) : (E \o F)[i] = Word(Empty)
    BY <1>8, <1>9
<1> DEFINE C == ConsecutiveParameters(map, order)
<1> SUFFICES /\ C \in Seq(Argument) /\ Len(C) = 2 * n + 2 * (n - 1)
             /\ \A i \in 1..(2 * n) : C[i] = Word(Empty)
             /\ \A r \in 1..(n - 1) : /\ C[2 * n + 2 * r - 1] = Flag(L[r])
                                      /\ C[2 * n + 2 * r] = Word(map[L[r]])
             /\ \A i \in 1..(2 * (n - 1)) : C[2 * n + i] # Word(Empty)
    BY DEF L
<1>13. C = E \o F
    BY <1>2
<1> HIDE DEF C
<1> QED
    BY <1>8, <1>10, <1>11, <1>12, <1>13

\* A map of text, and the arguments for it.
TextMap(map) == \A k \in DOMAIN map : k \in STRING /\ map[k] \in STRING \ {Empty}

Filed(map, n, spawn) ==
    /\ n \in Nat /\ Len(spawn) = 2 * n - 1
    /\ spawn[1] = Word(map["process_file"])
    /\ \A k \in DOMAIN map \ {"process_file"} :
          \E j \in 2..(Len(spawn) - 1) : spawn[j] = Flag(k) /\ spawn[j + 1] = Word(map[k])

\* What posix_spawn gets: the file, and the flag and the value of every other key.
LEMMA ArgumentsOf ==
    ASSUME NEW map, IsFiniteSet(DOMAIN map), HasFile(map), TextMap(map),
           NEW order \in Orders(map), NEW n, n = Cardinality(DOMAIN map),
           NEW spawn, spawn = CStyleArgs(Populate(map, order))
    PROVE  Filed(map, n, spawn)
<1>0. \A k \in DOMAIN map : k \in STRING /\ map[k] \in STRING \ {Empty}
    BY DEF TextMap
<1> DEFINE file == map["process_file"]
           C == ConsecutiveParameters(map, order)
           args == <<Word(file)>> \o C
           J == {i \in DOMAIN args : args[i] # Word(Empty)}
           m == 2 * n
           l == 2 * (n - 1)
<1>1. "process_file" \in DOMAIN map
    BY DEF HasFile
<1>2. /\ n \in Nat \ {0} /\ Len(Listing(order)) = n - 1
      /\ \A k \in DOMAIN map \ {"process_file"} :
            \E r \in 1..(n - 1) : Listing(order)[r] = k
    BY <1>0, <1>1, ListedKeys
<1>3. /\ C \in Seq(Argument) /\ Len(C) = m + l
      /\ \A i \in 1..m : C[i] = Word(Empty)
      /\ \A i \in 1..l : C[m + i] # Word(Empty)
    BY <1>0, <1>1, ParametersOf
<1>4. \A r \in 1..(n - 1) : /\ C[2 * n + 2 * r - 1] = Flag(Listing(order)[r])
                            /\ C[2 * n + 2 * r] = Word(map[Listing(order)[r]])
    BY <1>0, <1>1, ParametersOf
<1>5. spawn = Pick(args, J)
    BY DEF CStyleArgs, Populate
<1>6. m \in Nat /\ l \in Nat
    BY <1>2
<1>7. Word(file) \in Argument /\ Word(file) # Word(Empty)
    BY <1>0, <1>1 DEF Argument, Word
<1> HIDE DEF C, m, l, file
<1>8. /\ args \in Seq(Argument) /\ Len(args) = 1 + m + l
      /\ args[1] = Word(file)
      /\ \A i \in 1..(m + l) : args[1 + i] = C[i]
  <2>1. <<Word(file)>> \in Seq(Argument) /\ Len(<<Word(file)>>) = 1
      BY <1>7
  <2>2. /\ args \in Seq(Argument) /\ Len(args) = 1 + (m + l)
        /\ \A i \in 1..1 : args[i] = <<Word(file)>>[i]
        /\ \A i \in 1..(m + l) : args[1 + i] = C[i]
      BY <2>1, <1>3, Concatenated
  <2>3. args[1] = <<Word(file)>>[1]
      BY <2>2
  <2> QED
      BY <2>2, <2>3, <1>6
<1>9. J = Ends(m, l)
  <2>1. DOMAIN args = 1..(1 + m + l)
      BY <1>8
  <2>2. \A i \in 2..(m + 1) : args[i] = Word(Empty)
    <3> SUFFICES ASSUME NEW i \in 2..(m + 1) PROVE args[i] = Word(Empty)
        OBVIOUS
    <3>1. i - 1 \in 1..m /\ i - 1 \in 1..(m + l) /\ 1 + (i - 1) = i
        BY <1>6
    <3> QED
        BY <3>1, <1>3, <1>8
  <2>3. \A i \in (m + 2)..(m + 1 + l) : args[i] # Word(Empty)
    <3> SUFFICES ASSUME NEW i \in (m + 2)..(m + 1 + l) PROVE args[i] # Word(Empty)
        OBVIOUS
    <3>1. /\ i - 1 - m \in 1..l /\ i - 1 \in 1..(m + l)
          /\ 1 + (i - 1) = i /\ m + (i - 1 - m) = i - 1
        BY <1>6
    <3> QED
        BY <3>1, <1>3, <1>8
  <2> HIDE DEF args
  <2>4. \A i \in 1..(1 + m + l) : i = 1 \/ i \in 2..(m + 1) \/ i \in (m + 2)..(m + 1 + l)
      BY <1>6
  <2>5. 1 \in 1..(1 + m + l) /\ (m + 2)..(m + 1 + l) \subseteq 1..(1 + m + l)
      BY <1>6
  <2>6. args[1] # Word(Empty)
      BY <1>7, <1>8
  <2> QED
      BY <2>1, <2>2, <2>3, <2>4, <2>5, <2>6 DEF Ends
<1> HIDE DEF args, J
<1>10. /\ Len(spawn) = 1 + l /\ spawn[1] = args[1]
       /\ \A t \in 1..l : spawn[1 + t] = args[m + 1 + t]
  <2>1. args \in Seq(Argument) /\ Len(args) = 1 + m + l
      BY <1>8
  <2>2. /\ Len(Pick(args, J)) = 1 + l /\ Pick(args, J)[1] = args[1]
        /\ \A t \in 1..l : Pick(args, J)[1 + t] = args[m + 1 + t]
      BY <2>1, <1>6, <1>9, PickEnds
  <2> QED
      BY <2>2, <1>5
<1>11. \A t \in 1..l : spawn[1 + t] = C[m + t]
  <2> SUFFICES ASSUME NEW t \in 1..l PROVE spawn[1 + t] = C[m + t]
      OBVIOUS
  <2>1. m + t \in 1..(m + l) /\ 1 + (m + t) = m + 1 + t
      BY <1>6
  <2> QED
      BY <2>1, <1>8, <1>10
<1>12. Len(spawn) = 2 * n - 1
    BY <1>2, <1>10 DEF l
<1>13. ASSUME NEW k \in DOMAIN map \ {"process_file"}
       PROVE  \E j \in 2..(Len(spawn) - 1) : spawn[j] = Flag(k) /\ spawn[j + 1] = Word(map[k])
  <2>1. PICK r \in 1..(n - 1) : Listing(order)[r] = k
      BY <1>2
  <2>2. /\ 2 * r - 1 \in 1..l /\ 2 * r \in 1..l
        /\ 1 + (2 * r - 1) = 2 * r /\ 1 + 2 * r = 2 * r + 1
        /\ m + (2 * r - 1) = 2 * n + 2 * r - 1 /\ m + 2 * r = 2 * n + 2 * r
      BY <1>2 DEF l, m
  <2>3. spawn[2 * r] = C[2 * n + 2 * r - 1] /\ spawn[2 * r + 1] = C[2 * n + 2 * r]
      BY <2>2, <1>11
  <2>4. spawn[2 * r] = Flag(k) /\ spawn[2 * r + 1] = Word(map[k])
      BY <2>1, <2>3, <1>4
  <2>5. 2 * r \in 2..(Len(spawn) - 1)
      BY <1>2, <1>12
  <2> QED
      BY <2>4, <2>5
<1> QED
    BY <1>2, <1>8, <1>10, <1>12, <1>13 DEF file, Filed

(***************************************************************************)
(* What posix_spawn got stays what the file asks for: SystemArguments, of  *)
(* RuntimeSpec.  It is inductive next to LineInv, which says that the file *)
(* is one that can be read.                                                *)
(***************************************************************************)
ArgumentInv == LineInv /\ SystemArguments

\* The step that spawns.
LEMMA SpawnedAsFiled ==
    ASSUME LineInv, Initialize
    PROVE  SystemArguments'
<1> SUFFICES ASSUME startup' = "started", settings'.processType = "system"
             PROVE  SystemArguments'
    BY DEF SystemArguments
<1> DEFINE lines == ConfigFiles[settings.configFile].lines
           map == ConfigMap(lines)
           n == Cardinality(DOMAIN map)
<1>1. settings' = settings
    BY DEF Initialize
<1>2. /\ startup = "initialize" /\ Spawns(map)
      /\ \E order \in Orders(map) : spawned' = CStyleArgs(Populate(map, order))
    BY <1>1 DEF Initialize, HandlerFactory
<1>3. PICK order \in Orders(map) : spawned' = CStyleArgs(Populate(map, order))
    BY <1>2
<1>4. lines \in Seq(ConfigLine)
    BY <1>1, <1>2, ConfigAssumption DEF LineInv, StartsOnlyRunnable, Readable, ConfigLine
<1> HIDE DEF lines
<1>5. /\ IsFiniteSet(DOMAIN map) /\ Cardinality(LastLines(lines)) = n
      /\ \A k \in DOMAIN map : k \in STRING /\ map[k] \in STRING \ {Empty}
      /\ \A i \in LastLines(lines) :
            lines[i].key \in DOMAIN map /\ map[lines[i].key] = lines[i].value
    BY <1>4, MapOfLines
<1>6. HasFile(map)
    BY <1>2 DEF Spawns
<1> HIDE DEF map, n
<1>7. Filed(map, n, spawned')
  <2>1. n = Cardinality(DOMAIN map)
      BY DEF n
  <2>2. TextMap(map)
      BY <1>5 DEF TextMap
  <2> QED
      BY <1>3, <1>5, <1>6, <2>1, <2>2, ArgumentsOf
<1>8. \A i \in LastLines(lines) :
         IF lines[i].key = "process_file" THEN spawned'[1] = Word(lines[i].value)
         ELSE \E j \in 2..(Len(spawned') - 1) :
                 spawned'[j] = Flag(lines[i].key) /\ spawned'[j + 1] = Word(lines[i].value)
    BY <1>5, <1>7 DEF Filed
<1>9. Len(spawned') = 2 * Cardinality(LastLines(lines)) - 1
    BY <1>5, <1>7 DEF Filed
<1> QED
    BY <1>1, <1>8, <1>9 DEF SystemArguments, LastLines, lines

\* No other step touches what was spawned, or starts a system process.
LEMMA SpawnedKept ==
    ASSUME SystemArguments, Next, ~Initialize
    PROVE  SystemArguments'
<1>1. CASE Parse
    BY <1>1 DEF Parse, ReadOption, EndOfOptions, SystemArguments
<1>2. CASE ~Parse
  <2>1. settings' = settings /\ (startup' = "started" => startup = "started")
      BY <1>2, LaterSteps
  <2>2. spawned' = spawned
    <3>1. CASE ParentStep
        BY <1>2, <3>1 DEF ParentStep, StartThreads, Decides, StoreArg, MakerLogs, Register,
                    Launch, CreatorHandles, TerminatorHandles, ReceiveOk, ReceiveRetries,
                    ReceiverEnds, Poll, PollEnds, OnlyQueue, Quit, Exit, LaunchFails, Crash,
                    ParentGone, birthVars
    <3>2. CASE SharedStep
        BY <3>2 DEF SharedStep, LogBegin, TakeLock, Sends, SendOk, SendRetries, GivesUp,
                    SendFails, OnlyQueue, birthVars
    <3>3. CASE ChildStep
        BY <3>3 DEF ChildStep, SpinEnds, SaysHello, ResetLogger, CreateLogger, Finishes, Killed,
                    OnlyQueue, birthVars
    <3>4. CASE LoggedStep
        BY <3>4, LoggedFacts DEF birthVars
    <3> QED
        BY <3>1, <3>2, <3>3, <3>4, StepKinds
  <2> QED
      BY <2>1, <2>2 DEF SystemArguments
<1> QED
    BY <1>1, <1>2

\* A program that has started as a system process was given what its file says.
THEOREM ArgumentsAsFiled == RuntimeSpec => []SystemArguments
<1>1. RuntimeInit => SystemArguments
    BY DEF RuntimeInit, CommandLineInit, SystemArguments
<1>2. ArgumentInv /\ [Next]_vars => ArgumentInv'
  <2>1. ASSUME ArgumentInv, Next PROVE SystemArguments'
      BY <2>1, SpawnedAsFiled, SpawnedKept DEF ArgumentInv
  <2>2. ASSUME ArgumentInv, UNCHANGED vars PROVE SystemArguments'
      BY <2>2 DEF ArgumentInv, SystemArguments, vars, commandLineVars, birthVars
  <2> QED
      BY <2>1, <2>2, StepLine DEF ArgumentInv
<1>3. ArgumentInv => SystemArguments
    BY DEF ArgumentInv
<1> QED
    BY <1>1, <1>2, <1>3, InitLine, PTL DEF RuntimeSpec, ArgumentInv
=============================================================================
