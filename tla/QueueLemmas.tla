---------------------------- MODULE QueueLemmas -----------------------------
(***************************************************************************)
(* What the operations of QueueOps do to the elements of a queue, to their *)
(* distinctness and to their order.                                        *)
(***************************************************************************)
EXTENDS QueueOps, FiniteSetTheorems, FunctionTheorems,
        SequenceTheorems, TLAPS

(* A set of positions is finite.                                            *)
LEMMA PositionsFinite ==
  ASSUME NEW n \in Nat, NEW S \in SUBSET (1 .. n)
  PROVE  IsFiniteSet(S) /\ Cardinality(S) \in Nat
<1>1. IsFiniteSet(1 .. n)
  BY FS_Interval
<1>2. IsFiniteSet(S)
  BY <1>1, FS_Subset
<1> QED
  BY <1>2, FS_CardinalityType

(* A rank counts some of the positions.                                     *)
LEMMA UpTo ==
  ASSUME NEW n \in Nat, NEW S \in SUBSET (1 .. n), NEW i
  PROVE  /\ IsFiniteSet({j \in S : j <= i})
         /\ Rank(S, i) \in Nat
         /\ Rank(S, i) <= Cardinality(S)
<1>1. {j \in S : j <= i} \in SUBSET S
  OBVIOUS
<1>2. IsFiniteSet(S)
  BY PositionsFinite
<1> QED
  BY <1>1, <1>2, FS_Subset, FS_CardinalityType DEF Rank

(* The rank of a member grows with the member.                              *)
LEMMA RankGrows ==
  ASSUME NEW n \in Nat, NEW S \in SUBSET (1 .. n)
  PROVE  \A i, j \in S : i < j => Rank(S, i) < Rank(S, j)
<1> SUFFICES ASSUME NEW i \in S, NEW j \in S, i < j
             PROVE  Rank(S, i) < Rank(S, j)
  OBVIOUS
<1> DEFINE A == {k \in S : k <= i}
           B == {k \in S : k <= j}
<1>1. i \in Int /\ j \in Int
  OBVIOUS
<1>2. A \in SUBSET B
  <2> SUFFICES ASSUME NEW k \in S, k <= i PROVE k <= j
    OBVIOUS
  <2>1. k \in Int
    OBVIOUS
  <2> QED
    BY <1>1, <2>1
<1>5. j \in B /\ j \notin A
  BY <1>1
<1>3. IsFiniteSet(B) /\ Cardinality(A) \in Nat /\ Cardinality(B) \in Nat
  BY <1>1, UpTo DEF Rank
<1>4. Cardinality(A) <= Cardinality(B) /\ Cardinality(A) # Cardinality(B)
  BY <1>2, <1>3, <1>5, FS_Subset
<1> QED
  BY <1>3, <1>4 DEF Rank

(* Every member has a rank between 1 and the size of the set, and every     *)
(* number in that range is the rank of a member.                            *)
LEMMA RankOnto ==
  ASSUME NEW n \in Nat, NEW S \in SUBSET (1 .. n)
  PROVE  /\ \A i \in S : Rank(S, i) \in 1 .. Cardinality(S)
         /\ \A m \in 1 .. Cardinality(S) : \E i \in S : Rank(S, i) = m
<1> DEFINE c == Cardinality(S)
           r == [i \in S |-> Rank(S, i)]
<1>1. c \in Nat /\ IsFiniteSet(S)
  BY PositionsFinite
<1>2. ASSUME NEW i \in S PROVE Rank(S, i) \in 1 .. c
  <2>1. i \in Int
    OBVIOUS
  <2>2. i \in {j \in S : j <= i}
    BY <2>1
  <2>3. IsFiniteSet({j \in S : j <= i}) /\ Rank(S, i) \in Nat /\ Rank(S, i) <= c
    BY UpTo
  <2>4. Rank(S, i) # 0
    BY <2>2, <2>3, FS_EmptySet DEF Rank
  <2> QED
    BY <1>1, <2>3, <2>4
<1>3. r \in [S -> 1 .. c]
  BY <1>2
<1>4. ASSUME NEW i \in S, NEW j \in S, r[i] = r[j] PROVE i = j
  <2>1. i \in Int /\ j \in Int
    OBVIOUS
  <2>2. Rank(S, i) = Rank(S, j) /\ Rank(S, i) \in Nat
    BY <1>2, <1>4, UpTo
  <2>3. \A x, y \in S : x < y => Rank(S, x) < Rank(S, y)
    BY RankGrows
  <2>4. ~(i < j) /\ ~(j < i)
    BY <2>2, <2>3
  <2> QED
    BY <2>1, <2>4
<1>5. r \in Injection(S, 1 .. c)
  BY <1>3, <1>4, Fun_IsInj DEF Injection, IsInjective
<1>6. IsFiniteSet(1 .. c) /\ Cardinality(1 .. c) = c
  BY <1>1, FS_Interval
<1>7. r \in Surjection(S, 1 .. c)
  BY <1>5, <1>6, FS_Injection
<1>8. \A m \in 1 .. c : \E i \in S : r[i] = m
  BY <1>7, Fun_IsSurj DEF Surjection
<1> QED
  BY <1>2, <1>8

(* Nth lists the members in increasing order.                               *)
LEMMA NthLists ==
  ASSUME NEW n \in Nat, NEW S \in SUBSET (1 .. n)
  PROVE  /\ \A m \in 1 .. Cardinality(S) : Nth(S, m) \in S
         /\ \A i \in S : \E m \in 1 .. Cardinality(S) : Nth(S, m) = i
         /\ \A m, p \in 1 .. Cardinality(S) : m < p <=> Nth(S, m) < Nth(S, p)
<1>1. ASSUME NEW m \in 1 .. Cardinality(S)
      PROVE  Nth(S, m) \in S /\ Rank(S, Nth(S, m)) = m
  BY RankOnto DEF Nth
<1>2. ASSUME NEW i \in S, NEW j \in S, Rank(S, i) = Rank(S, j) PROVE i = j
  <2>1. i \in Int /\ j \in Int
    OBVIOUS
  <2>2. Rank(S, i) \in Nat
    BY UpTo
  <2>3. \A x, y \in S : x < y => Rank(S, x) < Rank(S, y)
    BY RankGrows
  <2>4. ~(i < j) /\ ~(j < i)
    BY <1>2, <2>2, <2>3
  <2> QED
    BY <2>1, <2>4
<1>3. ASSUME NEW i \in S PROVE \E m \in 1 .. Cardinality(S) : Nth(S, m) = i
  <2>1. Rank(S, i) \in 1 .. Cardinality(S)
    BY RankOnto
  <2>2. Nth(S, Rank(S, i)) = i
    BY <1>1, <1>2, <2>1
  <2> QED
    BY <2>1, <2>2
<1>4. ASSUME NEW m \in 1 .. Cardinality(S), NEW p \in 1 .. Cardinality(S)
      PROVE  m < p <=> Nth(S, m) < Nth(S, p)
  <2>1. PICK i \in S : Nth(S, m) = i /\ Rank(S, i) = m
    BY <1>1
  <2>2. PICK j \in S : Nth(S, p) = j /\ Rank(S, j) = p
    BY <1>1
  <2>3. i \in Int /\ j \in Int /\ m \in Int /\ p \in Int
    OBVIOUS
  <2>4. \A x, y \in S : x < y => Rank(S, x) < Rank(S, y)
    BY RankGrows
  <2>5. (i < j => m < p) /\ (j < i => p < m)
    BY <2>1, <2>2, <2>4
  <2>6. i = j => m = p
    BY <2>1, <2>2
  <2> QED
    BY <2>1, <2>2, <2>3, <2>5, <2>6
<1> QED
  BY <1>1, <1>3, <1>4

-----------------------------------------------------------------------------
(* Keep: a sequence of the elements at the kept positions, without          *)
(* repetition if q has none, and in the order of q.                         *)
LEMMA KeepProperties ==
  ASSUME NEW T, NEW q \in Seq(T), NEW S \in SUBSET DOMAIN q
  PROVE  /\ Keep(q, S) \in Seq(T)
         /\ Queued(Keep(q, S)) = {q[i] : i \in S}
         /\ Distinct(q) => Distinct(Keep(q, S))
         /\ \A x, y : Ahead(Keep(q, S), x, y)
                        <=> \E i, j \in S : i < j /\ q[i] = x /\ q[j] = y
<1> DEFINE c == Cardinality(S)
           r == Keep(q, S)
<1>1. Len(q) \in Nat /\ DOMAIN q = 1 .. Len(q) /\ S \in SUBSET (1 .. Len(q))
  OBVIOUS
<1>2. c \in Nat
  BY <1>1, PositionsFinite
<1>3. /\ \A m \in 1 .. c : Nth(S, m) \in S
      /\ \A i \in S : \E m \in 1 .. c : Nth(S, m) = i
      /\ \A m, p \in 1 .. c : m < p <=> Nth(S, m) < Nth(S, p)
  BY <1>1, NthLists
<1>4. r = [m \in 1 .. c |-> q[Nth(S, m)]]
  BY DEF Keep
<1> HIDE DEF c, r
<1>5. DOMAIN r = 1 .. c /\ \A m \in 1 .. c : r[m] = q[Nth(S, m)]
  BY <1>4
<1>6. r \in Seq(T)
  <2>1. \A m \in 1 .. c : q[Nth(S, m)] \in T
    BY <1>1, <1>3
  <2>2. r \in [1 .. c -> T]
    BY <1>4, <2>1
  <2> QED
    BY <1>2, <2>2, IsASeq
<1>7. Queued(r) = {q[i] : i \in S}
  BY <1>3, <1>5 DEF Queued
<1>8. ASSUME Distinct(q) PROVE Distinct(r)
  <2> SUFFICES ASSUME NEW m \in 1 .. c, NEW p \in 1 .. c, r[m] = r[p]
               PROVE  m = p
    BY <1>5 DEF Distinct
  <2>1. Nth(S, m) = Nth(S, p)
    BY <1>1, <1>3, <1>5, <1>8 DEF Distinct
  <2>2. Nth(S, m) \in Int
    BY <1>1, <1>3
  <2>3. ~(m < p) /\ ~(p < m)
    BY <1>3, <2>1, <2>2
  <2> QED
    BY <1>2, <2>3
<1>9. ASSUME NEW x, NEW y
      PROVE  Ahead(r, x, y) <=> \E i, j \in S : i < j /\ q[i] = x /\ q[j] = y
  <2>1. ASSUME Ahead(r, x, y)
        PROVE  \E i, j \in S : i < j /\ q[i] = x /\ q[j] = y
    BY <1>3, <1>5, <2>1 DEF Ahead
  <2>2. ASSUME NEW i \in S, NEW j \in S, i < j, q[i] = x, q[j] = y
        PROVE  Ahead(r, x, y)
    <3>1. PICK m \in 1 .. c : Nth(S, m) = i
      BY <1>3
    <3>2. PICK p \in 1 .. c : Nth(S, p) = j
      BY <1>3
    <3> QED
      BY <1>3, <1>5, <2>2, <3>1, <3>2 DEF Ahead
  <2> QED
    BY <2>1, <2>2
<1> QED
  BY <1>6, <1>7, <1>8, <1>9 DEF r

(* PushFront: x comes ahead of everything, the rest keeps its order.        *)
LEMMA PushFrontProperties ==
  ASSUME NEW T, NEW q \in Seq(T), NEW x \in T
  PROVE  /\ PushFront(q, x) \in Seq(T)
         /\ Queued(PushFront(q, x)) = Queued(q) \cup {x}
         /\ Distinct(q) /\ x \notin Queued(q) => Distinct(PushFront(q, x))
         /\ \A y, z : Ahead(PushFront(q, x), y, z)
                        => Ahead(q, y, z) \/ y = x
<1> DEFINE r == PushFront(q, x)
<1>1. Len(q) \in Nat /\ DOMAIN q = 1 .. Len(q) /\ q \in [1 .. Len(q) -> T]
  OBVIOUS
<1>2. /\ r = [m \in 1 .. Len(q) + 1 |-> IF m = 1 THEN x ELSE q[m - 1]]
  BY DEF PushFront
<1> HIDE DEF r
<1>3. /\ DOMAIN r = 1 .. Len(q) + 1
      /\ r[1] = x
      /\ \A m \in 2 .. Len(q) + 1 : m - 1 \in 1 .. Len(q) /\ r[m] = q[m - 1]
      /\ \A m \in 1 .. Len(q) : m + 1 \in 2 .. Len(q) + 1 /\ r[m + 1] = q[m]
      /\ \A m \in 1 .. Len(q) + 1 : m = 1 \/ m \in 2 .. Len(q) + 1
  BY <1>1, <1>2
<1>4. r \in Seq(T)
  <2>1. r \in [1 .. Len(q) + 1 -> T]
    BY <1>1, <1>2
  <2> QED
    BY <1>1, <2>1, IsASeq
<1>5. Queued(r) = Queued(q) \cup {x}
  <2>1. ASSUME NEW m \in DOMAIN r PROVE r[m] \in Queued(q) \cup {x}
    BY <1>1, <1>3 DEF Queued
  <2>2. ASSUME NEW m \in DOMAIN q PROVE q[m] \in Queued(r)
    BY <1>1, <1>3 DEF Queued
  <2>3. x \in Queued(r)
    BY <1>1, <1>3 DEF Queued
  <2>4. Queued(r) \subseteq Queued(q) \cup {x}
    BY <2>1 DEF Queued
  <2>5. Queued(q) \subseteq Queued(r)
    BY <2>2 DEF Queued
  <2> QED
    BY <2>3, <2>4, <2>5
<1>6. ASSUME Distinct(q), x \notin Queued(q) PROVE Distinct(r)
  <2> SUFFICES ASSUME NEW m \in DOMAIN r, NEW p \in DOMAIN r, r[m] = r[p]
               PROVE  m = p
    BY DEF Distinct
  <2>1. CASE m = 1 \/ p = 1
    BY <1>1, <1>3, <1>6, <2>1 DEF Queued
  <2>2. CASE m # 1 /\ p # 1
    <3>1. m \in 2 .. Len(q) + 1 /\ p \in 2 .. Len(q) + 1
      BY <1>3, <2>2
    <3>2. m - 1 \in DOMAIN q /\ p - 1 \in DOMAIN q
      BY <1>1, <1>3, <3>1
    <3>3. q[m - 1] = q[p - 1]
      BY <1>3, <3>1
    <3>4. m - 1 = p - 1
      BY <1>6, <3>2, <3>3 DEF Distinct
    <3> QED
      BY <1>1, <1>3, <3>4
  <2> QED
    BY <2>1, <2>2
<1>7. ASSUME NEW y, NEW z, Ahead(r, y, z), y # x PROVE Ahead(q, y, z)
  <2>1. PICK m, p \in DOMAIN r : m < p /\ r[m] = y /\ r[p] = z
    BY <1>7 DEF Ahead
  <2>2. m # 1 /\ p # 1
    BY <1>1, <1>3, <1>7, <2>1
  <2>3. m - 1 \in DOMAIN q /\ p - 1 \in DOMAIN q /\ m - 1 < p - 1
    BY <1>1, <1>3, <2>1, <2>2
  <2> QED
    BY <1>1, <1>3, <2>1, <2>2, <2>3 DEF Ahead
<1> QED
  BY <1>4, <1>5, <1>6, <1>7 DEF r

(* PushBack: x comes behind everything, the rest keeps its order.           *)
LEMMA PushBackProperties ==
  ASSUME NEW T, NEW q \in Seq(T), NEW x \in T
  PROVE  /\ PushBack(q, x) \in Seq(T)
         /\ Queued(PushBack(q, x)) = Queued(q) \cup {x}
         /\ Distinct(q) /\ x \notin Queued(q) => Distinct(PushBack(q, x))
         /\ \A y, z : Ahead(PushBack(q, x), y, z)
                        => Ahead(q, y, z) \/ z = x
<1> DEFINE r == PushBack(q, x)
<1>1. Len(q) \in Nat /\ DOMAIN q = 1 .. Len(q)
  OBVIOUS
<1>2. r \in Seq(T) /\ Len(r) = Len(q) + 1 /\ DOMAIN r = 1 .. Len(q) + 1
  BY DEF PushBack
<1>3. r[Len(q) + 1] = x /\ \A m \in 1 .. Len(q) : r[m] = q[m]
  BY DEF PushBack
<1> HIDE DEF r
<1>4. Queued(r) = Queued(q) \cup {x}
  <2>1. ASSUME NEW m \in DOMAIN r PROVE r[m] \in Queued(q) \cup {x}
    BY <1>1, <1>2, <1>3 DEF Queued
  <2>2. ASSUME NEW m \in DOMAIN q PROVE q[m] \in Queued(r)
    BY <1>1, <1>2, <1>3 DEF Queued
  <2>3. x \in Queued(r)
    BY <1>1, <1>2, <1>3 DEF Queued
  <2>4. Queued(r) \subseteq Queued(q) \cup {x}
    BY <2>1 DEF Queued
  <2>5. Queued(q) \subseteq Queued(r)
    BY <2>2 DEF Queued
  <2> QED
    BY <2>3, <2>4, <2>5
<1>5. ASSUME Distinct(q), x \notin Queued(q) PROVE Distinct(r)
  BY <1>1, <1>2, <1>3, <1>5 DEF Distinct, Queued
<1>6. ASSUME NEW y, NEW z, Ahead(r, y, z), z # x PROVE Ahead(q, y, z)
  BY <1>1, <1>2, <1>3, <1>6 DEF Ahead
<1> QED
  BY <1>2, <1>4, <1>5, <1>6 DEF r
=============================================================================
