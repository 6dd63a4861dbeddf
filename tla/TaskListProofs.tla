--------------------------- MODULE TaskListProofs ---------------------------
(***************************************************************************)
(* What the operations of TaskList do to the tasks of a list: appending,   *)
(* inserting, unlinking, and popping the most urgent ones.  The primitives *)
(* that block tasks in a list rest their proofs on these facts.            *)
(***************************************************************************)
EXTENDS TaskList, TLAPS, FiniteSetTheorems, SequenceTheorems

(***************************************************************************)
(* In a finite set with a strict total order, given by the set Below[i] of *)
(* what comes before i, the number of elements before an element is its    *)
(* position: every number up to the size of the set is one element's.      *)
(***************************************************************************)
LEMMA Ranks ==
    ASSUME NEW K, IsFiniteSet(K), NEW Below \in [K -> SUBSET K],
           \A i \in K : i \notin Below[i],
           \A i, j \in K : i \in Below[j] => Below[i] \subseteq Below[j],
           \A i, j \in K : i # j => i \in Below[j] \/ j \in Below[i]
    PROVE  /\ \A i \in K : Cardinality(Below[i]) \in 0 .. Cardinality(K) - 1
           /\ \A i, j \in K : Cardinality(Below[i]) = Cardinality(Below[j]) => i = j
           /\ \A n \in 0 .. Cardinality(K) - 1 : \E i \in K : Cardinality(Below[i]) = n
<1> DEFINE rank == [i \in K |-> Cardinality(Below[i])]
           N == 0 .. Cardinality(K) - 1
<1>1. Cardinality(K) \in Nat
  BY FS_CardinalityType
<1>2. ASSUME NEW A \in SUBSET K, NEW B \in SUBSET K, A \subseteq B, A # B
      PROVE  Cardinality(A) \in Nat /\ Cardinality(B) \in Nat /\ Cardinality(A) < Cardinality(B)
  <2>1. IsFiniteSet(A) /\ IsFiniteSet(B)
    BY FS_Subset
  <2>2. Cardinality(A) \in Nat /\ Cardinality(B) \in Nat
    BY <2>1, FS_CardinalityType
  <2>3. Cardinality(A) <= Cardinality(B) /\ (Cardinality(B) = Cardinality(A) => B = A)
    BY <1>2, <2>1, FS_Subset
  <2> QED
    BY <1>2, <2>2, <2>3
<1>3. ASSUME NEW i \in K PROVE Cardinality(Below[i]) \in N
  <2>1. Below[i] \in SUBSET K /\ Below[i] # K
    OBVIOUS
  <2>2. Cardinality(Below[i]) \in Nat /\ Cardinality(Below[i]) < Cardinality(K)
    BY <1>2, <2>1
  <2> QED
    BY <1>1, <2>2
<1>4. ASSUME NEW i \in K, NEW j \in K, Cardinality(Below[i]) = Cardinality(Below[j])
      PROVE  i = j
  <2>1. ASSUME NEW k \in K, NEW l \in K, k \in Below[l]
        PROVE  Cardinality(Below[k]) # Cardinality(Below[l])
    <3>1. Below[k] \subseteq Below[l] /\ Below[k] # Below[l]
      BY <2>1
    <3>2. Cardinality(Below[k]) \in Nat /\ Cardinality(Below[l]) \in Nat
          /\ Cardinality(Below[k]) < Cardinality(Below[l])
      BY <3>1, <1>2
    <3> QED
      BY <3>2
  <2> QED
    BY <1>4, <2>1
<1>5. rank \in Injection(K, N)
  BY <1>3, <1>4 DEF Injection, IsInjective
<1>6. IsFiniteSet(N) /\ Cardinality(N) = Cardinality(K)
  <2>1. IsFiniteSet(N) /\ Cardinality(N) = IF 0 > Cardinality(K) - 1 THEN 0 ELSE Cardinality(K) - 1 - 0 + 1
    BY <1>1, FS_Interval
  <2> QED
    BY <1>1, <2>1
<1> HIDE DEF N
<1>7. rank \in Surjection(K, N)
  BY <1>5, <1>6, FS_Injection
<1>8. \A n \in N : \E i \in K : Cardinality(Below[i]) = n
  BY <1>7 DEF Surjection
<1> QED
  BY <1>3, <1>4, <1>8 DEF N

\* The positions of a list.
LEMMA Positions ==
    ASSUME NEW S, NEW list \in Seq(S)
    PROVE  /\ Len(list) \in Nat /\ DOMAIN list = 1 .. Len(list)
           /\ IsFiniteSet(DOMAIN list) /\ Cardinality(DOMAIN list) = Len(list)
           /\ \A i \in DOMAIN list : i \in Nat /\ list[i] \in S
<1>1. Len(list) \in Nat /\ DOMAIN list = 1 .. Len(list)
  OBVIOUS
<1>2. IsFiniteSet(1 .. Len(list))
      /\ Cardinality(1 .. Len(list)) = IF 1 > Len(list) THEN 0 ELSE Len(list) - 1 + 1
  BY <1>1, FS_Interval
<1> QED
  BY <1>1, <1>2

\* A list with a task in it is not empty, and the other way round.
LEMMA HasSomething ==
    ASSUME NEW S, NEW list \in Seq(S)
    PROVE  /\ list # <<>> <=> \E u \in S : Has(list, u)
           /\ \A u : Has(list, u) => u \in S
<1>1. list # <<>> => 1 \in DOMAIN list /\ list[1] \in S
  OBVIOUS
<1>2. ASSUME NEW u, Has(list, u) PROVE u \in S /\ list # <<>>
  BY <1>2 DEF Has
<1> QED
  BY <1>1, <1>2 DEF Has

\* push_back.
LEMMA AppendTask ==
    ASSUME NEW S, NEW list \in Seq(S), NEW t \in S
    PROVE  /\ Append(list, t) \in Seq(S)
           /\ \A u : Has(Append(list, t), u) <=> Has(list, u) \/ u = t
           /\ Distinct(list) /\ ~Has(list, t) => Distinct(Append(list, t))
<1>1. /\ Append(list, t) \in Seq(S)
      /\ DOMAIN Append(list, t) = 1 .. Len(list) + 1 /\ DOMAIN list = 1 .. Len(list)
      /\ \A i \in 1 .. Len(list) : Append(list, t)[i] = list[i]
      /\ Append(list, t)[Len(list) + 1] = t
      /\ Len(list) \in Nat
  BY AppendProperties
<1>2. /\ \A i \in 1 .. Len(list) + 1 : i \in 1 .. Len(list) \/ i = Len(list) + 1
      /\ \A i \in 1 .. Len(list) : i \in 1 .. Len(list) + 1
      /\ Len(list) + 1 \in 1 .. Len(list) + 1
  BY <1>1
<1>3. \A u : Has(Append(list, t), u) <=> Has(list, u) \/ u = t
  BY <1>1, <1>2 DEF Has
<1>4. ASSUME Distinct(list), ~Has(list, t),
             NEW i \in 1 .. Len(list) + 1, NEW j \in 1 .. Len(list) + 1,
             Append(list, t)[i] = Append(list, t)[j]
      PROVE  i = j
  BY <1>1, <1>2, <1>4 DEF Distinct, Has
<1> QED
  BY <1>1, <1>3, <1>4 DEF Distinct

\* insert_before: at a position of the list or at its end.
LEMMA InsertTask ==
    ASSUME NEW S, NEW list \in Seq(S), NEW t \in S, NEW at \in 1 .. Len(list) + 1
    PROVE  /\ InsertAt(list, at, t) \in Seq(S)
           /\ Len(InsertAt(list, at, t)) = Len(list) + 1
           /\ \A i \in 1 .. Len(list) + 1 :
                 InsertAt(list, at, t)[i] = IF i < at THEN list[i] ELSE IF i = at THEN t
                                            ELSE list[i - 1]
           /\ \A u : Has(InsertAt(list, at, t), u) <=> Has(list, u) \/ u = t
           /\ Distinct(list) /\ ~Has(list, t) => Distinct(InsertAt(list, at, t))
<1> DEFINE front == SubSeq(list, 1, at - 1)
           back == SubSeq(list, at, Len(list))
           upTo == front \o <<t>>
           new == upTo \o back
<1>0. /\ Len(list) \in Nat /\ DOMAIN list = 1 .. Len(list)
      /\ \A i \in 1 .. Len(list) : list[i] \in S
  OBVIOUS
<1>1. /\ front \in Seq(S) /\ Len(front) = at - 1
      /\ \A i \in 1 .. at - 1 : front[i] = list[i]
  <2>1. \A i \in 1 .. at - 1 : list[i] \in S
    BY <1>0
  <2>2. /\ front \in Seq(S) /\ Len(front) = IF 1 <= at - 1 THEN at - 1 - 1 + 1 ELSE 0
        /\ \A i \in 1 .. at - 1 - 1 + 1 : front[i] = list[1 + i - 1]
    BY <2>1, SubSeqProperties, SMT
  <2> QED
    BY <2>2
<1>2. /\ back \in Seq(S) /\ Len(back) = Len(list) - at + 1
      /\ \A i \in 1 .. Len(list) - at + 1 : back[i] = list[at + i - 1]
  BY <1>0, SubSeqProperties
<1> HIDE DEF front, back
<1>3. <<t>> \in Seq(S) /\ Len(<<t>>) = 1 /\ <<t>>[1] = t
  OBVIOUS
<1>4. /\ upTo \in Seq(S) /\ Len(upTo) = at
      /\ \A i \in 1 .. at : upTo[i] = IF i < at THEN list[i] ELSE t
  BY <1>0, <1>1, <1>3, ConcatProperties
<1> HIDE DEF upTo
<1>5. /\ new \in Seq(S) /\ Len(new) = Len(list) + 1
      /\ \A i \in 1 .. Len(list) + 1 : new[i] = IF i <= at THEN upTo[i] ELSE back[i - at]
  BY <1>0, <1>2, <1>4, ConcatProperties
<1>6. \A i \in 1 .. Len(list) + 1 :
         new[i] = IF i < at THEN list[i] ELSE IF i = at THEN t ELSE list[i - 1]
  BY <1>0, <1>2, <1>4, <1>5
<1>7. DOMAIN new = 1 .. Len(list) + 1
  BY <1>5
<1>8. new = InsertAt(list, at, t)
  BY DEF InsertAt, upTo, front, back
<1> HIDE DEF new
<1>9. ASSUME NEW u PROVE Has(new, u) <=> Has(list, u) \/ u = t
  <2>1. ASSUME Has(new, u) PROVE Has(list, u) \/ u = t
    BY <1>0, <1>6, <1>7, <2>1 DEF Has
  <2>2. ASSUME NEW i \in 1 .. Len(list), u = list[i] PROVE Has(new, u)
    <3>1. CASE i < at
      BY <1>0, <1>6, <1>7, <2>2, <3>1 DEF Has
    <3>2. CASE i >= at
      <4>1. i + 1 \in 1 .. Len(list) + 1 /\ new[i + 1] = list[i]
        BY <1>0, <1>6, <3>2
      <4> QED
        BY <1>7, <2>2, <4>1 DEF Has
    <3> QED
      BY <3>1, <3>2
  <2>3. u = t => Has(new, u)
    BY <1>6, <1>7 DEF Has
  <2> QED
    BY <1>0, <2>1, <2>2, <2>3 DEF Has
<1>10. ASSUME Distinct(list), ~Has(list, t),
              NEW i \in 1 .. Len(list) + 1, NEW j \in 1 .. Len(list) + 1, new[i] = new[j]
       PROVE  i = j
  <2>0. ASSUME NEW k \in 1 .. Len(list) + 1, new[k] = t PROVE k = at
    <3>1. k < at => Has(list, t)
      BY <1>0, <1>6, <2>0 DEF Has
    <3>2. ASSUME k > at PROVE Has(list, t)
      <4>1. k - 1 \in DOMAIN list /\ list[k - 1] = t
        BY <1>0, <1>6, <2>0, <3>2
      <4> QED
        BY <4>1 DEF Has
    <3> QED
      BY <1>0, <1>10, <3>1, <3>2
  <2>1. (new[i] # t \/ i = at) /\ (new[j] # t \/ j = at)
    BY <2>0
  <2>3. new[at] = t
    BY <1>6
  <2>4. CASE i = at \/ j = at
    BY <1>10, <2>1, <2>3, <2>4
  <2>5. CASE i # at /\ j # at
    <3>1. PICK k \in 1 .. Len(list) : new[i] = list[k] /\ ((i = k /\ k < at) \/ (i = k + 1 /\ k >= at))
      <4>1. CASE i < at
        BY <1>0, <1>6, <4>1
      <4>2. CASE i > at
        <5>1. i - 1 \in 1 .. Len(list) /\ new[i] = list[i - 1]
          BY <1>0, <1>6, <4>2
        <5> QED
          BY <5>1, <4>2
      <4> QED
        BY <1>0, <2>5, <4>1, <4>2
    <3>2. PICK l \in 1 .. Len(list) : new[j] = list[l] /\ ((j = l /\ l < at) \/ (j = l + 1 /\ l >= at))
      <4>1. CASE j < at
        BY <1>0, <1>6, <4>1
      <4>2. CASE j > at
        <5>1. j - 1 \in 1 .. Len(list) /\ new[j] = list[j - 1]
          BY <1>0, <1>6, <4>2
        <5> QED
          BY <5>1, <4>2
      <4> QED
        BY <1>0, <2>5, <4>1, <4>2
    <3>3. k = l
      BY <1>0, <1>10, <3>1, <3>2 DEF Distinct
    <3> QED
      BY <1>0, <3>1, <3>2, <3>3
  <2> QED
    BY <2>4, <2>5
<1> QED
  BY <1>5, <1>6, <1>7, <1>8, <1>9, <1>10 DEF Distinct

\* A set of positions that is not empty has a first one.
LEMMA FirstPosition ==
    ASSUME NEW n \in Nat, NEW K \in SUBSET (1 .. n), K # {}
    PROVE  Min(K) \in K /\ \A i \in K : Min(K) <= i
<1> DEFINE Below == [i \in K |-> {j \in K : j < i}]
<1>1. IsFiniteSet(K) /\ K \subseteq Nat
  <2>1. IsFiniteSet(1 .. n)
    BY FS_Interval
  <2>2. K \subseteq 1 .. n
    OBVIOUS
  <2>3. IsFiniteSet(K)
    BY <2>1, <2>2, FS_Subset, Zenon
  <2> QED
    BY <2>2, <2>3
<1>2. Cardinality(K) \in Nat /\ Cardinality(K) # 0
  BY <1>1, FS_CardinalityType, FS_EmptySet
<1>3. /\ Below \in [K -> SUBSET K]
      /\ \A i \in K : i \notin Below[i]
      /\ \A i, j \in K : i \in Below[j] => Below[i] \subseteq Below[j]
      /\ \A i, j \in K : i # j => i \in Below[j] \/ j \in Below[i]
  <2>1. Below \in [K -> SUBSET K]
    OBVIOUS
  <2>2. \A i \in K : i \notin Below[i]
    BY <1>1
  <2>3. ASSUME NEW i \in K, NEW j \in K, i \in Below[j] PROVE Below[i] \subseteq Below[j]
    <3>1. i \in Nat /\ j \in Nat /\ i < j
      BY <1>1, <2>3
    <3>2. ASSUME NEW k \in K, k < i PROVE k < j
      BY <1>1, <3>1, <3>2
    <3> QED
      BY <3>2
  <2>4. ASSUME NEW i \in K, NEW j \in K, i # j PROVE i \in Below[j] \/ j \in Below[i]
    BY <1>1, <2>4
  <2> QED
    BY <2>1, <2>2, <2>3, <2>4
<1>4. PICK i \in K : Cardinality(Below[i]) = 0
  <2> HIDE DEF Below
  <2>1. 0 \in 0 .. Cardinality(K) - 1
    BY <1>2
  <2>2. \A m \in 0 .. Cardinality(K) - 1 : \E i \in K : Cardinality(Below[i]) = m
    BY <1>1, <1>3, Ranks, ZenonT(60)
  <2> QED
    BY <2>1, <2>2
<1>5. Below[i] = {}
  <2>1. Below[i] \in SUBSET K
    OBVIOUS
  <2> QED
    BY <1>1, <1>4, <2>1, FS_Subset, FS_EmptySet
<1>6. \A j \in K : i <= j
  BY <1>1, <1>5
<1> QED
  BY <1>6 DEF Min

\* cursor.remove of some tasks, with the places the others had.
LEMMA Unlinking ==
    ASSUME NEW S, NEW list \in Seq(S), NEW ts
    PROVE  /\ Without(list, ts) \in Seq(S)
           /\ \A u : Has(Without(list, ts), u) <=> Has(list, u) /\ u \notin ts
           /\ Distinct(list) => Distinct(Without(list, ts))
           /\ \A i, j \in DOMAIN Without(list, ts) : i < j =>
                 \E k, l \in DOMAIN list : /\ k < l /\ Without(list, ts)[i] = list[k]
                                           /\ Without(list, ts)[j] = list[l]
<1> DEFINE K == {i \in DOMAIN list : list[i] \notin ts}
           Below == [i \in K |-> {j \in K : j < i}]
           nth(k) == CHOOSE i \in K : Cardinality({j \in K : j < i}) = k - 1
           M == Cardinality(K)
           w == [k \in 1 .. M |-> list[nth(k)]]
<1>1. IsFiniteSet(K) /\ M \in Nat /\ \A i \in K : i \in Nat
  <2>1. IsFiniteSet(DOMAIN list) /\ K \in SUBSET DOMAIN list /\ \A i \in DOMAIN list : i \in Nat
    BY Positions
  <2> QED
    BY <2>1, FS_Subset, FS_CardinalityType
<1> HIDE DEF K
<1>2. /\ \A i \in K : Cardinality(Below[i]) \in 0 .. M - 1
      /\ \A i, j \in K : Cardinality(Below[i]) = Cardinality(Below[j]) => i = j
      /\ \A n \in 0 .. M - 1 : \E i \in K : Cardinality(Below[i]) = n
  <2>1. Below \in [K -> SUBSET K]
    OBVIOUS
  <2>2. /\ \A i \in K : i \notin Below[i]
        /\ \A i, j \in K : i \in Below[j] => Below[i] \subseteq Below[j]
        /\ \A i, j \in K : i # j => i \in Below[j] \/ j \in Below[i]
    BY <1>1
  <2> HIDE DEF Below
  <2> QED
    BY <1>1, <2>1, <2>2, Ranks
<1>3. \A i \in K : Below[i] = {j \in K : j < i}
  OBVIOUS
<1> HIDE DEF Below, M
<1>4. ASSUME NEW k \in 1 .. M PROVE nth(k) \in K /\ Cardinality(Below[nth(k)]) = k - 1
  <2>1. k - 1 \in 0 .. M - 1
    BY <1>1
  <2>2. \E i \in K : Cardinality({j \in K : j < i}) = k - 1
    BY <2>1, <1>2, <1>3
  <2>3. nth(k) \in K /\ Cardinality({j \in K : j < nth(k)}) = k - 1
    BY <2>2
  <2> HIDE DEF nth
  <2> QED
    BY <2>3, <1>3
<1> HIDE DEF nth
<1>5. \A i \in K : \E k \in 1 .. M : nth(k) = i
  <2> SUFFICES ASSUME NEW i \in K PROVE \E k \in 1 .. M : nth(k) = i
    OBVIOUS
  <2>1. Cardinality(Below[i]) \in 0 .. M - 1
    BY <1>2
  <2>2. Cardinality(Below[i]) + 1 \in 1 .. M
        /\ (Cardinality(Below[i]) + 1) - 1 = Cardinality(Below[i])
    BY <1>1, <2>1
  <2>3. nth(Cardinality(Below[i]) + 1) = i
    BY <1>2, <1>4, <2>2
  <2> QED
    BY <2>2, <2>3
<1>6. \A k, l \in 1 .. M : nth(k) = nth(l) => k = l
  <2>1. \A k, l \in 1 .. M : k - 1 = l - 1 => k = l
    BY <1>1
  <2> QED
    BY <1>4, <2>1
<1>7. \A i \in K : i \in DOMAIN list /\ list[i] \notin ts /\ list[i] \in S
  BY Positions DEF K
<1>8. w \in Seq(S) /\ DOMAIN w = 1 .. M
  <2>1. \A k \in 1 .. M : list[nth(k)] \in S
    BY <1>4, <1>7
  <2> QED
    BY <1>1, <2>1, IsASeq
<1>9. \A u : Has(w, u) <=> Has(list, u) /\ u \notin ts
  <2>1. ASSUME NEW u, Has(w, u) PROVE Has(list, u) /\ u \notin ts
    BY <1>4, <1>7, <1>8, <2>1 DEF Has
  <2>2. ASSUME NEW u, Has(list, u), u \notin ts PROVE Has(w, u)
    <3>1. PICK i \in DOMAIN list : list[i] = u
      BY <2>2 DEF Has
    <3>2. i \in K
      BY <3>1, <2>2 DEF K
    <3>3. PICK k \in 1 .. M : nth(k) = i
      BY <1>5, <3>2
    <3> QED
      BY <1>8, <3>1, <3>3 DEF Has
  <2> QED
    BY <2>1, <2>2
<1>10. Distinct(list) => Distinct(w)
  BY <1>4, <1>6, <1>7, <1>8 DEF Distinct
<1>11. Without(list, ts) = w
  BY DEF Without, K, M, nth
<1>12. ASSUME NEW i \in 1 .. M, NEW j \in 1 .. M, i < j
       PROVE  \E k, l \in DOMAIN list : k < l /\ w[i] = list[k] /\ w[j] = list[l]
  <2>1. /\ nth(i) \in K /\ nth(j) \in K /\ nth(i) \in Nat /\ nth(j) \in Nat
        /\ Cardinality(Below[nth(i)]) = i - 1 /\ Cardinality(Below[nth(j)]) = j - 1
    BY <1>1, <1>4
  <2>2. ASSUME nth(j) <= nth(i) PROVE FALSE
    <3>1. Below[nth(j)] \subseteq Below[nth(i)]
      <4>1. \A x \in K : x \in Nat
        BY <1>1
      <4> QED
        BY <1>3, <2>1, <2>2, <4>1
    <3>2. IsFiniteSet(Below[nth(i)])
      <4>1. Below[nth(i)] \subseteq K
        BY <1>3, <2>1
      <4> QED
        BY <1>1, <4>1, FS_Subset
    <3>3. Cardinality(Below[nth(j)]) <= Cardinality(Below[nth(i)])
      BY <3>1, <3>2, FS_Subset
    <3> QED
      BY <1>12, <2>1, <3>3
  <2>3. nth(i) < nth(j) /\ nth(i) \in DOMAIN list /\ nth(j) \in DOMAIN list
    BY <1>7, <2>1, <2>2
  <2>4. w[i] = list[nth(i)] /\ w[j] = list[nth(j)]
    OBVIOUS
  <2> QED
    BY <2>3, <2>4
<1> HIDE DEF w
<1> QED
  BY <1>8, <1>9, <1>10, <1>11, <1>12

(***************************************************************************)
(* cursor.remove of some tasks: the list has the others, each as often as  *)
(* before.                                                                 *)
(***************************************************************************)
LEMMA WithoutTasks ==
    ASSUME NEW S, NEW list \in Seq(S), NEW ts
    PROVE  /\ Without(list, ts) \in Seq(S)
           /\ \A u : Has(Without(list, ts), u) <=> Has(list, u) /\ u \notin ts
           /\ Distinct(list) => Distinct(Without(list, ts))
  BY Unlinking

\* The tasks that are left keep their order.
LEMMA WithoutOrder ==
    ASSUME NEW S, NEW list \in Seq(S), NEW ts
    PROVE  \A i, j \in DOMAIN Without(list, ts) : i < j =>
              \E k, l \in DOMAIN list : /\ k < l /\ Without(list, ts)[i] = list[k]
                                        /\ Without(list, ts)[j] = list[l]
  BY Unlinking

(***************************************************************************)
(* Popping n times takes n tasks out of a list of different tasks, or all  *)
(* of them if they are fewer.                                              *)
(***************************************************************************)
LEMMA PoppedTasks ==
    ASSUME NEW S, NEW list \in Seq(S), NEW priority \in [S -> Nat], NEW n \in Nat,
           Distinct(list)
    PROVE  /\ \A u \in Popped(priority, list, n) : Has(list, u)
           /\ IsFiniteSet(Popped(priority, list, n))
           /\ Cardinality(Popped(priority, list, n)) \in Nat
           /\ Cardinality(Popped(priority, list, n)) <= n
           /\ (\E u : Has(list, u) /\ u \notin Popped(priority, list, n))
                 => Cardinality(Popped(priority, list, n)) = n
<1> DEFINE K == DOMAIN list
           Below == [i \in K |-> Ahead(priority, list, i)]
           P == {j \in K : Cardinality(Ahead(priority, list, j)) < n}
           R == {list[i] : i \in P}
           N == 0 .. n - 1
<1>1. /\ IsFiniteSet(K) /\ Cardinality(K) \in Nat
      /\ \A i \in K : i \in Nat /\ list[i] \in S /\ priority[list[i]] \in Nat
  BY Positions, FS_CardinalityType
<1>2. /\ \A i \in K : Cardinality(Below[i]) \in 0 .. Cardinality(K) - 1
      /\ \A i, j \in K : Cardinality(Below[i]) = Cardinality(Below[j]) => i = j
      /\ \A m \in 0 .. Cardinality(K) - 1 : \E i \in K : Cardinality(Below[i]) = m
  <2>1. Below \in [K -> SUBSET K]
    BY DEF Ahead
  <2>2. /\ \A i \in K : i \notin Below[i]
        /\ \A i, j \in K : i \in Below[j] => Below[i] \subseteq Below[j]
        /\ \A i, j \in K : i # j => i \in Below[j] \/ j \in Below[i]
    BY <1>1 DEF Ahead
  <2> HIDE DEF Below, K
  <2> QED
    BY <1>1, <2>1, <2>2, Ranks
<1>3. \A i \in K : Below[i] = Ahead(priority, list, i)
  OBVIOUS
<1>4. \A i \in P : i \in K /\ Cardinality(Below[i]) \in N
  BY <1>1, <1>2, <1>3
<1> DEFINE position(u) == CHOOSE r \in N : \E i \in P : list[i] = u /\ r = Cardinality(Below[i])
           rankOf == [u \in R |-> position(u)]
<1>5. \A i, j \in K : list[i] = list[j] => i = j
  BY DEF Distinct
<1>6. P \subseteq K /\ \A i \in K : i \in P <=> Cardinality(Below[i]) < n
  BY <1>3
<1> HIDE DEF P, Below, K
<1>7. ASSUME NEW i \in P PROVE rankOf[list[i]] = Cardinality(Below[i])
  <2>1. list[i] \in R
    OBVIOUS
  <2>2. \E r \in N : \E k \in P : list[k] = list[i] /\ r = Cardinality(Below[k])
    BY <1>4
  <2>3. \E k \in P : list[k] = list[i] /\ rankOf[list[i]] = Cardinality(Below[k])
    BY <2>1, <2>2
  <2> QED
    BY <2>3, <1>4, <1>5
<1> HIDE DEF position
<1>8. rankOf \in Injection(R, N)
  <2>1. rankOf \in [R -> N]
    <3>1. \A i \in P : rankOf[list[i]] \in N
      BY <1>4, <1>7
    <3> HIDE DEF N
    <3> QED
      BY <3>1
  <2>2. \A u, v \in R : rankOf[u] = rankOf[v] => u = v
    <3> HIDE DEF rankOf
    <3> QED
      BY <1>2, <1>4, <1>7
  <2> QED
    BY <2>1, <2>2 DEF Injection, IsInjective
<1> HIDE DEF rankOf
<1>9. IsFiniteSet(N) /\ Cardinality(N) = n
  <2>1. IsFiniteSet(N) /\ Cardinality(N) = IF 0 > n - 1 THEN 0 ELSE (n - 1) - 0 + 1
    BY FS_Interval
  <2> QED
    BY <2>1
<1> HIDE DEF N
<1>10. IsFiniteSet(R) /\ Cardinality(R) <= n /\ (Cardinality(R) = n <=> rankOf \in Surjection(R, N))
  BY <1>8, <1>9, FS_Injection
<1>11. Cardinality(R) \in Nat
  BY <1>10, FS_CardinalityType
<1>12. ASSUME NEW u, Has(list, u), u \notin R PROVE Cardinality(R) = n
  <2>1. PICK i \in K : list[i] = u
    BY <1>12 DEF Has, K
  <2>2. ~(Cardinality(Below[i]) < n)
    BY <1>6, <1>12, <2>1
  <2>3. n <= Cardinality(K) - 1
    BY <1>1, <1>2, <2>2
  <2>4. \A m \in N : m \in 0 .. Cardinality(K) - 1 /\ m < n
    BY <1>1, <2>3 DEF N
  <2>5. \A m \in N : \E j \in P : Cardinality(Below[j]) = m
    BY <1>2, <1>6, <2>4
  <2>6. \A m \in N : \E v \in R : rankOf[v] = m
    BY <1>7, <2>5
  <2>7. rankOf \in Surjection(R, N)
    BY <1>8, <2>6 DEF Injection, Surjection
  <2> QED
    BY <1>10, <2>7
<1>13. Popped(priority, list, n) = R
  BY DEF Popped, P, K
<1>14. \A u \in R : Has(list, u)
  BY <1>6 DEF Has, K
<1> HIDE DEF R
<1> QED
  BY <1>10, <1>11, <1>12, <1>13, <1>14
=============================================================================
