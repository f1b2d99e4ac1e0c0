---------------------------- MODULE PickingProofs ----------------------------
(***************************************************************************)
(* What a loop picks out of a sequence: each element at the positions      *)
(* once, in order; and what becomes of that when the sequence grows or     *)
(* shrinks.                                                                *)
(***************************************************************************)
EXTENDS Picking, TLAPS, FiniteSetTheorems, SequenceTheorems

(* A finite set of positions has one of every rank.                         *)
LEMMA Ranks ==
  ASSUME NEW I \in SUBSET Nat, IsFiniteSet(I)
  PROVE  /\ Cardinality(I) \in Nat
         /\ \A i \in I : Rank(I, i) + 1 \in 1 .. Cardinality(I)
         /\ \A i, j \in I : Rank(I, i) = Rank(I, j) => i = j
         /\ \A k \in 1 .. Cardinality(I) : \E i \in I : Rank(I, i) = k - 1
<1> DEFINE below(i) == {j \in I : j < i}
           c == Cardinality(I)
           f == [i \in I |-> Rank(I, i)]
<1>1. c \in Nat
  BY FS_CardinalityType
<1>2. \A i \in I : i \in Nat
  OBVIOUS
<1>3. \A i \in I : Rank(I, i) = Cardinality(below(i))
  BY DEF Rank
<1>4. ASSUME NEW i \in I
      PROVE  IsFiniteSet(below(i)) /\ Rank(I, i) \in 0 .. c - 1
  <2>1. below(i) \in SUBSET I /\ i \notin below(i)
    BY <1>2
  <2>2. /\ IsFiniteSet(below(i)) /\ Cardinality(below(i)) <= c
        /\ c # Cardinality(below(i))
    <3> HIDE DEF below
    <3> QED
      BY <2>1, FS_Subset
  <2>3. Cardinality(below(i)) \in Nat
    <3> HIDE DEF below
    <3> QED
      BY <2>2, FS_CardinalityType
  <2>4. Rank(I, i) \in Nat /\ Rank(I, i) <= c /\ Rank(I, i) # c
    BY <1>3, <2>2, <2>3
  <2>5. Rank(I, i) \in 0 .. c - 1
    <3> DEFINE r == Rank(I, i)
    <3> HIDE DEF c, r
    <3> QED
      BY <1>1, <2>4 DEF c, r
  <2> QED
    BY <2>2, <2>5
<1>5. ASSUME NEW i \in I, NEW j \in I, i < j
      PROVE  Rank(I, i) # Rank(I, j)
  <2>1. i \in Nat /\ j \in Nat /\ \A k \in I : k \in Nat
    BY <1>2
  <2>2. \A k \in I : k < i => k < j
    BY <1>5, <2>1
  <2>3. below(i) \in SUBSET below(j) /\ i \in below(j) /\ i \notin below(i)
    <3>1. below(i) \in SUBSET below(j)
      BY <2>2
    <3>2. i \in below(j)
      BY <1>5
    <3>3. i \notin below(i)
      BY <2>1
    <3> QED
      BY <3>1, <3>2, <3>3
  <2>4. IsFiniteSet(below(j))
    BY <1>4
  <2>5. Cardinality(below(i)) # Cardinality(below(j))
    <3> HIDE DEF below
    <3> QED
      BY <2>3, <2>4, FS_Subset
  <2> QED
    BY <1>3, <2>5
<1>6. \A i, j \in I : Rank(I, i) = Rank(I, j) => i = j
  <2> SUFFICES ASSUME NEW i \in I, NEW j \in I, i # j
               PROVE  Rank(I, i) # Rank(I, j)
    OBVIOUS
  <2>1. i < j \/ j < i
    BY <1>2
  <2> QED
    BY <1>5, <2>1
<1>7. f \in Injection(I, 0 .. c - 1)
  BY <1>4, <1>6 DEF Injection, IsInjective
<1>8. IsFiniteSet(0 .. c - 1) /\ Cardinality(0 .. c - 1) = c
  <2> HIDE DEF c
  <2>1. 0 \in Int /\ c - 1 \in Int
    BY <1>1
  <2>2. /\ IsFiniteSet(0 .. c - 1)
        /\ Cardinality(0 .. c - 1)
             = IF 0 > c - 1 THEN 0 ELSE (c - 1) - 0 + 1
    BY <2>1, FS_Interval
  <2> QED
    BY <1>1, <2>2
<1>9. f \in Surjection(I, 0 .. c - 1)
  <2> HIDE DEF f
  <2> QED
    BY <1>7, <1>8, FS_Injection
<1>10. \A k \in 0 .. c - 1 : \E i \in I : Rank(I, i) = k
  <2>1. \A k \in 0 .. c - 1 : \E i \in I : f[i] = k
    <3> HIDE DEF f, c
    <3> QED
      BY <1>9 DEF Surjection
  <2> QED
    BY <2>1
<1>11. ASSUME NEW k \in 1 .. c PROVE \E i \in I : Rank(I, i) = k - 1
  <2>1. k - 1 \in 0 .. c - 1
    BY <1>1
  <2> QED
    BY <1>10, <2>1
<1>12. \A i \in I : Rank(I, i) + 1 \in 1 .. c
  <2> SUFFICES ASSUME NEW i \in I PROVE Rank(I, i) + 1 \in 1 .. c
    OBVIOUS
  <2>1. PICK r \in 0 .. c - 1 : Rank(I, i) = r
    BY <1>4
  <2>2. r + 1 \in 1 .. c
    <3> HIDE DEF c
    <3> QED
      BY <1>1
  <2> QED
    BY <2>1, <2>2
<1> QED
  BY <1>1, <1>6, <1>11, <1>12

(* What is picked is what is there at the positions, and nothing else.      *)
LEMMA PickIsThere ==
  ASSUME NEW I \in SUBSET Nat, IsFiniteSet(I), NEW s
  PROVE  /\ DOMAIN Pick(s, I) = 1 .. Cardinality(I)
         /\ \A k \in DOMAIN Pick(s, I) : \E i \in I : Pick(s, I)[k] = s[i]
         /\ \A i \in I : \E k \in DOMAIN Pick(s, I) : Pick(s, I)[k] = s[i]
<1> DEFINE at(k) == CHOOSE i \in I : Rank(I, i) = k - 1
<1>1. ASSUME NEW k \in 1 .. Cardinality(I)
      PROVE  at(k) \in I /\ Rank(I, at(k)) = k - 1 /\ Pick(s, I)[k] = s[at(k)]
  <2>1. at(k) \in I /\ Rank(I, at(k)) = k - 1
    BY Ranks
  <2> QED
    BY <2>1 DEF Pick
<1>2. DOMAIN Pick(s, I) = 1 .. Cardinality(I)
  BY DEF Pick
<1>3. ASSUME NEW i \in I
      PROVE  \E k \in 1 .. Cardinality(I) : Pick(s, I)[k] = s[i]
  <2> DEFINE k == Rank(I, i) + 1
  <2>1. k \in 1 .. Cardinality(I)
    BY Ranks
  <2>2. k - 1 = Rank(I, i)
    <3> Rank(I, i) + 1 \in Nat /\ Rank(I, i) \in Nat
      BY <2>1, FS_CardinalityType, FS_Subset DEF Rank
    <3> QED
      OBVIOUS
  <2>3. at(k) = i
    BY <1>1, <2>1, <2>2, Ranks
  <2> QED
    BY <1>1, <2>1, <2>3
<1> QED
  BY <1>1, <1>2, <1>3

(* The k-th that is picked is at the position of rank k - 1.                *)
LEMMA PickAt ==
  ASSUME NEW I \in SUBSET Nat, IsFiniteSet(I), NEW s, NEW i \in I,
         NEW k \in 1 .. Cardinality(I), Rank(I, i) = k - 1
  PROVE  Pick(s, I)[k] = s[i]
<1> DEFINE at == CHOOSE j \in I : Rank(I, j) = k - 1
<1>1. at \in I /\ Rank(I, at) = k - 1
  OBVIOUS
<1>2. at = i
  BY <1>1, Ranks
<1> QED
  BY <1>2 DEF Pick

LEMMA FunctionIsSeq ==
  ASSUME NEW S, NEW n \in Nat, NEW f \in [1 .. n -> S]
  PROVE  f \in Seq(S) /\ Len(f) = n /\ DOMAIN f = 1 .. n
OBVIOUS

(* What is picked at some positions of a sequence is a sequence.            *)
LEMMA PickSeq ==
  ASSUME NEW S, NEW s \in Seq(S), NEW I \in SUBSET DOMAIN s
  PROVE  /\ I \in SUBSET Nat /\ IsFiniteSet(I) /\ Cardinality(I) \in Nat
         /\ Pick(s, I) \in Seq(S) /\ Len(Pick(s, I)) = Cardinality(I)
<1>1. I \in SUBSET Nat /\ IsFiniteSet(I)
  <2>1. DOMAIN s = 1 .. Len(s) /\ Len(s) \in Nat
    OBVIOUS
  <2>2. IsFiniteSet(1 .. Len(s))
    BY <2>1, FS_Interval
  <2> QED
    BY <2>1, <2>2, FS_Subset
<1>2. Cardinality(I) \in Nat
  BY <1>1, FS_CardinalityType
<1>3. ASSUME NEW k \in 1 .. Cardinality(I) PROVE Pick(s, I)[k] \in S
  <2>1. PICK i \in I : Rank(I, i) = k - 1
    BY <1>1, Ranks
  <2>2. Pick(s, I)[k] = s[i] /\ i \in DOMAIN s
    BY <1>1, <2>1, PickAt
  <2> QED
    BY <2>2
<1>4. Pick(s, I) = [k \in 1 .. Cardinality(I) |-> Pick(s, I)[k]]
  BY DEF Pick
<1>5. Pick(s, I) \in [1 .. Cardinality(I) -> S]
  BY <1>3, <1>4
<1> QED
  BY <1>1, <1>2, <1>5, FunctionIsSeq

LEMMA PickNone ==
  ASSUME NEW s
  PROVE  Pick(s, {}) = <<>>
<1>1. Cardinality({}) = 0
  BY FS_EmptySet
<1>2. 1 .. 0 = {}
  OBVIOUS
<1>3. DOMAIN Pick(s, {}) = {} /\ Pick(s, {}) = [k \in {} |-> Pick(s, {})[k]]
  BY <1>1, <1>2 DEF Pick
<1> QED
  BY <1>3

(* A sequence grows at its end ...                                          *)
LEMMA PickAppend ==
  ASSUME NEW S, NEW s \in Seq(S), NEW e \in S, NEW I \in SUBSET DOMAIN s
  PROVE  /\ Pick(Append(s, e), I) = Pick(s, I)
         /\ Pick(Append(s, e), I \cup {Len(s) + 1}) = Append(Pick(s, I), e)
<1> DEFINE t == Append(s, e)
           n == Len(s) + 1
           K == I \cup {n}
           c == Cardinality(I)
<1>1. /\ t \in Seq(S) /\ DOMAIN t = 1 .. n /\ DOMAIN s = 1 .. Len(s)
      /\ Len(s) \in Nat /\ n \in Nat /\ t[n] = e
      /\ \A i \in DOMAIN s : t[i] = s[i] /\ i < n /\ i \in DOMAIN t /\ i \in Nat
  BY AppendProperties
<1>2. I \in SUBSET DOMAIN t /\ K \in SUBSET DOMAIN t /\ n \notin I /\ n \in DOMAIN t
  <2>1. n \in DOMAIN t
    BY <1>1
  <2>2. I \in SUBSET DOMAIN t
    BY <1>1
  <2>3. n \notin I
    BY <1>1
  <2> QED
    BY <2>1, <2>2, <2>3
<1>3. /\ I \in SUBSET Nat /\ IsFiniteSet(I) /\ c \in Nat
      /\ K \in SUBSET Nat /\ IsFiniteSet(K) /\ Cardinality(K) = c + 1
  BY <1>1, <1>2, PickSeq, FS_AddElement
<1>4. Pick(s, I) \in Seq(S) /\ Len(Pick(s, I)) = c
  BY PickSeq
<1> HIDE DEF c, t, n, K
<1>5. Pick(t, I) = Pick(s, I)
  <2>1. ASSUME NEW k \in 1 .. c PROVE Pick(t, I)[k] = Pick(s, I)[k]
    <3>1. PICK i \in I : Rank(I, i) = k - 1
      BY <1>3, Ranks DEF c
    <3>2. Pick(t, I)[k] = t[i] /\ Pick(s, I)[k] = s[i]
      BY <1>3, <3>1, PickAt DEF c
    <3> QED
      BY <1>1, <3>2
  <2> QED
    BY <2>1 DEF Pick, c
<1>6. ASSUME NEW i \in I PROVE Rank(K, i) = Rank(I, i)
  <2>1. {j \in K : j < i} = {j \in I : j < i}
    <3>1. i \in Nat /\ i < n /\ ~(n < i)
      BY <1>1
    <3> QED
      BY <3>1 DEF K
  <2> QED
    BY <2>1 DEF Rank
<1>7. Rank(K, n) = c
  <2>1. {j \in K : j < n} = I
    BY <1>1 DEF K
  <2> QED
    BY <2>1 DEF Rank, c
<1>8. ASSUME NEW k \in 1 .. c PROVE Pick(t, K)[k] = Pick(s, I)[k]
  <2>1. PICK i \in I : Rank(I, i) = k - 1
    BY <1>3, Ranks DEF c
  <2>2. Pick(s, I)[k] = s[i] /\ i \in K /\ Rank(K, i) = k - 1
    BY <1>3, <1>6, <2>1, PickAt DEF c, K
  <2>3. k \in 1 .. Cardinality(K)
    BY <1>3
  <2>4. Pick(t, K)[k] = t[i]
    BY <1>3, <2>2, <2>3, PickAt
  <2> QED
    BY <1>1, <2>2, <2>4
<1>9. Pick(t, K)[c + 1] = e
  <2>1. c + 1 \in 1 .. Cardinality(K) /\ Rank(K, n) = (c + 1) - 1 /\ n \in K
    BY <1>3, <1>7 DEF K
  <2> QED
    BY <1>1, <1>3, <2>1, PickAt
<1>10. Pick(t, K) = Append(Pick(s, I), e)
  <2> DEFINE u == Append(Pick(s, I), e)
  <2>1. /\ u = [k \in 1 .. c + 1 |-> u[k]] /\ u[c + 1] = e
        /\ \A k \in 1 .. c : u[k] = Pick(s, I)[k]
    <3>1. /\ u \in Seq(S) /\ Len(u) = c + 1 /\ u[c + 1] = e
          /\ \A k \in 1 .. c : u[k] = Pick(s, I)[k]
      BY <1>4, AppendProperties
    <3> HIDE DEF u
    <3> QED
      BY <3>1
  <2>2. Pick(t, K) = [k \in 1 .. c + 1 |-> Pick(t, K)[k]]
    BY <1>3 DEF Pick
  <2>3. \A k \in 1 .. c + 1 : k \in 1 .. c \/ k = c + 1
    BY <1>3
  <2> HIDE DEF u
  <2>4. \A k \in 1 .. c + 1 : Pick(t, K)[k] = u[k]
    BY <1>8, <1>9, <2>1, <2>3
  <2> QED
    BY <2>1, <2>2, <2>4 DEF u
<1> QED
  BY <1>5, <1>10 DEF t, K, n

(* ... and shrinks at its beginning, and the positions move down.           *)
Before(I, n) == {i \in 1 .. n : i + 1 \in I}

LEMMA ShiftedCardinality ==
  ASSUME NEW J \in SUBSET Nat, IsFiniteSet(J)
  PROVE  LET T == {j + 1 : j \in J}
         IN  IsFiniteSet(T) /\ Cardinality(T) = Cardinality(J)
<1> DEFINE T == {j + 1 : j \in J}
           f == [j \in J |-> j + 1]
<1>1. \A j \in J : j \in Nat
  OBVIOUS
<1>2. f \in [J -> T] /\ \A x \in T : \E j \in J : f[j] = x
  OBVIOUS
<1>3. \A i, j \in J : f[i] = f[j] => i = j
  BY <1>1
<1> HIDE DEF f, T
<1>4. f \in Bijection(J, T)
  BY <1>2, <1>3, Zenon DEF Bijection, Injection, Surjection, IsInjective
<1>5. ExistsBijection(J, T)
  BY <1>4 DEF ExistsBijection
<1>6. IsFiniteSet(T) /\ Cardinality(T) = Cardinality(J)
  BY <1>5, FS_Bijection
<1> QED
  BY <1>6 DEF T

LEMMA PickTail ==
  ASSUME NEW S, NEW s \in Seq(S), s # <<>>, NEW I \in SUBSET DOMAIN s
  PROVE  LET later == Pick(Tail(s), Before(I, Len(s) - 1))
         IN  /\ Before(I, Len(s) - 1) \in SUBSET DOMAIN Tail(s)
             /\ later \in Seq(S)
             /\ Pick(s, I) = IF 1 \in I THEN <<Head(s)>> \o later ELSE later
<1> DEFINE t == Tail(s)
           J == Before(I, Len(s) - 1)
           c == Cardinality(J)
           U == {j + 1 : j \in J}
<1>1. /\ t \in Seq(S) /\ DOMAIN t = 1 .. Len(s) - 1 /\ DOMAIN s = 1 .. Len(s)
      /\ Len(s) \in Nat /\ Len(s) > 0 /\ Head(s) = s[1] /\ Head(s) \in S
      /\ \A i \in DOMAIN t : t[i] = s[i + 1]
  BY HeadTailProperties
<1>2. J \in SUBSET DOMAIN t /\ J \in SUBSET Nat
  BY <1>1 DEF Before
<1>3. /\ IsFiniteSet(J) /\ c \in Nat /\ IsFiniteSet(I) /\ I \in SUBSET Nat
      /\ Cardinality(I) \in Nat /\ Pick(t, J) \in Seq(S) /\ Len(Pick(t, J)) = c
      /\ Pick(s, I) \in Seq(S) /\ Len(Pick(s, I)) = Cardinality(I)
  BY <1>1, <1>2, PickSeq
<1>4. \A i \in I : i = 1 \/ (i - 1 \in J /\ (i - 1) + 1 = i)
  BY <1>1 DEF Before
<1>5. \A j \in J : j + 1 \in I /\ j + 1 # 1 /\ j \in Nat
  BY <1>1, <1>2 DEF Before
<1> HIDE DEF t, J
<1>6. I = IF 1 \in I THEN U \cup {1} ELSE U
  BY <1>4, <1>5
<1>7. 1 \notin U
  BY <1>5
<1> DEFINE d == IF 1 \in I THEN 1 ELSE 0
<1>8. Cardinality(I) = c + d
  <2>1. IsFiniteSet(U) /\ Cardinality(U) = c
    BY <1>2, <1>3, ShiftedCardinality
  <2>2. Cardinality(U \cup {1}) = c + 1
    <3> HIDE DEF U, c
    <3> QED
      BY <1>7, <2>1, FS_AddElement
  <2>3. c + 0 = c
    <3> HIDE DEF c
    <3> QED
      BY <1>3
  <2> HIDE DEF U, c
  <2> QED
    BY <1>6, <2>1, <2>2, <2>3
<1>9. ASSUME NEW j \in J PROVE Rank(I, j + 1) = Rank(J, j) + d
  <2> DEFINE below == {i \in J : i < j}
             moved == {i + 1 : i \in below}
  <2>1. below \in SUBSET J /\ below \in SUBSET Nat
    BY <1>2
  <2>2. IsFiniteSet(below) /\ Cardinality(below) \in Nat
    <3> HIDE DEF below
    <3> QED
      BY <1>3, <2>1, FS_Subset, FS_CardinalityType
  <2>3. IsFiniteSet(moved) /\ Cardinality(moved) = Cardinality(below)
    <3> HIDE DEF below
    <3> QED
      BY <2>1, <2>2, ShiftedCardinality
  <2>4. 1 \notin moved
    BY <1>5
  <2>5. {i \in I : i < j + 1} = IF 1 \in I THEN moved \cup {1} ELSE moved
    <3>1. ASSUME NEW i \in I, i < j + 1, i # 1 PROVE i \in moved
      <4>1. i - 1 \in J /\ (i - 1) + 1 = i /\ i - 1 \in Nat /\ j \in Nat
        BY <1>2, <1>4, <3>1
      <4>2. i - 1 < j
        BY <3>1, <4>1
      <4> QED
        BY <4>1, <4>2
    <3>2. ASSUME NEW i \in below PROVE i + 1 \in I /\ i + 1 < j + 1
      BY <1>5
    <3>3. 1 < j + 1
      BY <1>2, <1>5
    <3> QED
      BY <3>1, <3>2, <3>3
  <2>6. Cardinality(moved \cup {1}) = Cardinality(below) + 1
    <3> HIDE DEF moved, below
    <3> QED
      BY <2>3, <2>4, FS_AddElement
  <2>7. /\ Rank(J, j) = Cardinality(below)
        /\ Rank(I, j + 1) = Cardinality({i \in I : i < j + 1})
    BY DEF Rank
  <2> HIDE DEF moved, below
  <2>8. CASE 1 \in I
    BY <2>2, <2>5, <2>6, <2>7, <2>8
  <2>9. CASE 1 \notin I
    <3>1. {i \in I : i < j + 1} = moved
      BY <2>5, <2>9
    <3>2. Rank(I, j + 1) = Rank(J, j) /\ Rank(J, j) \in Nat
      BY <2>2, <2>3, <2>7, <3>1
    <3> QED
      BY <2>9, <3>2
  <2> QED
    BY <2>8, <2>9
<1>10. ASSUME NEW k \in 1 .. c
       PROVE  k + d \in 1 .. Cardinality(I) /\ Pick(s, I)[k + d] = Pick(t, J)[k]
  <2>1. PICK j \in J : Rank(J, j) = k - 1
    BY <1>2, <1>3, Ranks
  <2>2. Pick(t, J)[k] = t[j] /\ t[j] = s[j + 1]
    <3>1. Pick(t, J)[k] = t[j]
      BY <1>2, <1>3, <2>1, PickAt
    <3> QED
      BY <1>1, <1>2, <3>1
  <2>3. j + 1 \in I /\ Rank(I, j + 1) = (k + d) - 1
    BY <1>3, <1>5, <1>9, <2>1
  <2>4. k + d \in 1 .. Cardinality(I)
    BY <1>3, <1>8
  <2> QED
    BY <1>3, <2>2, <2>3, <2>4, PickAt
<1>11. CASE 1 \notin I
  <2>1. d = 0 /\ Cardinality(I) = c
    BY <1>3, <1>8, <1>11
  <2>2. \A k \in 1 .. c : Pick(s, I)[k] = Pick(t, J)[k]
    BY <1>3, <1>10, <2>1
  <2>3. Pick(s, I) = Pick(t, J)
    <3> DEFINE p == Pick(s, I)
               q == Pick(t, J)
    <3>1. p \in Seq(S) /\ q \in Seq(S) /\ Len(p) = c /\ Len(q) = c
      BY <1>3, <2>1
    <3> HIDE DEF p, q
    <3> QED
      BY <2>2, <3>1 DEF p, q
  <2> QED
    BY <1>1, <1>2, <1>3, <1>11, <2>3 DEF t, J
<1>12. CASE 1 \in I
  <2>1. d = 1 /\ Cardinality(I) = c + 1
    BY <1>3, <1>8, <1>12
  <2>2. \A k \in 1 .. c : Pick(s, I)[k + 1] = Pick(t, J)[k]
    BY <1>3, <1>10, <2>1
  <2>3. Pick(s, I)[1] = Head(s)
    <3>1. {j \in I : j < 1} = {}
      BY <1>1
    <3>2. Rank(I, 1) = 0
      BY <3>1, FS_EmptySet, Zenon DEF Rank
    <3>3. Rank(I, 1) = 1 - 1 /\ 1 \in 1 .. Cardinality(I)
      BY <1>3, <2>1, <3>2
    <3> QED
      BY <1>1, <1>3, <1>12, <3>3, PickAt
  <2>4. Pick(s, I) = <<Head(s)>> \o Pick(t, J)
    <3> DEFINE p == Pick(s, I)
               q == Pick(t, J)
               h == <<Head(s)>>
               r == h \o q
    <3>1. p \in Seq(S) /\ q \in Seq(S) /\ Len(p) = c + 1 /\ Len(q) = c
      BY <1>3, <2>1
    <3>2. h \in Seq(S) /\ Len(h) = 1 /\ h[1] = Head(s)
      BY <1>1
    <3> HIDE DEF p, q, h
    <3>3. /\ r \in Seq(S) /\ Len(r) = 1 + c
          /\ \A i \in 1 .. 1 + c : r[i] = IF i <= 1 THEN h[i] ELSE q[i - 1]
      <4>1. /\ r \in Seq(S) /\ Len(r) = Len(h) + Len(q)
            /\ \A i \in 1 .. Len(h) + Len(q) :
                 r[i] = IF i <= Len(h) THEN h[i] ELSE q[i - Len(h)]
        BY <3>1, <3>2, ConcatProperties
      <4> QED
        BY <3>1, <3>2, <4>1
    <3> HIDE DEF r
    <3>4. \A i \in 1 .. c + 1 : p[i] = r[i]
      <4> SUFFICES ASSUME NEW i \in 1 .. c + 1 PROVE p[i] = r[i]
        OBVIOUS
      <4>1. CASE i = 1
        BY <1>3, <2>3, <3>2, <3>3, <4>1 DEF p
      <4>2. CASE i # 1
        <5>1. i - 1 \in 1 .. c /\ (i - 1) + 1 = i /\ ~(i <= 1)
          BY <1>3, <4>2
        <5> QED
          BY <1>3, <2>2, <3>3, <5>1 DEF p, q
      <4> QED
        BY <4>1, <4>2
    <3>5. p = r
      BY <1>3, <3>1, <3>3, <3>4
    <3> QED
      BY <3>5 DEF p, q, r, h
  <2> QED
    BY <1>1, <1>2, <1>3, <1>12, <2>4 DEF t, J
<1> QED
  BY <1>11, <1>12
=============================================================================
