----------------------------- MODULE Induction -----------------------------
(***************************************************************************)
(* Least and greatest numbers of a set, the ranks of its members, and      *)
(* functions defined by recursion on a number, and powers of two, for the  *)
(* proofs that need them.                                                  *)
(***************************************************************************)
EXTENDS Ranks, FiniteSetTheorems, WellFoundedInduction, TLAPS

(* A set of natural numbers has a least member.                            *)
LEMMA LeastMember ==
  ASSUME NEW T, T \subseteq Nat, T # {}
  PROVE  \E i \in T : \A j \in T : i <= j
<1>1. IsWellFoundedOn(OpToRel(<, Nat), Nat)
  BY NatLessThanWellFounded
<1>2. PICK i \in T : \A j \in T : ~(<< j, i >> \in OpToRel(<, Nat))
  BY <1>1, WFMin
<1>3. ASSUME NEW j \in T, j < i PROVE FALSE
  <2>1. << j, i >> \in Nat \X Nat /\ << j, i >>[1] < << j, i >>[2]
    BY <1>3
  <2>2. << j, i >> \in OpToRel(<, Nat)
    BY <2>1 DEF OpToRel
  <2>3. QED BY <2>2, <1>2
<1>4. QED BY <1>3

(* One with a bound has a greatest.                                        *)
LEMMA GreatestMember ==
  ASSUME NEW T, NEW n \in Nat, T \subseteq 0 .. n, T # {}
  PROVE  \E i \in T : \A j \in T : j <= i
<1> DEFINE U == { k \in 0 .. n : n - k \in T }
<1>1. U \subseteq Nat /\ U # {}
  <2>1. PICK i \in T : TRUE
    OBVIOUS
  <2>2. n - i \in 0 .. n /\ n - (n - i) = i
    BY <2>1
  <2>3. n - i \in U
    BY <2>1, <2>2
  <2>4. QED BY <2>3
<1>2. PICK k \in U : \A l \in U : k <= l
  <2> HIDE DEF U
  <2>1. QED BY <1>1, LeastMember
<1>3. ASSUME NEW j \in T PROVE j <= n - k
  <2>1. n - j \in 0 .. n /\ n - (n - j) = j
    OBVIOUS
  <2>2. n - j \in U
    BY <2>1
  <2>3. QED BY <1>2, <2>2
<1>4. QED BY <1>3

(* f begins with z and goes on by its steps.                               *)
Iterates(f, N, S, z, step) ==
  f \in [0 .. N -> S] /\ f[0] = z /\ \A n \in 1 .. N : f[n] = step[n][f[n - 1]]

LEMMA Iteration ==
  ASSUME NEW N \in Nat, NEW S, NEW z \in S, NEW step \in [1 .. N -> [S -> S]]
  PROVE  \E f : Iterates(f, N, S, z, step)
<1> DEFINE Some(k) == \E f : Iterates(f, k, S, z, step)
           T == { k \in 0 .. N : ~Some(k) }
<1>1. Some(0)
  <2> DEFINE f == [i \in 0 .. 0 |-> z]
  <2>1. f \in [0 .. 0 -> S] /\ f[0] = z
    OBVIOUS
  <2>2. \A n \in 1 .. 0 : f[n] = step[n][f[n - 1]]
    OBVIOUS
  <2> HIDE DEF f
  <2>3. QED BY <2>1, <2>2 DEF Iterates
<1>2. ASSUME NEW k \in 0 .. N - 1, Some(k) PROVE Some(k + 1)
  <2>1. PICK f : Iterates(f, k, S, z, step)
    BY <1>2
  <2>2. f \in [0 .. k -> S] /\ f[0] = z /\ \A n \in 1 .. k : f[n] = step[n][f[n - 1]]
    BY <2>1 DEF Iterates
  <2> DEFINE g == [i \in 0 .. k + 1 |-> IF i = k + 1 THEN step[k + 1][f[k]] ELSE f[i]]
  <2>3. g \in [0 .. k + 1 -> S]
    <3>1. f[k] \in S /\ step[k + 1] \in [S -> S]
      BY <2>2
    <3>2. step[k + 1][f[k]] \in S
      BY <3>1
    <3>3. QED BY <2>2, <3>2
  <2>4. g[0] = z
    BY <2>2
  <2>5. ASSUME NEW n \in 1 .. k + 1 PROVE g[n] = step[n][g[n - 1]]
    <3>1. n - 1 \in 0 .. k /\ g[n - 1] = f[n - 1]
      OBVIOUS
    <3>2. CASE n = k + 1
      <4>1. n - 1 = k /\ g[n] = step[k + 1][f[k]]
        BY <3>2
      <4>2. QED BY <3>1, <3>2, <4>1
    <3>3. CASE n # k + 1
      <4>1. n \in 1 .. k /\ g[n] = f[n]
        BY <3>3
      <4>2. QED BY <2>2, <3>1, <4>1
    <3>4. QED BY <3>2, <3>3
  <2> HIDE DEF g
  <2>6. Iterates(g, k + 1, S, z, step)
    BY <2>3, <2>4, <2>5 DEF Iterates
  <2>7. QED BY <2>6
<1>3. T = {}
  <2> SUFFICES ASSUME T # {} PROVE FALSE
    OBVIOUS
  <2>1. PICK k \in T : \A j \in T : k <= j
    <3>1. T \subseteq Nat
      OBVIOUS
    <3> HIDE DEF T
    <3>2. QED BY <3>1, LeastMember
  <2>2. k \in 0 .. N /\ ~Some(k)
    OBVIOUS
  <2> HIDE DEF Some
  <2>3. k # 0
    BY <1>1, <2>2
  <2>4. k - 1 \in 0 .. N - 1 /\ k - 1 + 1 = k
    BY <2>2, <2>3
  <2>5. k - 1 \notin T
    BY <2>1, <2>4
  <2>6. Some(k - 1)
    BY <2>4, <2>5
  <2>7. QED BY <1>2, <2>2, <2>4, <2>6
<1>4. Some(N)
  <2>1. N \notin T
    BY <1>3
  <2> HIDE DEF Some
  <2>2. QED BY <2>1
<1>5. QED BY <1>4

(* The members up to one of a finite set are finitely many.                *)
LEMMA Counted ==
  ASSUME NEW n \in Nat, NEW S, S \subseteq 1 .. n, NEW e \in Nat
  PROVE  LET U == { i \in S : i <= e } IN
         IsFiniteSet(S) /\ IsFiniteSet(U) /\ Rank(S, e) = Cardinality(U) /\ Rank(S, e) \in 0 .. Cardinality(S)
<1> DEFINE U == { i \in S : i <= e }
<1>1. IsFiniteSet(S)
  <2>1. IsFiniteSet(1 .. n)
    BY FS_Interval
  <2>2. QED BY <2>1, FS_Subset
<1>2. U \in SUBSET S
  OBVIOUS
<1> HIDE DEF U
<1>3. IsFiniteSet(U) /\ Cardinality(U) <= Cardinality(S)
  BY <1>1, <1>2, FS_Subset
<1>4. Cardinality(U) \in Nat /\ Cardinality(S) \in Nat
  BY <1>1, <1>3, FS_CardinalityType
<1>5. Rank(S, e) = Cardinality(U)
  BY DEF Rank, U
<1>6. QED BY <1>1, <1>3, <1>4, <1>5 DEF U

(* Up to the smallest there is one.                                        *)
LEMMA RankFirst ==
  ASSUME NEW n \in Nat, NEW S, S \subseteq 1 .. n, NEW e \in S, \A j \in S : e <= j
  PROVE  Rank(S, e) = 1
<1>1. \A i \in S : i <= e <=> i = e
  <2>1. S \subseteq Int
    OBVIOUS
  <2>2. QED BY <2>1
<1>2. { i \in S : i <= e } = {e}
  BY <1>1, Zenon
<1>3. QED BY <1>2, FS_Singleton DEF Rank

(* From one to the next there is one more.                                 *)
LEMMA RankNext ==
  ASSUME NEW n \in Nat, NEW S, S \subseteq 1 .. n, NEW e \in Nat, NEW f \in S, e < f,
         \A j \in S : j <= e \/ f <= j
  PROVE  Rank(S, f) = Rank(S, e) + 1
<1> DEFINE U == { i \in S : i <= e }
<1>1. { i \in S : i <= f } = U \cup {f} /\ f \notin U
  <2>1. S \subseteq Int
    OBVIOUS
  <2>2. \A i \in S : i <= f <=> i <= e \/ i = f
    BY <2>1
  <2>3. ~(f <= e)
    BY <2>1
  <2>4. QED BY <2>2, <2>3, Zenon
<1>2. IsFiniteSet(U) /\ Rank(S, e) = Cardinality(U)
  BY Counted
<1> HIDE DEF U
<1>3. Rank(S, f) = Cardinality(U \cup {f})
  BY <1>1 DEF Rank
<1>4. QED BY <1>1, <1>2, <1>3, FS_AddElement

(* Up to the greatest there are all.                                       *)
LEMMA RankLast ==
  ASSUME NEW n \in Nat, NEW S, S \subseteq 1 .. n, NEW e \in Nat, \A j \in S : j <= e
  PROVE  Rank(S, e) = Cardinality(S)
<1>1. { i \in S : i <= e } = S
  OBVIOUS
<1>2. QED BY <1>1 DEF Rank

(* Up to a later one there are more.                                       *)
LEMMA RankOrder ==
  ASSUME NEW n \in Nat, NEW S, S \subseteq 1 .. n, NEW e \in Nat, NEW f \in S, e < f
  PROVE  Rank(S, e) < Rank(S, f)
<1> DEFINE U == { i \in S : i <= e }
           V == { i \in S : i <= f }
<1>1. U \in SUBSET V /\ U # V
  <2>1. f \in Nat /\ S \subseteq Nat
    OBVIOUS
  <2>2. \A i \in S : i <= e => i <= f
    BY <2>1
  <2>3. f \in V /\ f \notin U
    BY <2>1
  <2>4. QED BY <2>2, <2>3
<1>2. IsFiniteSet(U) /\ Rank(S, e) = Cardinality(U)
  BY Counted
<1>3. IsFiniteSet(V) /\ Rank(S, f) = Cardinality(V)
  <2>1. f \in Nat
    OBVIOUS
  <2>2. QED BY <2>1, Counted
<1> HIDE DEF U, V
<1>4. Cardinality(U) <= Cardinality(V) /\ Cardinality(U) # Cardinality(V)
  BY <1>1, <1>3, FS_Subset
<1>5. Cardinality(U) \in Nat /\ Cardinality(V) \in Nat
  BY <1>2, <1>3, FS_CardinalityType
<1>6. QED BY <1>2, <1>3, <1>4, <1>5

(* A member has a number, and is the one with that number.                 *)
LEMMA NthRank ==
  ASSUME NEW n \in Nat, NEW S, S \subseteq 1 .. n, NEW e \in S
  PROVE  Rank(S, e) \in 1 .. Cardinality(S) /\ Nth(S, Rank(S, e)) = e
<1>1. S \subseteq Nat /\ e \in Nat
  OBVIOUS
<1>2. \A f \in S : Rank(S, f) = Rank(S, e) => f = e
  <2> SUFFICES ASSUME NEW f \in S, Rank(S, f) = Rank(S, e), f # e PROVE FALSE
    OBVIOUS
  <2>1. f \in Nat /\ (e < f \/ f < e)
    BY <1>1
  <2>2. Rank(S, e) \in Int
    <3>1. Rank(S, e) \in 0 .. Cardinality(S) /\ IsFiniteSet(S)
      BY <1>1, Counted
    <3>2. QED BY <3>1, FS_CardinalityType
  <2>3. Rank(S, e) < Rank(S, f) \/ Rank(S, f) < Rank(S, e)
    BY <1>1, <2>1, RankOrder
  <2>4. QED BY <2>2, <2>3
<1>3. Nth(S, Rank(S, e)) = e
  BY <1>2 DEF Nth
<1>4. Rank(S, e) # 0
  <2> DEFINE U == { i \in S : i <= e }
  <2>1. e \in U
    BY <1>1
  <2>2. IsFiniteSet(U) /\ Rank(S, e) = Cardinality(U)
    BY <1>1, Counted
  <2> HIDE DEF U
  <2>3. QED BY <2>1, <2>2, FS_EmptySet
<1>5. Rank(S, e) \in 0 .. Cardinality(S) /\ Cardinality(S) \in Nat
  <2>1. IsFiniteSet(S) /\ Rank(S, e) \in 0 .. Cardinality(S)
    BY <1>1, Counted
  <2>2. QED BY <2>1, FS_CardinalityType
<1>6. QED BY <1>3, <1>4, <1>5

(* What holds at 0 and is passed on holds up to n.                         *)
LEMMA CountUp ==
  ASSUME NEW n \in Nat, NEW T, 0 \in T, \A j \in 0 .. n - 1 : j \in T => j + 1 \in T
  PROVE  0 .. n \subseteq T
<1> DEFINE U == { j \in 0 .. n : j \notin T }
<1> SUFFICES ASSUME U # {} PROVE FALSE
  OBVIOUS
<1>1. PICK j \in U : \A k \in U : j <= k
  <2>1. U \subseteq Nat
    OBVIOUS
  <2> HIDE DEF U
  <2>2. QED BY <2>1, LeastMember
<1>2. j # 0 /\ j \in 0 .. n /\ j \notin T
  OBVIOUS
<1>3. j - 1 \in 0 .. n - 1 /\ j - 1 + 1 = j /\ ~(j <= j - 1)
  BY <1>2
<1>4. j - 1 \in T
  BY <1>1, <1>3
<1>5. QED BY <1>2, <1>3, <1>4

(* Powers of two, as the numbers of subsets.                               *)
LEMMA PowerNat == ASSUME NEW n \in Nat PROVE 2 ^ n \in Nat
<1>1. IsFiniteSet(1 .. n) /\ Cardinality(1 .. n) = n
  <2>1. Cardinality(1 .. n) = IF 1 > n THEN 0 ELSE n - 1 + 1
    BY FS_Interval
  <2>2. QED BY <2>1, FS_Interval
<1>2. Cardinality(SUBSET (1 .. n)) = 2 ^ n /\ IsFiniteSet(SUBSET (1 .. n))
  BY <1>1, FS_SUBSET
<1>3. QED BY <1>2, FS_CardinalityType

(* A power has twice as many as the one before.                            *)
LEMMA PowerStep == ASSUME NEW n \in Nat PROVE 2 ^ (n + 1) = 2 * 2 ^ n
<1> DEFINE S == SUBSET (1 .. n)
           T == { X \cup {n + 1} : X \in S }
           f == [X \in S |-> X \cup {n + 1}]
<1>1. \A m \in Nat : IsFiniteSet(1 .. m) /\ Cardinality(1 .. m) = m
  <2> TAKE m \in Nat
  <2>1. Cardinality(1 .. m) = IF 1 > m THEN 0 ELSE m - 1 + 1
    BY FS_Interval
  <2>2. QED BY <2>1, FS_Interval
<1>2. \A m \in Nat : Cardinality(SUBSET (1 .. m)) = 2 ^ m /\ IsFiniteSet(SUBSET (1 .. m))
  BY <1>1, FS_SUBSET
<1>3. n + 1 \in Nat /\ n + 1 \notin 1 .. n /\ 1 .. n + 1 = (1 .. n) \cup {n + 1}
  OBVIOUS
<1>4. SUBSET (1 .. n + 1) = S \cup T
  <2>1. ASSUME NEW Y \in SUBSET (1 .. n + 1) PROVE Y \in S \cup T
    <3>1. CASE n + 1 \in Y
      <4>1. Y \ {n + 1} \in S /\ Y = (Y \ {n + 1}) \cup {n + 1}
        BY <1>3, <3>1
      <4>2. QED BY <4>1
    <3>2. CASE n + 1 \notin Y
      BY <1>3, <3>2
    <3>3. QED BY <3>1, <3>2
  <2>2. S \cup T \subseteq SUBSET (1 .. n + 1)
    BY <1>3
  <2>3. QED BY <2>1, <2>2
<1>5. S \cap T = {}
  BY <1>3
<1>6. f \in Bijection(S, T)
  <2>1. f \in [S -> T]
    OBVIOUS
  <2>2. \A X, Y \in S : f[X] = f[Y] => X = Y
    <3> SUFFICES ASSUME NEW X \in S, NEW Y \in S, X \cup {n + 1} = Y \cup {n + 1} PROVE X = Y
      OBVIOUS
    <3>1. n + 1 \notin X /\ n + 1 \notin Y
      BY <1>3
    <3>2. QED BY <3>1
  <2>3. \A t \in T : \E X \in S : f[X] = t
    OBVIOUS
  <2> HIDE DEF f, S, T
  <2>4. QED BY <2>1, <2>2, <2>3 DEF Bijection, Injection, Surjection, IsInjective
<1> HIDE DEF f, S, T
<1>7. IsFiniteSet(S) /\ Cardinality(S) = 2 ^ n
  BY <1>2 DEF S
<1>8. IsFiniteSet(T) /\ Cardinality(T) = 2 ^ n
  <2>1. ExistsBijection(S, T)
    BY <1>6 DEF ExistsBijection
  <2>2. QED BY <1>7, <2>1, FS_Bijection
<1>9. Cardinality(S \cup T) = Cardinality(S) + Cardinality(T) - Cardinality({})
  BY <1>5, <1>7, <1>8, FS_Union
<1>10. 2 ^ (n + 1) = 2 ^ n + 2 ^ n
  <2>1. Cardinality(S \cup T) = 2 ^ (n + 1)
    BY <1>2, <1>3, <1>4
  <2>2. 2 ^ n \in Nat
    BY PowerNat
  <2>3. QED BY <2>1, <2>2, <1>7, <1>8, <1>9, FS_EmptySet
<1>11. QED BY <1>10, PowerNat

(* A power of two is positive.                                             *)
LEMMA PowerPos == ASSUME NEW n \in Nat PROVE 2 ^ n \in Nat \ {0}
<1> DEFINE T == { k \in 0 .. n : 2 ^ k > 0 }
<1>1. 0 \in T
  OBVIOUS
<1>2. ASSUME NEW j \in 0 .. n - 1, j \in T PROVE j + 1 \in T
  BY <1>2, PowerStep, PowerNat
<1> HIDE DEF T
<1>3. n \in T
  BY <1>1, <1>2, CountUp
<1>4. QED BY <1>3, PowerNat DEF T

(* Exponents add up.                                                       *)
LEMMA PowerAdd == ASSUME NEW m \in Nat, NEW n \in Nat PROVE 2 ^ (m + n) = 2 ^ m * 2 ^ n
<1> DEFINE T == { k \in 0 .. n : 2 ^ (m + k) = 2 ^ m * 2 ^ k }
<1>1. 0 \in T
  <2>1. 2 ^ m \in Nat /\ m + 0 = m /\ 2 ^ 0 = 1
    BY PowerNat
  <2>2. QED BY <2>1
<1>2. ASSUME NEW j \in 0 .. n - 1, j \in T PROVE j + 1 \in T
  <2>1. j \in Nat /\ m + j \in Nat /\ m + (j + 1) = m + j + 1
    OBVIOUS
  <2>2. 2 ^ (m + j + 1) = 2 * 2 ^ (m + j) /\ 2 ^ (j + 1) = 2 * 2 ^ j
    BY <2>1, PowerStep
  <2>3. 2 ^ m \in Nat /\ 2 ^ j \in Nat
    BY <2>1, PowerNat
  <2>4. 2 ^ (m + j) = 2 ^ m * 2 ^ j
    BY <1>2
  <2>5. 2 * (2 ^ m * 2 ^ j) = 2 ^ m * (2 * 2 ^ j)
    BY <2>3
  <2>6. 2 ^ (m + (j + 1)) = 2 ^ m * 2 ^ (j + 1)
    BY <2>1, <2>2, <2>4, <2>5
  <2>7. QED BY <2>6
<1> HIDE DEF T
<1>3. n \in T
  BY <1>1, <1>2, CountUp
<1>4. QED BY <1>3 DEF T
=============================================================================
