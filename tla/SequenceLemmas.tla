---------------------------- MODULE SequenceLemmas ----------------------------
(***************************************************************************)
(* Facts about loops and sorted sequences that hold for every length: the  *)
(* induction is on sets of numbers, from the library's theorem that < is   *)
(* well-founded on them.                                                   *)
(***************************************************************************)
EXTENDS Sorting, SequencesExt, SequenceTheorems, FunctionTheorems, FiniteSetTheorems,
        WellFoundedInduction, TLAPS

-----------------------------------------------------------------------------
(* Induction *)

LEMMA LeastNumber ==
    ASSUME NEW T, T \subseteq Nat, T # {}
    PROVE  \E n \in T : \A m \in T : n <= m
<1>1. PICK R : IsWellFoundedOn(R, Nat) /\ \A m, n \in Nat : <<m, n>> \in R <=> m < n
  <2> DEFINE R == OpToRel(<, Nat)
  <2>1. \A m, n \in Nat : <<m, n>> \in R <=> m < n
    BY DEF OpToRel
  <2>2. IsWellFoundedOn(R, Nat)
    BY NatLessThanWellFounded
  <2> HIDE DEF R
  <2> QED BY <2>1, <2>2
<1>2. IsWellFoundedOn(R, Nat) /\ T \subseteq Nat
  BY <1>1
<1>3. PICK n \in T : \A m \in T : ~ (<<m, n>> \in R)
  BY <1>2, WFMin, Zenon
<1>4. ASSUME NEW m \in T PROVE n <= m
  <2>1. m \in Nat /\ n \in Nat /\ ~ (<<m, n>> \in R)
    BY <1>3
  <2>2. ~ (m < n)
    BY <1>1, <2>1
  <2> QED BY <2>1, <2>2
<1> QED BY <1>4

(* What holds of 0 and passes on to the next number holds up to n.         *)
LEMMA Induction ==
    ASSUME NEW n \in Nat, NEW S, 0 \in S, \A i \in 0..(n - 1) : i \in S => i + 1 \in S
    PROVE  \A i \in 0..n : i \in S
<1> DEFINE T == {i \in 0..n : i \notin S}
<1> SUFFICES ASSUME T # {} PROVE FALSE
  OBVIOUS
<1>1. T \subseteq Nat
  OBVIOUS
<1>2. PICK i \in T : \A j \in T : i <= j
  BY <1>1, LeastNumber
<1>3. i \in 0..n /\ i # 0
  BY <1>2
<1>4. i - 1 \in 0..(n - 1) /\ i - 1 \notin T
  BY <1>2, <1>3
<1>5. i - 1 \in S
  BY <1>3, <1>4
<1>6. (i - 1) + 1 \in S
  BY <1>4, <1>5
<1> QED BY <1>2, <1>3, <1>6

(* The turns of a loop, each of which makes a value of the one before.     *)
Turns(n, V) == [1..n -> [V -> V]]
Runs(f, n, d, step) == f[0] = d /\ \A i \in 1..n : f[i] = step[i][f[i - 1]]

LEMMA Loop ==
    ASSUME NEW n \in Nat, NEW V, NEW d \in V, NEW step \in Turns(n, V)
    PROVE  \E f \in [0..n -> V] : Runs(f, n, d, step)
<1> USE DEF Turns
<1> DEFINE Begins(f, m) == f[0] = d /\ \A i \in 1..m : f[i] = step[i][f[i - 1]]
           S == {m \in 0..n : \E f \in [0..m -> V] : Begins(f, m)}
<1>1. 0 \in S
  <2> DEFINE f == [i \in 0..0 |-> d]
  <2>1. f \in [0..0 -> V] /\ f[0] = d /\ 1..0 = {} /\ 0 \in 0..n
    OBVIOUS
  <2> HIDE DEF f
  <2>2. Begins(f, 0)
    BY <2>1
  <2> QED BY <2>1, <2>2
<1>2. ASSUME NEW m \in 0..(n - 1), m \in S PROVE m + 1 \in S
  <2>1. PICK f \in [0..m -> V] : Begins(f, m)
    BY <1>2
  <2> DEFINE g == [i \in 0..(m + 1) |-> IF i <= m THEN f[i] ELSE step[m + 1][f[m]]]
  <2>2. f[m] \in V /\ m + 1 \in 1..n
    BY <2>1
  <2>3. step[m + 1] \in [V -> V]
    BY <2>2
  <2>4. step[m + 1][f[m]] \in V
    BY <2>2, <2>3
  <2>5. g \in [0..(m + 1) -> V]
    BY <2>1, <2>4
  <2>6. ASSUME NEW i \in 1..(m + 1) PROVE g[i] = step[i][g[i - 1]]
    <3>1. CASE i <= m
      BY <2>1, <3>1
    <3>2. CASE i = m + 1
      BY <3>2
    <3> QED BY <3>1, <3>2
  <2>7. g[0] = d
    BY <2>1
  <2>8. Begins(g, m + 1)
    BY <2>6, <2>7
  <2>9. m + 1 \in 0..n
    OBVIOUS
  <2> HIDE DEF g
  <2> QED BY <2>5, <2>8, <2>9
<1> HIDE DEF S
<1>3. \A m \in 0..n : m \in S
  BY <1>1, <1>2, Induction
<1>4. n \in 0..n
  OBVIOUS
<1> QED BY <1>3, <1>4 DEF S, Runs

-----------------------------------------------------------------------------
(* Sorting *)

Below(S, key, x) == {y \in S : key[y] < key[x]}

(* The more come before an element, the higher is its key.                 *)
LEMMA BelowGrows ==
    ASSUME NEW S, IsFiniteSet(S), NEW key \in [S -> Int], NEW x \in S
    PROVE  /\ Cardinality(Below(S, key, x)) \in 0..(Cardinality(S) - 1)
           /\ \A y \in S : key[x] < key[y]
                  => Cardinality(Below(S, key, x)) < Cardinality(Below(S, key, y))
<1>1. ASSUME NEW y \in S
      PROVE  IsFiniteSet(Below(S, key, y)) /\ Cardinality(Below(S, key, y)) \in Nat
  <2>1. Below(S, key, y) \in SUBSET S
    BY DEF Below
  <2> QED BY <2>1, FS_Subset, FS_CardinalityType
<1>2. Cardinality(Below(S, key, x)) <= Cardinality(S) - 1 /\ Cardinality(S) \in Nat
  <2>1. Below(S, key, x) \in SUBSET (S \ {x})
    BY DEF Below
  <2>2. IsFiniteSet(S \ {x}) /\ Cardinality(S \ {x}) = Cardinality(S) - 1
    BY FS_RemoveElement
  <2>3. Cardinality(Below(S, key, x)) <= Cardinality(S \ {x})
    BY <2>1, <2>2, FS_Subset
  <2> QED BY <2>2, <2>3, FS_CardinalityType
<1>3. ASSUME NEW y \in S, key[x] < key[y]
      PROVE  Cardinality(Below(S, key, x)) < Cardinality(Below(S, key, y))
  <2>1. Below(S, key, x) \in SUBSET Below(S, key, y)
    <3> SUFFICES ASSUME NEW z \in S, key[z] < key[x] PROVE key[z] < key[y]
      BY DEF Below
    <3>1. key[x] \in Int /\ key[y] \in Int /\ key[z] \in Int
      OBVIOUS
    <3> QED BY <1>3, <3>1
  <2>2. x \in Below(S, key, y) /\ x \notin Below(S, key, x)
    BY <1>3 DEF Below
  <2>3. IsFiniteSet(Below(S, key, y)) /\ Cardinality(Below(S, key, y)) \in Nat
    BY <1>1
  <2>4. Cardinality(Below(S, key, x)) \in Nat
    BY <1>1
  <2>5. /\ Cardinality(Below(S, key, x)) <= Cardinality(Below(S, key, y))
        /\ Cardinality(Below(S, key, y)) = Cardinality(Below(S, key, x))
             => Below(S, key, y) = Below(S, key, x)
    BY <2>1, <2>3, FS_Subset
  <2> QED BY <2>2, <2>3, <2>4, <2>5
<1> QED BY <1>1, <1>2, <1>3

LEMMA SortedFunction ==
    ASSUME NEW S, NEW key
    PROVE  SortedBy(S, key) = [i \in 1..Cardinality(S) |-> SortedBy(S, key)[i]]
<1> DEFINE e(i) == CHOOSE x \in S : Cardinality({y \in S : key[y] < key[x]}) = i - 1
<1>1. SortedBy(S, key) = [i \in 1..Cardinality(S) |-> e(i)]
  BY DEF SortedBy
<1> HIDE DEF e
<1> QED BY <1>1

(* Elements whose keys differ are all in their sorted sequence.            *)
LEMMA SortedRange ==
    ASSUME NEW S, IsFiniteSet(S), NEW key \in [S -> Int],
           \A x, y \in S : key[x] = key[y] => x = y
    PROVE  /\ SortedBy(S, key) \in Seq(S)
           /\ Len(SortedBy(S, key)) = Cardinality(S)
           /\ Range(SortedBy(S, key)) = S
           /\ \A i, j \in 1..Cardinality(S) : SortedBy(S, key)[i] = SortedBy(S, key)[j] => i = j
<1> DEFINE n == Cardinality(S)
           rank == [x \in S |-> Cardinality(Below(S, key, x)) + 1]
<1>1. n \in Nat
  BY FS_CardinalityType
<1>2. rank \in [S -> 1..n]
  BY <1>1, BelowGrows
<1>3. ASSUME NEW x \in S, NEW y \in S, rank[x] = rank[y] PROVE x = y
  <2>1. Cardinality(Below(S, key, x)) = Cardinality(Below(S, key, y))
    BY <1>3, BelowGrows
  <2>2. ~ (key[x] < key[y]) /\ ~ (key[y] < key[x])
    BY <2>1, BelowGrows
  <2>3. key[x] \in Int /\ key[y] \in Int
    OBVIOUS
  <2> QED BY <2>2, <2>3
<1> HIDE DEF rank
<1>4. rank \in Injection(S, 1..n)
  BY <1>2, <1>3, Fun_IsInj
<1>5. IsFiniteSet(1..n) /\ Cardinality(1..n) = n
  BY <1>1, FS_Interval
<1>6. rank \in Surjection(S, 1..n)
  BY <1>4, <1>5, FS_Injection
<1>7. \A i \in 1..n : \E x \in S : rank[x] = i
  BY <1>6 DEF Surjection
<1>8. ASSUME NEW i \in 1..n
      PROVE  /\ SortedBy(S, key)[i] \in S
             /\ \A x \in S : rank[x] = i <=> SortedBy(S, key)[i] = x
  <2> DEFINE At(x) == Cardinality({y \in S : key[y] < key[x]}) = i - 1
  <2>1. \A x \in S : rank[x] = i <=> At(x)
    BY <1>1, BelowGrows DEF rank, Below
  <2>2. SortedBy(S, key)[i] = CHOOSE x \in S : At(x)
    BY DEF SortedBy
  <2>3. \E x \in S : At(x)
    BY <1>7, <2>1
  <2> HIDE DEF At
  <2>4. SortedBy(S, key)[i] \in S /\ At(SortedBy(S, key)[i])
    BY <2>2, <2>3
  <2> QED BY <1>3, <2>1, <2>4
<1>9. SortedBy(S, key) = [i \in 1..n |-> SortedBy(S, key)[i]]
  BY SortedFunction
<1>10. SortedBy(S, key) \in [1..n -> S]
  BY <1>8, <1>9
<1>11. SortedBy(S, key) \in Seq(S) /\ Len(SortedBy(S, key)) = n
  BY <1>1, <1>10
<1>12. \A x \in S : rank[x] \in 1..n /\ SortedBy(S, key)[rank[x]] = x
  BY <1>2, <1>8
<1>13. Range(SortedBy(S, key)) = S
  BY <1>10, <1>12 DEF Range
<1>14. \A i, j \in 1..n : SortedBy(S, key)[i] = SortedBy(S, key)[j] => i = j
  BY <1>8
<1> QED BY <1>11, <1>13, <1>14

(* A sequence of all elements in the order of their keys is the sorted one. *)
LEMMA SortedIs ==
    ASSUME NEW S, NEW key \in [S -> Int], NEW s \in Seq(S), Range(s) = S,
           \A i, j \in 1..Len(s) : i < j => key[s[i]] < key[s[j]]
    PROVE  IsFiniteSet(S) /\ SortedBy(S, key) = s
<1> DEFINE n == Len(s)
<1>1. n \in Nat /\ s \in [1..n -> S]
  OBVIOUS
<1>2. ASSUME NEW i \in 1..n, NEW j \in 1..n PROVE key[s[i]] < key[s[j]] <=> i < j
  <2>1. key[s[i]] \in Int /\ key[s[j]] \in Int
    BY <1>1
  <2>2. i < j => key[s[i]] < key[s[j]]
    OBVIOUS
  <2>3. j < i => key[s[j]] < key[s[i]]
    OBVIOUS
  <2> QED BY <2>1, <2>2, <2>3
<1>3. s \in Bijection(1..n, S)
  <2>1. \A i, j \in 1..n : s[i] = s[j] => i = j
    <3> SUFFICES ASSUME NEW i \in 1..n, NEW j \in 1..n, s[i] = s[j] PROVE i = j
      OBVIOUS
    <3>1. key[s[i]] \in Int
      BY <1>1
    <3>2. ~ (i < j) /\ ~ (j < i)
      BY <1>2, <3>1
    <3> QED BY <3>2
  <2>2. \A x \in S : \E i \in 1..n : s[i] = x
    BY <1>1 DEF Range
  <2> QED BY <1>1, <2>1, <2>2, Fun_IsBij
<1>4. IsFiniteSet(S) /\ Cardinality(S) = n
  <2>1. ExistsBijection(1..n, S)
    BY <1>3 DEF ExistsBijection
  <2> QED BY <1>1, <2>1, FS_CountingElements, FS_NatBijection
<1>5. ASSUME NEW i \in 1..n PROVE Cardinality(Below(S, key, s[i])) = i - 1
  <2> DEFINE B == Below(S, key, s[i])
             r == [j \in 1..(i - 1) |-> s[j]]
  <2>1. r \in [1..(i - 1) -> B]
    BY <1>1, <1>2 DEF Below
  <2>2. \A j, k \in 1..(i - 1) : r[j] = r[k] => j = k
    <3>1. \A j, k \in 1..n : s[j] = s[k] => j = k
      BY <1>3 DEF Bijection, Injection
    <3>2. 1..(i - 1) \subseteq 1..n
      BY <1>1
    <3> QED BY <3>1, <3>2
  <2>3. ASSUME NEW x \in B PROVE \E j \in 1..(i - 1) : r[j] = x
    <3>1. PICK j \in 1..n : s[j] = x
      BY <1>3 DEF Bijection, Surjection, Below
    <3>2. j < i
      BY <1>2, <3>1 DEF Below
    <3> QED BY <3>1, <3>2
  <2> HIDE DEF r
  <2>4. r \in Bijection(1..(i - 1), B)
    BY <2>1, <2>2, <2>3, Fun_IsBij
  <2>5. ExistsBijection(1..(i - 1), B) /\ i - 1 \in Nat
    BY <2>4 DEF ExistsBijection
  <2> QED BY <2>5, FS_CountingElements
<1>6. ASSUME NEW i \in 1..n PROVE SortedBy(S, key)[i] = s[i]
  <2> DEFINE At(x) == Cardinality({y \in S : key[y] < key[x]}) = i - 1
  <2>1. SortedBy(S, key)[i] = CHOOSE x \in S : At(x)
    BY <1>4 DEF SortedBy
  <2>2. s[i] \in S /\ At(s[i])
    BY <1>1, <1>5 DEF Below
  <2>3. ASSUME NEW x \in S, At(x) PROVE x = s[i]
    <3>1. PICK j \in 1..n : s[j] = x
      BY <1>3 DEF Bijection, Surjection
    <3>2. Cardinality(Below(S, key, s[j])) = i - 1
      BY <2>3, <3>1 DEF Below
    <3>3. j - 1 = i - 1
      BY <1>5, <3>2
    <3> QED BY <3>1, <3>3
  <2> HIDE DEF At
  <2> QED BY <2>1, <2>2, <2>3
<1>7. SortedBy(S, key) = [i \in 1..n |-> SortedBy(S, key)[i]]
  BY <1>4, SortedFunction
<1>8. s = [i \in 1..n |-> s[i]]
  BY <1>1
<1> QED BY <1>4, <1>6, <1>7, <1>8

(* The elements of a finite set in some order.                             *)
LEMMA SetInSequence ==
    ASSUME NEW S, IsFiniteSet(S)
    PROVE  /\ SetToSeq(S) \in [1..Cardinality(S) -> S] /\ Cardinality(S) \in Nat
           /\ \A x \in S : \E i \in 1..Cardinality(S) : SetToSeq(S)[i] = x
           /\ \A i, j \in 1..Cardinality(S) : SetToSeq(S)[i] = SetToSeq(S)[j] => i = j
<1> DEFINE n == Cardinality(S)
           Good(f) == f \in [1..n -> S] /\ IsInjective(f)
<1>1. n \in Nat /\ ExistsBijection(1..n, S)
  BY FS_CardinalityType
<1>2. \E f \in [1..n -> S] : IsInjective(f)
  BY <1>1 DEF ExistsBijection, Bijection, Injection
<1>3. Good(SetToSeq(S))
  BY <1>2 DEF SetToSeq
<1>4. SetToSeq(S) \in Injection(1..n, S)
  BY <1>3 DEF Injection
<1>5. IsFiniteSet(1..n) /\ Cardinality(1..n) = n
  BY <1>1, FS_Interval
<1>6. SetToSeq(S) \in Surjection(1..n, S)
  BY <1>4, <1>5, FS_Injection
<1> QED BY <1>1, <1>3, <1>6 DEF IsInjective, Surjection
=============================================================================
