----------------------------- MODULE Feeds_proofs -----------------------------
(***************************************************************************)
(* What strategies are told of transfers, order books and candles, and     *)
(* that the instance of all data modules keeps what each of them does.     *)
(***************************************************************************)
EXTENDS DataMC, Data_proofs, SequenceLemmas

-----------------------------------------------------------------------------
(* Order books *)

AnySize == {0} \cup Sizes
Dicts == Seq(Prices \X Sizes)
Deltas == Seq(Prices \X AnySize)

(* A price stands in one place.                                            *)
OneLevel(levels) == \A i, j \in DOMAIN levels : levels[i][1] = levels[j][1] => i = j

(* What levels say of a price; nothing is a size of 0.                     *)
Has(levels, p) == \E i \in DOMAIN levels : levels[i][1] = p
Says(levels, p, size) ==
    IF Has(levels, p) THEN \E i \in DOMAIN levels : levels[i] = <<p, size>> ELSE size = 0

(* Sides and prices are finitely many, and at least one level is shown.    *)
LEMMA BooksBounds ==
    ASSUME OrderBooksAssumption, exchange \in Exchanges
    PROVE  /\ Sides \subseteq {"bids", "asks"} /\ IsFiniteSet(Sides)
           /\ Prices \subseteq Nat /\ IsFiniteSet(Prices)
           /\ Sizes \subseteq Nat \ {0} /\ Depth \in Nat /\ Shown \in Nat \ {0}
<1>1. Sides \subseteq {"bids", "asks"} /\ Prices \subseteq Nat /\ IsFiniteSet(Prices)
  BY Zenon DEF OrderBooksAssumption, Sides, Prices
<1>2. Sizes \subseteq Nat \ {0} /\ BfxDepth \in Nat /\ Shown \in Nat \ {0}
  BY Zenon DEF OrderBooksAssumption
<1>3. IsFiniteSet({"bids", "asks"})
  <2>1. IsFiniteSet({"bids"})
    BY FS_Singleton
  <2>2. IsFiniteSet({"bids"} \cup {"asks"}) /\ {"bids"} \cup {"asks"} = {"bids", "asks"}
    BY <2>1, FS_AddElement
  <2> QED BY <2>2
<1>4. IsFiniteSet(Sides)
  BY <1>1, <1>3, FS_Subset
<1> QED BY <1>1, <1>2, <1>4 DEF Depth

(* A level is put at its price's place, or at the end.                     *)
LEMMA PutLevel ==
    ASSUME Sizes \subseteq Nat \ {0}, NEW dict \in Dicts, OneLevel(dict),
           NEW p \in Prices, NEW size \in Sizes
    PROVE  /\ Put(dict, <<p, size>>) \in Dicts /\ OneLevel(Put(dict, <<p, size>>))
           /\ Says(Put(dict, <<p, size>>), p, size) /\ Has(Put(dict, <<p, size>>), p)
           /\ \A q \in Prices \ {p}, z \in AnySize :
                 Says(Put(dict, <<p, size>>), q, z) <=> Says(dict, q, z)
<1> DEFINE level == <<p, size>>
           new == Put(dict, level)
<1>1. DOMAIN dict = 1..Len(dict) /\ Len(dict) \in Nat /\ \A i \in DOMAIN dict : dict[i] \in Prices \X Sizes
  BY DEF Dicts
<1>2. level \in Prices \X Sizes /\ level[1] = p
  OBVIOUS
<1>3. CASE Has(dict, p)
  <2>1. new = [i \in DOMAIN dict |-> IF dict[i][1] = p THEN level ELSE dict[i]]
    BY <1>3 DEF Put, Has
  <2>2. new \in Dicts /\ DOMAIN new = DOMAIN dict
    BY <1>1, <1>2, <2>1 DEF Dicts
  <2>3. \A i \in DOMAIN dict : new[i][1] = dict[i][1]
    BY <1>2, <2>1
  <2>4. OneLevel(new)
    BY <2>2, <2>3 DEF OneLevel
  <2>5. Has(new, p) /\ Says(new, p, size)
    BY <1>3, <2>1, <2>2, <2>3 DEF Has, Says
  <2>6. ASSUME NEW q \in Prices \ {p}, NEW z \in AnySize
        PROVE  Says(new, q, z) <=> Says(dict, q, z)
    <3>1. \A i \in DOMAIN dict : new[i] = <<q, z>> <=> dict[i] = <<q, z>>
      BY <1>1, <1>2, <2>1
    <3>2. Has(new, q) <=> Has(dict, q)
      BY <2>2, <2>3 DEF Has
    <3> QED BY <2>2, <3>1, <3>2 DEF Says
  <2> QED BY <2>2, <2>4, <2>5, <2>6
<1>4. CASE ~ Has(dict, p)
  <2> DEFINE n == Len(dict) + 1
  <2>1. new = Append(dict, level)
    BY <1>4, Zenon DEF Put, Has
  <2>2. new \in Dicts /\ DOMAIN new = 1..n /\ new[n] = level /\ \A i \in DOMAIN dict : new[i] = dict[i]
    <3>1. new \in Dicts /\ Len(new) = n /\ new[n] = level /\ \A i \in 1..Len(dict) : new[i] = dict[i]
      <4> DEFINE T == Prices \X Sizes
      <4>1. dict \in Seq(T) /\ level \in T
        BY <1>2 DEF Dicts
      <4> HIDE DEF T, level
      <4>2. /\ Append(dict, level) \in Seq(T) /\ Len(Append(dict, level)) = Len(dict) + 1
            /\ Append(dict, level)[Len(dict) + 1] = level
            /\ \A i \in 1..Len(dict) : Append(dict, level)[i] = dict[i]
        BY <4>1, AppendProperties
      <4> HIDE DEF new
      <4> QED BY <2>1, <4>2, Zenon DEF T, Dicts, level
    <3>2. DOMAIN new = 1..Len(new)
      BY <3>1, LenProperties DEF Dicts
    <3> QED BY <1>1, <3>1, <3>2
  <2>3. \A i \in DOMAIN new : i = n \/ i \in DOMAIN dict
    BY <1>1, <2>2
  <2>4. OneLevel(new)
    BY <1>1, <1>2, <1>4, <2>2, <2>3 DEF OneLevel, Has
  <2>5. Has(new, p) /\ Says(new, p, size)
    BY <1>1, <1>2, <2>2 DEF Has, Says
  <2>6. ASSUME NEW q \in Prices \ {p}, NEW z \in AnySize
        PROVE  Says(new, q, z) <=> Says(dict, q, z)
    <3>1. Has(new, q) <=> Has(dict, q)
      BY <1>1, <1>2, <2>2, <2>3 DEF Has
    <3>2. level # <<q, z>> /\ DOMAIN dict \subseteq DOMAIN new
      BY <1>1, <2>2
    <3>3. (\E i \in DOMAIN new : new[i] = <<q, z>>) <=> (\E i \in DOMAIN dict : dict[i] = <<q, z>>)
      BY <2>2, <2>3, <3>2
    <3> QED BY <3>1, <3>3 DEF Says
  <2> QED BY <2>2, <2>4, <2>5, <2>6
<1> QED BY <1>3, <1>4

(* A level is taken out, and those behind it move up.                      *)
LEMMA PopLevel ==
    ASSUME Sizes \subseteq Nat \ {0}, NEW dict \in Dicts, OneLevel(dict), NEW p \in Prices
    PROVE  /\ Pop(dict, p) \in Dicts /\ OneLevel(Pop(dict, p)) /\ ~ Has(Pop(dict, p), p)
           /\ \A q \in Prices \ {p}, z \in AnySize : Says(Pop(dict, p), q, z) <=> Says(dict, q, z)
<1> DEFINE new == Pop(dict, p)
<1>1. DOMAIN dict = 1..Len(dict) /\ Len(dict) \in Nat /\ \A i \in DOMAIN dict : dict[i] \in Prices \X Sizes
  BY DEF Dicts
<1>2. CASE Has(dict, p)
  <2> DEFINE k == CHOOSE i \in DOMAIN dict : dict[i][1] = p
             back(i) == IF i < k THEN i ELSE i + 1
             n == Len(dict)
  <2>1. k \in DOMAIN dict /\ dict[k][1] = p
    BY <1>2 DEF Has
  <2>2. new = RemoveAt(dict, k)
    BY <1>2, Zenon DEF Pop, Has
  <2> HIDE DEF k
  <2> DEFINE a == SubSeq(dict, 1, k - 1)
             b == SubSeq(dict, k + 1, n)
  <2>3. new = a \o b
    BY <2>2 DEF RemoveAt
  <2>4. a \in Dicts /\ Len(a) = k - 1 /\ \A i \in 1..(k - 1) : a[i] = dict[i]
    BY <1>1, <2>1 DEF Dicts
  <2>5. b \in Dicts /\ Len(b) = n - k /\ \A i \in 1..(n - k) : b[i] = dict[k + i]
    BY <1>1, <2>1 DEF Dicts
  <2>6. new \in Dicts /\ DOMAIN new = 1..(n - 1)
        /\ \A i \in 1..(n - 1) : new[i] = IF i <= k - 1 THEN a[i] ELSE b[i - (k - 1)]
    <3> HIDE DEF a, b, new
    <3>1. a \o b \in Dicts /\ Len(a \o b) = n - 1
      <4>1. a \o b \in Dicts /\ Len(a \o b) = Len(a) + Len(b)
        BY <2>4, <2>5, ConcatProperties, Zenon DEF Dicts
      <4> QED BY <1>1, <2>1, <2>4, <2>5, <4>1
    <3>2. DOMAIN (a \o b) = 1..(n - 1)
      BY <3>1, LenProperties DEF Dicts
    <3>3. \A i \in 1..(n - 1) : (a \o b)[i] = IF i <= k - 1 THEN a[i] ELSE b[i - (k - 1)]
      BY <1>1, <2>1, <2>4, <2>5 DEF Dicts
    <3> QED BY <2>3, <3>1, <3>2, <3>3
  <2>7. \A i \in 1..(n - 1) : new[i] = dict[back(i)] /\ back(i) \in DOMAIN dict /\ back(i) # k
    <3> HIDE DEF a, b, new
    <3> SUFFICES ASSUME NEW i \in 1..(n - 1)
                 PROVE  new[i] = dict[back(i)] /\ back(i) \in DOMAIN dict /\ back(i) # k
      OBVIOUS
    <3>1. CASE i < k
      BY <1>1, <2>1, <2>4, <2>6, <3>1
    <3>2. CASE i >= k
      <4>1. i - (k - 1) \in 1..(n - k) /\ k + (i - (k - 1)) = i + 1
        BY <1>1, <2>1, <3>2
      <4>2. new[i] = b[i - (k - 1)]
        BY <1>1, <2>1, <2>6, <3>2
      <4> QED BY <1>1, <2>1, <2>5, <3>2, <4>1, <4>2
    <3> QED BY <1>1, <2>1, <3>1, <3>2
  <2> HIDE DEF new, a, b
  <2>8. \A i \in DOMAIN dict : i # k => \E j \in 1..(n - 1) : new[j] = dict[i]
    <3> SUFFICES ASSUME NEW i \in DOMAIN dict, i # k PROVE \E j \in 1..(n - 1) : new[j] = dict[i]
      OBVIOUS
    <3>1. CASE i < k
      <4>1. i \in 1..(n - 1) /\ back(i) = i
        BY <1>1, <2>1, <3>1
      <4> QED BY <2>7, <4>1
    <3>2. CASE i > k
      <4>1. i - 1 \in 1..(n - 1) /\ back(i - 1) = i
        BY <1>1, <2>1, <3>2
      <4> QED BY <2>7, <4>1
    <3> QED BY <1>1, <2>1, <3>1, <3>2
  <2>9. OneLevel(new)
    <3> SUFFICES ASSUME NEW i \in 1..(n - 1), NEW j \in 1..(n - 1), new[i][1] = new[j][1] PROVE i = j
      BY <2>6 DEF OneLevel
    <3>1. back(i) = back(j)
      BY <2>7 DEF OneLevel
    <3> QED BY <1>1, <2>1, <3>1
  <2>10. \A i \in DOMAIN dict : i # k => dict[i][1] # p
    BY <2>1 DEF OneLevel
  <2>11. ~ Has(new, p)
    BY <2>6, <2>7, <2>10 DEF Has
  <2>12. ASSUME NEW q \in Prices \ {p}, NEW z \in AnySize
         PROVE  Says(new, q, z) <=> Says(dict, q, z)
    <3>1. \A i \in DOMAIN new : \E j \in DOMAIN dict : new[i] = dict[j]
      BY <2>6, <2>7
    <3>2. \A j \in DOMAIN dict : dict[j][1] = q => \E i \in DOMAIN new : new[i] = dict[j]
      BY <2>1, <2>6, <2>8
    <3>3. Has(new, q) <=> Has(dict, q)
      BY <3>1, <3>2 DEF Has
    <3>4. (\E i \in DOMAIN new : new[i] = <<q, z>>) <=> (\E i \in DOMAIN dict : dict[i] = <<q, z>>)
      <4>1. <<q, z>>[1] = q
        OBVIOUS
      <4> QED BY <3>1, <3>2, <4>1
    <3> QED BY <3>3, <3>4 DEF Says
  <2> QED BY <2>6, <2>9, <2>11, <2>12 DEF new
<1>3. CASE ~ Has(dict, p)
  BY <1>3, Zenon DEF Pop, Has
<1> QED BY <1>2, <1>3

(* A list with one level for a price says one size of it.                  *)
LEMMA SaysOne ==
    ASSUME NEW levels, OneLevel(levels), NEW p, NEW z1, NEW z2, Says(levels, p, z1), Says(levels, p, z2)
    PROVE  z1 = z2
<1>1. CASE Has(levels, p)
  <2>1. PICK i \in DOMAIN levels : levels[i] = <<p, z1>>
    BY <1>1 DEF Says
  <2>2. PICK j \in DOMAIN levels : levels[j] = <<p, z2>>
    BY <1>1 DEF Says
  <2>3. i = j
    BY <2>1, <2>2 DEF OneLevel
  <2> QED BY <2>1, <2>2, <2>3
<1>2. CASE ~ Has(levels, p)
  BY <1>2 DEF Says
<1> QED BY <1>1, <1>2

(* One difference.                                                         *)
LEMMA LevelChanged ==
    ASSUME Sizes \subseteq Nat \ {0}, NEW dict \in Dicts, OneLevel(dict), NEW level \in Prices \X AnySize
    PROVE  /\ PutOrPop(dict, level) \in Dicts /\ OneLevel(PutOrPop(dict, level))
           /\ \A q \in Prices, z \in AnySize :
                Says(PutOrPop(dict, level), q, z) <=> IF q = level[1] THEN z = level[2] ELSE Says(dict, q, z)
<1> DEFINE p == level[1]
           size == level[2]
           new == PutOrPop(dict, level)
<1>1. p \in Prices /\ size \in AnySize /\ level = <<p, size>>
  OBVIOUS
<1>2. CASE size # 0
  <2>1. size \in Sizes /\ new = Put(dict, <<p, size>>)
    BY <1>1, <1>2 DEF PutOrPop, AnySize
  <2> HIDE DEF p, size, new
  <2>2. /\ new \in Dicts /\ OneLevel(new) /\ Says(new, p, size)
        /\ \A q \in Prices \ {p}, z \in AnySize : Says(new, q, z) <=> Says(dict, q, z)
    BY <1>1, <2>1, PutLevel
  <2>3. \A z : Says(new, p, z) => z = size
    BY <2>2, SaysOne
  <2> QED BY <2>2, <2>3 DEF p, size, new
<1>3. CASE size = 0
  <2>1. new = Pop(dict, p)
    BY <1>3 DEF PutOrPop
  <2> HIDE DEF p, size, new
  <2>2. /\ new \in Dicts /\ OneLevel(new) /\ ~ Has(new, p)
        /\ \A q \in Prices \ {p}, z \in AnySize : Says(new, q, z) <=> Says(dict, q, z)
    BY <1>1, <2>1, PopLevel
  <2>3. \A z : Says(new, p, z) <=> z = size
    BY <1>3, <2>2 DEF Says
  <2> QED BY <2>2, <2>3 DEF p, size, new
<1> QED BY <1>2, <1>3

(* All differences of a message: what they say of a price is so, and the   *)
(* other prices stay.                                                      *)
LEMMA BookUpdated ==
    ASSUME Sizes \subseteq Nat \ {0}, NEW dict \in Dicts, OneLevel(dict),
           NEW delta \in Deltas, OneLevel(delta)
    PROVE  /\ update(dict, delta) \in Dicts /\ OneLevel(update(dict, delta))
           /\ \A q \in Prices, z \in AnySize :
                Says(update(dict, delta), q, z)
                  <=> IF Has(delta, q) THEN Says(delta, q, z) ELSE Says(dict, q, z)
<1> DEFINE n == Len(delta)
           V == {d \in Dicts : OneLevel(d)}
           Loops(f) == f = [i \in 0..n |-> IF i = 0 THEN dict ELSE PutOrPop(f[i - 1], delta[i])]
           after == CHOOSE f : Loops(f)
<1>1. n \in Nat /\ DOMAIN delta = 1..n /\ \A i \in 1..n : delta[i] \in Prices \X AnySize
  BY DEF Deltas
<1>2. Loops(after)
  <2> DEFINE step == [i \in 1..n |-> [d \in V |-> PutOrPop(d, delta[i])]]
  <2>1. \A i \in 1..n, d \in V : PutOrPop(d, delta[i]) \in V
    BY <1>1, LevelChanged
  <2>2. step \in Turns(n, V)
    BY <2>1 DEF Turns
  <2>3. dict \in V
    OBVIOUS
  <2>4. \A i \in 1..n, d \in V : step[i][d] = PutOrPop(d, delta[i])
    OBVIOUS
  <2> HIDE DEF V, step, n
  <2>5. PICK f \in [0..n -> V] : Runs(f, n, dict, step)
    BY <1>1, <2>2, <2>3, Loop
  <2>6. \A i \in 0..n : i # 0 => i \in 1..n /\ f[i - 1] \in V
    <3>1. \A i \in 0..n : i # 0 => i \in 1..n /\ i - 1 \in 0..n
      BY <1>1
    <3>2. \A i \in 0..n : f[i] \in V
      BY <2>5
    <3> QED BY <3>1, <3>2
  <2>7. \A i \in 0..n : f[i] = IF i = 0 THEN dict ELSE PutOrPop(f[i - 1], delta[i])
    BY <2>4, <2>5, <2>6 DEF Runs
  <2>8. Loops(f)
    BY <2>5, <2>7
  <2> QED BY <2>8
<1>3. update(dict, delta) = after[n]
  BY DEF update
<1> HIDE DEF after
<1>4. after[0] = dict /\ \A i \in 1..n : after[i] = PutOrPop(after[i - 1], delta[i])
  <2>1. after = [i \in 0..n |-> IF i = 0 THEN dict ELSE PutOrPop(after[i - 1], delta[i])]
    BY <1>2
  <2> QED BY <1>1, <2>1
<1> DEFINE Before(i, q) == \E j \in 1..i : delta[j][1] = q
           Right(i) ==
             /\ after[i] \in Dicts /\ OneLevel(after[i])
             /\ \A q \in Prices, z \in AnySize :
                  Says(after[i], q, z)
                    <=> IF Before(i, q) THEN \E j \in 1..i : delta[j] = <<q, z>> ELSE Says(dict, q, z)
           S == {i \in 0..n : Right(i)}
<1>5. 0 \in S
  <2>1. \A q : ~ Before(0, q)
    OBVIOUS
  <2>2. Right(0)
    BY <1>4, <2>1
  <2> QED BY <1>1, <2>2
<1>6. ASSUME NEW i \in 0..(n - 1), i \in S PROVE i + 1 \in S
  <2>1. Right(i) /\ i + 1 \in 1..n /\ after[i + 1] = PutOrPop(after[i], delta[i + 1])
    <3>1. i + 1 \in 1..n /\ (i + 1) - 1 = i
      BY <1>1
    <3>2. Right(i)
      <4> HIDE DEF Right
      <4> QED BY <1>6
    <3> QED BY <1>4, <3>1, <3>2
  <2> DEFINE level == delta[i + 1]
  <2>2. level \in Prices \X AnySize
    BY <1>1, <2>1
  <2>3. /\ after[i + 1] \in Dicts /\ OneLevel(after[i + 1])
        /\ \A q \in Prices, z \in AnySize :
             Says(after[i + 1], q, z) <=> IF q = level[1] THEN z = level[2] ELSE Says(after[i], q, z)
    BY <2>1, <2>2, LevelChanged
  <2>4. ASSUME NEW q \in Prices, NEW z \in AnySize
        PROVE  Says(after[i + 1], q, z)
                 <=> IF Before(i + 1, q) THEN \E j \in 1..(i + 1) : delta[j] = <<q, z>>
                     ELSE Says(dict, q, z)
    <3>1. CASE q = level[1]
      <4>1. Before(i + 1, q) /\ level = <<q, level[2]>>
        BY <1>1, <2>1, <2>2, <3>1
      <4>2. ASSUME NEW j \in 1..(i + 1), delta[j] = <<q, z>> PROVE j = i + 1
        <5>1. j \in 1..n /\ delta[j][1] = delta[i + 1][1]
          BY <2>1, <3>1, <4>2
        <5> QED BY <1>1, <2>1, <5>1 DEF OneLevel
      <4>3. (\E j \in 1..(i + 1) : delta[j] = <<q, z>>) <=> z = level[2]
        BY <2>1, <4>1, <4>2
      <4> QED BY <2>3, <3>1, <4>1, <4>3
    <3>2. CASE q # level[1]
      <4>1. \A j \in 1..(i + 1) : j = i + 1 \/ j \in 1..i
        OBVIOUS
      <4>2. Before(i + 1, q) <=> Before(i, q)
        BY <3>2, <4>1
      <4>3. level # <<q, z>>
        BY <3>2
      <4>4. (\E j \in 1..(i + 1) : delta[j] = <<q, z>>) <=> (\E j \in 1..i : delta[j] = <<q, z>>)
        BY <4>1, <4>3
      <4> HIDE DEF Before
      <4> QED BY <2>1, <2>3, <3>2, <4>2, <4>4
    <3> QED BY <3>1, <3>2
  <2> HIDE DEF Before, level
  <2>5. Right(i + 1)
    BY <2>3, <2>4
  <2>6. i + 1 \in 0..n
    BY <1>1
  <2> HIDE DEF Right
  <2> QED BY <2>5, <2>6
<1> HIDE DEF S
<1>7. \A i \in 0..n : i \in S
  BY <1>1, <1>5, <1>6, Induction
<1>8. Right(n)
  <2> HIDE DEF Right
  <2>1. n \in 0..n
    BY <1>1
  <2> QED BY <1>7, <2>1 DEF S
<1>9. \A q \in Prices : Before(n, q) <=> Has(delta, q)
  BY <1>1 DEF Has
<1>10. ASSUME NEW q \in Prices, NEW z \in AnySize, Has(delta, q)
       PROVE  Says(delta, q, z) <=> \E j \in 1..n : delta[j] = <<q, z>>
  BY <1>1, <1>10 DEF Says
<1> HIDE DEF Before
<1> QED BY <1>3, <1>8, <1>9, <1>10

(* Levels in the order of their prices.                                    *)
LEMMA LevelsInOrder ==
    ASSUME OrderBooksAssumption, exchange \in Exchanges, NEW side \in Sides,
           NEW levels \in SUBSET (Prices \X Sizes), \A l, m \in levels : l[1] = m[1] => l = m
    PROVE  /\ InOrder(side, levels) \in Dicts /\ OneLevel(InOrder(side, levels))
           /\ Range(InOrder(side, levels)) = levels
<1> DEFINE key == [level \in levels |-> Place(side, level[1])]
<1>1. Prices \subseteq Nat /\ IsFiniteSet(Prices)
  BY BooksBounds
<1>2. IsFiniteSet(levels)
  <2> DEFINE price == [level \in levels |-> level[1]]
  <2>1. price \in Injection(levels, Prices)
    <3>1. price \in [levels -> Prices] /\ \A l, m \in levels : price[l] = price[m] => l = m
      OBVIOUS
    <3> HIDE DEF price
    <3> QED BY <3>1, Fun_IsInj
  <2> QED BY <1>1, <2>1, FS_Injection
<1> HIDE DEF key
<1>3. \A l \in levels : l[1] \in Int /\ Place(side, l[1]) \in Int
  <2> SUFFICES ASSUME NEW l \in levels PROVE l[1] \in Int /\ Place(side, l[1]) \in Int
    OBVIOUS
  <2>1. l[1] \in Nat
    BY <1>1
  <2> QED BY <2>1 DEF Place
<1>4. key \in [levels -> Int]
  BY <1>3 DEF key
<1>5. \A l, m \in levels : key[l] = key[m] => l = m
  <2> SUFFICES ASSUME NEW l \in levels, NEW m \in levels, Place(side, l[1]) = Place(side, m[1])
               PROVE  l = m
    BY DEF key
  <2>1. l[1] \in Int /\ m[1] \in Int
    BY <1>3
  <2>2. l[1] = m[1]
    BY <2>1 DEF Place
  <2> QED BY <2>2
<1> DEFINE s == SortedBy(levels, key)
<1>6. InOrder(side, levels) = s
  BY DEF InOrder, key
<1> HIDE DEF s
<1>7. /\ s \in Seq(levels) /\ Len(s) = Cardinality(levels) /\ Range(s) = levels
      /\ \A i, j \in 1..Cardinality(levels) : s[i] = s[j] => i = j
  BY <1>2, <1>4, <1>5, SortedRange DEF s
<1>8. s \in Dicts
  BY <1>7, SeqMonotonic DEF Dicts
<1>9. DOMAIN s = 1..Cardinality(levels) /\ \A i \in DOMAIN s : s[i] \in levels
  BY <1>7, LenProperties, ElementOfSeq
<1>10. OneLevel(s)
  BY <1>7, <1>9 DEF OneLevel
<1> QED BY <1>6, <1>7, <1>8, <1>10

(* A side says each price's size just if its levels are those of a book.   *)
LEMMA LevelsSay ==
    ASSUME Sizes \subseteq Nat \ {0}, NEW dict \in Dicts, OneLevel(dict), NEW book \in [Prices -> AnySize]
    PROVE  (\A p \in Prices : Says(dict, p, book[p])) <=> Range(dict) = LevelsOf(book)
<1>1. \A i \in DOMAIN dict : dict[i] \in Prices \X Sizes /\ dict[i] = <<dict[i][1], dict[i][2]>>
  BY DEF Dicts
<1>2. \A level : level \in Range(dict) <=> \E i \in DOMAIN dict : dict[i] = level
  BY DEF Range
<1>3. \A level : level \in LevelsOf(book)
         <=> \E p \in Prices : book[p] # 0 /\ level = <<p, book[p]>>
  BY DEF LevelsOf
<1>4. ASSUME \A p \in Prices : Says(dict, p, book[p])
      PROVE  Range(dict) = LevelsOf(book)
  <2>1. ASSUME NEW level \in Range(dict) PROVE level \in LevelsOf(book)
    <3>1. PICK i \in DOMAIN dict : dict[i] = level
      BY <1>2
    <3>2. level \in Prices \X Sizes /\ level = <<level[1], level[2]>>
      BY <1>1, <3>1
    <3>3. PICK j \in DOMAIN dict : dict[j] = <<level[1], book[level[1]]>>
      BY <1>4, <3>1, <3>2 DEF Says, Has
    <3>4. i = j
      BY <3>1, <3>3 DEF OneLevel
    <3>5. level[2] = book[level[1]] /\ level[2] # 0
      BY <3>1, <3>2, <3>3, <3>4
    <3> QED BY <1>3, <3>2, <3>5
  <2>2. ASSUME NEW level \in LevelsOf(book) PROVE level \in Range(dict)
    <3>1. PICK p \in Prices : book[p] # 0 /\ level = <<p, book[p]>>
      BY <1>3
    <3>2. Says(dict, p, book[p])
      BY <1>4
    <3>3. \E i \in DOMAIN dict : dict[i] = <<p, book[p]>>
      BY <3>1, <3>2 DEF Says
    <3> QED BY <1>2, <3>1, <3>3
  <2> QED BY <2>1, <2>2
<1>5. ASSUME Range(dict) = LevelsOf(book), NEW p \in Prices
      PROVE  Says(dict, p, book[p])
  <2>1. CASE Has(dict, p)
    <3>1. PICK i \in DOMAIN dict : dict[i][1] = p
      BY <2>1 DEF Has
    <3>2. PICK q \in Prices : book[q] # 0 /\ dict[i] = <<q, book[q]>>
      BY <1>2, <1>3, <1>5
    <3> QED BY <2>1, <3>1, <3>2 DEF Says
  <2>2. CASE ~ Has(dict, p)
    <3>1. book[p] = 0
      <4> SUFFICES ASSUME book[p] # 0 PROVE FALSE
        OBVIOUS
      <4>1. PICK i \in DOMAIN dict : dict[i] = <<p, book[p]>>
        BY <1>2, <1>3, <1>5
      <4> QED BY <2>2, <4>1 DEF Has
    <3> QED BY <2>2, <3>1 DEF Says
  <2> QED BY <2>1, <2>2
<1> QED BY <1>4, <1>5

(* What a side says depends on its levels only, not on their order.        *)
LEMMA SameLevels ==
    ASSUME NEW d, NEW e, Range(d) = Range(e), NEW p, NEW z, Says(d, p, z)
    PROVE  Says(e, p, z)
<1>1. \A i \in DOMAIN d : \E j \in DOMAIN e : d[i] = e[j]
  BY DEF Range
<1>2. \A i \in DOMAIN e : \E j \in DOMAIN d : e[i] = d[j]
  BY DEF Range
<1> QED BY <1>1, <1>2 DEF Says, Has

(* A book has one level for a price.                                       *)
LEMMA LevelsOfBook ==
    ASSUME NEW book \in [Prices -> AnySize]
    PROVE  LevelsOf(book) \in SUBSET (Prices \X Sizes)
           /\ \A l, m \in LevelsOf(book) : l[1] = m[1] => l = m
BY DEF LevelsOf, AnySize

(* A snapshot has the levels of what the exchange shows.                   *)
LEMMA SnapshotSays ==
    ASSUME OrderBooksAssumption, exchange \in Exchanges, NEW side \in Sides,
           NEW book \in [Prices -> AnySize]
    PROVE  /\ InOrder(side, LevelsOf(book)) \in Dicts /\ OneLevel(InOrder(side, LevelsOf(book)))
           /\ \A p \in Prices : Says(InOrder(side, LevelsOf(book)), p, book[p])
<1> DEFINE levels == LevelsOf(book)
<1>1. levels \in SUBSET (Prices \X Sizes) /\ \A l, m \in levels : l[1] = m[1] => l = m
  BY LevelsOfBook
<1> HIDE DEF levels
<1>2. /\ InOrder(side, levels) \in Dicts /\ OneLevel(InOrder(side, levels))
      /\ Range(InOrder(side, levels)) = levels
  BY <1>1, LevelsInOrder
<1>3. Sizes \subseteq Nat \ {0}
  BY BooksBounds
<1> QED BY <1>2, <1>3, LevelsSay DEF levels

(* Sorting a side changes its order only.                                  *)
LEMMA SortedSays ==
    ASSUME OrderBooksAssumption, exchange \in Exchanges, NEW side \in Sides,
           NEW dict \in Dicts, OneLevel(dict)
    PROVE  /\ Sorted(side, dict) \in Dicts /\ OneLevel(Sorted(side, dict))
           /\ Range(Sorted(side, dict)) = Range(dict)
<1> DEFINE levels == Range(dict)
<1>1. levels \in SUBSET (Prices \X Sizes)
  BY RangeOfSeq DEF Dicts
<1>2. \A l, m \in levels : l[1] = m[1] => l = m
  BY DEF Range, OneLevel
<1> HIDE DEF levels
<1>3. /\ InOrder(side, levels) \in Dicts /\ OneLevel(InOrder(side, levels))
      /\ Range(InOrder(side, levels)) = levels
  BY <1>1, <1>2, LevelsInOrder
<1> QED BY <1>3 DEF levels, Sorted

(* The server's book after a message.                                      *)
LEMMA SideUpdated ==
    ASSUME OrderBooksAssumption, exchange \in Exchanges, NEW side \in Sides,
           NEW dict \in Dicts, OneLevel(dict), NEW delta \in Deltas, OneLevel(delta)
    PROVE  /\ update_book(side, dict, delta) \in Dicts /\ OneLevel(update_book(side, dict, delta))
           /\ \A q \in Prices, z \in AnySize :
                (IF Has(delta, q) THEN Says(delta, q, z) ELSE Says(dict, q, z))
                  => Says(update_book(side, dict, delta), q, z)
<1> DEFINE new == update(dict, delta)
           book == update_book(side, dict, delta)
<1>1. /\ new \in Dicts /\ OneLevel(new)
      /\ \A q \in Prices, z \in AnySize :
           Says(new, q, z) <=> IF Has(delta, q) THEN Says(delta, q, z) ELSE Says(dict, q, z)
  BY BooksBounds, BookUpdated
<1>2. book = new \/ book = Sorted(side, new)
  BY DEF update_book
<1> HIDE DEF new, book
<1>3. /\ Sorted(side, new) \in Dicts /\ OneLevel(Sorted(side, new))
      /\ Range(Sorted(side, new)) = Range(new)
  BY <1>1, SortedSays
<1>4. book \in Dicts /\ OneLevel(book) /\ Range(book) = Range(new)
  BY <1>1, <1>2, <1>3
<1>5. \A q \in Prices, z \in AnySize : Says(new, q, z) => Says(book, q, z)
  BY <1>4, SameLevels
<1> QED BY <1>1, <1>4, <1>5 DEF book

-----------------------------------------------------------------------------
(* What the exchange sends                                                 *)

SidesOfBook == [Sides -> [Prices -> AnySize]]

(* The best price of a side is one.                                        *)
OneShown(book) == \A s \in Sides, p, q \in Prices : book[s][p] # 0 /\ book[s][q] # 0 => p = q

(* What the exchange shows is a book; ByBit shows one level of a side.     *)
LEMMA VisibleBook ==
    ASSUME OrderBooksAssumption, exchange \in Exchanges, market \in SidesOfBook
    PROVE  Visible \in SidesOfBook /\ (exchange = "bybit" => OneShown(Visible))
<1>1. ASSUME NEW s \in Sides PROVE Best(s, Depth) \in [Prices -> AnySize]
  BY DEF Best, SidesOfBook, AnySize
<1>2. Visible \in SidesOfBook
  BY <1>1 DEF Visible, SidesOfBook
<1>3. ASSUME exchange = "bybit", NEW s \in Sides, NEW p \in Prices, NEW q \in Prices,
             Visible[s][p] # 0, Visible[s][q] # 0
      PROVE  p = q
  <2> DEFINE better(r) == {t \in Prices : market[s][t] # 0 /\ Place(s, t) < Place(s, r)}
  <2>1. \A r \in Prices : Visible[s][r] # 0 => market[s][r] # 0 /\ Cardinality(better(r)) < 1
    BY <1>3 DEF Visible, Best, Depth
  <2>2. Prices \subseteq Nat /\ IsFiniteSet(Prices)
    BY BooksBounds
  <2>3. ASSUME NEW r \in Prices, Visible[s][r] # 0 PROVE better(r) = {}
    <3>1. IsFiniteSet(better(r))
      BY <2>2, FS_Subset
    <3>2. Cardinality(better(r)) = 0
      BY <2>1, <2>3, <3>1, FS_CardinalityType
    <3> QED BY <3>1, <3>2, FS_EmptySet
  <2>4. p \notin better(q) /\ q \notin better(p) /\ market[s][p] # 0 /\ market[s][q] # 0
    BY <1>3, <2>1, <2>3
  <2>5. ~ (Place(s, p) < Place(s, q)) /\ ~ (Place(s, q) < Place(s, p))
    BY <2>4
  <2>6. p \in Int /\ q \in Int
    BY <2>2
  <2> QED BY <2>5, <2>6 DEF Place
<1> QED BY <1>2, <1>3 DEF OneShown

BookMessages == [snapshot : BOOLEAN, levels : [Sides -> Deltas]]

WellFormed(m) ==
    /\ m \in BookMessages
    /\ \A s \in Sides : OneLevel(m.levels[s]) /\ (m.snapshot => m.levels[s] \in Dicts)

(* A message is about a price.                                             *)
Touches(m, s, p) == m.snapshot \/ Has(m.levels[s], p)

(* A snapshot is well formed and says what the exchange shows.             *)
LEMMA SnapshotIsTrue ==
    ASSUME OrderBooksAssumption, exchange \in Exchanges, market \in SidesOfBook
    PROVE  /\ WellFormed(Snapshot) /\ Snapshot.snapshot
           /\ \A s \in Sides, p \in Prices : Says(Snapshot.levels[s], p, Visible[s][p])
<1>1. Visible \in SidesOfBook
  BY VisibleBook
<1>2. ASSUME NEW s \in Sides
      PROVE  /\ InOrder(s, LevelsOf(Visible[s])) \in Dicts
             /\ OneLevel(InOrder(s, LevelsOf(Visible[s])))
             /\ \A p \in Prices : Says(InOrder(s, LevelsOf(Visible[s])), p, Visible[s][p])
  <2>1. Visible[s] \in [Prices -> AnySize]
    BY <1>1 DEF SidesOfBook
  <2> QED BY <2>1, SnapshotSays
<1> DEFINE f == [s \in Sides |-> InOrder(s, LevelsOf(Visible[s]))]
<1>3. Snapshot = [snapshot |-> TRUE, levels |-> f]
  BY DEF Snapshot
<1>4. \A s \in Sides : f[s] = InOrder(s, LevelsOf(Visible[s]))
  OBVIOUS
<1>5. \A d \in Dicts : d \in Deltas
  <2>1. Prices \X Sizes \subseteq Prices \X AnySize
    BY DEF AnySize
  <2> QED BY <2>1, SeqMonotonic DEF Dicts, Deltas
<1>6. f \in [Sides -> Dicts] /\ f \in [Sides -> Deltas]
  BY <1>2, <1>5
<1> HIDE DEF f
<1>7. WellFormed(Snapshot) /\ Snapshot.snapshot
  BY <1>2, <1>3, <1>4, <1>6 DEF WellFormed, BookMessages
<1> QED BY <1>2, <1>3, <1>4, <1>7

(* The differences of a side name the prices that changed and say their    *)
(* new sizes.                                                              *)
LEMMA DifferencesSay ==
    ASSUME OrderBooksAssumption, exchange \in Exchanges, market \in SidesOfBook, NEW s \in Sides
    PROVE  /\ Differences(s) \in Deltas /\ OneLevel(Differences(s))
           /\ \A p \in Prices : Has(Differences(s), p) <=> sent[s][p] # Visible[s][p]
           /\ \A p \in Prices : Has(Differences(s), p) => Says(Differences(s), p, Visible[s][p])
<1> DEFINE n == Cardinality(Changed(s))
           order == SetToSeq(Changed(s))
           d == Differences(s)
<1>1. IsFiniteSet(Changed(s)) /\ Changed(s) \in SUBSET Prices
  <2>1. Changed(s) \in SUBSET Prices /\ IsFiniteSet(Prices)
    BY BooksBounds DEF Changed
  <2> QED BY <2>1, FS_Subset
<1>2. /\ order \in [1..n -> Changed(s)] /\ n \in Nat
      /\ \A p \in Changed(s) : \E i \in 1..n : order[i] = p
      /\ \A i, j \in 1..n : order[i] = order[j] => i = j
  BY <1>1, SetInSequence
<1>3. d = [i \in 1..n |-> <<order[i], Visible[s][order[i]]>>]
  BY DEF Differences
<1> HIDE DEF n, order, d
<1>4. Visible[s] \in [Prices -> AnySize]
  BY VisibleBook DEF SidesOfBook
<1>5. \A i \in 1..n : order[i] \in Prices /\ Visible[s][order[i]] \in AnySize
  BY <1>1, <1>2, <1>4
<1>6. d \in Deltas /\ DOMAIN d = 1..n
  <2>1. \A i \in 1..n : <<order[i], Visible[s][order[i]]>> \in Prices \X AnySize
    BY <1>5
  <2>2. d \in [1..n -> Prices \X AnySize]
    BY <1>3, <2>1
  <2> QED BY <1>2, <2>2 DEF Deltas
<1>7. \A i \in 1..n : d[i] = <<order[i], Visible[s][order[i]]>> /\ d[i][1] = order[i]
  BY <1>3
<1>8. OneLevel(d)
  BY <1>2, <1>6, <1>7 DEF OneLevel
<1>9. \A p \in Prices : p \in Changed(s) <=> sent[s][p] # Visible[s][p]
  BY DEF Changed
<1>10. \A p \in Prices : Has(d, p) <=> p \in Changed(s)
  BY <1>2, <1>6, <1>7 DEF Has
<1>11. \A p \in Prices : Has(d, p) => \E i \in 1..n : d[i] = <<p, Visible[s][p]>>
  BY <1>6, <1>7 DEF Has
<1>12. \A p \in Prices : Has(d, p) => Says(d, p, Visible[s][p])
  BY <1>6, <1>11 DEF Says
<1> QED BY <1>6, <1>8, <1>9, <1>10, <1>12 DEF d

(* The messages are about the prices whose size changed, and say the new one. *)
LEMMA MessagesSay ==
    ASSUME OrderBooksAssumption, exchange \in Exchanges, market \in SidesOfBook
    PROVE  /\ Messages \in Seq(BookMessages)
           /\ \A k \in DOMAIN Messages : WellFormed(Messages[k])
           /\ \A k \in DOMAIN Messages, s \in Sides, p \in Prices : Touches(Messages[k], s, p)
                => sent[s][p] # Visible[s][p] /\ Says(Messages[k].levels[s], p, Visible[s][p])
           /\ \A s \in Sides, p \in Prices : sent[s][p] # Visible[s][p]
                => \E k \in DOMAIN Messages : Touches(Messages[k], s, p)
<1>1. CASE exchange = "bybit"
  <2> DEFINE f == [s \in Sides |-> Differences(s)]
             m == [snapshot |-> FALSE, levels |-> f]
  <2>1. Messages = <<m>>
    BY <1>1 DEF Messages
  <2>2. f \in [Sides -> Deltas] /\ \A s \in Sides : f[s] = Differences(s)
    BY DifferencesSay
  <2> HIDE DEF f
  <2>3. m \in BookMessages /\ ~ m.snapshot /\ m.levels = f
    BY <2>2 DEF BookMessages
  <2> HIDE DEF m
  <2>4. WellFormed(m)
    BY <2>2, <2>3, DifferencesSay DEF WellFormed
  <2>5. DOMAIN <<m>> = {1} /\ <<m>>[1] = m /\ <<m>> \in Seq(BookMessages)
    BY <2>3
  <2>6. \A s \in Sides, p \in Prices : Touches(m, s, p) <=> Has(Differences(s), p)
    BY <2>2, <2>3 DEF Touches
  <2>7. \A s \in Sides, p \in Prices : Touches(m, s, p)
          => sent[s][p] # Visible[s][p] /\ Says(m.levels[s], p, Visible[s][p])
    BY <2>2, <2>3, <2>6, DifferencesSay
  <2>8. \A s \in Sides, p \in Prices : sent[s][p] # Visible[s][p] => Touches(m, s, p)
    BY <2>6, DifferencesSay
  <2> QED BY <2>1, <2>4, <2>5, <2>7, <2>8
<1>2. CASE exchange # "bybit"
  <2> DEFINE changes == {change \in Sides \X Prices : change[2] \in Changed(change[1])}
             Only(side, p) == [s \in Sides |-> IF s = side THEN <<<<p, Visible[s][p]>>>> ELSE <<>>]
             n == Cardinality(changes)
             order == SetToSeq(changes)
             M(i) == [snapshot |-> FALSE, levels |-> Only(order[i][1], order[i][2])]
  <2>1. Messages = [i \in 1..n |-> M(i)]
    BY <1>2 DEF Messages
  <2>2. IsFiniteSet(changes)
    <3>1. IsFiniteSet(Sides \X Prices) /\ changes \in SUBSET (Sides \X Prices)
      BY BooksBounds, FS_Product
    <3> QED BY <3>1, FS_Subset
  <2>3. /\ order \in [1..n -> changes] /\ n \in Nat
        /\ \A change \in changes : \E i \in 1..n : order[i] = change
    BY <2>2, SetInSequence
  <2>4. \A s \in Sides, p \in Prices : <<s, p>> \in changes <=> sent[s][p] # Visible[s][p]
    BY DEF Changed
  <2> HIDE DEF n, order
  <2>5. \A i \in 1..n : order[i][1] \in Sides /\ order[i][2] \in Prices
                        /\ order[i] = <<order[i][1], order[i][2]>> /\ order[i] \in changes
    BY <2>3
  <2> HIDE DEF changes
  <2>6. \A s \in Sides : Visible[s] \in [Prices -> AnySize]
    BY VisibleBook DEF SidesOfBook
  <2>7. ASSUME NEW side \in Sides, NEW p \in Prices
        PROVE  /\ Only(side, p) \in [Sides -> Deltas]
               /\ \A s \in Sides : OneLevel(Only(side, p)[s])
               /\ \A s \in Sides, q \in Prices : Has(Only(side, p)[s], q) <=> s = side /\ q = p
               /\ Says(Only(side, p)[side], p, Visible[side][p])
    <3> DEFINE one == <<p, Visible[side][p]>>
    <3>1. one \in Prices \X AnySize /\ one[1] = p
      BY <2>6
    <3>2. \A s \in Sides : Only(side, p)[s] = IF s = side THEN <<one>> ELSE <<>>
      OBVIOUS
    <3>3. <<one>> \in Deltas /\ <<>> \in Deltas /\ DOMAIN <<one>> = {1} /\ <<one>>[1] = one
      BY <3>1 DEF Deltas
    <3>4. Only(side, p) \in [Sides -> Deltas]
      BY <3>3
    <3> HIDE DEF Only
    <3>5. \A i : i \notin DOMAIN <<>>
      OBVIOUS
    <3>6. OneLevel(<<one>>) /\ OneLevel(<<>>)
      BY <3>3, <3>5 DEF OneLevel
    <3>7. \A q \in Prices : (Has(<<one>>, q) <=> q = p) /\ ~ Has(<<>>, q)
      BY <3>1, <3>3, <3>5 DEF Has
    <3>8. Says(<<one>>, p, Visible[side][p])
      BY <3>3, <3>7 DEF Says
    <3> QED BY <3>2, <3>4, <3>6, <3>7, <3>8
  <2> HIDE DEF Only
  <2>8. ASSUME NEW i \in 1..n
        PROVE  /\ WellFormed(M(i)) /\ ~ M(i).snapshot
               /\ \A s \in Sides, p \in Prices : Touches(M(i), s, p) <=> order[i] = <<s, p>>
               /\ \A s \in Sides, p \in Prices : order[i] = <<s, p>> => Says(M(i).levels[s], p, Visible[s][p])
    <3> DEFINE f == Only(order[i][1], order[i][2])
    <3>1. /\ f \in [Sides -> Deltas] /\ \A s \in Sides : OneLevel(f[s])
          /\ \A s \in Sides, q \in Prices : Has(f[s], q) <=> s = order[i][1] /\ q = order[i][2]
          /\ Says(f[order[i][1]], order[i][2], Visible[order[i][1]][order[i][2]])
      BY <2>5, <2>7
    <3> HIDE DEF f
    <3>2. M(i) = [snapshot |-> FALSE, levels |-> f]
      BY DEF f
    <3>3. M(i) \in BookMessages /\ ~ M(i).snapshot /\ M(i).levels = f
      BY <3>1, <3>2 DEF BookMessages
    <3> HIDE DEF M
    <3>4. WellFormed(M(i))
      BY <3>1, <3>3 DEF WellFormed
    <3>5. \A s \in Sides, p \in Prices : Touches(M(i), s, p) <=> order[i] = <<s, p>>
      BY <2>5, <3>1, <3>3 DEF Touches
    <3>6. \A s \in Sides, p \in Prices : order[i] = <<s, p>> => Says(M(i).levels[s], p, Visible[s][p])
      BY <3>1, <3>3
    <3> QED BY <3>3, <3>4, <3>5, <3>6
  <2> HIDE DEF M
  <2>9. \A i \in 1..n : M(i) \in BookMessages
    BY <2>8 DEF WellFormed
  <2>10. Messages \in Seq(BookMessages) /\ DOMAIN Messages = 1..n /\ \A i \in 1..n : Messages[i] = M(i)
    BY <2>1, <2>3, <2>9
  <2>11. \A s \in Sides, p \in Prices, i \in 1..n : order[i] = <<s, p>> => sent[s][p] # Visible[s][p]
    BY <2>4, <2>5
  <2>12. \A s \in Sides, p \in Prices : sent[s][p] # Visible[s][p] => \E i \in 1..n : order[i] = <<s, p>>
    BY <2>3, <2>4
  <2>13. \A k \in DOMAIN Messages : WellFormed(Messages[k])
    BY <2>8, <2>10
  <2>14. \A k \in DOMAIN Messages, s \in Sides, p \in Prices :
           Touches(Messages[k], s, p) <=> order[k] = <<s, p>>
    BY <2>8, <2>10
  <2>15. \A k \in DOMAIN Messages, s \in Sides, p \in Prices :
           order[k] = <<s, p>> => Says(Messages[k].levels[s], p, Visible[s][p])
    BY <2>8, <2>10
  <2>16. \A s \in Sides, p \in Prices : sent[s][p] # Visible[s][p]
           => \E k \in DOMAIN Messages : Touches(Messages[k], s, p)
    BY <2>10, <2>12, <2>14
  <2>17. \A k \in DOMAIN Messages, s \in Sides, p \in Prices : Touches(Messages[k], s, p)
           => sent[s][p] # Visible[s][p] /\ Says(Messages[k].levels[s], p, Visible[s][p])
    BY <2>10, <2>11, <2>14, <2>15
  <2> QED BY <2>10, <2>13, <2>16, <2>17
<1> QED BY <1>1, <1>2

-----------------------------------------------------------------------------
(* The book that is kept                                                   *)

(* The last message on its way about a price says what the exchange showed *)
(* last, and if there is none, the server's book does.                     *)
Agrees(coming, book, latest) ==
    \A s \in Sides, p \in Prices :
        /\ \A k \in DOMAIN coming :
             /\ Touches(coming[k], s, p)
             /\ \A m \in DOMAIN coming : m > k => ~ Touches(coming[m], s, p)
             => Says(coming[k].levels[s], p, latest[s][p])
        /\ (\A k \in DOMAIN coming : ~ Touches(coming[k], s, p))
             => Says(book[s], p, latest[s][p])

BooksInv ==
    /\ exchange \in Exchanges
    /\ market \in SidesOfBook /\ sent \in SidesOfBook
    /\ channel \in Seq(BookMessages) /\ \A k \in DOMAIN channel : WellFormed(channel[k])
    /\ _order_book \in [Sides -> Dicts] /\ \A s \in Sides : OneLevel(_order_book[s])
    /\ Agrees(channel, _order_book, sent)
    /\ exchange = "bybit" => OneShown(sent)
    /\ exchange = "bybit" /\ channel = <<>> => told_book = get_book(_order_book)

(* A connection begins with a snapshot.                                    *)
LEMMA SnapshotAgrees ==
    ASSUME OrderBooksAssumption, exchange \in Exchanges, market \in SidesOfBook, NEW book
    PROVE  /\ <<Snapshot>> \in Seq(BookMessages) /\ \A k \in DOMAIN <<Snapshot>> : WellFormed(<<Snapshot>>[k])
           /\ Agrees(<<Snapshot>>, book, Visible) /\ <<Snapshot>> # <<>>
<1> DEFINE m == Snapshot
           c == <<m>>
<1>1. /\ WellFormed(m) /\ m.snapshot
      /\ \A s \in Sides, p \in Prices : Says(m.levels[s], p, Visible[s][p])
  BY SnapshotIsTrue
<1> HIDE DEF m
<1>2. m \in BookMessages
  BY <1>1 DEF WellFormed
<1>3. c \in Seq(BookMessages) /\ DOMAIN c = {1} /\ c[1] = m /\ c # <<>>
  BY <1>2
<1> HIDE DEF c
<1>4. \A s \in Sides, p \in Prices : Touches(c[1], s, p)
  BY <1>1, <1>3 DEF Touches
<1>5. Agrees(c, book, Visible)
  BY <1>1, <1>3, <1>4 DEF Agrees
<1> QED BY <1>1, <1>3, <1>5 DEF c, m

(* At first a snapshot is on its way.                                      *)
LEMMA BooksBegin ==
    ASSUME OrderBooksAssumption, exchange \in Exchanges, BooksInit
    PROVE  BooksInv
<1>1. market \in SidesOfBook /\ sent = Visible /\ channel = <<Snapshot>>
      /\ _order_book = [side \in Sides |-> <<>>]
  BY DEF BooksInit, SidesOfBook, AnySize
<1>2. sent \in SidesOfBook /\ (exchange = "bybit" => OneShown(sent))
  BY <1>1, VisibleBook
<1>3. /\ channel \in Seq(BookMessages) /\ \A k \in DOMAIN channel : WellFormed(channel[k])
      /\ Agrees(channel, _order_book, sent) /\ channel # <<>>
  BY <1>1, SnapshotAgrees
<1>4. <<>> \in Dicts /\ OneLevel(<<>>)
  BY DEF Dicts, OneLevel
<1>5. _order_book \in [Sides -> Dicts] /\ \A s \in Sides : OneLevel(_order_book[s])
  BY <1>1, <1>4
<1> QED BY <1>1, <1>2, <1>3, <1>5 DEF BooksInv

(* What the invariant says of a state is said of the next one's values.    *)
LEMMA NextBooks ==
    ASSUME exchange \in Exchanges, UNCHANGED exchange,
           market' \in SidesOfBook, sent' \in SidesOfBook,
           channel' \in Seq(BookMessages), \A k \in DOMAIN channel' : WellFormed(channel'[k]),
           _order_book' \in [Sides -> Dicts], \A s \in Sides : OneLevel(_order_book'[s]),
           Agrees(channel', _order_book', sent'), exchange = "bybit" => OneShown(sent'),
           exchange = "bybit" /\ channel' = <<>> => told_book' = get_book(_order_book')
    PROVE  BooksInv'
<1>1. Sides' = Sides /\ Prices' = Prices
  BY DEF Sides, Prices
<1>2. SidesOfBook' = SidesOfBook /\ Dicts' = Dicts /\ BookMessages' = BookMessages
  BY <1>1 DEF SidesOfBook, Dicts, BookMessages, Deltas
<1>3. Agrees(channel, _order_book, sent)'
  BY <1>1 DEF Agrees
<1>4. (exchange = "bybit" => OneShown(sent))'
  BY <1>1 DEF OneShown
<1>5. (\A k \in DOMAIN channel : WellFormed(channel[k]))'
  BY <1>1, <1>2 DEF WellFormed
<1>6. (get_book(_order_book))' = get_book(_order_book')
  BY <1>1 DEF get_book, Sorted, InOrder
<1> QED BY <1>1, <1>2, <1>3, <1>4, <1>5, <1>6 DEF BooksInv

(* The exchange's book changes, and nothing that was sent.                 *)
LEMMA ChangeStep ==
    ASSUME OrderBooksAssumption, BooksInv, UNCHANGED exchange,
           NEW side \in Sides, NEW p \in Prices, NEW size \in AnySize, Change(side, p, size)
    PROVE  BooksInv'
<1>1. market' = [market EXCEPT ![side][p] = size] /\ market \in SidesOfBook
  BY DEF Change, BooksInv
<1>2. [market[side] EXCEPT ![p] = size] \in [Prices -> AnySize]
  BY <1>1 DEF SidesOfBook
<1>3. market' \in SidesOfBook
  BY <1>1, <1>2 DEF SidesOfBook
<1>4. sent' = sent /\ channel' = channel /\ _order_book' = _order_book /\ told_book' = told_book
  BY DEF Change
<1> QED BY <1>3, <1>4, NextBooks DEF BooksInv

(* Messages put behind those on their way: the prices that they are about  *)
(* are shown as they say, and the other ones as before.                    *)
LEMMA PublishStep ==
    ASSUME OrderBooksAssumption, BooksInv, UNCHANGED exchange, Publish
    PROVE  BooksInv'
<1> DEFINE new == Messages
           c == channel
           both == c \o new
           latest == Visible
<1>1. /\ channel' = both /\ sent' = latest
      /\ market' = market /\ _order_book' = _order_book
  BY DEF Publish
<1>2. exchange \in Exchanges /\ market \in SidesOfBook /\ c \in Seq(BookMessages)
  BY DEF BooksInv
<1>3. latest \in SidesOfBook /\ (exchange = "bybit" => OneShown(latest))
  BY <1>2, VisibleBook
<1>4. /\ new \in Seq(BookMessages)
      /\ \A k \in DOMAIN new : WellFormed(new[k])
      /\ \A k \in DOMAIN new, s \in Sides, p \in Prices : Touches(new[k], s, p)
           => sent[s][p] # latest[s][p] /\ Says(new[k].levels[s], p, latest[s][p])
      /\ \A s \in Sides, p \in Prices : sent[s][p] # latest[s][p]
           => \E k \in DOMAIN new : Touches(new[k], s, p)
  BY <1>2, MessagesSay
<1>5. \E k \in DOMAIN new : TRUE
  <2>1. sent # latest /\ sent \in SidesOfBook
    BY DEF Publish, BooksInv
  <2>2. \E s \in Sides : \E p \in Prices : sent[s][p] # latest[s][p]
    <3> HIDE DEF latest
    <3> SUFFICES ASSUME \A s \in Sides : \A p \in Prices : sent[s][p] = latest[s][p] PROVE FALSE
      OBVIOUS
    <3>1. \A s \in Sides : sent[s] \in [Prices -> AnySize] /\ latest[s] \in [Prices -> AnySize]
      BY <1>3, <2>1 DEF SidesOfBook
    <3>2. \A s \in Sides : sent[s] = latest[s]
      BY <3>1
    <3> QED BY <1>3, <2>1, <3>2 DEF SidesOfBook
  <2> HIDE DEF new, latest
  <2> QED BY <1>4, <2>2
<1> HIDE DEF new, latest
<1> DEFINE n == Len(c)
           T == BookMessages
<1> HIDE DEF T
<1>6. n \in Nat /\ Len(new) \in Nat /\ DOMAIN c = 1..n /\ DOMAIN new = 1..Len(new)
  BY <1>2, <1>4
<1>7. both \in Seq(T) /\ Len(both) = n + Len(new)
  BY <1>2, <1>4, ConcatProperties, Zenon DEF T
<1>8. DOMAIN both = 1..(n + Len(new))
  BY <1>7
<1>9. \A k \in DOMAIN both : both[k] = IF k <= n THEN c[k] ELSE new[k - n]
  BY <1>2, <1>4, <1>8
<1> HIDE DEF both, n
<1>10. \A k \in DOMAIN both : k > n => k - n \in DOMAIN new /\ both[k] = new[k - n]
  BY <1>6, <1>8, <1>9
<1>11. \A k \in DOMAIN both : k <= n => k \in DOMAIN c /\ both[k] = c[k]
  BY <1>6, <1>8, <1>9
<1>12. \A k \in DOMAIN new : k + n \in DOMAIN both /\ both[k + n] = new[k] /\ k + n > n
  BY <1>6, <1>8, <1>9
<1>13. \A k \in DOMAIN c : k \in DOMAIN both /\ both[k] = c[k] /\ k <= n
  BY <1>6, <1>8, <1>9
<1>14. both # <<>>
  <2>1. DOMAIN both # DOMAIN <<>>
    BY <1>5, <1>12
  <2> QED BY <2>1
<1>15. \A k \in DOMAIN both : k <= n \/ k > n
  BY <1>6, <1>8
<1>16. \A k \in DOMAIN both : WellFormed(both[k])
  BY <1>4, <1>10, <1>11, <1>15 DEF BooksInv
<1>17. ASSUME NEW s \in Sides, NEW p \in Prices, NEW k \in DOMAIN both, Touches(both[k], s, p),
              \A m \in DOMAIN both : m > k => ~ Touches(both[m], s, p)
       PROVE  Says(both[k].levels[s], p, latest[s][p])
  <2>1. CASE k > n
    BY <1>4, <1>10, <1>17, <2>1
  <2>2. CASE k <= n
    <3>1. k \in DOMAIN c /\ both[k] = c[k]
      BY <1>11, <2>2
    <3>2. \A m \in DOMAIN new : ~ Touches(new[m], s, p)
      <4> SUFFICES ASSUME NEW m \in DOMAIN new PROVE ~ Touches(new[m], s, p)
        OBVIOUS
      <4>1. m + n \in DOMAIN both /\ both[m + n] = new[m] /\ m + n > k
        BY <1>6, <1>12, <2>2, <3>1
      <4> QED BY <1>17, <4>1
    <3>3. latest[s][p] = sent[s][p]
      BY <1>4, <3>2
    <3>4. \A m \in DOMAIN c : m > k => ~ Touches(c[m], s, p)
      BY <1>13, <1>17
    <3>5. Touches(c[k], s, p)
      BY <1>17, <3>1
    <3>6. Says(c[k].levels[s], p, sent[s][p])
      BY <3>1, <3>4, <3>5 DEF BooksInv, Agrees
    <3> QED BY <3>1, <3>3, <3>6
  <2> QED BY <1>15, <2>1, <2>2
<1>18. ASSUME NEW s \in Sides, NEW p \in Prices, \A k \in DOMAIN both : ~ Touches(both[k], s, p)
       PROVE  Says(_order_book[s], p, latest[s][p])
  <2>1. \A k \in DOMAIN c : ~ Touches(c[k], s, p)
    BY <1>13, <1>18
  <2>2. \A k \in DOMAIN new : ~ Touches(new[k], s, p)
    BY <1>12, <1>18
  <2>3. latest[s][p] = sent[s][p]
    BY <1>4, <2>2
  <2> QED BY <2>1, <2>3 DEF BooksInv, Agrees
<1>19. Agrees(both, _order_book, latest)
  BY <1>17, <1>18 DEF Agrees
<1>20. both \in Seq(BookMessages)
  BY <1>7 DEF T
<1> QED BY <1>1, <1>2, <1>3, <1>14, <1>16, <1>19, <1>20, NextBooks DEF BooksInv

(* A new connection: what was on its way is lost, and a snapshot comes.    *)
LEMMA ReconnectStep ==
    ASSUME OrderBooksAssumption, BooksInv, UNCHANGED exchange, Reconnect
    PROVE  BooksInv'
<1>1. /\ channel' = <<Snapshot>> /\ sent' = Visible
      /\ market' = market /\ _order_book' = _order_book
  BY DEF Reconnect
<1>2. exchange \in Exchanges /\ market \in SidesOfBook
  BY DEF BooksInv
<1>3. Visible \in SidesOfBook /\ (exchange = "bybit" => OneShown(Visible))
  BY <1>2, VisibleBook
<1>4. /\ channel' \in Seq(BookMessages) /\ \A k \in DOMAIN channel' : WellFormed(channel'[k])
      /\ Agrees(channel', _order_book', sent') /\ channel' # <<>>
  BY <1>1, <1>2, SnapshotAgrees
<1> QED BY <1>1, <1>2, <1>3, <1>4, NextBooks DEF BooksInv

(* The first message goes into the book, a snapshot in place of it.        *)
LEMMA HandleStep ==
    ASSUME OrderBooksAssumption, BooksInv, UNCHANGED exchange, HandleMessages
    PROVE  BooksInv'
<1> DEFINE c == channel
           m == Head(c)
           old == IF m.snapshot THEN m.levels ELSE _order_book
           new == [s \in Sides |-> update_book(s, old[s], m.levels[s])]
<1>1. /\ c # <<>> /\ channel' = Tail(c) /\ _order_book' = new
      /\ market' = market /\ sent' = sent
      /\ exchange = "bybit" => told_book' = get_book(_order_book')
  BY DEF HandleMessages
<1>2. /\ exchange \in Exchanges /\ c \in Seq(BookMessages)
      /\ \A k \in DOMAIN c : WellFormed(c[k])
  BY DEF BooksInv
<1> DEFINE n == Len(c)
<1>3. n \in Nat \ {0} /\ DOMAIN c = 1..n /\ m = c[1]
  BY <1>1, <1>2
<1>4. Tail(c) \in Seq(BookMessages) /\ DOMAIN Tail(c) = 1..(n - 1) /\ \A k \in 1..(n - 1) : Tail(c)[k] = c[k + 1]
  <2>1. Tail(c) \in Seq(BookMessages) /\ Len(Tail(c)) = n - 1 /\ \A k \in 1..(n - 1) : Tail(c)[k] = c[k + 1]
    BY <1>1, <1>2, HeadTailProperties
  <2> QED BY <2>1, LenProperties
<1>5. WellFormed(m)
  BY <1>2, <1>3
<1> HIDE DEF m
<1>6. /\ m.levels \in [Sides -> Deltas] /\ \A s \in Sides : OneLevel(m.levels[s])
      /\ m.snapshot \in BOOLEAN /\ (m.snapshot => \A s \in Sides : m.levels[s] \in Dicts)
  BY <1>5 DEF WellFormed, BookMessages
<1>7. \A s \in Sides : old[s] \in Dicts /\ OneLevel(old[s])
  BY <1>6 DEF BooksInv
<1>8. \A s \in Sides : new[s] = update_book(s, old[s], m.levels[s])
  OBVIOUS
<1> HIDE DEF old
<1>9. ASSUME NEW s \in Sides
      PROVE  /\ new[s] \in Dicts /\ OneLevel(new[s])
             /\ \A p \in Prices, z \in AnySize :
                  (IF Has(m.levels[s], p) THEN Says(m.levels[s], p, z) ELSE Says(old[s], p, z))
                    => Says(new[s], p, z)
  <2>1. m.levels[s] \in Deltas
    BY <1>6
  <2>2. OneLevel(m.levels[s]) /\ old[s] \in Dicts /\ OneLevel(old[s])
    BY <1>6, <1>7
  <2> HIDE DEF new
  <2> QED BY <1>2, <1>8, <2>1, <2>2, SideUpdated
<1>10. new \in [Sides -> Dicts] /\ \A s \in Sides : OneLevel(new[s])
  BY <1>9
<1> HIDE DEF new
<1>11. \A k \in DOMAIN Tail(c) : k + 1 \in DOMAIN c /\ Tail(c)[k] = c[k + 1] /\ k + 1 > 1
  BY <1>3, <1>4
<1>12. \A k \in DOMAIN c : k = 1 \/ (k - 1 \in DOMAIN Tail(c) /\ Tail(c)[k - 1] = c[k])
  BY <1>3, <1>4
<1>13. \A k \in DOMAIN Tail(c) : WellFormed(Tail(c)[k])
  BY <1>2, <1>11
<1>14. ASSUME NEW s \in Sides, NEW p \in Prices, NEW k \in DOMAIN Tail(c), Touches(Tail(c)[k], s, p),
              \A j \in DOMAIN Tail(c) : j > k => ~ Touches(Tail(c)[j], s, p)
       PROVE  Says(Tail(c)[k].levels[s], p, sent[s][p])
  <2>1. k + 1 \in DOMAIN c /\ Touches(c[k + 1], s, p) /\ Tail(c)[k] = c[k + 1]
    BY <1>11, <1>14
  <2>2. \A j \in DOMAIN c : j > k + 1 => ~ Touches(c[j], s, p)
    <3> SUFFICES ASSUME NEW j \in DOMAIN c, j > k + 1 PROVE ~ Touches(c[j], s, p)
      OBVIOUS
    <3>1. j - 1 > k /\ j # 1
      BY <1>3, <1>4
    <3>2. j - 1 \in DOMAIN Tail(c) /\ Tail(c)[j - 1] = c[j]
      BY <1>12, <3>1
    <3> QED BY <1>14, <3>1, <3>2
  <2> QED BY <2>1, <2>2 DEF BooksInv, Agrees
<1>15. ASSUME NEW s \in Sides, NEW p \in Prices, \A k \in DOMAIN Tail(c) : ~ Touches(Tail(c)[k], s, p)
       PROVE  Says(new[s], p, sent[s][p])
  <2>1. sent[s][p] \in AnySize
    BY DEF BooksInv, SidesOfBook
  <2>2. \A j \in DOMAIN c : j > 1 => ~ Touches(c[j], s, p)
    <3> SUFFICES ASSUME NEW j \in DOMAIN c, j > 1 PROVE ~ Touches(c[j], s, p)
      OBVIOUS
    <3>1. j # 1
      BY <1>3
    <3>2. j - 1 \in DOMAIN Tail(c) /\ Tail(c)[j - 1] = c[j]
      BY <1>12, <3>1
    <3> QED BY <1>15, <3>2
  <2>3. 1 \in DOMAIN c
    BY <1>3
  <2>4. CASE Touches(m, s, p)
    <3>1. Says(m.levels[s], p, sent[s][p])
      BY <1>3, <2>2, <2>3, <2>4 DEF BooksInv, Agrees
    <3>2. old[s] = m.levels[s] \/ Has(m.levels[s], p)
      BY <2>4 DEF Touches, old
    <3> QED BY <1>9, <2>1, <3>1, <3>2
  <2>5. CASE ~ Touches(m, s, p)
    <3>1. \A j \in DOMAIN c : ~ Touches(c[j], s, p)
      BY <1>3, <2>2, <2>5
    <3>2. Says(_order_book[s], p, sent[s][p])
      BY <3>1 DEF BooksInv, Agrees
    <3>3. old[s] = _order_book[s] /\ ~ Has(m.levels[s], p)
      BY <2>5 DEF Touches, old
    <3> QED BY <1>9, <2>1, <3>2, <3>3
  <2> QED BY <2>4, <2>5
<1>16. Agrees(Tail(c), new, sent)
  BY <1>14, <1>15 DEF Agrees
<1> QED BY <1>1, <1>2, <1>4, <1>10, <1>13, <1>16, NextBooks DEF BooksInv

(* The invariant holds in every state.                                     *)
THEOREM BooksInvariant ==
    ASSUME OrderBooksAssumption
    PROVE  BooksSpec => []BooksInv
<1>1. exchange \in Exchanges /\ BooksInit => BooksInv
  BY BooksBegin
<1>2. BooksInv /\ [BooksNext]_<<exchange, bookVars>> => BooksInv'
  <2> SUFFICES ASSUME BooksInv, [BooksNext]_<<exchange, bookVars>> PROVE BooksInv'
    OBVIOUS
  <2>1. CASE BooksNext
    <3>1. UNCHANGED exchange
      BY <2>1 DEF BooksNext
    <3>2. ASSUME NEW side \in Sides, NEW p \in Prices, NEW size \in {0} \cup Sizes, Change(side, p, size)
          PROVE  BooksInv'
      BY <3>1, <3>2, ChangeStep DEF AnySize
    <3>3. CASE Publish
      BY <3>1, <3>3, PublishStep
    <3>4. CASE Reconnect
      BY <3>1, <3>4, ReconnectStep
    <3>5. CASE HandleMessages
      BY <3>1, <3>5, HandleStep
    <3> QED BY <2>1, <3>2, <3>3, <3>4, <3>5 DEF BooksNext
  <2>2. CASE UNCHANGED <<exchange, bookVars>>
    <3>1. exchange' = exchange /\ market' = market /\ sent' = sent /\ channel' = channel
          /\ _order_book' = _order_book /\ told_book' = told_book
      BY <2>2 DEF bookVars
    <3> QED BY <3>1, NextBooks DEF BooksInv
  <2> QED BY <2>1, <2>2
<1> QED BY <1>1, <1>2, PTL DEF BooksSpec

(* Every variable of the books holds a value of its kind.                  *)
THEOREM BooksTypesKept ==
    ASSUME OrderBooksAssumption
    PROVE  BooksSpec => []BooksTypeOK
<1>1. BooksInv => BooksTypeOK
  <2> SUFFICES ASSUME BooksInv PROVE BooksTypeOK
    OBVIOUS
  <2>1. market \in [Sides -> [Prices -> {0} \cup Sizes]] /\ sent \in [Sides -> [Prices -> {0} \cup Sizes]]
    BY DEF BooksInv, SidesOfBook, AnySize
  <2>2. \A s \in Sides : _order_book[s] \in Seq(Prices \X Sizes)
    BY DEF BooksInv, Dicts
  <2>3. \A s \in Sides : Range(_order_book[s]) \subseteq Prices \X Sizes
    BY <2>2, RangeOfSeq
  <2> QED BY <2>1, <2>3 DEF BooksTypeOK
<1> QED BY <1>1, BooksInvariant, PTL

(* A side of at most one level is in order.                                *)
LEMMA OneInOrder ==
    ASSUME OrderBooksAssumption, exchange \in Exchanges, NEW s \in Sides,
           NEW dict \in Dicts, \A i, j \in DOMAIN dict : i = j
    PROVE  InOrder(s, Range(dict)) = dict
<1> DEFINE S == Range(dict)
           key == [level \in S |-> Place(s, level[1])]
<1>1. S \subseteq Prices \X Sizes /\ Prices \subseteq Nat
  BY RangeOfSeq, BooksBounds DEF Dicts
<1>2. \A l \in S : Place(s, l[1]) \in Int
  <2> SUFFICES ASSUME NEW l \in S PROVE Place(s, l[1]) \in Int
    OBVIOUS
  <2>1. l[1] \in Nat
    BY <1>1
  <2> QED BY <2>1 DEF Place
<1>3. dict \in Seq(S)
  <2>1. dict \in [1..Len(dict) -> Prices \X Sizes] /\ Len(dict) \in Nat /\ DOMAIN dict = 1..Len(dict)
    BY DEF Dicts
  <2>2. \A i \in DOMAIN dict : dict[i] \in S
    BY DEF Range
  <2>3. dict \in [1..Len(dict) -> S]
    BY <2>1, <2>2
  <2> QED BY <2>1, <2>3
<1>4. \A i, j \in 1..Len(dict) : i < j => key[dict[i]] < key[dict[j]]
  <2>1. DOMAIN dict = 1..Len(dict)
    BY DEF Dicts
  <2> SUFFICES ASSUME NEW i \in 1..Len(dict), NEW j \in 1..Len(dict), i < j PROVE FALSE
    OBVIOUS
  <2>2. i = j
    BY <2>1
  <2> QED BY <2>2
<1>5. Range(dict) = S
  OBVIOUS
<1>6. InOrder(s, S) = SortedBy(S, key)
  BY DEF InOrder
<1>7. key \in [S -> Int]
  BY <1>2
<1> HIDE DEF S, key
<1>8. SortedBy(S, key) = dict
  BY <1>3, <1>4, <1>5, <1>7, SortedIs
<1> QED BY <1>5, <1>6, <1>8

(* The book that is kept of the differences, and on ByBit the one that a   *)
(* strategy was told last, is the exchange's, best price first, when all   *)
(* messages have been handled.                                             *)
THEOREM BookIsTrue ==
    ASSUME OrderBooksAssumption
    PROVE  BooksSpec => []BookTrue
<1>1. BooksInv => BookTrue
  <2> SUFFICES ASSUME BooksInv, channel = <<>>
               PROVE  (IF exchange = "bybit" THEN told_book ELSE get_book(_order_book)) = Shows
    BY DEF BookTrue
  <2>1. exchange \in Exchanges /\ Sizes \subseteq Nat \ {0}
    BY BooksBounds DEF BooksInv
  <2>2. ASSUME NEW s \in Sides
        PROVE  /\ _order_book[s] \in Dicts /\ OneLevel(_order_book[s])
               /\ sent[s] \in [Prices -> AnySize]
               /\ Range(_order_book[s]) = LevelsOf(sent[s])
    <3>1. /\ _order_book[s] \in Dicts /\ OneLevel(_order_book[s])
          /\ sent[s] \in [Prices -> AnySize]
      BY DEF BooksInv, SidesOfBook
    <3>2. \A p \in Prices : Says(_order_book[s], p, sent[s][p])
      BY <2>1 DEF BooksInv, Agrees
    <3> QED BY <2>1, <3>1, <3>2, LevelsSay
  <2>3. ASSUME NEW s \in Sides
        PROVE  (IF exchange = "bybit" THEN _order_book[s] ELSE Sorted(s, _order_book[s]))
                 = InOrder(s, LevelsOf(sent[s]))
    <3>1. CASE exchange # "bybit"
      BY <2>2, <3>1 DEF Sorted
    <3>2. CASE exchange = "bybit"
      <4>1. \A i, j \in DOMAIN _order_book[s] : i = j
        <5> SUFFICES ASSUME NEW i \in DOMAIN _order_book[s], NEW j \in DOMAIN _order_book[s] PROVE i = j
          OBVIOUS
        <5>1. _order_book[s][i] \in LevelsOf(sent[s]) /\ _order_book[s][j] \in LevelsOf(sent[s])
          BY <2>2 DEF Range
        <5>2. PICK p \in Prices : sent[s][p] # 0 /\ _order_book[s][i] = <<p, sent[s][p]>>
          BY <5>1 DEF LevelsOf
        <5>3. PICK q \in Prices : sent[s][q] # 0 /\ _order_book[s][j] = <<q, sent[s][q]>>
          BY <5>1 DEF LevelsOf
        <5>4. p = q
          BY <3>2, <5>2, <5>3 DEF BooksInv, OneShown
        <5>5. OneLevel(_order_book[s])
          BY <2>2
        <5> QED BY <5>2, <5>3, <5>4, <5>5 DEF OneLevel
      <4>2. InOrder(s, Range(_order_book[s])) = _order_book[s]
        BY <2>1, <2>2, <4>1, OneInOrder
      <4> QED BY <2>2, <3>2, <4>2
    <3> QED BY <3>1, <3>2
  <2>4. get_book(_order_book) = Shows
    BY <2>3 DEF get_book, Shows
  <2> QED BY <2>4 DEF BooksInv
<1> QED BY <1>1, BooksInvariant, PTL

-----------------------------------------------------------------------------
(* Candles                                                                 *)

(* An interval other than a month has a length.                            *)
LEMMA LengthPositive ==
    ASSUME NEW i \in IntervalNames, i # "1M"
    PROVE  Length[i] \in Nat \ {0}
BY DEF Length, IntervalNames, Hour, Day

(* What the tables should say: a month is as long as the longest.          *)
Table(i) == IF i = "1M" THEN 31 * Day ELSE Length[i]

(* The interval that is sent to an exchange is as long as its name says:   *)
(* Bitfinex,                                                               *)
LEMMA BfxRight == ASSUME NEW i \in DOMAIN BfxLengths PROVE BfxLengths[i] = Table(i) /\ i \in IntervalNames
BY DEF BfxLengths, Table, Length, IntervalNames, Hour, Day

(* ... HTX,                                                                *)
LEMMA HtxRight ==
    ASSUME NEW i \in DOMAIN HtxNames
    PROVE  HtxNames[i] \in DOMAIN HtxLengths /\ HtxLengths[HtxNames[i]] = Table(i) /\ i \in IntervalNames
BY DEF HtxNames, HtxLengths, Table, Length, IntervalNames, Hour, Day

(* ... OKX,                                                                *)
LEMMA OkxRight ==
    ASSUME NEW i \in DOMAIN OkxNames
    PROVE  OkxNames[i] \in DOMAIN OkxLengths /\ OkxLengths[OkxNames[i]] = Table(i)
<1>1. CASE i \in {"1m", "3m", "5m", "15m", "30m", "1h"}
  BY <1>1 DEF OkxNames, OkxLengths, Table, Length, IntervalNames, Hour, Day
<1>2. CASE i \in {"2h", "4h", "1d", "1w", "1M"}
  BY <1>2 DEF OkxNames, OkxLengths, Table, Length, IntervalNames, Hour, Day
<1> QED BY <1>1, <1>2 DEF OkxNames

(* ... and ByBit.                                                          *)
LEMMA BybitRight ==
    ASSUME NEW i \in DOMAIN BybitNames, i \notin {"1h", "2h", "4h"}
    PROVE  BybitNames[i] \in DOMAIN BybitLengths /\ BybitLengths[BybitNames[i]] = Table(i)
<1>1. CASE i \in {"1m", "3m", "5m", "15m", "30m"}
  BY <1>1 DEF BybitNames, BybitLengths, Table, Length, IntervalNames, Hour, Day
<1>2. CASE i \in {"1d", "1w", "1M"}
  BY <1>2 DEF BybitNames, BybitLengths, Table, Length, IntervalNames, Hour, Day
<1> QED BY <1>1, <1>2 DEF BybitNames

(* The exchanges' tables of lengths say how long the candles are, a month  *)
(* the longest one, but ByBit's of hours.                                  *)
LEMMA LengthRight ==
    ASSUME CandlesAssumption, exchange \in Exchanges, NEW i \in AskedOn[exchange],
           interval(i) # "", i \notin HoursOfBybit
    PROVE  interval2value(interval(i)) = Table(i)
<1>1. CASE exchange = "bitfinex"
  <2>1. i \in DOMAIN BfxLengths
    BY <1>1 DEF CandlesAssumption
  <2> QED BY <1>1, <2>1, BfxRight DEF interval, interval2value, Get
<1>2. CASE exchange = "huobi"
  <2>1. i \in DOMAIN HtxNames
    BY <1>2 DEF CandlesAssumption
  <2> QED BY <1>2, <2>1, HtxRight DEF interval, interval2value, Get
<1>3. CASE exchange = "okx"
  <2>1. i \in DOMAIN OkxNames
    BY <1>3, Zenon DEF interval, Get
  <2> QED BY <1>3, <2>1, OkxRight DEF interval, interval2value, Get
<1>4. CASE exchange = "bybit"
  <2>1. i \in DOMAIN BybitNames
    BY <1>4, Zenon DEF interval, Get
  <2>2. i \notin {"1h", "2h", "4h"}
    BY <1>4 DEF HoursOfBybit
  <2> QED BY <1>4, <2>1, <2>2, BybitRight DEF interval, interval2value, Get
<1> QED BY <1>1, <1>2, <1>3, <1>4 DEF Exchanges

(* Products of numbers, and their order.                                   *)
LEMMA Product == \A a, b \in Nat : a * b \in Nat /\ a * b + a = a * (b + 1)
OBVIOUS

LEMMA InWindow == \A a \in Nat \ {0}, b, c \in Nat : b < c => a * b < a * c
OBVIOUS

(* A candle that is as long as the tables say ends when the next begins;   *)
(* a month's, up to three days later.                                      *)
LEMMA TableLate ==
    ASSUME CalendarAssumption, Now \in Nat, NEW i \in IntervalNames, NEW n \in 1..Now
    PROVE  (Opens(i, n - 1) + Table(i)) - Opens(i, n) \in Late(i)
<1>1. CASE i = "1M"
  <2>1. PICK days \in 28..31 : MonthStart[n] - MonthStart[n - 1] = days * Day
    <3>1. MonthStart[n] - MonthStart[n - 1] \in Lengths("1M")
      BY DEF CalendarAssumption
    <3>2. Lengths("1M") = {days * Day : days \in 28..31}
      BY DEF Lengths, Length
    <3> QED BY <3>1, <3>2
  <2>2. MonthStart[n] \in Nat /\ MonthStart[n - 1] \in Nat
    BY DEF CalendarAssumption
  <2>3. (Opens(i, n - 1) + Table(i)) - Opens(i, n) = 31 * Day - days * Day
    BY <1>1, <2>1, <2>2 DEF Opens, Table, Day, Hour
  <2> QED BY <1>1, <2>3 DEF Late, Day, Hour
<1>2. CASE i # "1M"
  <2>1. Length[i] \in Nat
    BY <1>2, LengthPositive
  <2> DEFINE L == Length[i]
  <2>2. Opens(i, n - 1) = L * (n - 1) /\ Opens(i, n) = L * n /\ Table(i) = L /\ Late(i) = {0}
    BY <1>2 DEF Opens, Table, Late
  <2> HIDE DEF L
  <2>3. L \in Nat /\ n - 1 \in Nat /\ (n - 1) + 1 = n
    BY <2>1 DEF L
  <2>4. L * (n - 1) \in Nat /\ L * (n - 1) + L = L * n
    BY <2>3, Product
  <2> QED BY <2>2, <2>3, <2>4
<1> QED BY <1>1, <1>2

(* Candles begin one after the other.                                      *)
LEMMA OpensOrdered ==
    ASSUME CalendarAssumption, Now \in Nat, NEW i \in IntervalNames
    PROVE  /\ \A n \in 0..Now : Opens(i, n) \in Nat
           /\ \A m, n \in 0..Now : m < n => Opens(i, m) < Opens(i, n)
<1>1. CASE i = "1M"
  BY <1>1 DEF CalendarAssumption, Opens
<1>2. CASE i # "1M"
  <2> DEFINE L == Length[i]
  <2>1. L \in Nat \ {0}
    BY <1>2, LengthPositive
  <2>2. \A n : Opens(i, n) = L * n
    BY <1>2 DEF Opens
  <2> HIDE DEF L
  <2> QED BY <2>1, <2>2, Product, InWindow
<1> QED BY <1>1, <1>2

(* The number of candles that is asked for is one that the exchange        *)
(* answers.                                                                *)
LEMMA Few ==
    ASSUME CandlesAssumption, NEW limit \in 1..MaxLimit
    PROVE  /\ FewEnough(limit) \in 1..MaxLimit /\ MaxLimit \in Nat /\ Now \in Nat /\ MaxLimit < Now
           /\ exchange = "okx" => FewEnough(limit) <= MaxPerAnswer
BY DEF FewEnough, CandlesAssumption

(* The candles of a request, the oldest first.                             *)
Oldest(i, count) == [k \in 1..count |-> Opens(i, Now - (count + 1 - k))]

(* The newest candles, turned or sorted, begin with the oldest one.        *)
LEMMA OldestFirst ==
    ASSUME CandlesAssumption, CalendarAssumption, NEW i \in IntervalNames, NEW n \in 1..MaxLimit
    PROVE  /\ Newest(i, n) \in [1..n -> Nat]
           /\ Reverse(Newest(i, n)) = Oldest(i, n)
           /\ SortedBy(Range(Newest(i, n)), [start \in Range(Newest(i, n)) |-> start]) = Oldest(i, n)
<1> DEFINE c == Newest(i, n)
           o == Oldest(i, n)
<1>1. n \in Nat \ {0} /\ Now \in Nat /\ n < Now
  BY DEF CandlesAssumption
<1>2. \A k \in 1..n : Now - k \in 0..Now /\ Opens(i, Now - k) \in Nat
  <2>1. \A k \in 1..n : Now - k \in 0..Now
    BY <1>1
  <2> QED BY <1>1, <2>1, OpensOrdered
<1>3. c \in [1..n -> Nat] /\ \A k \in 1..n : c[k] = Opens(i, Now - k)
  BY <1>2 DEF Newest
<1>4. \A k \in 1..n : n + 1 - k \in 1..n /\ n - k + 1 = n + 1 - k
  BY <1>1
<1>5. DOMAIN o = 1..n /\ \A k \in 1..n : o[k] = Opens(i, Now - (n + 1 - k))
  BY DEF Oldest
<1>6. \A k \in 1..n : o[k] = c[n + 1 - k]
  BY <1>3, <1>4, <1>5
<1>7. Reverse(c) = o
  <2>1. Len(c) = n
    BY <1>1, <1>3
  <2>2. Reverse(c) = [k \in 1..n |-> c[(n - k) + 1]]
    BY <2>1 DEF Reverse
  <2>3. o = [k \in 1..n |-> Opens(i, Now - (n + 1 - k))]
    BY DEF Oldest
  <2> HIDE DEF c, o
  <2>4. \A k \in 1..n : c[(n - k) + 1] = Opens(i, Now - (n + 1 - k))
    BY <1>3, <1>4
  <2> QED BY <2>2, <2>3, <2>4
<1> DEFINE S == Range(c)
           key == [start \in S |-> start]
<1> HIDE DEF c, o
<1>8. o \in [1..n -> S] /\ S \subseteq Nat
  <2>1. \A k \in 1..n : c[k] \in S
    BY <1>3 DEF Range
  <2>2. \A k \in 1..n : o[k] \in S
    BY <1>4, <1>6, <2>1
  <2>3. o = [k \in 1..n |-> o[k]]
    BY DEF o, Oldest
  <2> QED BY <1>3, <2>2, <2>3 DEF Range
<1>9. o \in Seq(S) /\ Len(o) = n
  BY <1>1, <1>8
<1>10. Range(o) = S
  <2>1. \A k \in 1..n : \E j \in 1..n : c[k] = o[j]
    <3> SUFFICES ASSUME NEW k \in 1..n PROVE \E j \in 1..n : c[k] = o[j]
      OBVIOUS
    <3>1. n + 1 - (n + 1 - k) = k
      BY <1>1
    <3> QED BY <1>4, <1>6, <3>1
  <2>2. \A x : x \in S <=> \E k \in 1..n : c[k] = x
    BY <1>3 DEF Range
  <2>3. \A x : x \in Range(o) <=> \E k \in 1..n : o[k] = x
    BY <1>5 DEF Range
  <2> QED BY <1>4, <1>6, <2>1, <2>2, <2>3
<1>11. \A h, j \in 1..Len(o) : h < j => key[o[h]] < key[o[j]]
  <2> SUFFICES ASSUME NEW h \in 1..n, NEW j \in 1..n, h < j PROVE o[h] < o[j]
    BY <1>8, <1>9
  <2>1. /\ Now - (n + 1 - h) \in 0..Now /\ Now - (n + 1 - j) \in 0..Now
        /\ Now - (n + 1 - h) < Now - (n + 1 - j)
    BY <1>1
  <2> QED BY <1>1, <1>5, <2>1, OpensOrdered
<1>12. key \in [S -> Int]
  BY <1>8
<1> HIDE DEF S
<1>13. SortedBy(S, key) = o
  <2> HIDE DEF key
  <2> QED BY <1>9, <1>10, <1>11, <1>12, SortedIs
<1> QED BY <1>3, <1>7, <1>13 DEF c, o, S

(* A request that was made is of an interval that the exchange has; its    *)
(* answer is of the newest candles, and the client's of the same.          *)
Requested ==
    /\ request \in [interval : AskedOn[exchange], limit : 1..MaxLimit]
    /\ interval(request.interval) # ""

Klines(i, n) == [k \in 1..n |-> Bar(Oldest(i, n)[k], i)]

CandlesInv ==
    /\ exchange \in Exchanges
    /\ request = NoRequest => candles = <<>> /\ klines = <<>>
    /\ request # NoRequest =>
         /\ Requested
         /\ candles # <<>> => candles = Newest(request.interval, FewEnough(request.limit))
         /\ klines # <<>> => klines = Klines(request.interval, FewEnough(request.limit))

(* A request is for some candles of an interval.                           *)
LEMMA RequestBounds ==
    ASSUME CandlesAssumption, exchange \in Exchanges, Requested
    PROVE  /\ request.interval \in AskedOn[exchange] /\ request.interval \in IntervalNames
           /\ request.limit \in 1..MaxLimit /\ FewEnough(request.limit) \in 1..MaxLimit
<1>1. request.interval \in AskedOn[exchange] /\ request.limit \in 1..MaxLimit
  BY DEF Requested
<1>2. request.interval \in IntervalNames
  BY <1>1 DEF CandlesAssumption
<1> QED BY <1>1, <1>2, Few

(* What is made of an exchange's candles are the candles of the interval,  *)
(* the oldest first.                                                       *)
LEMMA AnswerIs ==
    ASSUME CandlesAssumption, CalendarAssumption, CandlesInv, candles # <<>>
    PROVE  Answer = Klines(request.interval, FewEnough(request.limit))
<1> DEFINE i == request.interval
           n == FewEnough(request.limit)
           s == [start \in Range(candles) |-> start]
<1>1. request # NoRequest /\ Requested /\ candles = Newest(i, n) /\ exchange \in Exchanges
  BY DEF CandlesInv
<1>2. i \in IntervalNames /\ n \in 1..MaxLimit
  BY <1>1, RequestBounds
<1> HIDE DEF n
<1>3. Reverse(candles) = Oldest(i, n) /\ SortedBy(Range(candles), s) = Oldest(i, n)
  BY <1>1, <1>2, OldestFirst
<1> HIDE DEF s
<1> DEFINE ordered == IF exchange = "huobi" THEN Reverse(candles) ELSE SortedBy(Range(candles), s)
<1>4. ordered = Oldest(i, n) /\ DOMAIN ordered = 1..n
  BY <1>3 DEF Oldest
<1>5. Answer = [k \in DOMAIN ordered |-> Bar(ordered[k], i)]
  BY DEF Answer, s
<1> HIDE DEF ordered
<1> QED BY <1>4, <1>5 DEF Klines, n

(* The invariant holds in every state.                                     *)
THEOREM CandlesInvariant ==
    ASSUME CandlesAssumption, CalendarAssumption
    PROVE  CandlesSpec => []CandlesInv
<1>1. exchange \in Exchanges /\ CandlesInit => CandlesInv
  BY DEF CandlesInit, CandlesInv
<1>2. CandlesInv /\ [CandlesNext]_<<exchange, candleVars>> => CandlesInv'
  <2> SUFFICES ASSUME CandlesInv, [CandlesNext]_<<exchange, candleVars>> PROVE CandlesInv'
    OBVIOUS
  <2>1. UNCHANGED exchange
    BY DEF CandlesNext
  <2>2. /\ \A i : interval(i)' = interval(i)
        /\ \A n : FewEnough(n)' = FewEnough(n)
        /\ \A start, i : Bar(start, i)' = Bar(start, i)
    BY <2>1 DEF interval, FewEnough, Bar, interval2value
  <2>3. CASE FetchKlines
    <3>1. PICK i \in AskedOn[exchange], limit \in 1..MaxLimit :
            /\ interval(i) # "" /\ request' = [interval |-> i, limit |-> limit]
            /\ candles' = Newest(i, FewEnough(limit)) /\ klines' = klines
      BY <2>3 DEF FetchKlines
    <3>2. klines' = <<>> /\ exchange' \in Exchanges
      BY <2>1, <2>3 DEF FetchKlines, CandlesInv
    <3>3. request'.interval = i /\ request'.limit = limit /\ request' # NoRequest
      <4>1. limit # 0
        OBVIOUS
      <4> QED BY <3>1, <4>1 DEF NoRequest
    <3>4. Requested'
      BY <2>1, <2>2, <3>1, <3>3 DEF Requested
    <3>5. candles' = Newest(request'.interval, FewEnough(request'.limit))
      BY <3>1, <3>3
    <3> QED BY <2>1, <3>2, <3>3, <3>4, <3>5 DEF CandlesInv, NoRequest, FewEnough
  <2>4. CASE KlinesAnswered
    <3>1. candles # <<>> /\ klines' = Answer /\ candles' = <<>> /\ request' = request
      BY <2>4 DEF KlinesAnswered
    <3>2. klines' = Klines(request.interval, FewEnough(request.limit))
      BY <3>1, AnswerIs
    <3>3. request # NoRequest /\ Requested
      BY <3>1 DEF CandlesInv
    <3>4. Requested'
      BY <2>1, <2>2, <3>1, <3>3 DEF Requested
    <3>5. Klines(request.interval, FewEnough(request.limit))' = Klines(request.interval, FewEnough(request.limit))
      BY <2>1, <2>2, <3>1 DEF Klines, FewEnough
    <3>6. NoRequest' = NoRequest /\ request' # NoRequest
      BY <3>1, <3>3 DEF NoRequest
    <3> QED BY <2>1, <3>1, <3>2, <3>4, <3>5, <3>6 DEF CandlesInv
  <2>5. CASE UNCHANGED <<exchange, candleVars>>
    <3>1. request' = request /\ candles' = candles /\ klines' = klines
      BY <2>5 DEF candleVars
    <3>2. Requested' = Requested
      BY <2>1, <2>2, <3>1 DEF Requested
    <3>3. Klines(request.interval, FewEnough(request.limit))' = Klines(request.interval, FewEnough(request.limit))
      BY <2>1, <2>2, <3>1 DEF Klines, FewEnough
    <3>4. FewEnough(request.limit)' = FewEnough(request.limit)
      BY <2>1, <3>1 DEF FewEnough
    <3> QED BY <2>1, <3>1, <3>2, <3>3, <3>4 DEF CandlesInv, NoRequest, Newest
  <2> QED BY <2>3, <2>4, <2>5 DEF CandlesNext
<1> QED BY <1>1, <1>2, PTL DEF CandlesSpec

(* Every variable of the candles holds a value of its kind.                *)
THEOREM CandlesTypesKept ==
    ASSUME CandlesAssumption, CalendarAssumption
    PROVE  CandlesSpec => []CandlesTypeOK
<1>1. CandlesInv => CandlesTypeOK
  <2> SUFFICES ASSUME CandlesInv PROVE CandlesTypeOK
    OBVIOUS
  <2> DEFINE most == IF exchange = "okx" THEN MaxPerAnswer ELSE MaxLimit
  <2>1. MaxLimit \in Nat /\ MaxPerAnswer \in Nat
    BY DEF CandlesAssumption
  <2>2. Len(<<>>) = 0 /\ DOMAIN <<>> = {} /\ 0 <= most
    BY <2>1
  <2>3. CASE request = NoRequest
    BY <2>2, <2>3 DEF CandlesTypeOK, CandlesInv
  <2>4. CASE request # NoRequest
    <3> DEFINE i == request.interval
               n == FewEnough(request.limit)
    <3>1. Requested /\ exchange \in Exchanges
      BY <2>4 DEF CandlesInv
    <3>2. i \in IntervalNames /\ n \in 1..MaxLimit /\ (exchange = "okx" => n <= MaxPerAnswer)
      BY <3>1, RequestBounds, Few
    <3> HIDE DEF n
    <3>3. /\ candles # <<>> => candles = Newest(i, n)
          /\ klines # <<>> => klines = Klines(i, n)
      BY <2>4 DEF CandlesInv, n
    <3>4. Newest(i, n) \in [1..n -> Nat]
      BY <3>2, OldestFirst
    <3>5. candles # <<>> => candles \in [1..n -> Nat] /\ Len(candles) = n
      <4>1. candles # <<>> => candles \in [1..n -> Nat]
        BY <3>3, <3>4
      <4>2. n \in Nat
        BY <3>2
      <4> QED BY <4>1, <4>2
    <3>6. (\A k \in DOMAIN candles : candles[k] \in Nat) /\ Len(candles) <= most
      BY <2>2, <3>2, <3>5
    <3>7. \A k \in DOMAIN Klines(i, n) : DOMAIN Klines(i, n)[k] = {"start", "close"}
      BY DEF Klines, Bar
    <3>8. \A k \in DOMAIN klines : DOMAIN klines[k] = {"start", "close"}
      BY <2>2, <3>3, <3>7
    <3> QED BY <3>1, <3>6, <3>8 DEF CandlesTypeOK, Requested
  <2> QED BY <2>3, <2>4
<1> QED BY <1>1, CandlesInvariant, PTL

(* The answer of FetchKlines is a run of candles in the order of time that *)
(* ends with the newest one, and a candle closes when the exchange's next  *)
(* begins; but ByBit's of hours close too early, and every exchange's of   *)
(* months up to three days late.                                           *)
THEOREM KlinesAreTrue ==
    ASSUME CandlesAssumption, CalendarAssumption
    PROVE  CandlesSpec => []KlinesTrue
<1>1. CandlesInv => KlinesTrue
  <2> SUFFICES ASSUME CandlesInv, NEW k \in DOMAIN klines
               PROVE  /\ klines[k].start = Opens(request.interval, Now - Len(klines) + k - 1)
                      /\ request.interval \notin HoursOfBybit =>
                           klines[k].close - Opens(request.interval, Now - Len(klines) + k)
                             \in Late(request.interval)
    BY DEF KlinesTrue
  <2> DEFINE i == request.interval
             n == FewEnough(request.limit)
  <2>1. klines # <<>>
    OBVIOUS
  <2>2. Requested /\ klines = Klines(i, n) /\ exchange \in Exchanges
    BY <2>1 DEF CandlesInv
  <2>3. i \in AskedOn[exchange] /\ i \in IntervalNames /\ n \in 1..MaxLimit /\ interval(i) # ""
    BY <2>2, RequestBounds DEF Requested
  <2>4. i \notin HoursOfBybit => interval2value(interval(i)) = Table(i)
    BY <2>2, <2>3, LengthRight
  <2> HIDE DEF n, i
  <2>5. n \in Nat \ {0} /\ Now \in Nat /\ n < Now
    <3>1. MaxLimit \in Nat /\ Now \in Nat /\ MaxLimit < Now
      BY DEF CandlesAssumption
    <3>2. n \in 1..MaxLimit
      BY <2>3
    <3> QED BY <3>1, <3>2
  <2>6. DOMAIN klines = 1..n /\ Len(klines) = n
    <3>1. DOMAIN klines = 1..n /\ klines = [x \in 1..n |-> klines[x]]
      BY <2>2 DEF Klines
    <3> QED BY <2>5, <3>1
  <2> DEFINE m == Now - n + k
  <2>7. k \in 1..n /\ m \in 1..Now /\ Now - (n + 1 - k) = m - 1 /\ Now - n + k - 1 = m - 1
    BY <2>5, <2>6
  <2>8. klines[k] = Bar(Opens(i, m - 1), i)
    <3>1. klines[k] = Bar(Oldest(i, n)[k], i)
      BY <2>2, <2>7 DEF Klines
    <3>2. Oldest(i, n)[k] = Opens(i, Now - (n + 1 - k))
      BY <2>7 DEF Oldest
    <3> QED BY <2>7, <3>1, <3>2
  <2>9. klines[k].start = Opens(i, m - 1)
    BY <2>8 DEF Bar
  <2>0. Now - Len(klines) + k = m /\ Now - Len(klines) + k - 1 = m - 1
    BY <2>6, <2>7
  <2> HIDE DEF m
  <2>10. i \notin HoursOfBybit => klines[k].close - Opens(i, m) \in Late(i)
    <3> SUFFICES ASSUME i \notin HoursOfBybit PROVE klines[k].close - Opens(i, m) \in Late(i)
      OBVIOUS
    <3>1. klines[k].close = Opens(i, m - 1) + Table(i)
      BY <2>4, <2>8 DEF Bar
    <3>2. (Opens(i, m - 1) + Table(i)) - Opens(i, m) \in Late(i)
      BY <2>3, <2>5, <2>7, TableLate
    <3> QED BY <3>1, <3>2, Zenon
  <2> QED BY <2>0, <2>9, <2>10 DEF i
<1> QED BY <1>1, CandlesInvariant, PTL

-----------------------------------------------------------------------------
(* Candles of a stream                                                     *)

(* A candle closes when the exchange's ends, or a month's late.            *)
ClosesRight(e) ==
    e.stream.type \in IntervalNames =>
        e.close - e.ends \in IF exchange = "bybit" THEN {0} ELSE Late(e.stream.type)

CandlesClose == \A c \in Calls : \A e \in Said(told[c], queue[c]) : ClosesRight(e)

(* The stream of a channel is of the type of the call.                     *)
LEMMA TypeOfStream ==
    ASSUME NEW c \in Calls, NEW ch \in Channels(c)
    PROVE  StreamOf(ch).type = ch.type /\ ch.type \in Types(c)
<1>1. PICK ty \in Types(c) : ch = [name |-> Native(c.symbol), type |-> ty]
  BY DEF Channels
<1>2. StreamOf(ch) = [name |-> Lower(ch.name), type |-> ty]
  BY <1>1 DEF StreamOf
<1> QED BY <1>1, <1>2

(* A candle of a call's interval closes when the exchange's ends, or a     *)
(* month's late.                                                           *)
LEMMA CloseRight ==
    ASSUME MarketChannelsAssumption, IntervalsKnown, exchange \in Exchanges, NEW c \in Calls,
           NEW i \in c.intervals, NEW start \in Nat, NEW length \in Lengths(i)
    PROVE  Close(start, i, length) - (start + length)
             \in IF exchange = "bybit" THEN {0} ELSE Late(i)
<1>1. length \in Nat
  BY LengthsNat
<1>2. CASE exchange = "bybit"
  BY <1>1, <1>2 DEF Close
<1>3. CASE exchange # "bybit"
  <2>1. interval2value(interval(i)) = Table(i) /\ i \in IntervalNames
    <3>1. CASE exchange = "bitfinex"
      <4>1. i \in DOMAIN BfxLengths
        BY <3>1, Zenon DEF IntervalsKnown, Calls
      <4> QED BY <3>1, <4>1, BfxRight DEF interval, interval2value, Get
    <3>2. CASE exchange = "huobi"
      <4>1. i \in DOMAIN HtxNames
        BY <3>2 DEF IntervalsKnown, Calls
      <4> QED BY <3>2, <4>1, HtxRight DEF interval, interval2value, Get
    <3>3. CASE exchange = "okx"
      <4>1. i \in DOMAIN OkxNames
        BY <3>3 DEF IntervalsKnown, Calls
      <4>2. i \in IntervalNames
        BY <4>1 DEF OkxNames, IntervalNames
      <4> QED BY <3>3, <4>1, <4>2, OkxRight DEF interval, interval2value, Get
    <3> QED BY <1>3, <3>1, <3>2, <3>3 DEF Exchanges
  <2>2. Table(i) - length \in Late(i) /\ Table(i) \in Nat
    <3>1. CASE i = "1M"
      <4>1. Lengths("1M") = {days * Day : days \in 28..31}
        BY DEF Lengths, Length
      <4>2. PICK days \in 28..31 : length = days * Day
        BY <3>1, <4>1
      <4> QED BY <3>1, <4>2 DEF Table, Late, Day, Hour
    <3>2. CASE i # "1M"
      <4>1. Length[i] \in Nat /\ i \in DOMAIN Length
        BY <2>1, <3>2, LengthPositive DEF Length
      <4>2. length = Length[i]
        BY <3>2, <4>1, Zenon DEF Lengths
      <4>3. Table(i) = Length[i] /\ Late(i) = {0}
        BY <3>2 DEF Table, Late
      <4> QED BY <4>1, <4>2, <4>3
    <3> QED BY <3>1, <3>2
  <2>3. Close(start, i, length) - (start + length) = Table(i) - length
    BY <1>1, <1>3, <2>1, <2>2 DEF Close
  <2> QED BY <1>3, <2>2, <2>3
<1> QED BY <1>2, <1>3

(* The events that close rightly are so by the exchange alone.             *)
LEMMA ClosesKept ==
    ASSUME UNCHANGED exchange
    PROVE  Calls' = Calls /\ \A x : ClosesRight(x)' <=> ClosesRight(x)
BY DEF Calls, ClosesRight

(* A message brings an event of its channel, if it is passed on.           *)
LEMMA EventComes ==
    ASSUME MarketChannelsAssumption, MarketInv, CandlesClose, UNCHANGED <<exchange, told>>,
           NEW s \in streams, NEW e \in Events, e.stream = StreamOf(s.channel), ClosesRight(e),
           fire(e, s.trade) \/ UNCHANGED queue
    PROVE  CandlesClose'
<1>1. Calls' = Calls /\ \A x : ClosesRight(x)' <=> ClosesRight(x)
  BY ClosesKept
<1>2. ASSUME NEW c \in Calls
      PROVE  Said(told[c], queue'[c]) \subseteq Said(told[c], queue[c]) \cup {e}
  <2>1. told[c] \in Seq(Events) /\ queue[c] \in Seq(Events)
    BY DEF MarketInv, MarketTypes
  <2>2. queue'[c] = queue[c] \/ queue'[c] = Append(queue[c], e)
    BY Fired
  <2>3. /\ Said(told[c], Append(queue[c], e)) = Said(told[c], queue[c]) \cup {e}
        /\ Ordered(c, told[c], queue[c]) /\ (\A x \in Said(told[c], queue[c]) : InTurn(c, x, e))
             => Ordered(c, told[c], Append(queue[c], e))
    BY ONLY <2>1, e \in Events, AppendOrdered
  <2> QED BY <2>2, <2>3
<1>3. \A c \in Calls : \A x \in Said(told[c], queue'[c]) : ClosesRight(x)
  BY <1>2 DEF CandlesClose
<1> QED BY <1>1, <1>3 DEF CandlesClose

(* A message of the exchange puts a candle in a queue that closes rightly. *)
LEMMA CandleComes ==
    ASSUME MarketChannelsAssumption, IntervalsKnown, MarketInv, CandlesClose, UNCHANGED exchange,
           NEW s \in streams, NEW stamp \in 1..MaxStamp,
           ws_listener(s, stamp)
    PROVE  CandlesClose'
<1>1. exchange \in Exchanges /\ stamp \in Stamps
  BY MarketBounds DEF MarketInv, Stamps
<1>2. PICK c \in open : c.trade = s.trade /\ s.channel \in Channels(c)
  BY DEF MarketInv, ChannelsAsked
<1>3. c \in Calls /\ s.channel \in AllChannels
  BY <1>2 DEF MarketInv, MarketTypes, AllChannels
<1>4. StreamOf(s.channel).type = s.channel.type /\ s.channel.type \in Types(c)
  BY <1>2, <1>3, TypeOfStream
<1>5. StreamOf(s.channel) \in Streams
  BY <1>1, <1>3, StreamsOfChannels
<1>6. CASE Ticker(s, stamp)
  <2> DEFINE e == [stream |-> StreamOf(s.channel), stamp |-> stamp]
  <2>1. s.channel.type = "miniTicker" /\ UNCHANGED told /\ (fire(e, s.trade) \/ UNCHANGED queue)
    BY <1>6 DEF Ticker, Message
  <2>2. e \in Events /\ e.stream = StreamOf(s.channel) /\ ClosesRight(e)
    BY <1>1, <1>4, <1>5, <2>1, NotIntervals DEF Events, ClosesRight
  <2> HIDE DEF e
  <2> QED BY <2>1, <2>2, EventComes
<1>7. ASSUME NEW length \in Lengths(s.channel.type), Candle(s, stamp, length) PROVE CandlesClose'
  <2> DEFINE i == s.channel.type
             e == [stream |-> StreamOf(s.channel), stamp |-> stamp, close |-> Close(stamp, i, length),
                   ends |-> stamp + length]
  <2>1. i \in IntervalNames /\ UNCHANGED told /\ (fire(e, s.trade) \/ UNCHANGED queue)
    BY <1>7 DEF Candle, Message
  <2>2. c.kind = "klines"
    BY <1>1, <1>2, <1>3, <2>1, KindOfChannel
  <2>3. i \in c.intervals
    BY <1>4, <2>2 DEF Types
  <2>4. stamp \in Nat /\ length \in Nat /\ stamp + length \in Nat
    BY LengthsNat
  <2>5. Close(stamp, i, length) - (stamp + length) \in IF exchange = "bybit" THEN {0} ELSE Late(i)
    BY <1>1, <1>3, <1>7, <2>3, <2>4, CloseRight
  <2>6. e \in Events
    BY <1>1, <1>5, <2>1, <2>4 DEF Events, Closes
  <2>7. e.stream = StreamOf(s.channel) /\ ClosesRight(e)
    BY <1>4, <2>5 DEF ClosesRight
  <2> HIDE DEF e
  <2> QED BY <2>1, <2>6, <2>7, EventComes
<1>8. ASSUME NEW empty \in BOOLEAN, Book(s, stamp, empty) PROVE CandlesClose'
  <2> DEFINE e == [stream |-> StreamOf(s.channel), stamp |-> stamp, empty |-> empty]
  <2>1. s.channel.type = "depth5" /\ UNCHANGED told /\ fire(e, s.trade)
    BY <1>8 DEF Book, Message
  <2>2. e \in Events /\ e.stream = StreamOf(s.channel) /\ ClosesRight(e)
    BY <1>1, <1>4, <1>5, <2>1, NotIntervals DEF Events, ClosesRight
  <2> HIDE DEF e
  <2> QED BY <2>1, <2>2, EventComes
<1> QED BY <1>6, <1>7, <1>8 DEF ws_listener

(* A call passes on what was in its queue.                                 *)
LEMMA CandleRead ==
    ASSUME MarketInv, CandlesClose, UNCHANGED exchange, NEW c \in Calls,
           ReadTicker(c) \/ ReadKlines(c) \/ ReadBook(c)
    PROVE  CandlesClose'
<1>1. /\ told[c] \in Seq(Events) /\ queue[c] \in Seq(Events)
      /\ told \in [Calls -> Seq(Events)] /\ queue \in [Calls -> Seq(Events)]
  BY DEF MarketInv, MarketTypes
<1>2. queue[c] # <<>>
  BY DEF ReadTicker, ReadKlines, ReadBook, Unread
<1>3. Said(told'[c], queue'[c]) \subseteq Said(told[c], queue[c])
  <2>1. CASE ReadTicker(c) \/ ReadKlines(c)
    <3>1. told'[c] = Append(told[c], Head(queue[c])) /\ queue'[c] = Tail(queue[c])
      BY <1>1, <2>1 DEF ReadTicker, ReadKlines, Tell
    <3>2. Said(Append(told[c], Head(queue[c])), Tail(queue[c])) \subseteq Said(told[c], queue[c])
      BY ONLY <1>1, <1>2, EventRead
    <3> QED BY <3>1, <3>2
  <2>2. CASE ReadBook(c)
    <3>1. /\ queue'[c] = <<>>
          /\ told'[c] = told[c] \/ told'[c] = Append(told[c], Last(queue[c]))
      BY <1>1, <2>2 DEF ReadBook, DropOlder, Tell
    <3>2. /\ Said(Append(told[c], Last(queue[c])), <<>>) \subseteq Said(told[c], queue[c])
          /\ Said(told[c], <<>>) \subseteq Said(told[c], queue[c])
      BY ONLY <1>1, <1>2, NewestRead
    <3> QED BY <3>1, <3>2
  <2> QED BY <2>1, <2>2
<1>4. \A d \in Calls \ {c} : told'[d] = told[d] /\ queue'[d] = queue[d]
  BY <1>1 DEF ReadTicker, ReadKlines, ReadBook, Tell
<1>5. Calls' = Calls /\ \A x : ClosesRight(x)' <=> ClosesRight(x)
  BY ClosesKept
<1>6. \A d \in Calls : Said(told'[d], queue'[d]) \subseteq Said(told[d], queue[d])
  BY <1>3, <1>4
<1> QED BY <1>5, <1>6 DEF CandlesClose

(* A strategy is told of candles of the intervals it asked for, each of    *)
(* which closes when the exchange's candle ends; but a month's up to three *)
(* days late, where the exchange does not tell.                            *)
THEOREM StreamedCandlesClose ==
    ASSUME MarketChannelsAssumption, IntervalsKnown
    PROVE  MarketSpec => []CandleCloses
<1>1. exchange \in Exchanges /\ MarketInit => CandlesClose
  <2>1. DOMAIN <<>> = {}
    OBVIOUS
  <2> QED BY <2>1 DEF MarketInit, CandlesClose, Said
<1>2. MarketInv /\ CandlesClose /\ [MarketNext]_<<exchange, marketVars>> => CandlesClose'
  <2> SUFFICES ASSUME MarketInv, CandlesClose, [MarketNext]_<<exchange, marketVars>> PROVE CandlesClose'
    OBVIOUS
  <2>1. UNCHANGED exchange
    BY DEF MarketNext
  <2>2. UNCHANGED <<told, queue>> => CandlesClose'
    <3>1. Calls' = Calls /\ \A x : ClosesRight(x)' <=> ClosesRight(x)
      BY <2>1, ClosesKept
    <3> QED BY <3>1 DEF CandlesClose
  <2>3. CASE UNCHANGED <<exchange, marketVars>>
    BY <2>2, <2>3 DEF marketVars
  <2>4. ASSUME NEW s \in streams, NEW stamp \in 1..MaxStamp,
               ws_listener(s, stamp)
        PROVE  CandlesClose'
    BY <2>1, <2>4, CandleComes
  <2>5. ASSUME NEW c \in Calls, ReadTicker(c) \/ ReadKlines(c) \/ ReadBook(c) PROVE CandlesClose'
    BY <2>1, <2>5, CandleRead
  <2>6. ASSUME NEW c \in Calls, OnTickerUpdate(c) \/ OnOrderBookUpdate(c) \/ OnKlinesUpdate(c)
        PROVE  CandlesClose'
    BY <2>2, <2>6 DEF OnTickerUpdate, OnOrderBookUpdate, OnKlinesUpdate, register_event
  <2>7. ASSUME NEW t \in Trades, StartStream(t) \/ CheckStream(t) \/ StopStream(t) PROVE CandlesClose'
    BY <2>2, <2>7 DEF StartStream, CheckStream, StopStream
  <2>8. CASE Tick
    BY <2>2, <2>8 DEF Tick
  <2> QED BY <2>3, <2>4, <2>5, <2>6, <2>7, <2>8 DEF MarketNext
<1>3. MarketInv /\ CandlesClose => CandleCloses
  <2> SUFFICES ASSUME MarketInv, CandlesClose, NEW c \in Calls, c.kind = "klines", NEW i \in DOMAIN told[c]
               PROVE  /\ told[c][i].stream.type \in c.intervals
                      /\ told[c][i].close - told[c][i].ends
                           \in IF exchange = "bybit" THEN {0} ELSE Late(told[c][i].stream.type)
    BY DEF CandleCloses
  <2> DEFINE e == told[c][i]
  <2>1. e \in Said(told[c], queue[c])
    BY DEF Said
  <2>2. PICK ch \in Channels(c) : e.stream = StreamOf(ch)
    BY <2>1 DEF MarketInv, OwnStreams
  <2>3. e.stream.type \in c.intervals
    BY <2>2, TypeOfStream DEF Types
  <2>4. c.intervals \subseteq IntervalNames
    BY MarketBounds DEF MarketInv
  <2> QED BY <2>1, <2>3, <2>4 DEF CandlesClose, ClosesRight
<1> QED BY <1>1, <1>2, <1>3, MarketInvariant, PTL DEF MarketSpec

-----------------------------------------------------------------------------
(* Ledgers                                                                 *)

Records == Range(Lists) \X Transfers

(* An exchange has one list or three; numbers of records are natural       *)
(* numbers.                                                                *)
LEMMA ListBounds ==
    ASSUME LedgersAssumption, exchange \in Exchanges
    PROVE  /\ Len(Lists) \in Nat \ {0} /\ DOMAIN Lists = 1..Len(Lists)
           /\ IsFiniteSet(Range(Lists)) /\ (ByBit => Lists = <<"internal", "universal", "log">>)
           /\ Kept \in Nat /\ PerAnswer \in Nat /\ Window \in Nat \ {0}
           /\ Listed \in [Transfers -> SUBSET Range(Lists)]
           /\ ~ByBit => \A x \in Transfers : \A l, m \in Listed[x] : l = m
<1>1. /\ exchange = "bitfinex" => Lists = <<"51", "101", "104">>
      /\ ByBit => Lists = <<"internal", "universal", "log">>
      /\ exchange \notin {"bitfinex", "bybit"} => Lists = <<"ledger">>
  BY DEF Lists, ListsOf, ByBit
<1>2. Len(Lists) \in {1, 3} /\ DOMAIN Lists = 1..Len(Lists)
  BY <1>1 DEF ByBit
<1>3. IsFiniteSet(Range(Lists))
  <2> DEFINE n == Len(Lists)
  <2>1. Lists \in Surjection(1..n, Range(Lists))
    <3>1. Lists = [i \in DOMAIN Lists |-> Lists[i]]
      BY <1>1 DEF ByBit
    <3>2. Lists \in [1..n -> Range(Lists)]
      BY <1>2, <3>1 DEF Range
    <3>3. \A l \in Range(Lists) : \E i \in 1..n : Lists[i] = l
      BY <1>2 DEF Range
    <3> QED BY <3>2, <3>3 DEF Surjection
  <2>2. n \in Nat
    BY <1>2
  <2>3. IsFiniteSet(1..n)
    BY <2>2, FS_Interval
  <2> QED BY <2>1, <2>3, FS_Surjection
<1>4. Limit \in Nat /\ BybitPage \in Nat /\ Window \in Nat \ {0}
  BY DEF LedgersAssumption
<1>5. Kept \in Nat /\ PerAnswer \in Nat
  <2>1. Limit * Len(Lists) \in Nat
    BY <1>2, <1>4
  <2>2. Limit * 4 \in Nat
    BY <1>4
  <2> QED BY <1>4, <2>1, <2>2 DEF Kept, PerAnswer
<1>6. Listed \in [Transfers -> SUBSET Range(Lists)]
  BY DEF LedgersAssumption, Listed, Lists
<1>7. ~ByBit => \A x \in Transfers : \A l, m \in Listed[x] : l = m
  BY DEF LedgersAssumption, Listed, ByBit
<1> QED BY <1>1, <1>2, <1>3, <1>4, <1>5, <1>6, <1>7

(* Transfers are numbered as they occur.                                   *)
Numbered ==
    /\ IsFiniteSet(Happened) /\ \A x \in Happened : occurred[x] <= Cardinality(Happened)
    /\ \A x, y \in Happened : occurred[x] = occurred[y] => x = y
    /\ \A x \in Happened : Listed[x] # {}
    /\ \A x \in Transfers \ Happened : since[x] = 0

LedgersTypes ==
    /\ exchange \in Exchanges
    /\ occurred \in [Transfers -> Nat] /\ since \in [Transfers -> 0..(2 * Window + 1)]
    /\ ledgers_id \in Seq(Records) /\ Len(ledgers_id) <= Kept
    /\ asked \in [Pollers -> 0..Len(Lists)] /\ balances \in [Pollers -> Seq(Records)]
    /\ polled \subseteq streaming /\ streaming \subseteq Pollers
    /\ ts_start \in [Range(Symbol) -> SUBSET Happened] /\ began \in [Pollers -> SUBSET Happened]
    /\ reported \in [Pollers -> [Transfers -> 0..2]]

(* A stream that has called, or has ended, has nothing in hand; what a     *)
(* stream has in hand is of the lists it has asked for, recent, and        *)
(* concerns its trade.                                                     *)
InHand ==
    /\ \A t \in Pollers : /\ t \in polled \/ t \notin streaming => asked[t] = 0
                          /\ asked[t] = 0 => balances[t] = <<>>
    /\ \A t \in Pollers : \A id \in Range(balances[t]) :
         /\ \E k \in 1..asked[t] : id[1] = Lists[k]
         /\ id[2] \in Recent(id[1]) /\ t \in Concerned[id[2]]

PollInv == LedgersTypes /\ Numbered /\ InHand

(* An answer has the latest records of a list, those that concern the      *)
(* trade.                                                                  *)
LEMMA AnswerHas ==
    ASSUME LedgersAssumption, LedgersTypes, Numbered, NEW t \in Pollers, NEW l \in Range(Lists)
    PROVE  /\ Answered(t, l) \in Seq(Records)
           /\ Range(Answered(t, l)) = {l} \X {x \in Latest(t, l) : t \in Concerned[x]}
<1> DEFINE S == {l} \X {x \in Latest(t, l) : t \in Concerned[x]}
           key == [id \in S |-> 0 - occurred[id[2]]]
<1>1. Latest(t, l) \subseteq Happened /\ Happened \subseteq Transfers
  BY DEF Latest, Wanted, Recent, Happened
<1>2. S \subseteq {l} \X Happened
  BY <1>1
<1>3. IsFiniteSet(S)
  <2>1. IsFiniteSet({l}) /\ IsFiniteSet(Happened)
    BY FS_Singleton DEF Numbered
  <2>2. IsFiniteSet({l} \X Happened)
    BY <2>1, FS_Product
  <2> QED BY <1>2, <2>2, FS_Subset
<1>4. \A id \in S : id[2] \in Happened /\ id[1] = l /\ occurred[id[2]] \in Int /\ id = <<id[1], id[2]>>
  BY <1>1, <1>2 DEF LedgersTypes
<1>5. Answered(t, l) = SortedBy(S, key)
  BY DEF Answered
<1> HIDE DEF S
<1>6. key \in [S -> Int]
  BY <1>4
<1>7. \A x, y \in S : key[x] = key[y] => x = y
  <2> SUFFICES ASSUME NEW x \in S, NEW y \in S, 0 - occurred[x[2]] = 0 - occurred[y[2]] PROVE x = y
    OBVIOUS
  <2>1. occurred[x[2]] = occurred[y[2]]
    BY <1>4
  <2>2. x[2] = y[2]
    BY <1>4, <2>1 DEF Numbered
  <2> QED BY <1>4, <2>2
<1> HIDE DEF key
<1>8. SortedBy(S, key) \in Seq(S) /\ Range(SortedBy(S, key)) = S
  BY <1>3, <1>6, <1>7, SortedRange
<1>9. S \subseteq Records
  BY <1>1, <1>2 DEF Records
<1>10. SortedBy(S, key) \in Seq(Records)
  BY <1>8, <1>9, SeqMonotonic
<1> QED BY <1>5, <1>8, <1>10 DEF S

-----------------------------------------------------------------------------
(* The records that are new to a client                                    *)

Accs == [ids : Seq(Records), new : Seq(Records)]

(* The records in hand are taken one after the other.                      *)
Takes(f, t) ==
    /\ f \in [0..Len(balances[t]) -> Accs]
    /\ f[0] = [ids |-> ledgers_id, new |-> <<>>]
    /\ \A i \in 1..Len(balances[t]) : f[i] = Take(f[i - 1], balances[t][i])
    /\ New(t) = f[Len(balances[t])]

(* A record taken leaves lists of records.                                 *)
LEMMA TakeKind ==
    ASSUME NEW acc \in Accs, NEW id \in Records
    PROVE  Take(acc, id) \in Accs
<1>1. acc.ids \in Seq(Records) /\ acc.new \in Seq(Records)
  BY DEF Accs
<1> DEFINE T == Records
<1> HIDE DEF T
<1>2. Append(acc.ids, id) \in Seq(T) /\ Append(acc.new, id) \in Seq(T) /\ Append(acc.ids, id) # <<>>
  BY <1>1, AppendProperties DEF T
<1>3. Tail(Append(acc.ids, id)) \in Seq(T)
  BY <1>2, HeadTailProperties
<1>4. RememberId(acc.ids, id) \in Seq(T)
  BY <1>2, <1>3 DEF RememberId
<1> QED BY <1>2, <1>4 DEF Take, Accs, T

(* New is what the last turn of the loop over the records in hand leaves.  *)
LEMMA NewTakes ==
    ASSUME LedgersTypes, NEW t \in Pollers
    PROVE  \E f : Takes(f, t)
<1> DEFINE n == Len(balances[t])
           d == [ids |-> ledgers_id, new |-> <<>>]
           Loops(f) == f = [i \in 0..n |-> IF i = 0 THEN d ELSE Take(f[i - 1], balances[t][i])]
           after == CHOOSE f : Loops(f)
<1>1. n \in Nat /\ balances[t] \in Seq(Records) /\ \A i \in 1..n : balances[t][i] \in Records
  <2>1. balances[t] \in Seq(Records)
    BY DEF LedgersTypes
  <2> QED BY <2>1, LenProperties, ElementOfSeq
<1>2. d \in Accs
  BY EmptySeq DEF LedgersTypes, Accs
<1> DEFINE step == [i \in 1..n |-> [acc \in Accs |-> Take(acc, balances[t][i])]]
<1>3. step \in Turns(n, Accs)
  BY <1>1, TakeKind DEF Turns
<1>4. \A i \in 1..n, acc \in Accs : step[i][acc] = Take(acc, balances[t][i])
  OBVIOUS
<1>5. New(t) = after[n]
  BY DEF New
<1> HIDE DEF step, n, d, after
<1>6. PICK f \in [0..n -> Accs] : Runs(f, n, d, step)
  BY <1>1, <1>2, <1>3, Loop
<1>7. \A i \in 1..n : i - 1 \in 0..n /\ i \in 0..n /\ i # 0
  BY <1>1
<1>8. \A i \in 1..n : f[i] = Take(f[i - 1], balances[t][i])
  BY <1>4, <1>6, <1>7 DEF Runs
<1>9. \A i \in 0..n : i = 0 \/ i \in 1..n
  BY <1>1
<1>10. Loops(f)
  BY <1>6, <1>8, <1>9 DEF Runs
<1>11. Loops(after)
  BY <1>10 DEF after
<1>12. after[0] = d /\ \A i \in 1..n : after[i] = Take(after[i - 1], balances[t][i])
  BY <1>1, <1>7, <1>11
<1>13. after \in [0..n -> Accs]
  <2> DEFINE S == {i \in 0..n : after[i] \in Accs}
  <2>1. 0 \in S
    BY <1>1, <1>2, <1>12
  <2>2. \A i \in 0..(n - 1) : i \in S => i + 1 \in S
    <3> SUFFICES ASSUME NEW i \in 0..(n - 1), after[i] \in Accs PROVE i + 1 \in S
      OBVIOUS
    <3>1. i + 1 \in 1..n /\ (i + 1) - 1 = i /\ i + 1 \in 0..n
      BY <1>1
    <3>2. after[i + 1] = Take(after[i], balances[t][i + 1])
      BY <1>12, <3>1
    <3> QED BY <1>1, <3>1, <3>2, TakeKind
  <2> HIDE DEF S
  <2>3. \A i \in 0..n : i \in S
    BY <1>1, <2>1, <2>2, Induction
  <2>4. after = [i \in 0..n |-> after[i]]
    BY <1>11
  <2>5. \A i \in 0..n : after[i] \in Accs
    BY <2>3 DEF S
  <2> QED BY <2>4, <2>5
<1>14. Takes(after, t)
  BY <1>5, <1>12, <1>13 DEF Takes, n, d
<1> QED BY <1>14

(* The elements of a sequence that one was appended to,                    *)
LEMMA RangeOfAppend ==
    ASSUME NEW T, NEW s \in Seq(T), NEW e \in T
    PROVE  /\ Append(s, e) \in Seq(T) /\ Append(s, e) # <<>> /\ Len(Append(s, e)) = Len(s) + 1
           /\ \A i \in 1..Len(s) : Append(s, e)[i] = s[i]
           /\ Append(s, e)[Len(s) + 1] = e
           /\ Range(Append(s, e)) = Range(s) \cup {e}
<1> DEFINE r == Append(s, e)
<1>1. /\ r \in Seq(T) /\ r # <<>> /\ Len(r) = Len(s) + 1
      /\ \A i \in 1..Len(s) : r[i] = s[i]
      /\ r[Len(s) + 1] = e
  BY AppendProperties
<1> HIDE DEF r
<1>2. DOMAIN s = 1..Len(s) /\ DOMAIN r = 1..Len(r) /\ Len(s) \in Nat
  BY <1>1, LenProperties
<1>3. \A i \in DOMAIN r : i = Len(s) + 1 \/ i \in DOMAIN s
  BY <1>1, <1>2
<1>4. Len(s) + 1 \in DOMAIN r /\ \A i \in DOMAIN s : i \in DOMAIN r
  BY <1>1, <1>2
<1>5. Range(r) = Range(s) \cup {e}
  BY <1>1, <1>2, <1>3, <1>4 DEF Range
<1> QED BY <1>1, <1>5 DEF r

(* ... and of one whose first was taken away.                              *)
LEMMA RangeOfTail ==
    ASSUME NEW T, NEW s \in Seq(T), s # <<>>
    PROVE  Range(Tail(s)) \subseteq Range(s) /\ Range(s) \subseteq Range(Tail(s)) \cup {s[1]}
<1> DEFINE r == Tail(s)
<1>1. r \in Seq(T) /\ Len(r) = Len(s) - 1 /\ \A i \in 1..Len(r) : r[i] = s[i + 1]
  BY HeadTailProperties
<1>2. DOMAIN s = 1..Len(s) /\ Len(s) \in Nat \ {0}
  BY LenProperties, EmptySeq
<1>3. DOMAIN r = 1..Len(r)
  BY <1>1, LenProperties
<1> HIDE DEF r
<1>4. \A i \in DOMAIN r : i + 1 \in DOMAIN s /\ r[i] = s[i + 1]
  BY <1>1, <1>2, <1>3
<1>5. \A i \in DOMAIN s : i = 1 \/ (i - 1 \in DOMAIN r /\ r[i - 1] = s[i])
  <2> SUFFICES ASSUME NEW i \in DOMAIN s, i # 1 PROVE i - 1 \in DOMAIN r /\ r[i - 1] = s[i]
    OBVIOUS
  <2>1. i - 1 \in DOMAIN r /\ (i - 1) + 1 = i
    BY <1>1, <1>2, <1>3
  <2> QED BY <1>4, <2>1
<1>6. Range(r) \subseteq Range(s) /\ Range(s) \subseteq Range(r) \cup {s[1]}
  BY <1>4, <1>5 DEF Range
<1> QED BY <1>6 DEF r

(* One record: it is known, or new and remembered.                         *)
LEMMA TakeOne ==
    ASSUME NEW acc \in Accs, NEW id \in Records, Kept \in Nat, Len(acc.ids) <= Kept
    PROVE  /\ Take(acc, id) \in Accs /\ Len(Take(acc, id).ids) <= Kept
           /\ id \in Range(acc.ids) => Take(acc, id) = acc
           /\ id \notin Range(acc.ids) =>
                /\ Take(acc, id).new = Append(acc.new, id)
                /\ Range(Take(acc, id).new) = Range(acc.new) \cup {id}
                /\ Take(acc, id).ids = RememberId(acc.ids, id)
                /\ Range(Take(acc, id).ids) \subseteq Range(acc.ids) \cup {id}
<1> DEFINE T == Records
           more == Append(acc.ids, id)
           a == Take(acc, id)
<1> HIDE DEF T
<1>1. acc.ids \in Seq(T) /\ acc.new \in Seq(T) /\ id \in T
  BY DEF Accs, T
<1>2. /\ more \in Seq(T) /\ more # <<>> /\ Len(more) = Len(acc.ids) + 1
      /\ Range(more) = Range(acc.ids) \cup {id}
  BY <1>1, RangeOfAppend
<1>3. Range(Append(acc.new, id)) = Range(acc.new) \cup {id}
  BY <1>1, RangeOfAppend
<1>4. Tail(more) \in Seq(T) /\ Len(Tail(more)) = Len(more) - 1 /\ Range(Tail(more)) \subseteq Range(more)
  BY <1>2, HeadTailProperties, RangeOfTail
<1>5. Len(acc.ids) \in Nat
  BY <1>1, LenProperties
<1>6. RememberId(acc.ids, id) = IF Len(more) > Kept THEN Tail(more) ELSE more
  BY DEF RememberId
<1> HIDE DEF more
<1>7. Len(RememberId(acc.ids, id)) <= Kept /\ Range(RememberId(acc.ids, id)) \subseteq Range(acc.ids) \cup {id}
  BY <1>2, <1>4, <1>5, <1>6
<1>8. a = IF id \in Range(acc.ids) THEN acc
          ELSE [ids |-> RememberId(acc.ids, id), new |-> Append(acc.new, id)]
  BY DEF Take
<1>9. a \in Accs
  BY TakeKind
<1> HIDE DEF a
<1> QED BY <1>3, <1>7, <1>8, <1>9 DEF a

(* Each record in hand was known or is new, and what is remembered was     *)
(* known or is new.                                                        *)
LEMMA NewIs ==
    ASSUME LedgersTypes, Kept \in Nat, NEW t \in Pollers
    PROVE  /\ New(t) \in Accs /\ Len(New(t).ids) <= Kept
           /\ Range(New(t).ids) \subseteq Range(ledgers_id) \cup Range(New(t).new)
           /\ Range(New(t).new) \subseteq Range(balances[t])
           /\ Range(balances[t]) \subseteq Range(ledgers_id) \cup Range(New(t).new)
<1> DEFINE b == balances[t]
           n == Len(b)
<1>1. PICK f : Takes(f, t)
  BY NewTakes
<1>2. /\ f \in [0..n -> Accs] /\ f[0] = [ids |-> ledgers_id, new |-> <<>>]
      /\ \A i \in 1..n : f[i] = Take(f[i - 1], b[i])
      /\ New(t) = f[n]
  BY <1>1 DEF Takes
<1>3. n \in Nat /\ DOMAIN b = 1..n /\ \A i \in 1..n : b[i] \in Records
  <2>1. b \in Seq(Records)
    BY DEF LedgersTypes
  <2> QED BY <2>1, LenProperties, ElementOfSeq
<1> HIDE DEF n, b
<1> DEFINE Right(i) ==
             /\ Len(f[i].ids) <= Kept
             /\ Range(f[i].ids) \subseteq Range(ledgers_id) \cup Range(f[i].new)
             /\ Range(f[i].new) \subseteq Range(b)
             /\ \A j \in 1..i : b[j] \in Range(ledgers_id) \cup Range(f[i].new)
           S == {i \in 0..n : Right(i)}
<1>4. 0 \in S
  <2>1. f[0].ids = ledgers_id /\ f[0].new = <<>> /\ Range(<<>>) = {}
    BY <1>2 DEF Range
  <2>2. Right(0)
    BY <2>1 DEF LedgersTypes
  <2> QED BY <1>3, <2>2
<1>5. ASSUME NEW i \in 0..(n - 1), i \in S PROVE i + 1 \in S
  <2> DEFINE acc == f[i]
             id == b[i + 1]
             a == f[i + 1]
  <2>1. i + 1 \in 1..n /\ i + 1 \in 0..n /\ i \in 0..n /\ (i + 1) - 1 = i
    BY <1>3
  <2>2. Right(i)
    <3> HIDE DEF Right
    <3> QED BY <1>5
  <2>3. acc \in Accs /\ id \in Records /\ a = Take(acc, id) /\ id \in Range(b)
    BY <1>2, <1>3, <2>1 DEF Range
  <2> HIDE DEF acc, id, a
  <2>4. /\ Len(a.ids) <= Kept
        /\ id \in Range(acc.ids) => a = acc
        /\ id \notin Range(acc.ids) =>
             /\ Range(a.new) = Range(acc.new) \cup {id}
             /\ Range(a.ids) \subseteq Range(acc.ids) \cup {id}
    <3>1. Len(acc.ids) <= Kept
      BY <2>2 DEF acc
    <3> QED BY <2>3, <3>1, TakeOne
  <2>5. /\ Range(acc.ids) \subseteq Range(ledgers_id) \cup Range(acc.new)
        /\ Range(acc.new) \subseteq Range(b)
        /\ \A j \in 1..i : b[j] \in Range(ledgers_id) \cup Range(acc.new)
    BY <2>2 DEF acc
  <2>6. Range(acc.new) \subseteq Range(a.new) /\ Range(a.new) \subseteq Range(b)
        /\ Range(a.ids) \subseteq Range(ledgers_id) \cup Range(a.new)
        /\ id \in Range(ledgers_id) \cup Range(a.new)
    BY <2>3, <2>4, <2>5
  <2>7. \A j \in 1..(i + 1) : j = i + 1 \/ j \in 1..i
    BY <2>1
  <2>8. \A j \in 1..(i + 1) : b[j] \in Range(ledgers_id) \cup Range(a.new)
    BY <2>5, <2>6, <2>7 DEF id
  <2>9. Right(i + 1)
    BY <2>4, <2>6, <2>8 DEF a
  <2> HIDE DEF Right
  <2> QED BY <2>1, <2>9
<1> HIDE DEF S
<1>6. \A i \in 0..n : i \in S
  BY <1>3, <1>4, <1>5, Induction
<1>7. n \in 0..n
  BY <1>3
<1>8. Right(n)
  <2> HIDE DEF Right
  <2> QED BY <1>6, <1>7 DEF S
<1>9. Range(b) \subseteq Range(ledgers_id) \cup Range(New(t).new)
  BY <1>2, <1>3, <1>8 DEF Range
<1> QED BY <1>2, <1>7, <1>8, <1>9 DEF b

(* The count of reports grows when a record of the transfer is new, by one *)
(* if one is.                                                              *)
LEMMA CountedFew ==
    ASSUME NEW m \in 0..2, NEW x, NEW new \in Seq(Records)
    PROVE  /\ Counted(m, x, new) \in 0..2
           /\ m > 0 => Counted(m, x, new) > 0
           /\ (\E id \in Range(new) : id[2] = x) => Counted(m, x, new) > 0
           /\ (\A id \in Range(new) : id[2] # x) => Counted(m, x, new) = m
           /\ (\A i, j \in DOMAIN new : new[i][2] = x /\ new[j][2] = x => i = j)
                => Counted(m, x, new) <= m + 1
<1> DEFINE S == {i \in DOMAIN new : new[i][2] = x}
<1>1. IsFiniteSet(S) /\ Cardinality(S) \in Nat
  <2>1. DOMAIN new = 1..Len(new) /\ Len(new) \in Nat
    BY LenProperties
  <2>2. IsFiniteSet(DOMAIN new) /\ S \in SUBSET DOMAIN new
    <3>1. IsFiniteSet(1..Len(new))
      BY <2>1, FS_Interval
    <3>2. S \subseteq DOMAIN new
      OBVIOUS
    <3> HIDE DEF S
    <3> QED BY <2>1, <3>1, <3>2
  <2>3. IsFiniteSet(S)
    BY <2>2, FS_Subset
  <2> QED BY <2>3, FS_CardinalityType
<1>2. Counted(m, x, new) = IF m + Cardinality(S) > 2 THEN 2 ELSE m + Cardinality(S)
  BY DEF Counted
<1>3. Cardinality(S) = 0 <=> S = {}
  BY <1>1, FS_EmptySet
<1>4. (\E id \in Range(new) : id[2] = x) <=> S # {}
  BY DEF Range
<1>5. (\A i, j \in DOMAIN new : new[i][2] = x /\ new[j][2] = x => i = j) => Cardinality(S) <= 1
  <2> SUFFICES ASSUME \A i, j \in S : i = j, S # {} PROVE Cardinality(S) = 1
    BY <1>1, <1>3
  <2>1. \E i : S = {i}
    <3>1. PICK i : i \in S
      OBVIOUS
    <3>2. S = {i}
      BY <3>1
    <3> QED BY <3>2
  <2> HIDE DEF S
  <2> QED BY <1>1, <2>1, FS_Singleton
<1> HIDE DEF S
<1>6. Counted(m, x, new) \in 0..2 /\ (m > 0 => Counted(m, x, new) > 0)
  BY <1>1, <1>2
<1>7. (\E id \in Range(new) : id[2] = x) => Counted(m, x, new) > 0
  BY <1>1, <1>2, <1>3, <1>4
<1>8. (\A id \in Range(new) : id[2] # x) => Counted(m, x, new) = m
  BY <1>1, <1>2, <1>3, <1>4
<1>9. (\A i, j \in DOMAIN new : new[i][2] = x /\ new[j][2] = x => i = j) => Counted(m, x, new) <= m + 1
  BY <1>1, <1>2, <1>5
<1> QED BY <1>6, <1>7, <1>8, <1>9

(* What depends on the exchange alone stays as it is.                      *)
LEMMA ListsKept ==
    ASSUME UNCHANGED exchange
    PROVE  /\ Lists' = Lists /\ Listed' = Listed /\ Kept' = Kept /\ PerAnswer' = PerAnswer
           /\ Records' = Records /\ ByBit' = ByBit
<1>1. Lists' = Lists /\ ByBit' = ByBit
  BY DEF Lists, ByBit
<1> QED BY <1>1 DEF Listed, Kept, PerAnswer, Records

(* At first nothing has occurred and no stream has called.                 *)
LEMMA PollBegins ==
    ASSUME LedgersAssumption, exchange \in Exchanges, LedgersInit
    PROVE  PollInv
<1>1. Window \in Nat /\ Kept \in Nat /\ Len(Lists) \in Nat
  BY ListBounds
<1>2. <<>> \in Seq(Records) /\ Len(<<>>) = 0 /\ Range(<<>>) = {}
  BY EmptySeq DEF Range
<1>3. Happened = {}
  BY DEF LedgersInit, Happened
<1>4. LedgersTypes
  BY <1>1, <1>2 DEF LedgersInit, LedgersTypes
<1>5. Numbered
  BY <1>3, FS_EmptySet DEF LedgersInit, Numbered
<1>6. InHand
  BY <1>2 DEF LedgersInit, InHand
<1> QED BY <1>4, <1>5, <1>6 DEF PollInv

(* A transfer occurs: it has the next number.                              *)
LEMMA PollTransfer ==
    ASSUME LedgersAssumption, PollInv, UNCHANGED exchange, NEW x \in Transfers, Transfer(x)
    PROVE  PollInv'
<1> USE ListsKept DEF PollInv
<1>1. /\ x \notin Happened /\ Listed[x] # {}
      /\ occurred' = [occurred EXCEPT ![x] = Cardinality(Happened) + 1]
      /\ UNCHANGED <<since, ledgers_id, asked, balances, polled, reported, streamVars>>
  BY DEF Transfer
<1>2. IsFiniteSet(Happened) /\ Cardinality(Happened) \in Nat
  BY FS_CardinalityType DEF Numbered
<1>3. /\ Happened' = Happened \cup {x} /\ occurred' \in [Transfers -> Nat]
      /\ \A y \in Happened : occurred'[y] = occurred[y]
      /\ occurred'[x] = Cardinality(Happened) + 1
  <2>1. occurred \in [Transfers -> Nat] /\ Cardinality(Happened) + 1 \in Nat \ {0}
    BY <1>2 DEF LedgersTypes
  <2> DEFINE m == Cardinality(Happened) + 1
  <2> HIDE DEF m
  <2>2. /\ occurred' \in [Transfers -> Nat] /\ occurred'[x] = m
        /\ \A y \in Transfers \ {x} : occurred'[y] = occurred[y]
    BY <1>1, <2>1 DEF m
  <2>3. \A y \in Transfers : y \in Happened' <=> y = x \/ y \in Happened
    BY <2>1, <2>2 DEF Happened, m
  <2>4. Happened \subseteq Transfers /\ Happened' \subseteq Transfers
    BY DEF Happened
  <2>5. Happened' = Happened \cup {x}
    BY <2>3, <2>4
  <2> QED BY <1>1, <2>2, <2>4, <2>5 DEF m
<1>4. IsFiniteSet(Happened') /\ Cardinality(Happened') = Cardinality(Happened) + 1
  BY <1>1, <1>2, <1>3, FS_AddElement
<1>5. LedgersTypes'
  BY <1>1, <1>3 DEF streamVars, LedgersTypes
<1>6. Numbered'
  <2>1. \A y \in Happened : occurred[y] \in Nat /\ occurred[y] <= Cardinality(Happened)
    BY DEF Numbered, Happened, LedgersTypes
  <2>2. \A y \in Happened' : occurred'[y] <= Cardinality(Happened')
    BY <1>2, <1>3, <1>4, <2>1
  <2>3. \A y, z \in Happened' : occurred'[y] = occurred'[z] => y = z
    <3>1. \A y \in Happened : occurred'[y] # occurred'[x]
      BY <1>2, <1>3, <2>1
    <3> QED BY <1>3, <3>1 DEF Numbered
  <2>4. \A y \in Happened' : Listed'[y] # {}
    BY <1>1, <1>3 DEF Numbered
  <2>5. \A y \in Transfers \ Happened' : since'[y] = 0
    BY <1>1, <1>3 DEF Numbered
  <2> QED BY <1>4, <2>2, <2>3, <2>4, <2>5 DEF Numbered
<1>7. \A l : Recent(l) \subseteq Recent(l)'
  BY <1>1, <1>3 DEF Recent
<1>8. InHand'
  BY <1>1, <1>7 DEF streamVars, InHand
<1> QED BY <1>5, <1>6, <1>8

(* A unit of time passes: no stream has anything in hand.                  *)
LEMMA PollAgain ==
    ASSUME LedgersAssumption, PollInv, UNCHANGED exchange, NextPoll
    PROVE  PollInv'
<1> USE ListsKept DEF PollInv
<1>1. /\ polled = streaming /\ polled' = {}
      /\ since' = [y \in Transfers |-> IF y \in Happened /\ since[y] <= 2 * Window
                                       THEN since[y] + 1 ELSE since[y]]
      /\ UNCHANGED <<occurred, ledgers_id, asked, balances, reported, streamVars>>
  BY DEF NextPoll
<1>2. Window \in Nat
  BY ListBounds DEF LedgersTypes
<1>3. since' \in [Transfers -> 0..(2 * Window + 1)]
  <2>1. \A y \in Transfers : since[y] \in 0..(2 * Window + 1)
    BY DEF LedgersTypes
  <2> QED BY <1>1, <1>2, <2>1
<1>5. Happened' = Happened
  BY <1>1 DEF Happened
<1>4. LedgersTypes'
  BY <1>1, <1>3, <1>5 DEF streamVars, LedgersTypes
<1>6. Numbered'
  BY <1>1, <1>5 DEF Numbered
<1>7. InHand'
  <2>1. \A t \in Pollers : asked[t] = 0 /\ balances[t] = <<>>
    BY <1>1 DEF InHand
  <2>2. Range(<<>>) = {}
    BY DEF Range
  <2> QED BY <1>1, <2>1, <2>2 DEF streamVars, InHand
<1> QED BY <1>4, <1>6, <1>7

(* A stream asks for a list: it has the recent records of one list more.   *)
LEMMA PollAsks ==
    ASSUME LedgersAssumption, PollInv, UNCHANGED exchange, NEW t \in Pollers, SendApiCall(t)
    PROVE  /\ PollInv' /\ asked[t] + 1 \in 1..Len(Lists) /\ Lists[asked[t] + 1] \in Range(Lists)
           /\ Range(balances'[t]) = Range(balances[t])
                \cup ({Lists[asked[t] + 1]} \X {x \in Latest(t, Lists[asked[t] + 1]) : t \in Concerned[x]})
<1> USE ListsKept DEF PollInv
<1> DEFINE l == Lists[asked[t] + 1]
           a == Answered(t, l)
<1>1. /\ t \in streaming \ polled /\ asked[t] < LastNeeded(t) /\ asked' = [asked EXCEPT ![t] = asked[t] + 1]
      /\ balances' = [balances EXCEPT ![t] = balances[t] \o a]
      /\ UNCHANGED <<occurred, since, ledgers_id, polled, reported, streamVars>>
  BY DEF SendApiCall
<1>2. /\ Len(Lists) \in Nat \ {0} /\ DOMAIN Lists = 1..Len(Lists)
  BY ListBounds DEF LedgersTypes
<1>3. asked[t] \in 0..Len(Lists) /\ balances[t] \in Seq(Records)
  BY DEF LedgersTypes
<1>4. LastNeeded(t) <= Len(Lists)
  BY <1>2 DEF LastNeeded
<1>5. asked[t] + 1 \in 1..Len(Lists)
  <2>1. LastNeeded(t) \in Int
    BY <1>2 DEF LastNeeded
  <2> QED BY <1>1, <1>2, <1>3, <1>4, <2>1
<1>6. l \in Range(Lists)
  BY <1>2, <1>5 DEF Range
<1>7. a \in Seq(Records) /\ Range(a) = {l} \X {x \in Latest(t, l) : t \in Concerned[x]}
  BY <1>6, AnswerHas
<1> HIDE DEF a
<1>8. /\ balances[t] \o a \in Seq(Records)
      /\ Range(balances[t] \o a) = Range(balances[t]) \cup Range(a)
  BY <1>3, <1>7, ConcatProperties, RangeConcatenation
<1>9. /\ asked' \in [Pollers -> 0..Len(Lists)] /\ asked'[t] = asked[t] + 1
      /\ balances' \in [Pollers -> Seq(Records)] /\ balances'[t] = balances[t] \o a
      /\ \A u \in Pollers \ {t} : asked'[u] = asked[u] /\ balances'[u] = balances[u]
  BY <1>1, <1>2, <1>5, <1>8 DEF LedgersTypes
<1>11. Numbered' /\ Happened' = Happened /\ \A m : Recent(m)' = Recent(m)
  BY <1>1 DEF Numbered, Happened, Recent
<1>10. LedgersTypes'
  BY <1>1, <1>9, <1>11 DEF streamVars, LedgersTypes
<1>12. InHand'
  <2>1. \A u \in Pollers : /\ u \in polled \/ u \notin streaming => asked'[u] = 0
                           /\ asked'[u] = 0 => balances'[u] = <<>>
    <3>1. asked'[t] # 0
      BY <1>3, <1>9
    <3>2. t \notin polled /\ t \in streaming
      BY <1>1
    <3>3. ASSUME NEW u \in Pollers \ {t}
          PROVE  /\ u \in polled \/ u \notin streaming => asked'[u] = 0
                 /\ asked'[u] = 0 => balances'[u] = <<>>
      <4>1. asked'[u] = asked[u] /\ balances'[u] = balances[u]
        BY <1>9
      <4> QED BY <4>1 DEF InHand
    <3> QED BY <3>1, <3>2, <3>3
  <2>2. ASSUME NEW id \in Range(balances'[t])
        PROVE  /\ \E k \in 1..asked'[t] : id[1] = Lists[k]
               /\ id[2] \in Recent(id[1]) /\ t \in Concerned[id[2]]
    <3>1. CASE id \in Range(balances[t])
      <4>1. \A k \in 1..asked[t] : k \in 1..asked'[t]
        BY <1>3, <1>9
      <4> QED BY <3>1, <4>1 DEF InHand
    <3>2. CASE id \in Range(a)
      <4>1. id[1] = l /\ id[2] \in Recent(l) /\ t \in Concerned[id[2]]
        BY <1>7, <3>2 DEF Latest, Wanted
      <4>2. asked[t] + 1 \in 1..asked'[t]
        BY <1>3, <1>9
      <4> QED BY <4>1, <4>2
    <3> QED BY <1>8, <1>9, <3>1, <3>2
  <2>3. \A u \in Pollers \ {t} : \A id \in Range(balances'[u]) :
          /\ \E k \in 1..asked'[u] : id[1] = Lists[k]
          /\ id[2] \in Recent(id[1]) /\ u \in Concerned[id[2]]
    <3> SUFFICES ASSUME NEW u \in Pollers \ {t}
                 PROVE  \A id \in Range(balances'[u]) :
                          /\ \E k \in 1..asked'[u] : id[1] = Lists[k]
                          /\ id[2] \in Recent(id[1]) /\ u \in Concerned[id[2]]
      OBVIOUS
    <3>1. asked'[u] = asked[u] /\ balances'[u] = balances[u]
      BY <1>9
    <3> QED BY <3>1 DEF InHand
  <2> HIDE DEF l
  <2> QED BY <1>1, <1>11, <2>1, <2>2, <2>3 DEF streamVars, InHand
<1> QED BY <1>5, <1>6, <1>7, <1>8, <1>9, <1>10, <1>11, <1>12

(* A stream has asked for all lists: nothing is left in its hand.          *)
LEMMA PollEnds ==
    ASSUME LedgersAssumption, PollInv, UNCHANGED exchange, NEW t \in Pollers, FetchLedgers(t)
    PROVE  PollInv'
<1> USE ListsKept DEF PollInv
<1>1. /\ ledgers_id' = New(t).ids
      /\ reported' = [reported EXCEPT ![t] =
           [x \in Transfers |-> Counted(reported[t][x], x, New(t).new)]]
      /\ asked' = [asked EXCEPT ![t] = 0] /\ balances' = [balances EXCEPT ![t] = <<>>]
      /\ polled' = polled \cup {t} /\ t \in streaming
      /\ UNCHANGED <<occurred, since, streamVars>>
  BY DEF FetchLedgers
<1>2. Kept \in Nat /\ Len(Lists) \in Nat
  BY ListBounds DEF LedgersTypes
<1>3. New(t).ids \in Seq(Records) /\ New(t).new \in Seq(Records) /\ Len(New(t).ids) <= Kept
  BY <1>2, NewIs DEF Accs
<1>4. [x \in Transfers |-> Counted(reported[t][x], x, New(t).new)] \in [Transfers -> 0..2]
  <2>1. \A x \in Transfers : reported[t][x] \in 0..2
    BY DEF LedgersTypes
  <2> QED BY <1>3, <2>1, CountedFew
<1>5. /\ reported' \in [Pollers -> [Transfers -> 0..2]]
      /\ asked' \in [Pollers -> 0..Len(Lists)] /\ asked'[t] = 0
      /\ balances' \in [Pollers -> Seq(Records)] /\ balances'[t] = <<>>
      /\ \A u \in Pollers \ {t} : asked'[u] = asked[u] /\ balances'[u] = balances[u]
  BY <1>1, <1>2, <1>4, EmptySeq DEF LedgersTypes
<1>7. Numbered' /\ Happened' = Happened /\ \A l : Recent(l)' = Recent(l)
  BY <1>1 DEF Numbered, Happened, Recent
<1>6. LedgersTypes'
  BY <1>1, <1>3, <1>5, <1>7 DEF streamVars, LedgersTypes
<1>8. InHand'
  <2>1. Range(<<>>) = {}
    BY DEF Range
  <2>2. \A u \in Pollers : \A id \in Range(balances'[u]) :
          /\ \E k \in 1..asked'[u] : id[1] = Lists[k]
          /\ id[2] \in Recent(id[1]) /\ u \in Concerned[id[2]]
    <3>1. \A id \in Range(balances'[t]) : FALSE
      BY <1>5, <2>1
    <3>2. ASSUME NEW u \in Pollers \ {t}
          PROVE  \A id \in Range(balances'[u]) :
                   /\ \E k \in 1..asked'[u] : id[1] = Lists[k]
                   /\ id[2] \in Recent(id[1]) /\ u \in Concerned[id[2]]
      <4>1. asked'[u] = asked[u] /\ balances'[u] = balances[u]
        BY <1>5
      <4> QED BY <4>1 DEF InHand
    <3> QED BY <3>1, <3>2
  <2>3. \A u \in Pollers : /\ u \in polled' \/ u \notin streaming => asked'[u] = 0
                           /\ asked'[u] = 0 => balances'[u] = <<>>
    <3>1. t \in streaming /\ \A u \in Pollers \ {t} : u \in polled' => u \in polled
      BY <1>1
    <3>2. ASSUME NEW u \in Pollers \ {t}
          PROVE  /\ u \in polled' \/ u \notin streaming => asked'[u] = 0
                 /\ asked'[u] = 0 => balances'[u] = <<>>
      <4>1. asked'[u] = asked[u] /\ balances'[u] = balances[u]
        BY <1>5
      <4> QED BY <3>1, <4>1 DEF InHand
    <3> QED BY <1>5, <3>2
  <2> QED BY <1>1, <1>7, <2>2, <2>3 DEF streamVars, InHand
<1> QED BY <1>6, <1>7, <1>8

(* A symbol is loaded again: its time is after all that has occurred.      *)
LEMMA PollLoads ==
    ASSUME PollInv, UNCHANGED exchange, NEW s \in Range(Symbol), load(s)
    PROVE  PollInv'
<1> USE ListsKept DEF PollInv
<1>1. /\ ts_start' = [ts_start EXCEPT ![s] = Happened]
      /\ UNCHANGED <<occurred, since, ledgers_id, asked, balances, polled, reported>>
      /\ UNCHANGED <<streaming, began>>
  BY DEF load
<1>2. Numbered' /\ Happened' = Happened /\ \A l : Recent(l)' = Recent(l)
  BY <1>1 DEF Numbered, Happened, Recent
<1>3. ts_start' \in [Range(Symbol) -> SUBSET Happened]
  BY <1>1 DEF LedgersTypes
<1>4. LedgersTypes'
  BY <1>1, <1>2, <1>3 DEF LedgersTypes
<1>5. InHand'
  BY <1>1, <1>2 DEF InHand
<1> QED BY <1>2, <1>4, <1>5

(* A stream begins anew, and waits before it calls.                        *)
LEMMA PollOpens ==
    ASSUME PollInv, UNCHANGED exchange, NEW t \in Pollers, OnBalanceUpdate(t)
    PROVE  PollInv'
<1> USE ListsKept DEF PollInv
<1>1. /\ t \notin streaming /\ streaming' = streaming \cup {t} /\ polled' = polled \cup {t}
      /\ began' = [began EXCEPT ![t] = Happened]
      /\ UNCHANGED <<occurred, since, ledgers_id, asked, balances, reported, ts_start>>
  BY DEF OnBalanceUpdate
<1>2. Numbered' /\ Happened' = Happened /\ \A l : Recent(l)' = Recent(l)
  BY <1>1 DEF Numbered, Happened, Recent
<1>3. began' \in [Pollers -> SUBSET Happened]
  BY <1>1 DEF LedgersTypes
<1>4. LedgersTypes'
  BY <1>1, <1>2, <1>3 DEF LedgersTypes
<1>5. InHand'
  BY <1>1, <1>2 DEF InHand
<1> QED BY <1>2, <1>4, <1>5

(* A stream ends: what it had in hand is lost.                             *)
LEMMA PollBreaks ==
    ASSUME LedgersAssumption, PollInv, UNCHANGED exchange, NEW t \in Pollers, StreamEnds(t)
    PROVE  PollInv'
<1> USE ListsKept DEF PollInv
<1>1. /\ streaming' = streaming \ {t} /\ polled' = polled \ {t}
      /\ asked' = [asked EXCEPT ![t] = 0] /\ balances' = [balances EXCEPT ![t] = <<>>]
      /\ UNCHANGED <<occurred, since, ledgers_id, reported, ts_start, began>>
  BY DEF StreamEnds
<1>2. Numbered' /\ Happened' = Happened /\ \A l : Recent(l)' = Recent(l)
  BY <1>1 DEF Numbered, Happened, Recent
<1>3. Len(Lists) \in Nat
  BY ListBounds DEF LedgersTypes
<1>4. /\ asked' \in [Pollers -> 0..Len(Lists)] /\ asked'[t] = 0
      /\ balances' \in [Pollers -> Seq(Records)] /\ balances'[t] = <<>>
      /\ \A u \in Pollers \ {t} : asked'[u] = asked[u] /\ balances'[u] = balances[u]
  BY <1>1, <1>3, EmptySeq DEF LedgersTypes
<1>5. LedgersTypes'
  BY <1>1, <1>2, <1>4 DEF LedgersTypes
<1>6. InHand'
  <2>1. Range(<<>>) = {}
    BY DEF Range
  <2>2. ASSUME NEW u \in Pollers, NEW id \in Range(balances'[u])
        PROVE  /\ \E k \in 1..asked'[u] : id[1] = Lists[k]
               /\ id[2] \in Recent(id[1]) /\ u \in Concerned[id[2]]
    <3>1. u # t
      BY <1>4, <2>1, <2>2
    <3>2. asked'[u] = asked[u] /\ balances'[u] = balances[u]
      BY <1>4, <3>1
    <3> QED BY <2>2, <3>2 DEF InHand
  <2>3. \A u \in Pollers : /\ u \in polled' \/ u \notin streaming' => asked'[u] = 0
                           /\ asked'[u] = 0 => balances'[u] = <<>>
    <3>1. \A u \in Pollers \ {t} : /\ u \in polled' => u \in polled
                                   /\ u \notin streaming' => u \notin streaming
      BY <1>1
    <3>2. ASSUME NEW u \in Pollers \ {t}
          PROVE  /\ u \in polled' \/ u \notin streaming' => asked'[u] = 0
                 /\ asked'[u] = 0 => balances'[u] = <<>>
      <4>1. asked'[u] = asked[u] /\ balances'[u] = balances[u]
        BY <1>4
      <4> QED BY <3>1, <4>1 DEF InHand
    <3> QED BY <1>4, <3>2
  <2> QED BY <1>2, <2>2, <2>3 DEF InHand
<1> QED BY <1>2, <1>5, <1>6

(* Nothing of the ledgers changes.                                         *)
LEMMA PollRests ==
    ASSUME PollInv, UNCHANGED <<exchange, ledgerVars>>
    PROVE  PollInv'
<1> USE ListsKept
<1>1. UNCHANGED <<exchange, occurred, since, ledgers_id, asked, balances, polled, reported, streamVars>>
  BY DEF ledgerVars
<1>2. Happened' = Happened /\ \A l : Recent(l)' = Recent(l)
  BY <1>1 DEF Happened, Recent
<1>3. LedgersTypes'
  BY <1>1, <1>2 DEF streamVars, PollInv, LedgersTypes
<1>4. Numbered' /\ InHand'
  BY <1>1, <1>2 DEF streamVars, PollInv, Numbered, InHand
<1> QED BY <1>3, <1>4 DEF PollInv

(* Each step keeps the invariant.                                          *)
LEMMA PollStep ==
    ASSUME LedgersAssumption, PollInv, [LedgersNext]_<<exchange, ledgerVars>>
    PROVE  PollInv'
<1>1. CASE UNCHANGED <<exchange, ledgerVars>>
  BY <1>1, PollRests
<1>2. CASE LedgersNext
  <2>1. UNCHANGED exchange
    BY <1>2 DEF LedgersNext
  <2> QED BY <1>2, <2>1, PollAgain, PollTransfer, PollAsks, PollEnds, PollLoads, PollOpens, PollBreaks
          DEF LedgersNext
<1> QED BY <1>1, <1>2

(* The invariant of the streams' calls holds in every state.               *)
THEOREM PollInvariant ==
    ASSUME LedgersAssumption
    PROVE  LedgersSpec => []PollInv
<1>1. exchange \in Exchanges /\ LedgersInit => PollInv
  BY PollBegins
<1>2. PollInv /\ [LedgersNext]_<<exchange, ledgerVars>> => PollInv'
  BY PollStep
<1> QED BY <1>1, <1>2, PTL DEF LedgersSpec

(* Every variable of the ledgers holds a value of its kind, and the list   *)
(* of ids has at most so many of them.                                     *)
THEOREM LedgersTypesKept ==
    ASSUME LedgersAssumption
    PROVE  LedgersSpec => []LedgersTypeOK
<1>1. PollInv => LedgersTypeOK
  <2> SUFFICES ASSUME LedgersTypes PROVE LedgersTypeOK
    BY DEF PollInv
  <2>1. Range(ledgers_id) \subseteq Records
    BY RangeOfSeq DEF LedgersTypes
  <2>2. \A t \in Pollers : Range(balances[t]) \subseteq Records
    <3>1. \A t \in Pollers : balances[t] \in Seq(Records)
      BY DEF LedgersTypes
    <3> QED BY <3>1, RangeOfSeq
  <2> QED BY <2>1, <2>2 DEF LedgersTypes, LedgersTypeOK, Records
<1> QED BY <1>1, PollInvariant, PTL
-----------------------------------------------------------------------------
(* What trades are told                                                    *)

Told(x) == \E t \in Pollers : reported[t][x] > 0

Live(id) == since[id[2]] <= Window

IsRecord(id) == id[2] \in Happened /\ id[1] \in Listed[id[2]]

(* While answers have a record, those remembered after it are older than   *)
(* it by the window at most.                                               *)
InTime(s) ==
    \A i, j \in DOMAIN s : i < j /\ Live(s[i]) => since[s[j][2]] <= since[s[i][2]] + Window

(* Remembered are records of transfers that some trade was told of, and    *)
(* while answers have a record of such a transfer, one is remembered.      *)
IdsTold == \A id \in Range(ledgers_id) : IsRecord(id) /\ Told(id[2])

ToldKept ==
    ~ByBit => /\ IsInjective(ledgers_id) /\ InTime(ledgers_id)
              /\ \A x \in Transfers : Told(x) /\ since[x] <= Window
                   => \E id \in Range(ledgers_id) : id[2] = x

ToldConcerned ==
    \A t \in Pollers, x \in Transfers : reported[t][x] > 0 => t \in Concerned[x] /\ x \in Happened

(* A transfer that no trade was told of is new, or the stream of a trade   *)
(* that it concerns is about to call, or has its records in hand; but one  *)
(* that has ended, began later or does not ask for what is so old.         *)
Awaits(t, x) ==
    /\ since[x] = 1 /\ t \notin polled
    /\ \A k \in 1..asked[t] : Lists[k] \in Listed[x] => <<Lists[k], x>> \in Range(balances[t])

Expects(t) == Happened \ (began[t] \cup ts_start[Symbol[t]])

SoonTold == \A t \in streaming : \A x \in Expects(t) :
    t \in Concerned[x] => Told(x) \/ since[x] = 0 \/ Awaits(t, x)

TellInv == IdsTold /\ ToldKept /\ ToldConcerned /\ SoonTold /\ ToldOnce

(* At first no trade was told of anything.                                 *)
LEMMA TellBegins ==
    ASSUME LedgersInit PROVE TellInv
<1>1. Range(ledgers_id) = {} /\ DOMAIN ledgers_id = {}
  BY DEF LedgersInit, Range
<1>2. \A t \in Pollers, x \in Transfers : reported[t][x] = 0
  BY DEF LedgersInit
<1>3. \A x \in Transfers : ~Told(x)
  BY <1>2 DEF Told
<1>4. Happened = {}
  BY DEF LedgersInit, Happened
<1>5. IdsTold /\ ToldConcerned /\ SoonTold
  BY <1>1, <1>2, <1>4 DEF IdsTold, ToldConcerned, SoonTold, Expects
<1>6. ToldKept
  BY <1>1, <1>3 DEF ToldKept, IsInjective, InTime
<1>7. ToldOnce
  BY <1>2 DEF ToldOnce
<1> QED BY <1>5, <1>6, <1>7 DEF TellInv

(* A transfer occurs: no trade was told of it.                             *)
LEMMA TellTransfer ==
    ASSUME LedgersAssumption, PollInv, TellInv, UNCHANGED exchange, NEW x \in Transfers, Transfer(x)
    PROVE  TellInv'
<1> USE ListsKept
<1>1. /\ x \notin Happened /\ occurred' = [occurred EXCEPT ![x] = Cardinality(Happened) + 1]
      /\ UNCHANGED <<since, ledgers_id, asked, balances, polled, reported, streamVars>>
  BY DEF Transfer
<1>2. \A y \in Happened' : y \in Happened \/ y = x
  BY <1>1 DEF Happened, PollInv, LedgersTypes
<1>3. Happened \subseteq Happened'
  <2>1. \A y \in Happened : y \in Transfers /\ y # x /\ occurred'[y] = occurred[y] /\ occurred[y] # 0
    BY <1>1 DEF Happened, PollInv, LedgersTypes
  <2> QED BY <2>1 DEF Happened
<1>4. since[x] = 0
  BY <1>1 DEF PollInv, Numbered
<1>5. \A y : Told(y)' <=> Told(y)
  BY <1>1 DEF Told
<1>6. IdsTold'
  BY <1>1, <1>3, <1>5 DEF TellInv, IdsTold, IsRecord
<1>7. ToldKept'
  BY <1>1, <1>5 DEF TellInv, ToldKept, InTime, Live
<1>8. ToldConcerned'
  BY <1>1, <1>3 DEF TellInv, ToldConcerned
<1>9. SoonTold'
  <2>1. \A t : \A y \in Expects(t)' : y \in Expects(t) \/ y = x
    BY <1>1, <1>2 DEF streamVars, Expects
  <2> QED BY <1>1, <1>4, <1>5, <2>1 DEF streamVars, TellInv, SoonTold, Awaits
<1>10. ToldOnce'
  BY <1>1 DEF TellInv, ToldOnce
<1> QED BY <1>6, <1>7, <1>8, <1>9, <1>10 DEF TellInv

(* A unit passes when every stream has called.                             *)
LEMMA TellAgain ==
    ASSUME LedgersAssumption, PollInv, TellInv, UNCHANGED exchange, NextPoll
    PROVE  TellInv'
<1> USE ListsKept
<1>1. /\ polled = streaming /\ polled' = {}
      /\ since' = [y \in Transfers |-> IF y \in Happened /\ since[y] <= 2 * Window
                                       THEN since[y] + 1 ELSE since[y]]
      /\ UNCHANGED <<occurred, ledgers_id, asked, balances, reported, streamVars>>
  BY DEF NextPoll
<1>2. Window \in Nat \ {0} /\ streaming \subseteq Pollers /\ \A y \in Transfers : since[y] \in 0..(2 * Window + 1)
  BY ListBounds DEF PollInv, LedgersTypes
<1>3. Happened' = Happened /\ Happened \subseteq Transfers
  BY <1>1 DEF Happened
<1>4. \A y : Told(y)' <=> Told(y)
  BY <1>1 DEF Told
<1>5. IdsTold'
  BY <1>1, <1>3, <1>4 DEF TellInv, IdsTold, IsRecord
<1>6. ToldKept'
  <2> SUFFICES ASSUME ~ByBit PROVE ToldKept'
    BY DEF ToldKept
  <2>1. \A y \in Happened : /\ since[y] <= 2 * Window => since'[y] = since[y] + 1
                            /\ since'[y] >= since[y] /\ since'[y] <= since[y] + 1
    BY <1>1, <1>2, <1>3
  <2>2. \A y \in Transfers : since'[y] <= Window => since[y] <= Window
    BY <1>1, <1>2
  <2>3. \A i \in DOMAIN ledgers_id : ledgers_id[i][2] \in Happened
    BY DEF TellInv, IdsTold, IsRecord, Range
  <2>4. InTime(ledgers_id)'
    <3> SUFFICES ASSUME NEW i \in DOMAIN ledgers_id, NEW j \in DOMAIN ledgers_id, i < j,
                        since'[ledgers_id[i][2]] <= Window
                 PROVE  since'[ledgers_id[j][2]] <= since'[ledgers_id[i][2]] + Window
      BY <1>1 DEF InTime, Live
    <3> DEFINE p == ledgers_id[i][2]
               q == ledgers_id[j][2]
    <3>1. p \in Happened /\ q \in Happened
      BY <2>3
    <3>2. since'[p] <= Window /\ since[p] <= Window
      BY <1>3, <2>2, <3>1
    <3>3. since[q] <= since[p] + Window
      BY <3>2 DEF TellInv, ToldKept, InTime, Live
    <3> HIDE DEF p, q
    <3>4. since[p] \in Int /\ since[q] \in Int /\ since'[p] = since[p] + 1
      BY <1>2, <1>3, <2>1, <3>1, <3>2
    <3>5. since'[q] <= since[q] + 1 /\ since'[q] \in Int
      BY <1>1, <1>2, <1>3, <2>1, <3>1
    <3>6. since'[q] <= since'[p] + Window
      BY <1>2, <3>3, <3>4, <3>5
    <3> QED BY <3>6 DEF p, q
  <2>5. IsInjective(ledgers_id)'
    BY <1>1 DEF TellInv, ToldKept
  <2>6. ASSUME NEW y \in Transfers, Told(y)', since'[y] <= Window
        PROVE  \E id \in Range(ledgers_id) : id[2] = y
    BY <1>4, <2>2, <2>6 DEF TellInv, ToldKept
  <2> QED BY <1>1, <2>4, <2>5, <2>6 DEF ToldKept
<1>7. ToldConcerned'
  BY <1>1, <1>3 DEF TellInv, ToldConcerned
<1>8. SoonTold'
  <2>0. \A t : Expects(t)' = Expects(t)
    BY <1>1, <1>3 DEF streamVars, Expects
  <2> SUFFICES ASSUME NEW t \in streaming, NEW x \in Expects(t), t \in Concerned[x], ~Told(x)
               PROVE  Awaits(t, x)'
    BY <1>1, <1>4, <2>0 DEF streamVars, SoonTold
  <2>1. t \in Pollers /\ x \in Happened /\ x \in Transfers
    BY <1>2, <1>3 DEF Expects
  <2>2. since[x] = 0
    BY <1>1, <2>1 DEF TellInv, SoonTold, Awaits
  <2>3. since'[x] = 1
    BY <1>1, <1>2, <2>1, <2>2
  <2>4. asked'[t] = 0
    BY <1>1, <2>1 DEF PollInv, InHand
  <2> QED BY <1>1, <2>3, <2>4 DEF Awaits
<1>9. ToldOnce'
  BY <1>1 DEF TellInv, ToldOnce
<1> QED BY <1>5, <1>6, <1>7, <1>8, <1>9 DEF TellInv

(* An answer has all records of its list that are asked for.               *)
LEMMA AnswersHaveAll ==
    ASSUME LedgersAssumption, PollInv, FewRecent, NEW t, NEW l \in Range(Lists)
    PROVE  Latest(t, l) = Wanted(t, l)
<1> SUFFICES ASSUME NEW x \in Wanted(t, l)
             PROVE  Cardinality({y \in Wanted(t, l) : occurred[y] > occurred[x]}) < PerAnswer
  BY DEF Latest
<1> DEFINE R == Recent(l)
           A == {y \in Wanted(t, l) : occurred[y] > occurred[x]}
<1>1. R \in SUBSET Happened /\ Happened \subseteq Transfers /\ Wanted(t, l) \subseteq R
  BY DEF Wanted, Recent, Happened
<1>2. IsFiniteSet(Happened)
  BY DEF PollInv, Numbered
<1>3. IsFiniteSet(R)
  BY <1>1, <1>2, FS_Subset
<1>4. occurred[x] \in Nat
  BY <1>1 DEF PollInv, LedgersTypes
<1>5. A \in SUBSET (R \ {x})
  BY <1>1, <1>4
<1>6. x \in R
  BY <1>1
<1> HIDE DEF R, A
<1>7. IsFiniteSet(R \ {x}) /\ Cardinality(R \ {x}) = Cardinality(R) - 1
  BY <1>3, <1>6, FS_RemoveElement
<1>8. Cardinality(A) <= Cardinality(R \ {x}) /\ IsFiniteSet(A)
  BY <1>5, <1>7, FS_Subset
<1>9. Cardinality(A) \in Nat /\ Cardinality(R) \in Nat
  BY <1>3, <1>8, FS_CardinalityType
<1>10. Cardinality(R) <= PerAnswer /\ PerAnswer \in Nat
  BY ListBounds DEF FewRecent, PollInv, LedgersTypes, R
<1>11. Cardinality(A) < PerAnswer
  BY <1>7, <1>8, <1>9, <1>10
<1> QED BY <1>11 DEF A

(* A stream asks for a list and has its answer.                            *)
LEMMA TellAsks ==
    ASSUME LedgersAssumption, PollInv, FewRecent, TellInv, UNCHANGED exchange,
           NEW t \in Pollers, SendApiCall(t)
    PROVE  TellInv'
<1> USE ListsKept
<1> DEFINE l == Lists[asked[t] + 1]
<1>1. /\ t \in streaming \ polled /\ asked' = [asked EXCEPT ![t] = asked[t] + 1]
      /\ balances' = [balances EXCEPT ![t] = balances[t] \o Answered(t, l)]
      /\ UNCHANGED <<occurred, since, ledgers_id, polled, reported, streamVars>>
  BY DEF SendApiCall
<1>2. /\ l \in Range(Lists)
      /\ Range(balances'[t]) = Range(balances[t]) \cup ({l} \X {x \in Latest(t, l) : t \in Concerned[x]})
  BY PollAsks
<1>3. Latest(t, l) = Wanted(t, l)
  BY <1>2, AnswersHaveAll
<1>4. Happened' = Happened /\ (\A u : Expects(u)' = Expects(u)) /\ \A y : Told(y)' <=> Told(y)
  BY <1>1 DEF streamVars, Expects, Happened, Told
<1>5. IdsTold' /\ ToldConcerned' /\ ToldOnce'
  BY <1>1, <1>4 DEF TellInv, IdsTold, IsRecord, ToldConcerned, ToldOnce
<1>6. ToldKept'
  BY <1>1, <1>4 DEF TellInv, ToldKept, InTime, Live
<1>7. SoonTold'
  <2> SUFFICES ASSUME NEW u \in streaming, NEW x \in Expects(u), u \in Concerned[x], Awaits(u, x)
               PROVE  Awaits(u, x)'
    BY <1>1, <1>4 DEF streamVars, TellInv, SoonTold
  <2>1. u \in Pollers /\ x \in Happened /\ asked \in [Pollers -> 0..Len(Lists)] /\ balances \in [Pollers -> Seq(Records)]
    BY DEF Expects, PollInv, LedgersTypes
  <2>2. CASE u # t
    <3>1. asked'[u] = asked[u] /\ balances'[u] = balances[u]
      BY <1>1, <2>1, <2>2
    <3> QED BY <1>1, <3>1 DEF Awaits
  <2>3. CASE u = t
    <3>1. asked'[t] = asked[t] + 1 /\ asked[t] \in Nat
      BY <1>1, <2>1
    <3>2. since[x] = 1 /\ since[x] <= Window
      BY ListBounds DEF PollInv, LedgersTypes, Awaits
    <3>3. l \in Listed[x] => <<l, x>> \in Range(balances'[t])
      <4> HIDE DEF l
      <4>1. l \in Listed[x] => x \in Wanted(t, l)
        BY <2>3, <3>2 DEF Expects, Wanted, Recent
      <4> QED BY <1>2, <1>3, <2>3, <4>1
    <3>4. \A k \in 1..asked'[t] : k \in 1..asked[t] \/ Lists[k] = l
      BY <3>1
    <3>5. \A k \in 1..asked[t] : Lists[k] \in Listed[x] => <<Lists[k], x>> \in Range(balances'[t])
      <4> HIDE DEF l
      <4> QED BY <1>2, <2>3 DEF Awaits
    <3>6. \A k \in 1..asked'[t] : Lists[k] \in Listed[x] => <<Lists[k], x>> \in Range(balances'[t])
      <4> HIDE DEF l
      <4> QED BY <3>3, <3>4, <3>5
    <3> QED BY <1>1, <2>3, <3>2, <3>6 DEF Awaits
  <2> QED BY <2>2, <2>3
<1> QED BY <1>5, <1>6, <1>7 DEF TellInv
-----------------------------------------------------------------------------
(* No record is remembered, or new, twice                                  *)

(* A sequence of distinct elements of a set is no longer than the set is   *)
(* large.                                                                  *)
LEMMA DistinctFew ==
    ASSUME NEW E, IsFiniteSet(E), NEW s \in Seq(E), IsInjective(s)
    PROVE  Len(s) <= Cardinality(E)
<1>1. Len(s) \in Nat /\ s \in [1..Len(s) -> E]
  BY LenProperties
<1>2. s \in Injection(1..Len(s), E)
  BY <1>1 DEF Injection
<1>3. Cardinality(1..Len(s)) = Len(s)
  BY <1>1, FS_Interval
<1> QED BY <1>2, <1>3, FS_Injection

(* The elements stay distinct when another one is appended,                *)
LEMMA AppendDistinct ==
    ASSUME NEW T, NEW s \in Seq(T), NEW e \in T, IsInjective(s), e \notin Range(s)
    PROVE  IsInjective(Append(s, e))
<1> DEFINE r == Append(s, e)
           n == Len(s)
<1>1. r \in Seq(T) /\ Len(r) = n + 1 /\ (\A i \in 1..n : r[i] = s[i]) /\ r[n + 1] = e
  BY RangeOfAppend
<1>2. n \in Nat /\ DOMAIN s = 1..n /\ DOMAIN r = 1..Len(r)
  BY <1>1, LenProperties
<1> HIDE DEF r, n
<1>3. \A i \in DOMAIN r : i = n + 1 \/ i \in 1..n
  BY <1>1, <1>2
<1>4. \A i \in 1..n : r[i] \in Range(s)
  BY <1>1, <1>2 DEF Range
<1>5. \A i, j \in DOMAIN r : r[i] = r[j] => i = j
  BY <1>1, <1>2, <1>3, <1>4 DEF IsInjective
<1> QED BY <1>5 DEF IsInjective, r

(* ... and when the first one is taken away.                               *)
LEMMA TailDistinct ==
    ASSUME NEW T, NEW s \in Seq(T), s # <<>>, IsInjective(s)
    PROVE  IsInjective(Tail(s))
<1> DEFINE r == Tail(s)
<1>1. r \in Seq(T) /\ Len(r) = Len(s) - 1 /\ \A i \in 1..Len(r) : r[i] = s[i + 1]
  BY HeadTailProperties
<1>2. DOMAIN s = 1..Len(s) /\ Len(s) \in Nat \ {0} /\ DOMAIN r = 1..Len(r)
  BY <1>1, LenProperties, EmptySeq
<1> HIDE DEF r
<1>3. \A i \in DOMAIN r : i \in Int /\ i + 1 \in DOMAIN s /\ r[i] = s[i + 1]
  BY <1>1, <1>2
<1>4. \A i, j \in DOMAIN r : r[i] = r[j] => i + 1 = j + 1
  BY <1>3 DEF IsInjective
<1>5. \A i, j \in DOMAIN r : r[i] = r[j] => i = j
  BY <1>3, <1>4
<1> QED BY <1>5 DEF IsInjective, r

AreRecords(s) == \A id \in Range(s) : IsRecord(id)

(* What is cut from a list that is too long is in no answer any more.      *)
LEMMA CutOld ==
    ASSUME LedgersAssumption, PollInv, FewRecent, NEW s \in Seq(Records), s # <<>>,
           IsInjective(s), InTime(s), AreRecords(s), Len(s) > Kept
    PROVE  ~Live(s[1])
<1> SUFFICES ASSUME Live(s[1]) PROVE FALSE
  OBVIOUS
<1> DEFINE E == {id \in Range(Lists) \X Happened :
                   id[1] \in Listed[id[2]] /\ since[id[2]] <= 2 * Window}
<1>1. Len(s) \in Nat /\ DOMAIN s = 1..Len(s) /\ s \in [1..Len(s) -> Records] /\ 1 \in DOMAIN s
  BY LenProperties, EmptySeq
<1>2. Kept \in Nat /\ Window \in Nat /\ IsFiniteSet(Range(Lists))
  BY ListBounds DEF PollInv, LedgersTypes
<1>3. ASSUME NEW i \in DOMAIN s PROVE s[i] \in E
  <2>1. s[i] \in Records /\ IsRecord(s[i])
    BY <1>1 DEF AreRecords, Range
  <2>2. s[1] \in Records /\ since[s[1][2]] <= Window
    BY <1>1 DEF Live
  <2>3. since[s[i][2]] \in Int /\ since[s[1][2]] \in Int
    BY <1>2, <2>1, <2>2 DEF Records, PollInv, LedgersTypes
  <2>4. since[s[i][2]] <= 2 * Window
    <3>1. i = 1 \/ 1 < i
      BY <1>1
    <3>2. 1 < i => since[s[i][2]] <= since[s[1][2]] + Window
      BY <1>1 DEF InTime
    <3> QED BY <1>2, <2>2, <2>3, <3>1, <3>2
  <2> QED BY <2>1, <2>4 DEF Records, IsRecord
<1>4. IsFiniteSet(E)
  <2>1. IsFiniteSet(Range(Lists) \X Happened)
    BY <1>2, FS_Product DEF PollInv, Numbered
  <2>2. E \in SUBSET (Range(Lists) \X Happened)
    OBVIOUS
  <2> QED BY <2>1, <2>2, FS_Subset
<1>5. Cardinality(E) <= Kept
  BY DEF FewRecent
<1> HIDE DEF E
<1>6. s \in Seq(E)
  <2>1. s \in [1..Len(s) -> E]
    BY <1>1, <1>3
  <2> QED BY <1>1, <2>1
<1>7. Len(s) <= Cardinality(E)
  BY <1>4, <1>6, DistinctFew
<1>8. Cardinality(E) \in Nat
  BY <1>4, FS_CardinalityType
<1> QED BY <1>1, <1>2, <1>5, <1>7, <1>8

(* A new record is remembered beside all that answers have.                *)
LEMMA RememberOne ==
    ASSUME LedgersAssumption, PollInv, FewRecent, NEW s \in Seq(Records),
           IsInjective(s), InTime(s), AreRecords(s),
           NEW id \in Records, IsRecord(id), id \notin Range(s), Live(id)
    PROVE  LET r == RememberId(s, id)
           IN  /\ IsInjective(r) /\ InTime(r) /\ AreRecords(r)
               /\ \A d \in Range(s) \cup {id} : Live(d) => d \in Range(r)
<1> DEFINE more == Append(s, id)
           n == Len(s)
<1>1. /\ more \in Seq(Records) /\ more # <<>> /\ Len(more) = n + 1
      /\ (\A i \in 1..n : more[i] = s[i]) /\ more[n + 1] = id
      /\ Range(more) = Range(s) \cup {id}
  BY RangeOfAppend
<1>2. n \in Nat /\ DOMAIN s = 1..n /\ DOMAIN more = 1..(n + 1)
  BY <1>1, LenProperties
<1>3. IsInjective(more)
  BY AppendDistinct
<1>4. RememberId(s, id) = IF Len(more) > Kept THEN Tail(more) ELSE more
  BY DEF RememberId
<1> HIDE DEF more, n
<1>5. AreRecords(more)
  BY <1>1 DEF AreRecords
<1>6. InTime(more)
  <2> SUFFICES ASSUME NEW i \in DOMAIN more, NEW j \in DOMAIN more, i < j, Live(more[i])
               PROVE  since[more[j][2]] <= since[more[i][2]] + Window
    BY DEF InTime
  <2>1. i \in 1..n
    BY <1>2
  <2>2. CASE j \in 1..n
    BY <1>1, <1>2, <2>1, <2>2 DEF InTime
  <2>3. CASE j = n + 1
    <3>1. s[i] \in Records
      BY <1>2, <2>1, ElementOfSeq DEF n
    <3>2. since[more[i][2]] \in Nat
      <4>1. more[i] \in Records
        BY <1>1, <2>1, <3>1
      <4>2. more[i][2] \in Transfers
        BY <4>1 DEF Records
      <4>3. since \in [Transfers -> 0..(2 * Window + 1)] /\ Window \in Nat
        BY ListBounds DEF PollInv, LedgersTypes
      <4> QED BY <4>2, <4>3
    <3>3. since[id[2]] \in Int
      <4>1. id[2] \in Transfers
        BY DEF Records
      <4>2. since \in [Transfers -> 0..(2 * Window + 1)] /\ Window \in Nat
        BY ListBounds DEF PollInv, LedgersTypes
      <4> QED BY <4>1, <4>2
    <3>4. since[more[j][2]] <= Window /\ Window \in Nat
      BY <1>1, <2>3, ListBounds DEF Live, PollInv, LedgersTypes
    <3>5. since[more[j][2]] \in Int
      BY <1>1, <2>3, <3>3
    <3> QED BY <3>2, <3>4, <3>5
  <2> QED BY <1>2, <2>2, <2>3
<1>7. CASE ~(Len(more) > Kept)
  BY <1>1, <1>3, <1>4, <1>5, <1>6, <1>7
<1>8. CASE Len(more) > Kept
  <2> DEFINE r == Tail(more)
  <2>1. ~Live(more[1])
    BY <1>1, <1>3, <1>5, <1>6, <1>8, CutOld
  <2>2. Range(r) \subseteq Range(more) /\ Range(more) \subseteq Range(r) \cup {more[1]}
    BY <1>1, RangeOfTail
  <2>3. IsInjective(r)
    BY <1>1, <1>3, TailDistinct
  <2>4. r \in Seq(Records) /\ Len(r) = Len(more) - 1 /\ \A i \in 1..Len(r) : r[i] = more[i + 1]
    BY <1>1, HeadTailProperties
  <2>5. DOMAIN r = 1..Len(r)
    BY <2>4, LenProperties
  <2> HIDE DEF r
  <2>6. \A i \in DOMAIN r : i \in Int /\ i + 1 \in DOMAIN more /\ r[i] = more[i + 1]
    BY <1>1, <1>2, <2>4, <2>5
  <2>7. InTime(r)
    <3> SUFFICES ASSUME NEW i \in DOMAIN r, NEW j \in DOMAIN r, i < j, Live(r[i])
                 PROVE  since[r[j][2]] <= since[r[i][2]] + Window
      BY DEF InTime
    <3>1. i + 1 < j + 1 /\ i + 1 \in DOMAIN more /\ j + 1 \in DOMAIN more
      BY <2>6
    <3>2. r[i] = more[i + 1] /\ r[j] = more[j + 1]
      BY <2>6
    <3> QED BY <1>6, <3>1, <3>2 DEF InTime
  <2>8. AreRecords(r)
    BY <1>5, <2>2 DEF AreRecords
  <2>9. \A d \in Range(s) \cup {id} : Live(d) => d \in Range(r)
    BY <1>1, <2>1, <2>2
  <2>10. RememberId(s, id) = r
    BY <1>4, <1>8 DEF r
  <2> QED BY <2>3, <2>7, <2>8, <2>9, <2>10
<1> QED BY <1>7, <1>8

(* A record in hand that is not remembered is of a transfer that no trade  *)
(* was told of, but on ByBit.                                              *)
LEMMA UntoldIsNew ==
    ASSUME LedgersAssumption, PollInv, TellInv, ~ByBit, NEW t \in Pollers,
           NEW id \in Range(balances[t]), id \notin Range(ledgers_id)
    PROVE  ~Told(id[2])
<1> DEFINE x == id[2]
<1>1. id \in Records /\ x \in Recent(id[1]) /\ t \in Concerned[x]
  <2>1. balances[t] \in Seq(Records)
    BY DEF PollInv, LedgersTypes
  <2>2. Range(balances[t]) \subseteq Records
    BY <2>1, RangeOfSeq
  <2> QED BY <2>2 DEF PollInv, InHand
<1>2. id = <<id[1], x>> /\ x \in Happened /\ x \in Transfers /\ id[1] \in Listed[x] /\ since[x] <= Window
  BY <1>1 DEF Records, Recent
<1>3. ~Told(x)
  <2> SUFFICES ASSUME Told(x) PROVE FALSE
    OBVIOUS
  <2>1. PICK d \in Range(ledgers_id) : d[2] = x
    BY <1>2 DEF TellInv, ToldKept
  <2>2. d[1] \in Listed[x] /\ d \in Records
    <3>1. Range(ledgers_id) \subseteq Records
      BY RangeOfSeq DEF PollInv, LedgersTypes
    <3> QED BY <2>1, <3>1 DEF TellInv, IdsTold, IsRecord
  <2>3. d[1] = id[1]
    BY <1>2, <2>2, ListBounds DEF PollInv, LedgersTypes
  <2>4. d = id
    BY <1>2, <2>1, <2>2, <2>3 DEF Records
  <2> QED BY <2>1, <2>4
<1> QED BY <1>3
(* What was remembered and what is new, while answers have it, is          *)
(* remembered, and nothing new was remembered or is new twice.             *)
RemembersAll(acc) ==
    /\ IsInjective(acc.ids) /\ InTime(acc.ids) /\ AreRecords(acc.ids)
    /\ \A d \in Range(ledgers_id) \cup Range(acc.new) : Live(d) => d \in Range(acc.ids)
    /\ IsInjective(acc.new)
    /\ \A d \in Range(acc.new) : d \notin Range(ledgers_id) /\ Live(d)

(* What is new to a client is new once, and no trade was told of it.       *)
LEMMA NewOnce ==
    ASSUME LedgersAssumption, PollInv, FewRecent, TellInv, ~ByBit, NEW t \in Pollers
    PROVE  RemembersAll(New(t)) /\ \A d \in Range(New(t).new) : ~Told(d[2])
<1> DEFINE b == balances[t]
           n == Len(b)
<1>1. PICK f : Takes(f, t)
  BY NewTakes DEF PollInv
<1>2. /\ f \in [0..n -> Accs] /\ f[0] = [ids |-> ledgers_id, new |-> <<>>]
      /\ \A i \in 1..n : f[i] = Take(f[i - 1], b[i])
      /\ New(t) = f[n]
  BY <1>1 DEF Takes
<1>3. /\ n \in Nat /\ DOMAIN b = 1..n /\ \A i \in 1..n : b[i] \in Records
      /\ Kept \in Nat
  <2>1. b \in Seq(Records)
    BY DEF PollInv, LedgersTypes
  <2>2. Kept \in Nat
    BY ListBounds DEF PollInv, LedgersTypes
  <2> QED BY <2>1, <2>2, LenProperties, ElementOfSeq
<1>4. ASSUME NEW d \in Range(b) PROVE IsRecord(d) /\ Live(d) /\ d \in Records
  <2>1. d[2] \in Recent(d[1])
    BY DEF PollInv, InHand
  <2>2. d \in Records
    BY <1>3 DEF Range
  <2> QED BY <2>1, <2>2 DEF Recent, IsRecord, Live
<1> DEFINE Right(acc) == RemembersAll(acc) /\ Len(acc.ids) <= Kept /\ Range(acc.new) \subseteq Range(b)
           S == {i \in 0..n : Right(f[i])}
<1> HIDE DEF b, n
<1>5. 0 \in S
  <2>1. f[0].ids = ledgers_id /\ f[0].new = <<>> /\ Range(<<>>) = {} /\ DOMAIN <<>> = {}
    BY <1>2 DEF Range
  <2>2. IsInjective(ledgers_id) /\ InTime(ledgers_id) /\ AreRecords(ledgers_id) /\ Len(ledgers_id) <= Kept
    BY DEF TellInv, ToldKept, IdsTold, AreRecords, PollInv, LedgersTypes
  <2>3. RemembersAll(f[0])
    BY <2>1, <2>2 DEF RemembersAll, IsInjective
  <2>4. Right(f[0])
    BY <2>1, <2>2, <2>3
  <2> QED BY <1>3, <2>4
<1>6. ASSUME NEW i \in 0..(n - 1), i \in S PROVE i + 1 \in S
  <2> DEFINE acc == f[i]
             id == b[i + 1]
             a == f[i + 1]
  <2>1. i + 1 \in 1..n /\ i + 1 \in 0..n /\ i \in 0..n /\ (i + 1) - 1 = i
    BY <1>3
  <2>2. Right(acc)
    <3> HIDE DEF Right
    <3> QED BY <1>6
  <2>3. acc \in Accs /\ id \in Records /\ a = Take(acc, id) /\ id \in Range(b)
    BY <1>2, <1>3, <2>1 DEF Range
  <2> HIDE DEF acc, id, a
  <2>4. /\ Len(a.ids) <= Kept
        /\ id \in Range(acc.ids) => a = acc
        /\ id \notin Range(acc.ids) =>
             /\ a.new = Append(acc.new, id)
             /\ Range(a.new) = Range(acc.new) \cup {id}
             /\ a.ids = RememberId(acc.ids, id)
    BY <1>3, <2>2, <2>3, TakeOne
  <2>5. CASE id \in Range(acc.ids)
    <3>1. Right(a)
      BY <2>2, <2>4, <2>5
    <3> HIDE DEF Right
    <3> QED BY <2>1, <3>1 DEF a
  <2>6. CASE id \notin Range(acc.ids)
    <3> DEFINE r == RememberId(acc.ids, id)
    <3>1. IsRecord(id) /\ Live(id)
      BY <1>4, <2>3
    <3>2. id \notin Range(ledgers_id) /\ id \notin Range(acc.new)
      BY <2>2, <2>6, <3>1 DEF RemembersAll
    <3>4. acc.ids \in Seq(Records) /\ acc.new \in Seq(Records)
      BY <2>3 DEF Accs
    <3>5. IsInjective(acc.ids) /\ InTime(acc.ids) /\ AreRecords(acc.ids)
      BY <2>2 DEF RemembersAll
    <3>6. /\ IsInjective(r) /\ InTime(r) /\ AreRecords(r)
          /\ \A d \in Range(acc.ids) \cup {id} : Live(d) => d \in Range(r)
      BY <2>3, <2>6, <3>1, <3>4, <3>5, RememberOne
    <3>7. IsInjective(a.new)
      <4>1. IsInjective(acc.new)
        BY <2>2 DEF RemembersAll
      <4>2. IsInjective(Append(acc.new, id))
        BY <2>3, <3>2, <3>4, <4>1, AppendDistinct
      <4> QED BY <2>4, <2>6, <4>2
    <3>8. \A d \in Range(ledgers_id) \cup Range(a.new) : Live(d) => d \in Range(r)
      BY <2>2, <2>4, <2>6, <3>6 DEF RemembersAll
    <3>9. \A d \in Range(a.new) : d \notin Range(ledgers_id) /\ Live(d)
      BY <2>2, <2>4, <2>6, <3>1, <3>2 DEF RemembersAll
    <3>10. a.ids = r
      BY <2>4, <2>6
    <3> HIDE DEF r
    <3>11. RemembersAll(a)
      BY <3>6, <3>7, <3>8, <3>9, <3>10 DEF RemembersAll
    <3>12. Range(a.new) \subseteq Range(b)
      BY <2>2, <2>3, <2>4, <2>6
    <3>13. Right(a)
      BY <2>4, <3>11, <3>12
    <3> HIDE DEF Right
    <3> QED BY <2>1, <3>13 DEF a
  <2> QED BY <2>5, <2>6
<1> HIDE DEF S
<1>7. \A i \in 0..n : i \in S
  BY <1>3, <1>5, <1>6, Induction
<1>8. n \in 0..n
  BY <1>3
<1>9. Right(f[n])
  <2> HIDE DEF Right
  <2> QED BY <1>7, <1>8 DEF S
<1>10. \A d \in Range(New(t).new) : ~Told(d[2])
  <2> SUFFICES ASSUME NEW d \in Range(f[n].new) PROVE ~Told(d[2])
    BY <1>2
  <2>1. d \in Range(balances[t]) /\ d \notin Range(ledgers_id)
    BY <1>9 DEF RemembersAll, b
  <2> QED BY <2>1, UntoldIsNew
<1> QED BY <1>2, <1>9, <1>10

(* Some list that a stream has asked for has a transfer that it awaits.    *)
LEMMA AwaitedHere ==
    ASSUME LedgersAssumption, PollInv, FewRecent, NEW x \in Happened, NEW t \in Concerned[x],
           Awaits(t, x), asked[t] >= LastNeeded(t)
    PROVE  \E id \in Range(balances[t]) : id[2] = x
<1>1. t \in Pollers /\ x \in Transfers
  BY DEF LedgersAssumption, Happened
<1>2. /\ Len(Lists) \in Nat \ {0} /\ DOMAIN Lists = 1..Len(Lists)
      /\ (ByBit => Lists = <<"internal", "universal", "log">>)
      /\ Listed \in [Transfers -> SUBSET Range(Lists)] /\ Window \in Nat \ {0}
  BY ListBounds DEF PollInv, LedgersTypes
<1>3. asked[t] \in 0..Len(Lists)
  BY <1>1 DEF PollInv, LedgersTypes
<1>4. SUFFICES \E k \in 1..asked[t] : Lists[k] \in Listed[x]
  <2>1. ASSUME NEW k \in 1..asked[t], Lists[k] \in Listed[x] PROVE <<Lists[k], x>> \in Range(balances[t])
    BY <2>1 DEF Awaits
  <2> QED BY <1>4, <2>1
<1>5. PICK l \in Listed[x] : l \in Range(Lists)
  BY <1>1, <1>2 DEF PollInv, Numbered
<1>6. PICK k \in 1..Len(Lists) : Lists[k] = l
  BY <1>2, <1>5 DEF Range
<1>7. CASE asked[t] = Len(Lists)
  BY <1>5, <1>6, <1>7
<1>8. CASE asked[t] # Len(Lists)
  <2>1. ByBit /\ balances[t] # <<>> /\ Len(Lists) = 3 /\ asked[t] = 2
    <3>1. LastNeeded(t) = IF ByBit /\ balances[t] # <<>> THEN Len(Lists) - 1 ELSE Len(Lists)
      BY DEF LastNeeded
    <3>2. ByBit /\ balances[t] # <<>>
      BY <1>2, <1>3, <1>8, <3>1
    <3>3. Len(Lists) = 3
      BY <1>2, <3>2
    <3> QED BY <1>3, <1>8, <3>1, <3>2, <3>3
  <2>2. PICK id \in Range(balances[t]) : TRUE
    <3>1. balances[t] \in Seq(Records)
      BY <1>1 DEF PollInv, LedgersTypes
    <3>2. 1 \in DOMAIN balances[t]
      BY <2>1, <3>1, LenProperties, EmptySeq
    <3> QED BY <3>2 DEF Range
  <2>3. PICK m \in 1..2 : id[1] = Lists[m]
    BY <1>1, <2>1 DEF PollInv, InHand
  <2>4. id[2] \in Recent(id[1]) /\ t \in Concerned[id[2]]
    BY <1>1 DEF PollInv, InHand
  <2>5. id[1] # "log"
    BY <1>2, <2>1, <2>3
  <2>6. Listed[id[2]] # {"log"}
    BY <2>4, <2>5 DEF Recent
  <2>7. since[x] <= Window
    BY <1>2 DEF Awaits
  <2>8. Listed[x] # {"log"}
    <3>1. id[2] \in Happened /\ since[id[2]] <= Window /\ Concerned[x] \cap Concerned[id[2]] # {}
      BY <2>4 DEF Recent
    <3> QED BY <2>1, <2>6, <2>7, <3>1 DEF FewRecent
  <2>9. PICK e \in Listed[x] : e # "log"
    BY <1>5, <2>8
  <2>10. e \in Range(Lists)
    BY <1>1, <1>2
  <2>11. e = Lists[1] \/ e = Lists[2]
    BY <1>2, <2>1, <2>9, <2>10 DEF Range
  <2> QED BY <2>1, <2>11
<1> QED BY <1>7, <1>8
(* A stream has its answers, and reports what is new in them.              *)
LEMMA TellEnds ==
    ASSUME LedgersAssumption, PollInv, FewRecent, TellInv, UNCHANGED exchange,
           NEW t \in Pollers, FetchLedgers(t)
    PROVE  TellInv'
<1> USE ListsKept
<1> DEFINE new == New(t).new
           b == balances[t]
<1>1. /\ asked[t] >= LastNeeded(t)
      /\ ledgers_id' = New(t).ids
      /\ reported' = [reported EXCEPT ![t] = [x \in Transfers |-> Counted(reported[t][x], x, new)]]
      /\ asked' = [asked EXCEPT ![t] = 0] /\ balances' = [balances EXCEPT ![t] = <<>>]
      /\ polled' = polled \cup {t}
      /\ UNCHANGED <<occurred, since, streamVars>>
  BY DEF FetchLedgers
<1>2. /\ new \in Seq(Records) /\ Range(New(t).ids) \subseteq Range(ledgers_id) \cup Range(new)
      /\ Range(new) \subseteq Range(b) /\ Range(b) \subseteq Range(ledgers_id) \cup Range(new)
  <2>1. Kept \in Nat
    BY ListBounds DEF PollInv, LedgersTypes
  <2> QED BY <2>1, NewIs DEF PollInv, Accs
<1>3. ASSUME NEW id \in Range(b)
      PROVE  IsRecord(id) /\ t \in Concerned[id[2]] /\ id[2] \in Transfers
             /\ id = <<id[1], id[2]>> /\ since[id[2]] <= Window
  <2>1. id[2] \in Recent(id[1]) /\ t \in Concerned[id[2]]
    BY DEF PollInv, InHand
  <2>2. b \in Seq(Records)
    BY DEF PollInv, LedgersTypes
  <2>3. id \in Records
    BY <2>2, RangeOfSeq
  <2> QED BY <2>1, <2>3 DEF Recent, IsRecord, Records
<1>4. /\ reported \in [Pollers -> [Transfers -> 0..2]]
      /\ \A x \in Transfers : reported[t][x] \in 0..2
  BY DEF PollInv, LedgersTypes
<1>5. /\ \A x \in Transfers : reported'[t][x] = Counted(reported[t][x], x, new)
      /\ \A u \in Pollers \ {t} : reported'[u] = reported[u]
  BY <1>1, <1>4
<1>6. ASSUME NEW u \in Pollers \ {t}
      PROVE  asked'[u] = asked[u] /\ balances'[u] = balances[u]
  BY <1>1 DEF PollInv, LedgersTypes
<1> HIDE DEF new, b
<1>7. Happened' = Happened /\ Happened \subseteq Transfers
  BY <1>1 DEF Happened
<1>8. ASSUME NEW x \in Transfers PROVE Told(x) => Told(x)'
  <2> SUFFICES ASSUME NEW u \in Pollers, reported[u][x] > 0 PROVE reported'[u][x] > 0
    BY DEF Told
  <2>1. CASE u = t
    BY <1>2, <1>4, <1>5, <2>1, CountedFew
  <2> QED BY <1>5, <2>1
<1>9. ASSUME NEW id \in Range(new) PROVE Told(id[2])'
  <2>1. id[2] \in Transfers
    BY <1>2, <1>3
  <2>2. Counted(reported[t][id[2]], id[2], new) > 0
    BY <1>2, <1>4, <2>1, CountedFew
  <2> QED BY <1>5, <2>1, <2>2 DEF Told
<1>10. ASSUME NEW x \in Transfers, reported'[t][x] > 0
       PROVE  reported[t][x] > 0 \/ \E id \in Range(new) : id[2] = x
  <2> SUFFICES ASSUME \A id \in Range(new) : id[2] # x PROVE reported[t][x] > 0
    OBVIOUS
  <2>1. Counted(reported[t][x], x, new) = reported[t][x]
    BY <1>2, <1>4, CountedFew
  <2> QED BY <1>5, <1>10, <2>1
<1>11. IdsTold'
  <2> SUFFICES ASSUME NEW id \in Range(ledgers_id') PROVE IsRecord(id)' /\ Told(id[2])'
    BY DEF IdsTold
  <2>1. CASE id \in Range(ledgers_id)
    <3>1. IsRecord(id) /\ Told(id[2]) /\ id[2] \in Transfers
      BY <1>7, <2>1 DEF TellInv, IdsTold, IsRecord
    <3> QED BY <1>7, <1>8, <3>1 DEF IsRecord
  <2>2. CASE id \in Range(new)
    <3>1. IsRecord(id)
      BY <1>2, <1>3, <2>2
    <3> QED BY <1>7, <1>9, <2>2, <3>1 DEF IsRecord
  <2> QED BY <1>1, <1>2, <2>1, <2>2
<1>12. ToldConcerned'
  <2> SUFFICES ASSUME NEW u \in Pollers, NEW x \in Transfers, reported'[u][x] > 0
               PROVE  u \in Concerned[x] /\ x \in Happened
    BY <1>7 DEF ToldConcerned
  <2>1. CASE reported[u][x] > 0
    BY <2>1 DEF TellInv, ToldConcerned
  <2>2. CASE u = t /\ \E id \in Range(new) : id[2] = x
    BY <1>2, <1>3, <2>2 DEF IsRecord
  <2> QED BY <1>5, <1>10, <2>1, <2>2
<1>13. SoonTold'
  <2>0. \A u : Expects(u)' = Expects(u)
    BY <1>1, <1>7 DEF streamVars, Expects
  <2> SUFFICES ASSUME NEW u \in streaming, NEW x \in Expects(u), u \in Concerned[x],
                      ~Told(x)', since[x] # 0
               PROVE  Awaits(u, x)'
    BY <1>1, <2>0 DEF streamVars, SoonTold
  <2>9. x \in Happened
    BY DEF Expects
  <2>1. Awaits(u, x)
    BY <1>7, <1>8, <2>9 DEF TellInv, SoonTold
  <2>2. u \in Pollers
    BY DEF PollInv, LedgersTypes
  <2>3. CASE u = t
    <3>1. PICK id \in Range(b) : id[2] = x
      BY <1>1, <2>1, <2>3, <2>9, AwaitedHere DEF b
    <3>2. CASE id \in Range(ledgers_id)
      BY <1>7, <1>8, <2>9, <3>1, <3>2 DEF TellInv, IdsTold
    <3>3. CASE id \in Range(new)
      BY <1>9, <3>1, <3>3
    <3> QED BY <1>2, <3>2, <3>3
  <2>4. CASE u # t
    BY <1>1, <1>6, <2>1, <2>2, <2>4 DEF Awaits
  <2> QED BY <2>3, <2>4
<1>14. ToldKept'
  <2> SUFFICES ASSUME ~ByBit PROVE ToldKept'
    BY DEF ToldKept
  <2>1. RemembersAll(New(t))
    BY NewOnce
  <2>2. IsInjective(ledgers_id)' /\ InTime(ledgers_id)'
    BY <1>1, <2>1 DEF RemembersAll, InTime, Live
  <2>3. ASSUME NEW x \in Transfers, Told(x)', since[x] <= Window
        PROVE  \E id \in Range(New(t).ids) : id[2] = x
    <3>1. CASE Told(x)
      <4>1. PICK id \in Range(ledgers_id) : id[2] = x
        BY <2>3, <3>1 DEF TellInv, ToldKept
      <4> QED BY <2>1, <2>3, <4>1 DEF RemembersAll, Live
    <3>2. CASE ~Told(x)
      <4>1. PICK u \in Pollers : reported'[u][x] > 0
        BY <2>3 DEF Told
      <4>2. ~(reported[u][x] > 0)
        BY <3>2 DEF Told
      <4>3. PICK id \in Range(new) : id[2] = x
        BY <1>5, <1>10, <4>1, <4>2
      <4> QED BY <2>1, <2>3, <4>3 DEF RemembersAll, Live, new
    <3> QED BY <3>1, <3>2
  <2> QED BY <1>1, <2>2, <2>3 DEF ToldKept
<1>15. ToldOnce'
  <2> SUFFICES ASSUME ~ByBit, NEW x \in Transfers PROVE reported'[t][x] <= 1
    BY <1>5 DEF TellInv, ToldOnce
  <2>1. IsInjective(new) /\ \A d \in Range(new) : ~Told(d[2])
    BY NewOnce DEF RemembersAll, new
  <2>2. reported[t][x] <= 1
    BY DEF TellInv, ToldOnce
  <2>3. CASE \A id \in Range(new) : id[2] # x
    <3>1. Counted(reported[t][x], x, new) = reported[t][x]
      BY <1>2, <1>4, <2>3, CountedFew
    <3> QED BY <1>5, <2>2, <3>1
  <2>4. CASE \E id \in Range(new) : id[2] = x
    <3>1. ~Told(x)
      BY <2>1, <2>4
    <3>2. reported[t][x] = 0
      BY <1>4, <3>1 DEF Told
    <3>3. ASSUME NEW i \in DOMAIN new, NEW j \in DOMAIN new, new[i][2] = x, new[j][2] = x PROVE i = j
      <4>1. new[i] \in Range(b) /\ new[j] \in Range(b)
        BY <1>2 DEF Range
      <4>2. new[i] = <<new[i][1], x>> /\ new[j] = <<new[j][1], x>>
            /\ new[i][1] \in Listed[x] /\ new[j][1] \in Listed[x]
        BY <1>3, <3>3, <4>1 DEF IsRecord
      <4>3. new[i][1] = new[j][1]
        BY <4>2, ListBounds DEF PollInv, LedgersTypes
      <4>4. new[i] = new[j]
        BY <4>2, <4>3
      <4> QED BY <2>1, <4>4 DEF IsInjective
    <3>4. Counted(0, x, new) <= 1
      <4>1. \A i, j \in DOMAIN new : new[i][2] = x /\ new[j][2] = x => i = j
        BY <3>3
      <4>2. Counted(0, x, new) <= 0 + 1
        BY <1>2, <4>1, CountedFew
      <4> QED BY <4>2
    <3> QED BY <1>5, <3>2, <3>4
  <2> QED BY <2>3, <2>4
<1> QED BY <1>11, <1>12, <1>13, <1>14, <1>15 DEF TellInv

(* A symbol is loaded, or a stream begins anew or ends: nobody is told,    *)
(* and a stream expects no more than before.                               *)
LEMMA TellStream ==
    ASSUME TellInv, UNCHANGED exchange,
           UNCHANGED <<occurred, since, ledgers_id, reported>>,
           \A t \in streaming' : \A x \in Expects(t)' :
             /\ t \in streaming /\ x \in Expects(t) /\ (t \in polled' <=> t \in polled)
             /\ asked'[t] = asked[t] /\ balances'[t] = balances[t]
    PROVE  TellInv'
<1> USE ListsKept
<1>1. Happened' = Happened /\ \A y : Told(y)' <=> Told(y)
  BY DEF Happened, Told
<1>2. IdsTold' /\ ToldConcerned' /\ ToldOnce'
  BY <1>1 DEF TellInv, IdsTold, IsRecord, ToldConcerned, ToldOnce
<1>3. ToldKept'
  BY <1>1 DEF TellInv, ToldKept, InTime, Live
<1>4. SoonTold'
  <2> SUFFICES ASSUME NEW t \in streaming', NEW x \in Expects(t)', t \in Concerned[x],
                      ~Told(x), since[x] # 0
               PROVE  Awaits(t, x)'
    BY <1>1 DEF SoonTold
  <2>1. Awaits(t, x)
    BY DEF TellInv, SoonTold
  <2> QED BY <2>1 DEF Awaits
<1> QED BY <1>2, <1>3, <1>4 DEF TellInv

(* ... as it is when a symbol is loaded,                                   *)
LEMMA TellLoads ==
    ASSUME PollInv, TellInv, UNCHANGED exchange, NEW s \in Range(Symbol), load(s)
    PROVE  TellInv'
<1>1. /\ ts_start' = [ts_start EXCEPT ![s] = Happened]
      /\ UNCHANGED <<occurred, since, ledgers_id, asked, balances, polled, reported>>
      /\ UNCHANGED <<streaming, began>>
  BY DEF load
<1>2. ts_start \in [Range(Symbol) -> SUBSET Happened] /\ Happened' = Happened
  BY <1>1 DEF Happened, PollInv, LedgersTypes
<1>3. \A t : Expects(t)' \subseteq Expects(t)
  <2> SUFFICES ASSUME NEW t, NEW x \in Expects(t)' PROVE x \in Expects(t)
    OBVIOUS
  <2>1. x \in Happened /\ x \notin began[t] /\ x \notin ts_start'[Symbol[t]]
    BY <1>1, <1>2 DEF Expects
  <2>2. Symbol[t] # s
    BY <1>1, <1>2, <2>1
  <2>3. ts_start'[Symbol[t]] = ts_start[Symbol[t]]
    BY <1>1, <2>2
  <2> QED BY <2>1, <2>3 DEF Expects
<1> QED BY <1>1, <1>3, TellStream

(* ... when a stream begins, which expects nothing yet,                    *)
LEMMA TellOpens ==
    ASSUME PollInv, TellInv, UNCHANGED exchange, NEW t \in Pollers, OnBalanceUpdate(t)
    PROVE  TellInv'
<1>1. /\ t \notin streaming /\ streaming' = streaming \cup {t} /\ polled' = polled \cup {t}
      /\ began' = [began EXCEPT ![t] = Happened]
      /\ UNCHANGED <<occurred, since, ledgers_id, asked, balances, reported, ts_start>>
  BY DEF OnBalanceUpdate
<1>2. began \in [Pollers -> SUBSET Happened] /\ streaming \subseteq Pollers /\ Happened' = Happened
  BY <1>1 DEF Happened, PollInv, LedgersTypes
<1>3. Expects(t)' = {}
  BY <1>1, <1>2 DEF Expects
<1>4. \A u \in Pollers \ {t} : Expects(u)' = Expects(u)
  BY <1>1, <1>2 DEF Expects
<1> QED BY <1>1, <1>2, <1>3, <1>4, TellStream

(* ... and when one ends.                                                  *)
LEMMA TellBreaks ==
    ASSUME PollInv, TellInv, UNCHANGED exchange, NEW t \in Pollers, StreamEnds(t)
    PROVE  TellInv'
<1>1. /\ streaming' = streaming \ {t} /\ polled' = polled \ {t}
      /\ asked' = [asked EXCEPT ![t] = 0] /\ balances' = [balances EXCEPT ![t] = <<>>]
      /\ UNCHANGED <<occurred, since, ledgers_id, reported, ts_start, began>>
  BY DEF StreamEnds
<1>2. streaming \subseteq Pollers /\ DOMAIN asked = Pollers /\ DOMAIN balances = Pollers
  BY DEF PollInv, LedgersTypes
<1>3. \A u \in streaming' : asked'[u] = asked[u] /\ balances'[u] = balances[u]
  BY <1>1, <1>2
<1>4. \A u : Expects(u)' = Expects(u)
  BY <1>1 DEF Expects, Happened
<1> QED BY <1>1, <1>3, <1>4, TellStream

(* Nothing of the ledgers changes.                                         *)
LEMMA TellRests ==
    ASSUME TellInv, UNCHANGED <<exchange, ledgerVars>>
    PROVE  TellInv'
<1> USE ListsKept
<1>1. UNCHANGED <<exchange, occurred, since, ledgers_id, asked, balances, polled, reported, streamVars>>
  BY DEF ledgerVars
<1>2. Happened' = Happened /\ (\A t : Expects(t)' = Expects(t)) /\ \A y : Told(y)' <=> Told(y)
  BY <1>1 DEF streamVars, Expects, Happened, Told
<1>3. IdsTold' /\ ToldConcerned' /\ ToldOnce'
  BY <1>1, <1>2 DEF TellInv, IdsTold, IsRecord, ToldConcerned, ToldOnce
<1>4. ToldKept'
  BY <1>1, <1>2 DEF TellInv, ToldKept, InTime, Live
<1>5. SoonTold'
  BY <1>1, <1>2 DEF streamVars, TellInv, SoonTold, Awaits
<1> QED BY <1>3, <1>4, <1>5 DEF TellInv

(* Each step keeps what trades are told as the invariant says.             *)
LEMMA TellStep ==
    ASSUME LedgersAssumption, PollInv, FewRecent, TellInv, [LedgersNext]_<<exchange, ledgerVars>>
    PROVE  TellInv'
<1>1. CASE UNCHANGED <<exchange, ledgerVars>>
  BY <1>1, TellRests
<1>2. CASE LedgersNext
  <2>1. UNCHANGED exchange
    BY <1>2 DEF LedgersNext
  <2> QED BY <1>2, <2>1, TellAgain, TellTransfer, TellAsks, TellEnds, TellLoads, TellOpens, TellBreaks
          DEF LedgersNext
<1> QED BY <1>1, <1>2

(* While there are few recent transfers, what trades are told is as the    *)
(* invariant says.                                                         *)
THEOREM TellInvariant ==
    ASSUME LedgersAssumption
    PROVE  LedgersSpec /\ []FewRecent => []TellInv
<1>1. exchange \in Exchanges /\ LedgersInit => TellInv
  BY TellBegins
<1>2. PollInv /\ FewRecent /\ TellInv /\ [LedgersNext]_<<exchange, ledgerVars>> => TellInv'
  BY TellStep
<1> QED BY <1>1, <1>2, PollInvariant, PTL DEF LedgersSpec

(* While there are few recent transfers and no two trades have an asset in *)
(* common, a running stream has told its trade's transfers that occurred   *)
(* since it began, and since the symbol was loaded, before they are in no  *)
(* answer any more; and, but on ByBit, no transfer is told twice.          *)
THEOREM TransfersAreTold ==
    ASSUME LedgersAssumption, TradesApart
    PROVE  LedgersSpec /\ []FewRecent => []TransferTold
<1>1. PollInv /\ TellInv => TransferTold
  <2> SUFFICES ASSUME PollInv, TellInv, NEW x \in Transfers, NEW t \in Concerned[x] \cap streaming,
                      since[x] > Window, x \notin began[t] \cup ts_start[Symbol[t]]
               PROVE  reported[t][x] > 0
    BY DEF TransferTold, AllTold, TellInv
  <2>1. Window \in Nat \ {0} /\ since[x] \in Nat
    <3>1. Window \in Nat \ {0}
      BY ListBounds DEF PollInv, LedgersTypes
    <3> QED BY <3>1 DEF PollInv, LedgersTypes
  <2>2. since[x] # 0 /\ since[x] # 1
    BY <2>1
  <2>3. x \in Expects(t)
    BY <2>2 DEF PollInv, Numbered, Expects
  <2>4. PICK u \in Pollers : reported[u][x] > 0
    BY <2>2, <2>3 DEF TellInv, SoonTold, Awaits, Told
  <2>5. u \in Concerned[x]
    BY <2>4 DEF TellInv, ToldConcerned
  <2>6. u = t
    BY <2>5 DEF TradesApart
  <2> QED BY <2>4, <2>6
<1> QED BY <1>1, TellInvariant, PollInvariant, PTL

-----------------------------------------------------------------------------
(* The instance of all data modules                                        *)

(* A step of one part changes nothing of the others, and no exchange.      *)
LEMMA OneStep ==
    ASSUME [Next]_allVars
    PROVE  /\ UNCHANGED exchange
           /\ [LedgersNext]_<<exchange, ledgerVars>> /\ [BooksNext]_<<exchange, bookVars>>
           /\ [CandlesNext]_<<exchange, candleVars>> /\ [MarketNext]_<<exchange, marketVars>>
           /\ [FundsNext]_<<exchange, fundVars>>
           /\ FewRecent' \/ UNCHANGED ledgerVars
<1>1. CASE UNCHANGED allVars
  BY <1>1 DEF allVars
<1>2. CASE LedgersPart
  BY <1>2 DEF LedgersPart, LedgersNext
<1>3. CASE BooksPart
  BY <1>3 DEF BooksPart, BooksNext
<1>4. CASE CandlesPart
  BY <1>4 DEF CandlesPart, CandlesNext
<1>5. CASE MarketPart
  BY <1>5 DEF MarketPart, MarketNext
<1>6. CASE FundsPart
  BY <1>6 DEF FundsPart, FundsNext
<1> QED BY <1>1, <1>2, <1>3, <1>4, <1>5, <1>6 DEF Next

(* Each part is about some of the exchanges.                               *)
LEMMA ExchangesOfParts ==
    ASSUME part \in Parts, exchange \in ExchangesOf(part) PROVE exchange \in Exchanges
<1>1. ExchangesOf(part) \subseteq Exchanges
  BY DEF Parts, ExchangesOf, Exchanges
<1> QED BY <1>1

(* A behaviour of the instance is one of each module.                      *)
THEOREM PartsKept ==
    Spec => LedgersSpec /\ BooksSpec /\ CandlesSpec /\ MarketSpec /\ FundsSpec
<1>1. Init => /\ exchange \in Exchanges /\ LedgersInit /\ BooksInit /\ CandlesInit /\ MarketInit
              /\ FundsInit
  BY ExchangesOfParts DEF Init
<1>2. [Next]_allVars => [LedgersNext]_<<exchange, ledgerVars>>
  BY OneStep
<1>3. [Next]_allVars => [BooksNext]_<<exchange, bookVars>>
  BY OneStep
<1>4. [Next]_allVars => [CandlesNext]_<<exchange, candleVars>>
  BY OneStep
<1>5. [Next]_allVars => [MarketNext]_<<exchange, marketVars>>
  BY OneStep
<1>6. [Next]_allVars => [FundsNext]_<<exchange, fundVars>>
  BY OneStep
<1> QED BY <1>1, <1>2, <1>3, <1>4, <1>5, <1>6, PTL
        DEF Spec, LedgersSpec, BooksSpec, CandlesSpec, MarketSpec, FundsSpec

(* The order book of the instance is the exchange's when all messages have *)
(* been handled.                                                           *)
THEOREM DataBookIsTrue == Spec => []BookTrue
BY PartsKept, BookIsTrue, DataAssumption, PTL

(* The candles of FetchKlines and of a stream are true.                    *)
THEOREM CandlesAreTrue == Spec => []CandlesTrue
<1>1. KlinesTrue /\ CandleCloses => CandlesTrue
  BY DEF CandlesTrue
<1>2. OrderBooksAssumption /\ CandlesAssumption /\ CalendarAssumption /\ MarketChannelsAssumption /\ IntervalsKnown
  BY DataAssumption
<1> QED BY <1>1, <1>2, PartsKept, KlinesAreTrue, StreamedCandlesClose, PTL

(* The instance keeps to behaviours in which there are few recent transfers. *)
LEMMA FewAreRecent ==
    Spec => []FewRecent
<1>1. Init => FewRecent
  <2> SUFFICES ASSUME Init PROVE FewRecent
    OBVIOUS
  <2>1. exchange \in Exchanges /\ LedgersAssumption /\ Happened = {}
    BY ExchangesOfParts, DataAssumption DEF Init, LedgersInit, Happened
  <2>2. Kept \in Nat /\ PerAnswer \in Nat /\ Cardinality({}) = 0
    BY <2>1, ListBounds, FS_EmptySet
  <2>3. \A l : Recent(l) = {}
    BY <2>1 DEF Recent
  <2>4. {id \in Range(Lists) \X Happened : id[1] \in Listed[id[2]] /\ since[id[2]] <= 2 * Window} = {}
    BY <2>1
  <2> QED BY <2>1, <2>2, <2>3, <2>4 DEF FewRecent
<1>2. FewRecent /\ [Next]_allVars => FewRecent'
  <2> SUFFICES ASSUME FewRecent, UNCHANGED exchange, UNCHANGED ledgerVars PROVE FewRecent'
    BY OneStep
  <2>1. UNCHANGED <<occurred, since>>
    BY DEF ledgerVars
  <2>2. Happened' = Happened /\ \A l : Recent(l)' = Recent(l)
    BY <2>1, ListsKept DEF Happened, Recent
  <2> QED BY <2>1, <2>2, ListsKept DEF FewRecent
<1> QED BY <1>1, <1>2, PTL DEF Spec

(* The same of the instance, in which streams fail and begin anew, and a   *)
(* symbol is loaded again.                                                 *)
THEOREM DataTransfersAreTold == Spec => []TransferTold
<1>1. LedgersAssumption /\ TradesApart
  BY DataAssumption
<1> QED BY <1>1, PartsKept, FewAreRecent, TransfersAreTold, PTL

(* Every variable of the data modules holds a value of its kind.           *)
THEOREM DataTypesKept == Spec => []DataTypeOK
<1>1. LedgersTypeOK /\ BooksTypeOK /\ CandlesTypeOK /\ MarketTypeOK /\ FundsTypeOK => DataTypeOK
  BY DEF DataTypeOK
<1>2. /\ LedgersAssumption /\ OrderBooksAssumption /\ CandlesAssumption /\ CalendarAssumption
      /\ MarketChannelsAssumption /\ AccountFundsAssumption
  BY DataAssumption
<1> QED BY <1>1, <1>2, PartsKept, LedgersTypesKept, BooksTypesKept, CandlesTypesKept, MarketTypesKept,
           FundsTypesKept, PTL
=============================================================================
