------------------------ MODULE RecentPatterns_proofs ------------------------
(***************************************************************************)
(* Lemmas about the lists of webui/src/storage: what list.filter keeps,    *)
(* what a list that is cut keeps, and that no operation on the recent      *)
(* patterns lists a pattern twice.                                         *)
(***************************************************************************)
EXTENDS RecentPatterns, SequenceTheorems, FunctionTheorems, FiniteSetTheorems,
        TLAPS

(***************************************************************************)
(* Induction up to n, about a set instead of a predicate.                  *)
(***************************************************************************)
LEMMA UpTo ==
  ASSUME NEW n \in Nat, NEW T, 0 \in T,
         \A i \in 0..(n - 1) : i \in T => i + 1 \in T
  PROVE  \A i \in 0..n : i \in T
  <1> DEFINE B == {i \in 0..n : i \notin T}
  <1> SUFFICES ASSUME B # {} PROVE FALSE
    OBVIOUS
  <1>1. B \subseteq Nat
    OBVIOUS
  <1> HIDE DEF B
  <1>2. PICK x \in B : \A y \in B : <<y, x>> \notin OpToRel(<, Nat)
    BY <1>1, WFMin, NatLessThanWellFounded
  <1>3. \A y \in B : ~(y < x)
    BY <1>1, <1>2 DEF OpToRel
  <1>4. x # 0 /\ x - 1 \in 0..(n - 1)
    BY DEF B
  <1>5. x - 1 \in B /\ x - 1 < x
    BY <1>1, <1>4 DEF B
  <1> QED
    BY <1>3, <1>5

(***************************************************************************)
(* list.filter.  The recursion of Among has a solution, ...                *)
(***************************************************************************)
Step(list, K, g, i) ==
  IF i = 0 THEN <<>>
  ELSE IF list[i] \in K THEN Append(g[i - 1], list[i]) ELSE g[i - 1]

LEMMA KeptExists ==
  ASSUME NEW S, NEW list \in Seq(S), NEW K
  PROVE  \E g \in [0..Len(list) -> Seq(S)] :
           g = [i \in 0..Len(list) |-> Step(list, K, g, i)]
  <1> DEFINE n == Len(list)
             T == {i \in 0..n : \E g \in [0..i -> Seq(S)] :
                                  \A k \in 0..i : g[k] = Step(list, K, g, k)}
  <1>0. n \in Nat
    OBVIOUS
  <1>1. 0 \in T
    <2> DEFINE g == [k \in 0..0 |-> <<>>]
    <2>1. g \in [0..0 -> Seq(S)] /\ \A k \in 0..0 : g[k] = Step(list, K, g, k)
      BY DEF Step
    <2>2. \E h \in [0..0 -> Seq(S)] : \A k \in 0..0 : h[k] = Step(list, K, h, k)
      <3> HIDE DEF g
      <3> QED
        BY <2>1
    <2>3. 0 \in 0..n
      BY <1>0
    <2> QED
      BY <2>2, <2>3
  <1>2. ASSUME NEW i \in 0..(n - 1), i \in T
        PROVE  i + 1 \in T
    <2>1. PICK g \in [0..i -> Seq(S)] : \A k \in 0..i : g[k] = Step(list, K, g, k)
      BY <1>2
    <2>2. list[i + 1] \in S /\ i \in Nat /\ i + 1 \in 0..n
      BY <1>0
    <2> DEFINE new == IF list[i + 1] \in K THEN Append(g[i], list[i + 1]) ELSE g[i]
               h == [k \in 0..(i + 1) |-> IF k = i + 1 THEN new ELSE g[k]]
    <2>3. g[i] \in Seq(S) /\ new \in Seq(S)
      BY <2>1, <2>2
    <2> HIDE DEF new
    <2>4. h \in [0..(i + 1) -> Seq(S)]
      BY <2>2, <2>3
    <2>5. ASSUME NEW k \in 0..(i + 1)
          PROVE  h[k] = Step(list, K, h, k)
      <3>1. CASE k = i + 1
        <4>1. h[k] = new /\ h[k - 1] = g[i] /\ k # 0
          BY <2>2, <3>1
        <4> QED
          BY <3>1, <4>1 DEF Step, new
      <3>2. CASE k # i + 1
        <4>1. k \in 0..i /\ h[k] = g[k] /\ (k # 0 => h[k - 1] = g[k - 1])
          BY <2>2, <3>2
        <4> HIDE DEF h
        <4> QED
          BY <2>1, <4>1 DEF Step
      <3> QED
        BY <3>1, <3>2
    <2> HIDE DEF h
    <2> QED
      BY <2>2, <2>4, <2>5
  <1>3. n \in T
    <2> HIDE DEF T, n
    <2>1. \A i \in 0..n : i \in T
      BY <1>0, <1>1, <1>2, UpTo, Zenon
    <2> QED
      BY <1>0, <2>1
  <1>4. PICK g \in [0..n -> Seq(S)] : \A k \in 0..n : g[k] = Step(list, K, g, k)
    BY <1>3
  <1>5. g = [i \in 0..n |-> Step(list, K, g, i)]
    BY <1>4
  <1> QED
    BY <1>5

(***************************************************************************)
(* ... and what it returns is a part of the list, in its order: f gives    *)
(* the place in the list of each element that is kept.                     *)
(***************************************************************************)
Places(r, list, K, f) ==
  /\ f \in [1..Len(r) -> 1..Len(list)]
  /\ \A k \in 1..Len(r) : r[k] = list[f[k]] /\ f[k] >= k
  /\ \A k, l \in 1..Len(r) : k < l => f[k] < f[l]
  /\ \A i \in 1..Len(list) : list[i] \in K => \E k \in 1..Len(r) : f[k] = i

LEMMA AmongFacts ==
  ASSUME NEW S, NEW list \in Seq(S), NEW K
  PROVE  /\ Among(list, K) \in Seq(S \cap K)
         /\ Len(Among(list, K)) <= Len(list)
         /\ \E f : Places(Among(list, K), list, K, f)
  <1> DEFINE n == Len(list)
             kept == CHOOSE g : g = [i \in 0..n |-> Step(list, K, g, i)]
             Placed(i, r, f) ==
               /\ f \in [1..Len(r) -> 1..i]
               /\ \A k \in 1..Len(r) : r[k] = list[f[k]] /\ f[k] >= k
               /\ \A k, l \in 1..Len(r) : k < l => f[k] < f[l]
               /\ \A j \in 1..i : list[j] \in K => \E k \in 1..Len(r) : f[k] = j
             T == {i \in 0..n : /\ kept[i] \in Seq(S \cap K)
                                /\ Len(kept[i]) <= i
                                /\ \E f : Placed(i, kept[i], f)}
  <1>0. n \in Nat
    OBVIOUS
  <1>1. kept = [i \in 0..n |-> Step(list, K, kept, i)]
    BY KeptExists
  <1>2. Among(list, K) = kept[n]
    BY DEF Among, Step
  <1> HIDE DEF kept
  <1>3. kept[0] = <<>> /\ \A i \in 0..(n - 1) :
          kept[i + 1] = IF list[i + 1] \in K THEN Append(kept[i], list[i + 1]) ELSE kept[i]
    <2>1. \A i \in 0..n : kept[i] = Step(list, K, kept, i)
      BY <1>1
    <2>2. ASSUME NEW i \in 0..(n - 1)
          PROVE  kept[i + 1] = IF list[i + 1] \in K THEN Append(kept[i], list[i + 1]) ELSE kept[i]
      <3>1. i + 1 \in 0..n /\ i + 1 # 0 /\ (i + 1) - 1 = i
        BY <1>0
      <3> QED
        BY <2>1, <3>1 DEF Step
    <2> QED
      BY <1>0, <2>1, <2>2 DEF Step
  <1>4. 0 \in T
    <2>1. \E f : Placed(0, <<>>, f)
      <3>1. Placed(0, <<>>, <<>>)
        OBVIOUS
      <3> QED
        BY <3>1
    <2>2. <<>> \in Seq(S \cap K) /\ Len(<<>>) <= 0 /\ 0 \in 0..n
      BY <1>0
    <2> HIDE DEF Placed
    <2> QED
      BY <1>3, <2>1, <2>2
  <1>5. ASSUME NEW i \in 0..(n - 1), i \in T
        PROVE  i + 1 \in T
    <2> DEFINE r == kept[i]
               x == list[i + 1]
    <2>1. /\ r \in Seq(S \cap K) /\ Len(r) <= i
          /\ \E f : Placed(i, r, f)
      BY <1>5
    <2>2. PICK f : Placed(i, r, f)
      BY <2>1
    <2>3. i \in Nat /\ i + 1 \in 0..n /\ x \in S /\ Len(r) \in Nat
      BY <1>0, <2>1
    <2>4. CASE x \notin K
      <3>1. kept[i + 1] = r
        BY <1>3, <2>4
      <3>2. Placed(i + 1, r, f)
        <4>1. f \in [1..Len(r) -> 1..(i + 1)]
          BY <2>2, <2>3
        <4>2. \A j \in 1..(i + 1) : list[j] \in K => j \in 1..i
          BY <2>3, <2>4
        <4> QED
          BY <2>2, <4>1, <4>2
      <3> HIDE DEF r, Placed
      <3> QED
        BY <2>1, <2>3, <3>1, <3>2
    <2>5. CASE x \in K
      <3> DEFINE q == Append(r, x)
                 g == [k \in 1..(Len(r) + 1) |-> IF k = Len(r) + 1 THEN i + 1 ELSE f[k]]
      <3>1. kept[i + 1] = q
        BY <1>3, <2>5
      <3> HIDE DEF r, x
      <3>2. /\ q \in Seq(S \cap K) /\ Len(q) = Len(r) + 1
            /\ q[Len(r) + 1] = x /\ \A k \in 1..Len(r) : q[k] = r[k]
        BY <2>1, <2>3, <2>5
      <3> HIDE DEF q
      <3>3. /\ g[Len(r) + 1] = i + 1 /\ \A k \in 1..Len(r) : g[k] = f[k]
            /\ g \in [1..Len(q) -> 1..(i + 1)]
        BY <2>2, <2>3, <3>2
      <3>4. \A k \in 1..Len(r) : f[k] \in 1..i
        BY <2>2
      <3> HIDE DEF g
      <3>5. \A k \in 1..Len(q) : k \in 1..Len(r) \/ k = Len(r) + 1
        BY <2>3, <3>2
      <3>6. \A k \in 1..Len(q) : q[k] = list[g[k]] /\ g[k] >= k
        BY <2>1, <2>2, <2>3, <3>2, <3>3, <3>5 DEF x
      <3>7. \A k, l \in 1..Len(q) : k < l => g[k] < g[l]
        <4> SUFFICES ASSUME NEW k \in 1..Len(q), NEW l \in 1..Len(q), k < l
                     PROVE  g[k] < g[l]
          OBVIOUS
        <4>1. k \in 1..Len(r)
          BY <2>3, <3>2
        <4>2. CASE l \in 1..Len(r)
          BY <2>2, <3>3, <4>1, <4>2
        <4>3. CASE l = Len(r) + 1
          BY <2>3, <3>3, <3>4, <4>1, <4>3
        <4> QED
          BY <3>5, <4>2, <4>3
      <3>8. \A j \in 1..(i + 1) : list[j] \in K => \E k \in 1..Len(q) : g[k] = j
        <4> SUFFICES ASSUME NEW j \in 1..(i + 1), list[j] \in K
                     PROVE  \E k \in 1..Len(q) : g[k] = j
          OBVIOUS
        <4>1. CASE j = i + 1
          BY <2>3, <3>2, <3>3, <4>1
        <4>2. CASE j \in 1..i
          <5>1. PICK k \in 1..Len(r) : f[k] = j
            BY <2>2, <4>2
          <5>2. k \in 1..Len(q) /\ g[k] = j
            BY <2>3, <3>2, <3>3, <5>1
          <5> QED
            BY <5>2
        <4> QED
          BY <2>3, <4>1, <4>2
      <3>9. Placed(i + 1, q, g)
        BY <3>3, <3>6, <3>7, <3>8
      <3> HIDE DEF Placed
      <3> QED
        BY <2>1, <2>3, <3>1, <3>2, <3>9
    <2> QED
      BY <2>4, <2>5
  <1>6. n \in T
    <2> HIDE DEF T, n
    <2>1. \A i \in 0..n : i \in T
      BY <1>0, <1>4, <1>5, UpTo, Zenon
    <2> QED
      BY <1>0, <2>1
  <1>7. PICK f : Placed(n, kept[n], f)
    BY <1>6
  <1>8. Places(kept[n], list, K, f)
    BY <1>7 DEF Places
  <1> QED
    BY <1>2, <1>6, <1>8

(***************************************************************************)
(* A list that is a part of another: each of its elements is at a place of *)
(* its own in the other.                                                   *)
(***************************************************************************)
Part(r, list) ==
  \E f \in [1..Len(r) -> 1..Len(list)] :
    /\ \A k \in 1..Len(r) : r[k] = list[f[k]]
    /\ \A k, l \in 1..Len(r) : f[k] = f[l] => k = l

\* No element, and no pattern, is in the list twice.
NoneTwice(list)     == \A i, j \in DOMAIN list : list[i] = list[j] => i = j
OnePerPattern(list) == \A i, j \in DOMAIN list : list[i].pattern = list[j].pattern => i = j

LEMMA PartKeeps ==
  ASSUME NEW S, NEW list \in Seq(S), NEW R, NEW r \in Seq(R), Part(r, list)
  PROVE  /\ NoneTwice(list) => NoneTwice(r)
         /\ OnePerPattern(list) => OnePerPattern(r)
         /\ Elements(r) \subseteq Elements(list)
         /\ PatternsOf(r) \subseteq PatternsOf(list)
  <1>1. DOMAIN list = 1..Len(list) /\ DOMAIN r = 1..Len(r)
    OBVIOUS
  <1>2. PICK f \in [1..Len(r) -> 1..Len(list)] :
          /\ \A k \in 1..Len(r) : r[k] = list[f[k]]
          /\ \A k, l \in 1..Len(r) : f[k] = f[l] => k = l
    BY DEF Part
  <1>3. \A k \in 1..Len(r) : f[k] \in 1..Len(list)
    BY <1>2
  <1>4. NoneTwice(list) => NoneTwice(r)
    BY <1>1, <1>2, <1>3 DEF NoneTwice
  <1>5. OnePerPattern(list) => OnePerPattern(r)
    BY <1>1, <1>2, <1>3 DEF OnePerPattern
  <1>6. Elements(r) \subseteq Elements(list) /\ PatternsOf(r) \subseteq PatternsOf(list)
    BY <1>1, <1>2, <1>3 DEF Elements, PatternsOf
  <1> QED
    BY <1>4, <1>5, <1>6

(***************************************************************************)
(* A list without duplicates is as long as the set of what it lists.       *)
(***************************************************************************)
LEMMA Count ==
  ASSUME NEW n \in Nat, NEW f, DOMAIN f = 1..n,
         \A i, j \in 1..n : f[i] = f[j] => i = j
  PROVE  Cardinality({f[i] : i \in 1..n}) = n
  <1> DEFINE T == {f[i] : i \in 1..n}
             b == [i \in 1..n |-> f[i]]
  <1>1. b \in [1..n -> T] /\ \A i, j \in 1..n : b[i] = b[j] => i = j
    OBVIOUS
  <1>2. \A t \in T : \E i \in 1..n : b[i] = t
    OBVIOUS
  <1> HIDE DEF b, T
  <1>3. b \in Bijection(1..n, T)
    BY <1>1, <1>2, Fun_IsBij
  <1>4. ExistsBijection(1..n, T)
    BY <1>3, Fun_ExistsBij
  <1>5. Cardinality(T) = n
    BY <1>4, FS_CountingElements
  <1> QED
    BY <1>5 DEF T

LEMMA CountElements ==
  ASSUME NEW S, NEW list \in Seq(S), NoneTwice(list)
  PROVE  Cardinality(Elements(list)) = Len(list)
  <1>1. Len(list) \in Nat /\ DOMAIN list = 1..Len(list)
    OBVIOUS
  <1>2. Cardinality({list[i] : i \in 1..Len(list)}) = Len(list)
    BY <1>1, Count DEF NoneTwice
  <1> QED
    BY <1>1, <1>2 DEF Elements

LEMMA CountPatterns ==
  ASSUME NEW S, NEW list \in Seq(S)
  PROVE  /\ IsFiniteSet(PatternsOf(list))
         /\ Cardinality(PatternsOf(list)) \in Nat
         /\ Cardinality(PatternsOf(list)) <= Len(list)
         /\ OnePerPattern(list) => Cardinality(PatternsOf(list)) = Len(list)
  <1> DEFINE n == Len(list)
             T == PatternsOf(list)
             f == [i \in 1..n |-> list[i].pattern]
  <1>1. n \in Nat /\ DOMAIN list = 1..n
    OBVIOUS
  <1>2. T = {f[i] : i \in 1..n}
    BY <1>1 DEF PatternsOf
  <1>3. f \in [1..n -> T] /\ \A t \in T : \E i \in 1..n : f[i] = t
    BY <1>1, <1>2
  <1>4. OnePerPattern(list) => \A i, j \in 1..n : f[i] = f[j] => i = j
    BY <1>1 DEF OnePerPattern
  <1>5. DOMAIN f = 1..n
    OBVIOUS
  <1> HIDE DEF f, T, n
  <1>6. f \in Surjection(1..n, T)
    BY <1>3, Fun_IsSurj
  <1>7. IsFiniteSet(1..n) /\ Cardinality(1..n) = n
    BY <1>1, FS_Interval
  <1>8. IsFiniteSet(T) /\ Cardinality(T) <= n
    BY <1>6, <1>7, FS_Surjection
  <1>9. Cardinality(T) \in Nat
    BY <1>8, FS_CardinalityType
  <1>10. OnePerPattern(list) => Cardinality(T) = n
    BY <1>1, <1>2, <1>4, <1>5, Count
  <1> QED
    BY <1>8, <1>9, <1>10 DEF T, n

(***************************************************************************)
(* What is kept by a filter, and what by a cut.                            *)
(***************************************************************************)
LEMMA AmongPart ==
  ASSUME NEW S, NEW list \in Seq(S), NEW K
  PROVE  /\ Among(list, K) \in Seq(S)
         /\ Part(Among(list, K), list)
         /\ Elements(Among(list, K)) = Elements(list) \cap K
  <1> DEFINE r == Among(list, K)
  <1>1. r \in Seq(S \cap K) /\ \E f : Places(r, list, K, f)
    BY AmongFacts
  <1> HIDE DEF r
  <1>2. PICK f : Places(r, list, K, f)
    BY <1>1
  <1>3. r \in Seq(S) /\ Len(r) \in Nat /\ DOMAIN r = 1..Len(r) /\ DOMAIN list = 1..Len(list)
    BY <1>1
  <1>4. \A k, l \in 1..Len(r) : f[k] = f[l] => k = l
    <2> SUFFICES ASSUME NEW k \in 1..Len(r), NEW l \in 1..Len(r), f[k] = f[l], k # l
                 PROVE  FALSE
      OBVIOUS
    <2>1. f[k] \in Int /\ f[l] \in Int
      BY <1>2 DEF Places
    <2>2. k < l \/ l < k
      BY <1>3
    <2> QED
      BY <1>2, <2>1, <2>2 DEF Places
  <1>5. Part(r, list)
    BY <1>2, <1>4 DEF Part, Places
  <1>6. \A k \in 1..Len(r) : r[k] \in K
    BY <1>1
  <1>7. Elements(r) \subseteq Elements(list) \cap K
    BY <1>2, <1>3, <1>6 DEF Elements, Places
  <1>8. Elements(list) \cap K \subseteq Elements(r)
    <2> SUFFICES ASSUME NEW j \in 1..Len(list), list[j] \in K
                 PROVE  \E k \in 1..Len(r) : r[k] = list[j]
      BY <1>3 DEF Elements
    <2>1. PICK k \in 1..Len(r) : f[k] = j
      BY <1>2 DEF Places
    <2> QED
      BY <1>2, <2>1 DEF Places
  <1> QED
    BY <1>3, <1>5, <1>7, <1>8 DEF r

LEMMA FirstFacts ==
  ASSUME NEW S, NEW list \in Seq(S), NEW n \in Nat
  PROVE  /\ First(list, n) \in Seq(S)
         /\ Len(First(list, n)) = IF Len(list) < n THEN Len(list) ELSE n
         /\ \A i \in 1..Len(First(list, n)) : First(list, n)[i] = list[i]
         /\ Len(list) <= n => First(list, n) = list
         /\ Part(First(list, n), list)
  <1> DEFINE m == IF Len(list) < n THEN Len(list) ELSE n
             r == SubSeq(list, 1, m)
  <1>1. m \in Nat /\ m <= Len(list) /\ Len(list) \in Nat
    OBVIOUS
  <1>2. First(list, n) = r
    BY DEF First
  <1> HIDE DEF m
  <1>3. r \in Seq(S) /\ Len(r) = m /\ \A i \in 1..m : r[i] = list[i]
    BY <1>1
  <1> HIDE DEF r
  <1>4. Part(r, list)
    <2> DEFINE f == [i \in 1..m |-> i]
    <2>1. f \in [1..Len(r) -> 1..Len(list)]
      BY <1>1, <1>3
    <2>2. \A k \in 1..Len(r) : f[k] = k
      BY <1>3
    <2> HIDE DEF f
    <2>3. \A k \in 1..Len(r) : r[k] = list[f[k]]
      BY <1>3, <2>2
    <2>4. \A k, l \in 1..Len(r) : f[k] = f[l] => k = l
      BY <2>2
    <2> QED
      BY <2>1, <2>3, <2>4 DEF Part
  <1>5. ASSUME Len(list) <= n
        PROVE  r = list
    <2>1. m = Len(list)
      BY <1>1, <1>5 DEF m
    <2> QED
      BY <1>3, <2>1, SeqEqual
  <1> QED
    BY <1>2, <1>3, <1>4, <1>5 DEF m

(***************************************************************************)
(* The patterns of a list after each operation, and that none is listed    *)
(* twice.                                                                  *)
(***************************************************************************)
LEMMA WithoutFacts ==
  ASSUME NEW list \in Seq(Items), NEW p
  PROVE  /\ Without(list, p) \in Seq(Items)
         /\ Part(Without(list, p), list)
         /\ PatternsOf(Without(list, p)) = PatternsOf(list) \ {p}
  <1> DEFINE K == {x \in Elements(list) : x.pattern # p}
             r == Among(list, K)
  <1>1. r \in Seq(Items) /\ Part(r, list) /\ Elements(r) = Elements(list) \cap K
    BY AmongPart
  <1>2. PatternsOf(r) = {x.pattern : x \in Elements(r)} /\ PatternsOf(list) = {x.pattern : x \in Elements(list)}
    BY DEF PatternsOf, Elements
  <1>3. Without(list, p) = r
    BY DEF Without
  <1> HIDE DEF r
  <1>4. PatternsOf(r) = PatternsOf(list) \ {p}
    BY <1>1, <1>2
  <1> QED
    BY <1>1, <1>3, <1>4

\* Pinned patterns come first.
PinnedFirst(list) ==
  \A i, j \in 1..Len(list) : i < j /\ list[j].pinned = "yes" => list[i].pinned = "yes"

LEMMA SortedFacts ==
  ASSUME NEW list \in Seq(Items)
  PROVE  /\ Sorted(list) \in Seq(Items)
         /\ Elements(Sorted(list)) = Elements(list)
         /\ Part(Sorted(list), list)
         /\ PinnedFirst(Sorted(list))
  <1> DEFINE Y == {x \in Elements(list) : x.pinned = "yes"}
             N == {x \in Elements(list) : x.pinned = "no"}
             a == Among(list, Y)
             b == Among(list, N)
             s == Sorted(list)
  <1>1. /\ a \in Seq(Items) /\ Part(a, list) /\ Elements(a) = Elements(list) \cap Y
        /\ b \in Seq(Items) /\ Part(b, list) /\ Elements(b) = Elements(list) \cap N
    BY AmongPart
  <1>2. s = a \o b
    BY DEF Sorted
  <1>3. \A x \in Elements(list) : x \in Items
    BY DEF Elements
  <1>4. Elements(list) = Y \cup N /\ Y \cap N = {}
    BY <1>3 DEF Items
  <1> HIDE DEF a, b, s
  <1>5. /\ Len(a) \in Nat /\ Len(b) \in Nat /\ Len(list) \in Nat
        /\ DOMAIN a = 1..Len(a) /\ DOMAIN b = 1..Len(b)
    BY <1>1
  <1>6. /\ s \in Seq(Items) /\ Len(s) = Len(a) + Len(b)
        /\ \A i \in 1..(Len(a) + Len(b)) : s[i] = IF i <= Len(a) THEN a[i] ELSE b[i - Len(a)]
    BY <1>1, <1>2, ConcatProperties
  <1>7. /\ DOMAIN s = 1..Len(s)
        /\ \A i \in 1..Len(s) : \/ i \in 1..Len(a) /\ s[i] = a[i]
                                \/ i > Len(a) /\ i - Len(a) \in 1..Len(b) /\ s[i] = b[i - Len(a)]
    BY <1>5, <1>6
  <1>8. \A i \in 1..Len(a) : a[i] \in Y /\ i \in 1..Len(s) /\ s[i] = a[i]
    <2> SUFFICES ASSUME NEW i \in 1..Len(a)
                 PROVE  a[i] \in Y /\ i \in 1..Len(s) /\ s[i] = a[i]
      OBVIOUS
    <2>1. i \in 1..(Len(a) + Len(b)) /\ i <= Len(a)
      BY <1>5
    <2>2. a[i] \in Elements(a)
      BY <1>5 DEF Elements
    <2> QED
      BY <1>1, <1>6, <2>1, <2>2
  <1>9. \A i \in 1..Len(b) : b[i] \in N /\ i + Len(a) \in 1..Len(s) /\ s[i + Len(a)] = b[i]
    <2>1. ASSUME NEW i \in 1..Len(b)
          PROVE  i + Len(a) \in 1..(Len(a) + Len(b)) /\ ~(i + Len(a) <= Len(a)) /\ (i + Len(a)) - Len(a) = i
      BY <1>5
    <2> QED
      BY <1>1, <1>5, <1>6, <2>1 DEF Elements
  <1>10. Elements(s) = Elements(a) \cup Elements(b)
    <2>1. \A i \in DOMAIN s : s[i] \in Elements(a) \cup Elements(b)
      BY <1>5, <1>7 DEF Elements
    <2>2. \A i \in DOMAIN a : a[i] \in Elements(s)
      BY <1>5, <1>7, <1>8 DEF Elements
    <2>3. \A i \in DOMAIN b : b[i] \in Elements(s)
      BY <1>5, <1>7, <1>9 DEF Elements
    <2>4. Elements(s) \subseteq Elements(a) \cup Elements(b)
      BY <2>1 DEF Elements
    <2> QED
      BY <2>2, <2>3, <2>4 DEF Elements
  <1>11. Elements(s) = Elements(list)
    BY <1>1, <1>4, <1>10
  <1>12. PinnedFirst(s)
    <2> SUFFICES ASSUME NEW i \in 1..Len(s), NEW j \in 1..Len(s), i < j, s[j].pinned = "yes"
                 PROVE  s[i].pinned = "yes"
      BY DEF PinnedFirst
    <2>1. j \in 1..Len(a)
      BY <1>7, <1>9
    <2>2. i \in 1..Len(a)
      BY <1>5, <1>6, <2>1
    <2> QED
      BY <1>8, <2>2
  <1>13. Part(s, list)
    <2>1. PICK f \in [1..Len(a) -> 1..Len(list)] :
            /\ \A k \in 1..Len(a) : a[k] = list[f[k]]
            /\ \A k, l \in 1..Len(a) : f[k] = f[l] => k = l
      BY <1>1 DEF Part
    <2>2. PICK g \in [1..Len(b) -> 1..Len(list)] :
            /\ \A k \in 1..Len(b) : b[k] = list[g[k]]
            /\ \A k, l \in 1..Len(b) : g[k] = g[l] => k = l
      BY <1>1 DEF Part
    <2> DEFINE h == [k \in 1..Len(s) |-> IF k \in 1..Len(a) THEN f[k] ELSE g[k - Len(a)]]
    <2>3. h \in [1..Len(s) -> 1..Len(list)]
      BY <1>5, <1>6, <2>1, <2>2
    <2>4. \A k \in 1..Len(s) :
            \/ k \in 1..Len(a) /\ h[k] = f[k] /\ s[k] = list[h[k]] /\ list[h[k]] \in Y
            \/ /\ k - Len(a) \in 1..Len(b) /\ h[k] = g[k - Len(a)] /\ s[k] = list[h[k]]
               /\ list[h[k]] \in N
      <3> SUFFICES ASSUME NEW k \in 1..Len(s)
                   PROVE  \/ k \in 1..Len(a) /\ h[k] = f[k] /\ s[k] = list[h[k]] /\ list[h[k]] \in Y
                          \/ /\ k - Len(a) \in 1..Len(b) /\ h[k] = g[k - Len(a)] /\ s[k] = list[h[k]]
                             /\ list[h[k]] \in N
        OBVIOUS
      <3>1. CASE k \in 1..Len(a)
        BY <1>8, <2>1, <3>1
      <3>2. CASE k > Len(a) /\ k - Len(a) \in 1..Len(b) /\ s[k] = b[k - Len(a)]
        <4>1. k \notin 1..Len(a)
          BY <1>5, <3>2
        <4> QED
          BY <1>9, <2>2, <3>2, <4>1
      <3> QED
        BY <1>7, <3>1, <3>2
    <2> HIDE DEF h, Y, N
    <2>5. \A k \in 1..Len(s) : s[k] = list[h[k]]
      BY <2>4
    <2>6. ASSUME NEW k \in 1..Len(s), NEW l \in 1..Len(s), h[k] = h[l]
          PROVE  k = l
      <3>1. k \in Int /\ l \in Int
        OBVIOUS
      <3>2. CASE k \in 1..Len(a) /\ h[k] = f[k] /\ l \in 1..Len(a) /\ h[l] = f[l]
        BY <2>1, <2>6, <3>2
      <3>3. CASE /\ k - Len(a) \in 1..Len(b) /\ h[k] = g[k - Len(a)]
                 /\ l - Len(a) \in 1..Len(b) /\ h[l] = g[l - Len(a)]
        <4>1. k - Len(a) = l - Len(a)
          BY <2>2, <2>6, <3>3
        <4> QED
          BY <1>5, <3>1, <4>1
      <3>4. ~(list[h[k]] \in Y /\ list[h[l]] \in N) /\ ~(list[h[k]] \in N /\ list[h[l]] \in Y)
        BY <1>4, <2>6
      <3> QED
        BY <2>4, <3>2, <3>3, <3>4
    <2> QED
      BY <2>3, <2>5, <2>6 DEF Part
  <1> QED
    BY <1>6, <1>11, <1>12, <1>13 DEF s

LEMMA InFront ==
  ASSUME NEW S, NEW x \in S, NEW r \in Seq(S)
  PROVE  /\ <<x>> \o r \in Seq(S)
         /\ Len(<<x>> \o r) = Len(r) + 1
         /\ (<<x>> \o r)[1] = x
         /\ \A i \in 1..Len(r) : (<<x>> \o r)[i + 1] = r[i]
         /\ \A i \in 2..(Len(r) + 1) : i - 1 \in 1..Len(r) /\ (<<x>> \o r)[i] = r[i - 1]
         /\ Elements(<<x>> \o r) = {x} \cup Elements(r)
         /\ x \notin Elements(r) /\ NoneTwice(r) => NoneTwice(<<x>> \o r)
  <1> DEFINE o == <<x>>
             c == o \o r
  <1>1. o \in Seq(S) /\ Len(o) = 1 /\ o[1] = x /\ Len(r) \in Nat /\ DOMAIN r = 1..Len(r)
    OBVIOUS
  <1> HIDE DEF o
  <1>2. /\ c \in Seq(S) /\ Len(c) = 1 + Len(r)
        /\ \A i \in 1..(1 + Len(r)) : c[i] = IF i <= 1 THEN o[i] ELSE r[i - 1]
    <2>1. /\ c \in Seq(S) /\ Len(c) = Len(o) + Len(r)
          /\ \A i \in 1..(Len(o) + Len(r)) : c[i] = IF i <= Len(o) THEN o[i] ELSE r[i - Len(o)]
      BY <1>1, ConcatProperties
    <2> HIDE DEF c
    <2> QED
      BY <1>1, <2>1
  <1> HIDE DEF c
  <1>3. c[1] = x /\ 1 \in 1..Len(c) /\ DOMAIN c = 1..(Len(r) + 1)
    BY <1>1, <1>2
  <1>4. ASSUME NEW i \in 1..Len(r)
        PROVE  c[i + 1] = r[i] /\ i + 1 \in DOMAIN c
    <2>1. i + 1 \in 1..(1 + Len(r)) /\ ~(i + 1 <= 1) /\ (i + 1) - 1 = i
      BY <1>1
    <2> QED
      BY <1>2, <1>3, <2>1
  <1>5. ASSUME NEW i \in 2..(Len(r) + 1)
        PROVE  i - 1 \in 1..Len(r) /\ c[i] = r[i - 1]
    <2>1. i \in 1..(1 + Len(r)) /\ ~(i <= 1) /\ i - 1 \in 1..Len(r)
      BY <1>1
    <2> QED
      BY <1>2, <2>1
  <1>6. \A i \in DOMAIN c : i = 1 \/ i \in 2..(Len(r) + 1)
    BY <1>1, <1>3
  <1>7. Elements(c) = {x} \cup Elements(r)
    <2>1. \A i \in DOMAIN c : c[i] \in {x} \cup Elements(r)
      BY <1>1, <1>3, <1>5, <1>6 DEF Elements
    <2>2. x \in Elements(c) /\ \A i \in DOMAIN r : r[i] \in Elements(c)
      <3>1. 1 \in DOMAIN c
        BY <1>1, <1>3
      <3>2. \A k \in DOMAIN c : c[k] \in Elements(c)
        BY DEF Elements
      <3> QED
        BY <1>1, <1>3, <1>4, <3>1, <3>2
    <2>3. Elements(c) \subseteq {x} \cup Elements(r)
      BY <2>1 DEF Elements
    <2> QED
      BY <2>2, <2>3 DEF Elements
  <1>8. ASSUME x \notin Elements(r), NoneTwice(r)
        PROVE  NoneTwice(c)
    <2> SUFFICES ASSUME NEW i \in DOMAIN c, NEW j \in DOMAIN c, c[i] = c[j]
                 PROVE  i = j
      BY DEF NoneTwice
    <2>1. \A k \in 2..(Len(r) + 1) : c[k] = r[k - 1] /\ k - 1 \in DOMAIN r /\ c[k] # x
      BY <1>1, <1>5, <1>8 DEF Elements
    <2>2. CASE i = 1 \/ j = 1
      BY <1>3, <1>6, <2>1, <2>2
    <2>3. CASE i \in 2..(Len(r) + 1) /\ j \in 2..(Len(r) + 1)
      <3>1. i - 1 = j - 1
        BY <1>8, <2>1, <2>3 DEF NoneTwice
      <3> QED
        BY <2>3, <3>1
    <2> QED
      BY <1>6, <2>2, <2>3
  <1> QED
    BY <1>2, <1>3, <1>4, <1>5, <1>7, <1>8 DEF c, o

LEMMA PushedFacts ==
  ASSUME NEW list \in Seq(Items), NEW p \in Patterns
  PROVE  /\ Pushed(list, p) \in Seq(Items)
         /\ PatternsOf(Pushed(list, p)) = PatternsOf(list) \cup {p}
         /\ OnePerPattern(list) => OnePerPattern(Pushed(list, p))
         /\ Len(Pushed(list, p)) = Len(Without(list, p)) + 1
         /\ \A i \in 1..Len(Without(list, p)) : Pushed(list, p)[i + 1] = Without(list, p)[i]
  <1> DEFINE x == Item(p, IF p \in PinnedIn(list) THEN "yes" ELSE "no")
             r == Without(list, p)
             c == <<x>> \o r
  <1>1. x \in Items /\ x.pattern = p
    BY DEF Items, Item
  <1>2. r \in Seq(Items) /\ Part(r, list) /\ PatternsOf(r) = PatternsOf(list) \ {p}
    BY WithoutFacts
  <1>3. Pushed(list, p) = c
    BY DEF Pushed, Others
  <1> HIDE DEF x, r
  <1>4. /\ c \in Seq(Items) /\ Len(c) = Len(r) + 1 /\ c[1] = x
        /\ \A i \in 1..Len(r) : c[i + 1] = r[i]
        /\ \A i \in 2..(Len(r) + 1) : i - 1 \in 1..Len(r) /\ c[i] = r[i - 1]
        /\ Elements(c) = {x} \cup Elements(r)
    BY <1>1, <1>2, InFront
  <1> HIDE DEF c
  <1>5. PatternsOf(c) = {y.pattern : y \in Elements(c)} /\ PatternsOf(r) = {y.pattern : y \in Elements(r)}
    BY DEF PatternsOf, Elements
  <1>6. PatternsOf(c) = PatternsOf(list) \cup {p}
    <2>1. PatternsOf(c) = {p} \cup PatternsOf(r)
      BY <1>1, <1>4, <1>5
    <2> QED
      BY <1>2, <2>1
  <1>7. ASSUME OnePerPattern(list)
        PROVE  OnePerPattern(c)
    <2>1. OnePerPattern(r)
      BY <1>2, <1>7, PartKeeps
    <2>2. DOMAIN c = 1..(Len(r) + 1) /\ DOMAIN r = 1..Len(r) /\ Len(r) \in Nat
      BY <1>2, <1>4
    <2> SUFFICES ASSUME NEW i \in DOMAIN c, NEW j \in DOMAIN c, c[i].pattern = c[j].pattern
                 PROVE  i = j
      BY DEF OnePerPattern
    <2>3. \A k \in 2..(Len(r) + 1) : c[k] = r[k - 1] /\ k - 1 \in DOMAIN r /\ c[k].pattern # p
      BY <1>2, <1>4, <2>2 DEF PatternsOf
    <2>4. \A k \in DOMAIN c : k = 1 \/ k \in 2..(Len(r) + 1)
      BY <2>2
    <2>5. CASE i = 1 \/ j = 1
      BY <1>1, <1>4, <2>3, <2>4, <2>5
    <2>6. CASE i \in 2..(Len(r) + 1) /\ j \in 2..(Len(r) + 1)
      <3>1. i - 1 = j - 1
        BY <2>1, <2>3, <2>6 DEF OnePerPattern
      <3> QED
        BY <2>6, <3>1
    <2> QED
      BY <2>4, <2>5, <2>6
  <1> QED
    BY <1>3, <1>4, <1>6, <1>7 DEF r

LEMMA ToggledFacts ==
  ASSUME NEW list \in Seq(Items), NEW p \in Patterns
  PROVE  /\ Toggled(list, p) \in Seq(Items)
         /\ Len(Toggled(list, p)) = Len(list)
         /\ PatternsOf(Toggled(list, p)) = PatternsOf(list)
         /\ OnePerPattern(list) => OnePerPattern(Toggled(list, p))
  <1> DEFINE t == Toggled(list, p)
  <1>1. Len(list) \in Nat /\ DOMAIN list = 1..Len(list)
    OBVIOUS
  <1>2. \A i \in 1..Len(list) : list[i] \in Items
    OBVIOUS
  <1>3. t = [i \in 1..Len(list) |-> IF list[i].pattern = p
                                      THEN Item(p, Flip(list[i].pinned)) ELSE list[i]]
    BY <1>1 DEF Toggled
  <1>4. \A x \in Items : Item(p, Flip(x.pinned)) \in Items /\ Item(p, Flip(x.pinned)).pattern = p
    BY DEF Items, Item, Flip
  <1> HIDE DEF t
  <1>5. \A i \in 1..Len(list) : t[i] \in Items /\ t[i].pattern = list[i].pattern
    BY <1>2, <1>3, <1>4
  <1>6. t \in [1..Len(list) -> Items]
    BY <1>3, <1>5
  <1>7. t \in Seq(Items) /\ Len(t) = Len(list) /\ DOMAIN t = 1..Len(list)
    BY <1>1, <1>6
  <1>8. PatternsOf(t) = PatternsOf(list)
    BY <1>1, <1>5, <1>7 DEF PatternsOf
  <1>9. OnePerPattern(list) => OnePerPattern(t)
    BY <1>1, <1>5, <1>7 DEF OnePerPattern
  <1> QED
    BY <1>7, <1>8, <1>9 DEF t

LEMMA KeptFacts ==
  ASSUME NEW byUse \in Seq(Items), OnePerPattern(byUse), NEW array \in Seq(Items)
  PROVE  /\ Kept(byUse, array) \in Seq(Items)
         /\ OnePerPattern(Kept(byUse, array))
         /\ Len(Kept(byUse, array)) <= MaxItems
         /\ PatternsOf(Kept(byUse, array)) = PatternsOf(byUse) \cap PatternsOf(First(array, MaxItems))
  <1> DEFINE F == PatternsOf(First(array, MaxItems))
             K == {x \in Elements(byUse) : x.pattern \in F}
             r == Among(byUse, K)
  <1>1. Kept(byUse, array) = r
    BY DEF Kept
  <1>2. r \in Seq(Items) /\ Part(r, byUse) /\ Elements(r) = Elements(byUse) \cap K
    BY AmongPart
  <1>3. First(array, MaxItems) \in Seq(Items) /\ Len(First(array, MaxItems)) <= MaxItems
    BY MaxItemsAssumption, FirstFacts
  <1>4. IsFiniteSet(F) /\ Cardinality(F) \in Nat /\ Cardinality(F) <= Len(First(array, MaxItems))
    BY <1>3, CountPatterns
  <1> HIDE DEF r, F
  <1>5. OnePerPattern(r)
    BY <1>2, PartKeeps
  <1>6. PatternsOf(r) = {y.pattern : y \in Elements(r)} /\ PatternsOf(byUse) = {y.pattern : y \in Elements(byUse)}
    BY DEF PatternsOf, Elements
  <1>7. PatternsOf(r) = PatternsOf(byUse) \cap F
    BY <1>2, <1>6
  <1>8. PatternsOf(r) \in SUBSET F /\ Cardinality(PatternsOf(r)) = Len(r)
    BY <1>2, <1>5, <1>7, CountPatterns
  <1>9. Len(r) <= Cardinality(F)
    BY <1>4, <1>8, FS_Subset
  <1>10. Len(r) <= MaxItems
    BY <1>2, <1>3, <1>4, <1>9, MaxItemsAssumption
  <1> QED
    BY <1>1, <1>2, <1>5, <1>7, <1>10 DEF F

\* Nothing is lost when an array that is no longer than the list may be is saved.
LEMMA KeptAll ==
  ASSUME NEW byUse \in Seq(Items), OnePerPattern(byUse), NEW array \in Seq(Items),
         PatternsOf(byUse) = PatternsOf(array), Len(array) <= MaxItems
  PROVE  PatternsOf(Kept(byUse, array)) = PatternsOf(byUse)
  <1>1. First(array, MaxItems) = array
    BY MaxItemsAssumption, FirstFacts
  <1>2. PatternsOf(Kept(byUse, array)) = PatternsOf(byUse) \cap PatternsOf(First(array, MaxItems))
    BY KeptFacts
  <1> QED
    BY <1>1, <1>2

(***************************************************************************)
(* The invariant of the recent patterns, and what no operation may do: a   *)
(* star keeps a pattern (see PinnedSurvives in BrowserStorage).            *)
(***************************************************************************)
RecentList(list) == list \in Seq(Items) /\ OnePerPattern(list)

RecentInv ==
  /\ full \in 0..MaxFull
  /\ stored # NoItem => RecentList(stored) /\ Len(stored) <= MaxItems
  /\ legacy # NoItem => RecentList(legacy) /\ Len(legacy) <= MaxItems
  /\ RecentList(shown) /\ Len(shown) <= MaxItems + 1

PinnedStep ==
  \A p \in PinnedIn(Recent) \ PatternsOf(Recent') :
    \/ Len(Recent') < Len(Recent)
    \/ PinnedIn(Recent) = PatternsOf(Recent)

LEMMA EmptyList == RecentList(<<>>) /\ Len(<<>>) = 0 /\ PatternsOf(<<>>) = {} /\ Elements(<<>>) = {}
  BY DEF RecentList, OnePerPattern, PatternsOf, Elements

LEMMA ListReadFacts ==
  ASSUME RecentInv
  PROVE  /\ RecentList(Recent) /\ Len(Recent) <= MaxItems
         /\ RecentList(ReadList(stored, legacy)) /\ Len(ReadList(stored, legacy)) <= MaxItems
  BY EmptyList, MaxItemsAssumption DEF RecentInv, Recent, ReadList

LEMMA SortedList ==
  ASSUME NEW list, RecentList(list)
  PROVE  /\ RecentList(Sorted(list)) /\ PatternsOf(Sorted(list)) = PatternsOf(list)
         /\ PinnedIn(Sorted(list)) = PinnedIn(list)
         /\ Len(Sorted(list)) = Len(list)
  <1> DEFINE s == Sorted(list)
  <1>1. /\ list \in Seq(Items) /\ OnePerPattern(list)
        /\ s \in Seq(Items) /\ Part(s, list) /\ Elements(s) = Elements(list)
    BY SortedFacts DEF RecentList
  <1> HIDE DEF s
  <1>2. OnePerPattern(s)
    BY <1>1, PartKeeps
  <1>3. \A l : PatternsOf(l) = {x.pattern : x \in Elements(l)}
    BY DEF PatternsOf, Elements
  <1>4. \A l : PinnedIn(l) = {x.pattern : x \in {y \in Elements(l) : y.pinned = "yes"}}
    BY DEF PinnedIn, Elements
  <1>5. PatternsOf(s) = PatternsOf(list) /\ PinnedIn(s) = PinnedIn(list)
    BY <1>1, <1>3, <1>4
  <1>6. Len(s) = Len(list)
    <2>1. Len(s) = Cardinality(PatternsOf(s)) /\ Len(list) = Cardinality(PatternsOf(list))
      BY <1>1, <1>2, CountPatterns
    <2> QED
      BY <1>5, <2>1
  <1> QED
    BY <1>1, <1>2, <1>5, <1>6 DEF RecentList, s

LEMMA SaveKeeps ==
  ASSUME RecentInv, NEW byUse, RecentList(byUse), NEW array \in Seq(Items), Save(byUse, array)
  PROVE  /\ full' \in 0..MaxFull
         /\ stored' # NoItem => RecentList(stored') /\ Len(stored') <= MaxItems
         /\ stored' = stored \/ stored' = Kept(byUse, array)
  <1>1. full' \in 0..MaxFull
    BY MaxFullAssumption DEF RecentInv, Save, Throw
  <1>2. RecentList(Kept(byUse, array)) /\ Len(Kept(byUse, array)) <= MaxItems
    BY KeptFacts DEF RecentList
  <1> QED
    BY <1>1, <1>2 DEF RecentInv, Save

LEMMA ListKeeps ==
  ASSUME RecentInv, ListRecent
  PROVE  RecentInv' /\ PinnedStep
  <1> DEFINE list == ReadList(stored, legacy)
  <1>1. RecentList(list) /\ Len(list) <= MaxItems
    BY ListReadFacts
  <1>2. RecentList(shown') /\ Len(shown') <= MaxItems
    <2>1. shown' = Sorted(list)
      BY DEF ListRecent
    <2> QED
      BY <1>1, <2>1, SortedList
  <1>3. Len(shown') <= MaxItems + 1
    <2>1. Len(shown') \in Nat
      BY <1>2 DEF RecentList
    <2> QED
      BY <1>2, <2>1, MaxItemsAssumption
  <1>4. CASE Moves(stored, legacy)
    <2>1. /\ Save(legacy, Sorted(legacy)) /\ legacy' = NoItem
          /\ stored = NoItem /\ RecentList(legacy)
      BY <1>4 DEF ListRecent, Moves, RecentInv
    <2>2. Sorted(legacy) \in Seq(Items)
      BY <2>1, SortedList DEF RecentList
    <2>3. /\ full' \in 0..MaxFull
          /\ stored' # NoItem => RecentList(stored') /\ Len(stored') <= MaxItems
      BY <2>1, <2>2, SaveKeeps
    <2>4. PinnedIn(Recent) = {}
      BY <2>1 DEF Recent, ReadList, PinnedIn
    <2> QED
      BY <1>2, <1>3, <2>1, <2>3, <2>4 DEF RecentInv, PinnedStep
  <1>5. CASE ~Moves(stored, legacy)
    <2>1. stored' = stored /\ legacy' = legacy /\ full' = full
      BY <1>5 DEF ListRecent, recentItems
    <2>2. Recent' = Recent /\ PinnedIn(Recent) \subseteq PatternsOf(Recent)
      BY <2>1 DEF Recent, PinnedIn, PatternsOf
    <2> QED
      BY <1>2, <1>3, <2>1, <2>2 DEF RecentInv, PinnedStep
  <1> QED
    BY <1>4, <1>5

\* What an operation of the mounted component does with its two arrays.
LEMMA EditKeeps ==
  ASSUME RecentInv, NEW byUse, RecentList(byUse), NEW array, RecentList(array),
         Len(array) <= MaxItems + 1, Save(byUse, array),
         shown' = array \/ shown' = shown, legacy' = legacy,
         \/ PatternsOf(Recent) \subseteq PatternsOf(Kept(byUse, array))
         \/ Len(Kept(byUse, array)) < Len(Recent)
         \/ \A p \in PinnedIn(Recent) \ PatternsOf(Kept(byUse, array)) :
              PinnedIn(Recent) = PatternsOf(Recent)
  PROVE  RecentInv' /\ PinnedStep
  <1>1. /\ full' \in 0..MaxFull
        /\ stored' # NoItem => RecentList(stored') /\ Len(stored') <= MaxItems
        /\ stored' = stored \/ stored' = Kept(byUse, array)
    BY SaveKeeps DEF RecentList
  <1>2. RecentInv'
    BY <1>1 DEF RecentInv
  <1>3. PinnedIn(Recent) \subseteq PatternsOf(Recent)
    BY DEF PinnedIn, PatternsOf
  <1>4. CASE stored' = stored
    BY <1>2, <1>3, <1>4 DEF Recent, PinnedStep
  <1>5. CASE stored' = Kept(byUse, array) /\ stored' # NoItem
    <2>1. Recent' = Kept(byUse, array)
      BY <1>5 DEF Recent, ReadList
    <2> QED
      BY <1>2, <1>3, <2>1 DEF PinnedStep
  <1>6. CASE stored' = NoItem
    <2>1. Recent' = <<>> /\ Len(Recent') = 0
      BY <1>6 DEF Recent, ReadList
    <2>2. Recent \in Seq(Items)
      BY ListReadFacts DEF RecentList
    <2>3. \A p \in PinnedIn(Recent) : Len(Recent) > 0
      BY <2>2 DEF PinnedIn
    <2> QED
      BY <1>2, <2>1, <2>3 DEF PinnedStep
  <1> QED
    BY <1>1, <1>4, <1>5, <1>6

LEMMA PushKeeps ==
  ASSUME RecentInv, NEW p \in Patterns, NEW listens \in BOOLEAN, PushRecent(p, listens)
  PROVE  RecentInv' /\ PinnedStep
  <1> DEFINE R == Recent
             S == Sorted(Recent)
             byUse == Pushed(Recent, p)
             array == Pushed(Sorted(Recent), p)
             K == Kept(byUse, array)
  <1>1. Save(byUse, array) /\ (shown' = array \/ shown' = shown) /\ legacy' = legacy
    BY DEF PushRecent
  <1>2. RecentList(R) /\ Len(R) <= MaxItems /\ Len(R) \in Nat
    BY ListReadFacts DEF RecentList
  <1>3. RecentList(S) /\ PatternsOf(S) = PatternsOf(R) /\ PinnedIn(S) = PinnedIn(R) /\ Len(S) = Len(R)
    BY <1>2, SortedList
  <1>4. PinnedFirst(S)
    BY <1>2, SortedFacts DEF RecentList
  <1> HIDE DEF R, S
  <1>5. /\ RecentList(byUse) /\ PatternsOf(byUse) = PatternsOf(R) \cup {p}
        /\ RecentList(array) /\ PatternsOf(array) = PatternsOf(R) \cup {p}
        /\ Len(array) = Len(Without(S, p)) + 1
        /\ \A i \in 1..Len(Without(S, p)) : array[i + 1] = Without(S, p)[i]
    BY <1>2, <1>3, PushedFacts DEF RecentList, R, S
  <1> HIDE DEF byUse, array
  <1>6. /\ Len(array) = Cardinality(PatternsOf(R) \cup {p})
        /\ Len(R) = Cardinality(PatternsOf(R)) /\ IsFiniteSet(PatternsOf(R))
    BY <1>2, <1>5, CountPatterns DEF RecentList
  <1>7. Len(array) = IF p \in PatternsOf(R) THEN Len(R) ELSE Len(R) + 1
    BY <1>6, FS_AddElement
  <1>8. Len(array) <= MaxItems + 1 /\ Len(array) \in Nat
    BY <1>2, <1>7, MaxItemsAssumption
  <1>9. CASE Len(array) <= MaxItems
    <2>1. PatternsOf(K) = PatternsOf(byUse)
      BY <1>5, <1>9, KeptAll DEF RecentList
    <2>2. PatternsOf(R) \subseteq PatternsOf(K)
      BY <1>5, <2>1
    <2> HIDE DEF K
    <2> QED
      BY <1>1, <1>5, <1>8, <2>2, EditKeeps DEF R, K
  <1>10. CASE ~(Len(array) <= MaxItems)
    <2>1. Len(R) = MaxItems /\ Len(array) = MaxItems + 1 /\ p \notin PatternsOf(R)
      BY <1>2, <1>7, <1>8, <1>10, MaxItemsAssumption
    <2> DEFINE m == MaxItems
               W == Without(S, p)
    <2>2. m \in Nat /\ m >= 1 /\ Len(W) = m /\ W \in Seq(Items) /\ Len(S) = m
      <3>1. W \in Seq(Items)
        BY <1>3, WithoutFacts DEF RecentList
      <3>2. Len(W) \in Nat
        BY <3>1
      <3> QED
        BY <1>3, <1>5, <2>1, <3>1, <3>2, MaxItemsAssumption
    <2>3. PICK f : Places(W, S, {x \in Elements(S) : x.pattern # p}, f)
      BY <1>3, AmongFacts DEF RecentList, Without
    <2> HIDE DEF m, W
    <2>4. W[m] = S[m]
      <3>1. m \in 1..Len(W) /\ f[m] \in 1..m /\ f[m] >= m /\ W[m] = S[f[m]]
        BY <2>2, <2>3 DEF Places
      <3>2. f[m] = m
        BY <2>2, <3>1
      <3> QED
        BY <3>1, <3>2
    <2>5. array[m + 1] = S[m]
      BY <1>5, <2>2, <2>4 DEF W
    <2>6. First(array, m) \in Seq(Items) /\ Len(First(array, m)) = m
          /\ \A i \in 1..m : First(array, m)[i] = array[i]
      <3>1. array \in Seq(Items) /\ ~(Len(array) < m)
        BY <1>5, <2>1, <2>2 DEF RecentList, m
      <3>2. /\ First(array, m) \in Seq(Items)
            /\ Len(First(array, m)) = IF Len(array) < m THEN Len(array) ELSE m
            /\ \A i \in 1..Len(First(array, m)) : First(array, m)[i] = array[i]
        BY <2>2, <3>1, FirstFacts
      <3> QED
        BY <3>1, <3>2
    <2>7. ASSUME NEW q \in PinnedIn(R), q \notin PatternsOf(K)
          PROVE  PinnedIn(R) = PatternsOf(R)
      <3>1. q \in PatternsOf(R) /\ q \in PatternsOf(array) /\ q \in PatternsOf(byUse)
        BY <1>5 DEF PinnedIn, PatternsOf
      <3>2. PatternsOf(K) = PatternsOf(byUse) \cap PatternsOf(First(array, m))
        BY <1>5, KeptFacts DEF RecentList, m
      <3>3. q \notin PatternsOf(First(array, m))
        BY <2>7, <3>1, <3>2
      <3>4. PICK i \in 1..(m + 1) : array[i].pattern = q
        BY <1>5, <2>1, <3>1 DEF PatternsOf, RecentList, m
      <3>5. i \notin 1..m
        BY <2>6, <3>3, <3>4 DEF PatternsOf
      <3>6. S[m].pattern = q
        BY <2>2, <2>5, <3>4, <3>5
      <3>7. DOMAIN S = 1..m /\ m \in 1..m
        BY <1>3, <2>2 DEF RecentList
      <3>8. PICK j \in 1..m : S[j].pinned = "yes" /\ S[j].pattern = q
        BY <1>3, <3>7 DEF PinnedIn
      <3>9. S[m].pinned = "yes"
        BY <1>3, <3>6, <3>7, <3>8 DEF RecentList, OnePerPattern
      <3>10. \A k \in 1..m : S[k].pinned = "yes"
        <4> SUFFICES ASSUME NEW k \in 1..m
                     PROVE  S[k].pinned = "yes"
          OBVIOUS
        <4>1. k < m \/ k = m
          BY <2>2
        <4> QED
          BY <1>4, <2>2, <3>7, <3>9, <4>1 DEF PinnedFirst
      <3>11. PinnedIn(S) = PatternsOf(S)
        BY <3>7, <3>10 DEF PinnedIn, PatternsOf
      <3> QED
        BY <1>3, <3>11
    <2> HIDE DEF K
    <2> QED
      BY <1>1, <1>5, <1>8, <2>7, EditKeeps DEF R, K
  <1> QED
    BY <1>9, <1>10

LEMMA RemoveKeeps ==
  ASSUME RecentInv, NEW p \in Patterns, RemoveRecent(p)
  PROVE  RecentInv' /\ PinnedStep
  <1> DEFINE R == Recent
             S == Sorted(Recent)
             byUse == Without(Recent, p)
             array == Without(Sorted(Recent), p)
             K == Kept(byUse, array)
  <1>1. Save(byUse, array) /\ shown' = array /\ legacy' = legacy
    BY DEF RemoveRecent
  <1>2. RecentList(R) /\ Len(R) <= MaxItems /\ Len(R) \in Nat
    BY ListReadFacts DEF RecentList
  <1>3. RecentList(S) /\ PatternsOf(S) = PatternsOf(R) /\ Len(S) = Len(R)
    BY <1>2, SortedList
  <1> HIDE DEF R, S
  <1>4. /\ RecentList(byUse) /\ PatternsOf(byUse) = PatternsOf(R) \ {p}
        /\ RecentList(array) /\ PatternsOf(array) = PatternsOf(R) \ {p}
    BY <1>2, <1>3, WithoutFacts, PartKeeps DEF RecentList, R, S
  <1> HIDE DEF byUse, array
  <1>5. /\ Len(byUse) = Cardinality(PatternsOf(R) \ {p})
        /\ Len(array) = Cardinality(PatternsOf(R) \ {p})
        /\ Len(R) = Cardinality(PatternsOf(R)) /\ IsFiniteSet(PatternsOf(R))
    BY <1>2, <1>4, CountPatterns DEF RecentList
  <1>6. Len(array) = IF p \in PatternsOf(R) THEN Len(R) - 1 ELSE Len(R)
    BY <1>5, FS_RemoveElement
  <1>7. Len(array) <= MaxItems /\ Len(array) <= MaxItems + 1
    BY <1>2, <1>6, MaxItemsAssumption
  <1>8. PatternsOf(K) = PatternsOf(byUse) /\ RecentList(K)
    BY <1>4, <1>7, KeptAll, KeptFacts DEF RecentList
  <1>9. Len(K) = Cardinality(PatternsOf(R) \ {p})
    BY <1>4, <1>8, CountPatterns DEF RecentList
  <1>10. \/ PatternsOf(R) \subseteq PatternsOf(K)
         \/ Len(K) < Len(R)
    BY <1>2, <1>4, <1>5, <1>6, <1>8, <1>9
  <1> HIDE DEF K
  <1> QED
    BY <1>1, <1>4, <1>7, <1>10, EditKeeps DEF R, K

LEMMA ToggleKeeps ==
  ASSUME RecentInv, NEW p \in Patterns, TogglePin(p)
  PROVE  RecentInv' /\ PinnedStep
  <1> DEFINE R == Recent
             S == Sorted(Recent)
             byUse == Toggled(Recent, p)
             array == Toggled(Sorted(Recent), p)
             K == Kept(byUse, array)
  <1>1. Save(byUse, array) /\ shown' = array /\ legacy' = legacy
    BY DEF TogglePin
  <1>2. RecentList(R) /\ Len(R) <= MaxItems /\ Len(R) \in Nat
    BY ListReadFacts DEF RecentList
  <1>3. RecentList(S) /\ PatternsOf(S) = PatternsOf(R) /\ Len(S) = Len(R)
    BY <1>2, SortedList
  <1> HIDE DEF R, S
  <1>4. /\ RecentList(byUse) /\ PatternsOf(byUse) = PatternsOf(R)
        /\ RecentList(array) /\ PatternsOf(array) = PatternsOf(R) /\ Len(array) = Len(R)
    BY <1>2, <1>3, ToggledFacts DEF RecentList, R, S
  <1> HIDE DEF byUse, array
  <1>5. Len(array) <= MaxItems /\ Len(array) <= MaxItems + 1
    BY <1>2, <1>4, MaxItemsAssumption
  <1>6. PatternsOf(K) = PatternsOf(R)
    BY <1>4, <1>5, KeptAll DEF RecentList
  <1> HIDE DEF K
  <1> QED
    BY <1>1, <1>4, <1>5, <1>6, EditKeeps DEF R, K

LEMMA ClearKeeps ==
  ASSUME RecentInv, ClearRecent
  PROVE  RecentInv' /\ PinnedStep
  <1> DEFINE R == Recent
             K == Kept(<<>>, <<>>)
  <1>1. Save(<<>>, <<>>) /\ shown' = <<>> /\ legacy' = legacy
    BY DEF ClearRecent
  <1>2. RecentList(R) /\ Len(R) \in Nat
    BY ListReadFacts DEF RecentList
  <1>3. RecentList(K) /\ PatternsOf(K) = {}
    BY EmptyList, KeptFacts DEF RecentList
  <1> HIDE DEF K, R
  <1>4. Len(K) = Cardinality(PatternsOf(K)) /\ Len(R) = Cardinality(PatternsOf(R))
        /\ IsFiniteSet(PatternsOf(R))
    BY <1>2, <1>3, CountPatterns DEF RecentList
  <1>5. PatternsOf(R) \subseteq PatternsOf(K) \/ Len(K) < Len(R)
    BY <1>2, <1>3, <1>4, FS_EmptySet
  <1>6. Len(<<>>) <= MaxItems + 1
    BY EmptyList, MaxItemsAssumption
  <1> QED
    BY <1>1, <1>5, <1>6, EmptyList, EditKeeps DEF R, K
==============================================================================
