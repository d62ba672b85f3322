-------------------------- MODULE PositionsProofs --------------------------
(***************************************************************************)
(* Lemmas about the sequences and sets of positions that the reads of      *)
(* Stage 2, the models of Stage 3 and the report are built from.           *)
(***************************************************************************)
EXTENDS Positions, FiniteSetTheorems, WellFoundedInduction, TLAPS

-----------------------------------------------------------------------------
(* First and last positions                                                *)

\* A set of naturals that is not empty has a least one.
LEMMA LeastExists ==
  ASSUME NEW S \in SUBSET Nat, S # {}
  PROVE  \E m \in S : \A k \in S : m <= k
  <1> DEFINE R == {ss \in Nat \X Nat : ss[1] < ss[2]}
  <1>1. IsWellFoundedOn(R, Nat)
    BY NatLessThanWellFounded DEF OpToRel
  <1>2. \A x, y \in Nat : y < x => <<y, x>> \in R
    OBVIOUS
  <1> HIDE DEF R
  <1>3. PICK x \in S : \A y \in S : ~(<<y, x>> \in R)
    BY <1>1, WFMin, Zenon
  <1>4. \A y \in S : ~(y < x) /\ x \in Nat /\ y \in Nat
    BY <1>2, <1>3, Zenon
  <1> QED
    BY <1>4

\* A set of positions that is not empty has a last one.
LEMMA LastExists ==
  ASSUME NEW n \in Nat, NEW S \in SUBSET (1..n), S # {}
  PROVE  \E m \in S : \A k \in S : k <= m
  <1> DEFINE T == {n - k : k \in S}
  <1>1. \A k \in S : k \in 1..n /\ n - k \in T
    OBVIOUS
  <1>2. T \in SUBSET Nat /\ T # {}
    <2>1. \A k \in S : n - k \in Nat
      BY <1>1
    <2>2. \A t \in T : t \in Nat
      BY <2>1
    <2> QED
      BY <2>2
  <1>3. PICK least \in T : \A t \in T : least <= t
    BY <1>2, LeastExists, Zenon
  <1>4. PICK m \in S : least = n - m
    BY <1>3
  <1> HIDE DEF T
  <1> QED
    BY <1>1, <1>3, <1>4

\* The positions of a sequence are as many as its length.
LEMMA PositionsCounted ==
  ASSUME NEW n \in Nat
  PROVE  IsFiniteSet(1..n) /\ Cardinality(1..n) = n
  <1>1. IsFiniteSet(1..n) /\ Cardinality(1..n) = IF 1 > n THEN 0 ELSE n - 1 + 1
    BY 1 \in Int, n \in Int, FS_Interval, Zenon
  <1> QED
    BY <1>1

\* The image of a finite set is finite and no larger.
LEMMA ImageFinite ==
  ASSUME NEW S, IsFiniteSet(S), NEW f
  PROVE  /\ IsFiniteSet({f[x] : x \in S})
         /\ Cardinality({f[x] : x \in S}) <= Cardinality(S)
  <1> DEFINE g == [x \in S |-> f[x]]
             image == {f[x] : x \in S}
  <1>1. g \in Surjection(S, image)
    BY DEF Surjection
  <1> HIDE DEF g
  <1> QED
    BY <1>1, FS_Surjection

-----------------------------------------------------------------------------
(* Sets as sequences                                                       *)

\* SetToSeq lists every member of a finite set once.
LEMMA SetListed ==
  ASSUME NEW S, IsFiniteSet(S)
  PROVE  /\ SetToSeq(S) \in [1..Cardinality(S) -> S]
         /\ \A i, j \in 1..Cardinality(S) : SetToSeq(S)[i] = SetToSeq(S)[j] => i = j
         /\ \A x \in S : \E i \in 1..Cardinality(S) : SetToSeq(S)[i] = x
         /\ Cardinality(S) \in Nat
  <1> DEFINE n == Cardinality(S)
             list == SetToSeq(S)
  <1>1. n \in Nat /\ ExistsBijection(1..n, S)
    BY FS_CardinalityType
  <1>2. \E f \in [1..n -> S] : IsInjective(f)
    BY <1>1 DEF ExistsBijection, Bijection, Injection
  <1>3. list \in [1..n -> S] /\ IsInjective(list)
    BY <1>2 DEF SetToSeq
  <1>4. IsFiniteSet(1..n) /\ Cardinality(1..n) = n
    BY <1>1, PositionsCounted
  <1>5. list \in Injection(1..n, S)
    BY <1>3 DEF Injection
  <1>6. list \in Surjection(1..n, S)
    BY <1>4, <1>5, FS_Injection
  <1> QED
    BY <1>1, <1>3, <1>6 DEF Surjection, IsInjective

\* The members of S before x.
Preceding(S, R, x) == {y \in S : <<y, x>> \in R}
StrictOrder(S, R) ==
  /\ \A x \in S : <<x, x>> \notin R
  /\ \A x, y \in S : x # y => <<x, y>> \in R \/ <<y, x>> \in R
  /\ \A x, y, z \in S : <<x, y>> \in R /\ <<y, z>> \in R => <<x, z>> \in R

\* In a strict order of a finite set each member has a place of its own, and there is
\* no place without a member.
LEMMA MembersRanked ==
  ASSUME NEW S, IsFiniteSet(S), NEW R, StrictOrder(S, R)
  PROVE  /\ Cardinality(S) \in Nat
         /\ \A x \in S : Cardinality(Preceding(S, R, x)) \in 0..(Cardinality(S) - 1)
         /\ \A x, z \in S :
              <<x, z>> \in R => Cardinality(Preceding(S, R, x)) < Cardinality(Preceding(S, R, z))
         /\ \A i \in 1..Cardinality(S) : \E x \in S : Cardinality(Preceding(S, R, x)) = i - 1
  <1> DEFINE n == Cardinality(S)
             Before(x) == Preceding(S, R, x)
             rank == [x \in S |-> Cardinality(Before(x)) + 1]
  <1>1. n \in Nat
    BY FS_CardinalityType
  <1>2. \A x \in S : /\ IsFiniteSet(Before(x)) /\ Cardinality(Before(x)) \in Nat
                     /\ Before(x) \in SUBSET S /\ x \notin Before(x)
    <2> TAKE x \in S
    <2>1. Before(x) \in SUBSET S /\ x \notin Before(x)
      BY DEF Preceding, StrictOrder
    <2>2. IsFiniteSet(Before(x))
      BY <2>1, FS_Subset
    <2> QED
      BY <2>1, <2>2, FS_CardinalityType
  <1>3. \A x, z \in S : <<x, z>> \in R => Cardinality(Before(x)) < Cardinality(Before(z))
    <2> SUFFICES ASSUME NEW x \in S, NEW z \in S, <<x, z>> \in R
                 PROVE  Cardinality(Before(x)) < Cardinality(Before(z))
      OBVIOUS
    <2>1. Before(x) \in SUBSET Before(z) /\ x \in Before(z) /\ x \notin Before(x)
      BY DEF Preceding, StrictOrder
    <2> HIDE DEF Before
    <2>2. /\ Cardinality(Before(x)) <= Cardinality(Before(z))
          /\ Cardinality(Before(z)) = Cardinality(Before(x)) => Before(z) = Before(x)
      BY <1>2, <2>1, FS_Subset, Zenon
    <2> QED
      BY <1>2, <2>1, <2>2
  <1>4. \A x \in S : Cardinality(Before(x)) < n
    <2> TAKE x \in S
    <2> HIDE DEF Before
    <2>1. /\ Cardinality(Before(x)) <= n
          /\ n = Cardinality(Before(x)) => S = Before(x)
      BY <1>2, FS_Subset
    <2> QED
      BY <1>1, <1>2, <2>1
  <1>5. rank \in Injection(S, 1..n)
    <2> HIDE DEF Before, n
    <2>1. rank \in [S -> 1..n]
      BY <1>1, <1>2, <1>4
    <2>2. ASSUME NEW x \in S, NEW z \in S, rank[x] = rank[z]
          PROVE  x = z
      <3>1. Cardinality(Before(x)) = Cardinality(Before(z))
        BY <1>2, <2>2
      <3>2. x # z => <<x, z>> \in R \/ <<z, x>> \in R
        BY DEF StrictOrder
      <3> HIDE DEF rank
      <3> QED
        BY <1>2, <1>3, <3>1, <3>2
    <2> HIDE DEF rank
    <2> QED
      BY <2>1, <2>2 DEF Injection, IsInjective
  <1>6. rank \in Surjection(S, 1..n)
    <2>1. IsFiniteSet(1..n) /\ Cardinality(1..n) = n
      BY <1>1, PositionsCounted
    <2> HIDE DEF rank
    <2> QED
      BY <1>5, <2>1, FS_Injection
  <1>7. \A i \in 1..n : \E x \in S : Cardinality(Before(x)) = i - 1
    <2> TAKE i \in 1..n
    <2>1. PICK x \in S : rank[x] = i
      BY <1>6 DEF Surjection
    <2> HIDE DEF Before, n
    <2> QED
      BY <1>2, <2>1
  <1> HIDE DEF Before
  <1>8. \A x \in S : Cardinality(Before(x)) \in 0..(n - 1)
    BY <1>1, <1>2, <1>4
  <1> QED
    BY <1>1, <1>3, <1>7, <1>8 DEF Before

\* A list that has at each place the member that belongs there lists every member once,
\* in the order.
RankedList(order, S, R) ==
  /\ order = [i \in 1..Cardinality(S) |-> order[i]]
  /\ \A i \in 1..Cardinality(S) :
       order[i] \in S /\ Cardinality(Preceding(S, R, order[i])) = i - 1
LEMMA ListedByRank ==
  ASSUME NEW S, IsFiniteSet(S), NEW R, StrictOrder(S, R), NEW order, RankedList(order, S, R)
  PROVE  /\ order \in [1..Cardinality(S) -> S] /\ Cardinality(S) \in Nat
         /\ \A i, j \in 1..Cardinality(S) : order[i] = order[j] => i = j
         /\ \A x \in S : \E i \in 1..Cardinality(S) : order[i] = x
         /\ \A i, j \in 1..Cardinality(S) : i < j <=> <<order[i], order[j]>> \in R
  <1> DEFINE n == Cardinality(S)
             place(x) == Cardinality(Preceding(S, R, x))
  <1>1. /\ n \in Nat /\ \A x \in S : place(x) \in 0..(n - 1)
        /\ \A x, z \in S : <<x, z>> \in R => place(x) < place(z)
    BY MembersRanked
  <1>2. \A i \in 1..n : order[i] \in S /\ place(order[i]) = i - 1
    BY DEF RankedList
  <1>8. \A i \in 1..n : i \in Int
    BY <1>1
  <1> HIDE DEF n, place
  <1>3. ASSUME NEW x \in S, NEW z \in S, place(x) = place(z)
        PROVE  x = z
    <2>1. x # z => <<x, z>> \in R \/ <<z, x>> \in R
      BY DEF StrictOrder
    <2>2. place(x) \in Int /\ place(z) \in Int
      BY <1>1
    <2> QED
      BY <1>1, <1>3, <2>1, <2>2
  <1>4. ASSUME NEW i \in 1..n, NEW j \in 1..n, order[i] = order[j]
        PROVE  i = j
    <2>1. place(order[i]) = i - 1 /\ place(order[j]) = j - 1
      BY <1>2
    <2>2. i \in Int /\ j \in Int
      BY <1>8
    <2> QED
      BY <1>4, <2>1, <2>2
  <1>5. \A x \in S : \E i \in 1..n : order[i] = x
    <2> TAKE x \in S
    <2>1. place(x) + 1 \in 1..n
      BY <1>1
    <2>2. order[place(x) + 1] = x
      BY <1>1, <1>2, <1>3, <2>1
    <2> QED
      BY <2>1, <2>2
  <1>6. \A i, j \in 1..n : i < j <=> <<order[i], order[j]>> \in R
    <2> TAKE i \in 1..n, j \in 1..n
    <2>0. /\ order[i] \in S /\ place(order[i]) = i - 1
          /\ order[j] \in S /\ place(order[j]) = j - 1
      BY <1>2
    <2>4. i \in Int /\ j \in Int
      BY <1>8
    <2>1. <<order[i], order[j]>> \in R => i - 1 < j - 1
      BY <1>1, <2>0
    <2>2. <<order[j], order[i]>> \in R => j - 1 < i - 1
      BY <1>1, <2>0
    <2>3. i # j => <<order[i], order[j]>> \in R \/ <<order[j], order[i]>> \in R
      BY <1>2, <1>4 DEF StrictOrder
    <2> QED
      BY <2>1, <2>2, <2>3, <2>4
  <1>7. order \in [1..n -> S]
    BY <1>2 DEF n, RankedList
  <1> QED
    BY <1>1, <1>4, <1>5, <1>6, <1>7 DEF n

\* Ordered lists every position of a finite set once, in ascending order.
LEMMA PositionsOrdered ==
  ASSUME NEW S \in SUBSET Int, IsFiniteSet(S)
  PROVE  /\ Ordered(S, <) \in [1..Cardinality(S) -> S]
         /\ \A i, j \in 1..Cardinality(S) : Ordered(S, <)[i] = Ordered(S, <)[j] => i = j
         /\ \A x \in S : \E i \in 1..Cardinality(S) : Ordered(S, <)[i] = x
         /\ Cardinality(S) \in Nat
         /\ \A i, j \in 1..Cardinality(S) : i < j <=> Ordered(S, <)[i] < Ordered(S, <)[j]
  <1> DEFINE R == {p \in S \X S : p[1] < p[2]}
             order == Ordered(S, <)
  <1>1. \A x, y \in S : <<x, y>> \in R <=> x < y
    OBVIOUS
  <1>2. StrictOrder(S, R)
    <2> HIDE DEF R
    <2>1. \A x \in S : x \in Int
      OBVIOUS
    <2> QED
      BY <1>1, <2>1 DEF StrictOrder
  <1>3. \A x \in S : Preceding(S, R, x) = {y \in S : y < x}
    <2> HIDE DEF R
    <2> QED
      BY <1>1 DEF Preceding
  <1> HIDE DEF R
  <1>4. \A i \in 1..Cardinality(S) : \E x \in S : Cardinality(Preceding(S, R, x)) = i - 1
    BY <1>2, MembersRanked
  <1>5. order = [i \in 1..Cardinality(S) |-> order[i]]
    BY DEF Ordered
  <1> DEFINE Before(x) == {y \in S : y < x}
  <1>8. \A i \in 1..Cardinality(S) : order[i] = CHOOSE x \in S : Cardinality(Before(x)) = i - 1
    BY DEF Ordered
  <1>9. \A x \in S : Preceding(S, R, x) = Before(x)
    BY <1>3
  <1> HIDE DEF order, Before
  <1>6. \A i \in 1..Cardinality(S) :
          order[i] \in S /\ Cardinality(Preceding(S, R, order[i])) = i - 1
    <2> TAKE i \in 1..Cardinality(S)
    <2>1. PICK x \in S : Cardinality(Before(x)) = i - 1
      BY <1>4, <1>9
    <2>2. order[i] \in S /\ Cardinality(Before(order[i])) = i - 1
      BY <1>8, <2>1
    <2> QED
      BY <1>9, <2>2
  <1>7. /\ order \in [1..Cardinality(S) -> S] /\ Cardinality(S) \in Nat
        /\ \A i, j \in 1..Cardinality(S) : order[i] = order[j] => i = j
        /\ \A x \in S : \E i \in 1..Cardinality(S) : order[i] = x
        /\ \A i, j \in 1..Cardinality(S) : i < j <=> <<order[i], order[j]>> \in R
    BY <1>2, <1>5, <1>6, ListedByRank DEF RankedList
  <1> QED
    BY <1>1, <1>7 DEF order

Sorted(P) == Ordered(P, <)

\* Sorted lists every position of a finite set of positions once.
LEMMA PositionsSorted ==
  ASSUME NEW n \in Nat, NEW P \in SUBSET (1..n)
  PROVE  /\ Cardinality(P) \in Nat /\ DOMAIN Sorted(P) = 1..Cardinality(P)
         /\ \A i \in 1..Cardinality(P) : Sorted(P)[i] \in P
         /\ \A i, j \in 1..Cardinality(P) : Sorted(P)[i] = Sorted(P)[j] => i = j
         /\ \A x \in P : \E i \in 1..Cardinality(P) : Sorted(P)[i] = x
  <1>1. IsFiniteSet(P) /\ P \in SUBSET Int
    <2>1. IsFiniteSet(P)
      BY PositionsCounted, FS_Subset
    <2> QED
      BY <2>1
  <1>2. /\ Sorted(P) \in [1..Cardinality(P) -> P]
        /\ \A i, j \in 1..Cardinality(P) : Sorted(P)[i] = Sorted(P)[j] => i = j
        /\ \A x \in P : \E i \in 1..Cardinality(P) : Sorted(P)[i] = x
        /\ Cardinality(P) \in Nat
    BY <1>1, PositionsOrdered DEF Sorted
  <1> QED
    BY <1>2

\* Picked keeps the entries at the positions it is given.
LEMMA EntriesPicked ==
  ASSUME NEW s, NEW n \in Nat, NEW P \in SUBSET (1..n)
  PROVE  /\ Cardinality(P) \in Nat /\ DOMAIN Picked(s, P) = 1..Cardinality(P)
         /\ \A i \in 1..Cardinality(P) :
              Sorted(P)[i] \in P /\ Picked(s, P)[i] = s[Sorted(P)[i]]
  <1>1. Picked(s, P) = [i \in DOMAIN Sorted(P) |-> s[Sorted(P)[i]]]
    BY DEF Picked, Sorted
  <1> QED
    BY <1>1, PositionsSorted

\* What is picked is a sequence of the entries at the positions.
LEMMA RangePicked ==
  ASSUME NEW s, NEW n \in Nat, NEW P \in SUBSET (1..n)
  PROVE  /\ \E k \in Nat : DOMAIN Picked(s, P) = 1..k
         /\ Range(Picked(s, P)) = {s[i] : i \in P}
         /\ Picked(s, P) = [i \in DOMAIN Picked(s, P) |-> Picked(s, P)[i]]
  <1> DEFINE picked == Picked(s, P)
             k == Cardinality(P)
  <1>1. /\ k \in Nat /\ DOMAIN picked = 1..k
        /\ \A i \in 1..k : Sorted(P)[i] \in P /\ picked[i] = s[Sorted(P)[i]]
    BY EntriesPicked
  <1>2. \A x \in P : \E i \in 1..k : Sorted(P)[i] = x
    BY PositionsSorted
  <1>3. picked = [i \in DOMAIN picked |-> picked[i]]
    BY DEF Picked
  <1> HIDE DEF picked, k
  <1>4. Range(picked) = {s[i] : i \in P}
    <2>1. \A v \in Range(picked) : v \in {s[i] : i \in P}
      <3> TAKE v \in Range(picked)
      <3>1. PICK i \in 1..k : v = picked[i]
        BY <1>1 DEF Range
      <3> QED
        BY <1>1, <3>1
    <2>2. \A x \in P : s[x] \in Range(picked)
      <3> TAKE x \in P
      <3>1. PICK i \in 1..k : Sorted(P)[i] = x
        BY <1>2
      <3> QED
        BY <1>1, <3>1 DEF Range
    <2> QED
      BY <2>1, <2>2
  <1> QED
    BY <1>1, <1>3, <1>4 DEF picked

\* Concatenation puts the entries of both lists into one.
LEMMA EntriesJoined ==
  ASSUME NEW s, NEW t, s \in Seq(Range(s)), t \in Seq(Range(t))
  PROVE  s \o t \in Seq(Range(s \o t)) /\ Range(s \o t) = Range(s) \cup Range(t)
  <1> DEFINE both == Range(s) \cup Range(t)
  <1>1. s \in Seq(both) /\ t \in Seq(both)
    BY DEF Range
  <1> HIDE DEF both
  <1>2. s \o t \in Seq(both)
    BY <1>1
  <1>3. /\ Len(s \o t) = Len(s) + Len(t)
        /\ \A i \in 1..(Len(s) + Len(t)) :
             (s \o t)[i] = IF i <= Len(s) THEN s[i] ELSE t[i - Len(s)]
    BY <1>1
  <1>4. Range(s \o t) = both
    <2>1. \A i \in DOMAIN s : (s \o t)[i] = s[i] /\ i \in DOMAIN (s \o t)
      BY <1>1, <1>2, <1>3
    <2>2. \A i \in DOMAIN t : (s \o t)[Len(s) + i] = t[i] /\ Len(s) + i \in DOMAIN (s \o t)
      BY <1>1, <1>2, <1>3
    <2>3. \A i \in DOMAIN (s \o t) :
            \/ i \in DOMAIN s /\ (s \o t)[i] = s[i]
            \/ i - Len(s) \in DOMAIN t /\ (s \o t)[i] = t[i - Len(s)]
      BY <1>1, <1>2, <1>3
    <2> DEFINE joined == s \o t
    <2> HIDE DEF joined
    <2>4. \A i \in DOMAIN s : joined[i] = s[i] /\ i \in DOMAIN joined
      BY <2>1 DEF joined
    <2>5. \A i \in DOMAIN t : \E j \in DOMAIN joined : joined[j] = t[i]
      BY <2>2 DEF joined
    <2>6. \A i \in DOMAIN joined :
            \/ i \in DOMAIN s /\ joined[i] = s[i]
            \/ i - Len(s) \in DOMAIN t /\ joined[i] = t[i - Len(s)]
      BY <2>3 DEF joined
    <2>7. Range(joined) = both
      BY <2>4, <2>5, <2>6 DEF Range, both
    <2> QED
      BY <2>7 DEF joined
  <1>5. s \o t \in Seq(Range(s \o t))
    BY <1>2, <1>4, Zenon
  <1> QED
    BY <1>4, <1>5, Zenon DEF both

\* A function on the first n positions is a sequence.
LEMMA IsSequence ==
  ASSUME NEW n \in Nat, NEW s, s = [i \in 1..n |-> s[i]]
  PROVE  s \in Seq(Range(s)) /\ DOMAIN s = 1..n /\ Len(s) = n
  <1>1. DOMAIN s = 1..n
    OBVIOUS
  <1>2. \A i \in 1..n : s[i] \in Range(s)
    BY <1>1 DEF Range
  <1>3. s \in [1..n -> Range(s)]
    BY <1>2
  <1> QED
    BY <1>1, <1>3

-----------------------------------------------------------------------------
(* Greatest values and buckets                                             *)

\* The larger of two numbers.
LEMMA LargerOfTwo ==
  ASSUME NEW a \in Int, NEW b \in Int
  PROVE  Max({a, b}) = IF a >= b THEN a ELSE b
  <1>1. \E x \in {a, b} : \A y \in {a, b} : x >= y
    OBVIOUS
  <1>2. Max({a, b}) \in {a, b} /\ \A y \in {a, b} : Max({a, b}) >= y
    BY <1>1 DEF Max
  <1> QED
    BY <1>2

\* The smaller of two numbers.
LEMMA SmallerOfTwo ==
  ASSUME NEW a \in Int, NEW b \in Int
  PROVE  Min({a, b}) = IF a <= b THEN a ELSE b
  <1>1. \E x \in {a, b} : \A y \in {a, b} : x <= y
    OBVIOUS
  <1>2. Min({a, b}) \in {a, b} /\ \A y \in {a, b} : Min({a, b}) <= y
    BY <1>1 DEF Min
  <1> QED
    BY <1>2

\* A list of integers has a greatest entry.
LEMMA GreatestEntry ==
  ASSUME NEW n \in Nat, n >= 1, NEW f, \A i \in 1..n : f[i] \in Int
  PROVE  \E k \in 1..n : \A i \in 1..n : f[i] <= f[k]
  <1> DEFINE HasGreatest(m) == \E k \in 1..m : \A i \in 1..m : f[i] <= f[k]
             without == {m \in 1..n : ~HasGreatest(m)}
  <1>1. SUFFICES ASSUME without # {}
                 PROVE  FALSE
    OBVIOUS
  <1>2. without \in SUBSET Nat
    OBVIOUS
  <1>3. PICK m \in without : \A k \in without : m <= k
    BY <1>1, <1>2, LeastExists, Zenon
  <1>4. m \in 1..n /\ ~HasGreatest(m)
    OBVIOUS
  <1>5. CASE m = 1
    BY <1>4, <1>5
  <1>6. CASE m # 1
    <2>1. m - 1 \in 1..n /\ m - 1 \notin without
      <3>1. m - 1 \in 1..n /\ m - 1 < m
        BY <1>4, <1>6
      <3>2. \A k \in without : k \in Nat /\ m <= k
        BY <1>2, <1>3
      <3> HIDE DEF without
      <3> QED
        BY <1>4, <3>1, <3>2
    <2>2. PICK k \in 1..(m - 1) : \A i \in 1..(m - 1) : f[i] <= f[k]
      BY <2>1
    <2>3. k \in 1..m /\ m \in 1..m /\ f[k] \in Int /\ f[m] \in Int
      BY <1>4, <1>6
    <2>4. CASE f[m] <= f[k]
      BY <1>4, <2>2, <2>3, <2>4
    <2>5. CASE f[k] < f[m]
      <3>1. \A i \in 1..m : f[i] <= f[m]
        BY <1>4, <2>2, <2>3, <2>5
      <3> QED
        BY <1>4, <2>3, <3>1
    <2> QED
      BY <2>3, <2>4, <2>5
  <1> QED
    BY <1>5, <1>6

\* A finite set of integers that is not empty has a greatest one.
LEMMA GreatestExists ==
  ASSUME NEW S \in SUBSET Int, IsFiniteSet(S), S # {}
  PROVE  Max(S) \in S /\ \A x \in S : x <= Max(S)
  <1> DEFINE n == Cardinality(S)
             list == SetToSeq(S)
  <1>1. /\ n \in Nat /\ \A i \in 1..n : list[i] \in S
        /\ \A x \in S : \E i \in 1..n : list[i] = x
    BY SetListed
  <1> HIDE DEF n, list
  <1>2. n >= 1
    <2>1. PICK x \in S : TRUE
      OBVIOUS
    <2>2. PICK i \in 1..n : list[i] = x
      BY <1>1, <2>1
    <2> QED
      BY <1>1, <2>2
  <1>3. PICK k \in 1..n : \A i \in 1..n : list[i] <= list[k]
    BY <1>1, <1>2, GreatestEntry
  <1>4. \E x \in S : \A y \in S : x >= y
    <2>1. \A y \in S : list[k] >= y
      <3> TAKE y \in S
      <3>1. PICK i \in 1..n : list[i] = y
        BY <1>1
      <3>2. list[i] <= list[k] /\ list[i] \in Int /\ list[k] \in Int
        BY <1>1, <1>3
      <3> QED
        BY <3>1, <3>2
    <2> QED
      BY <1>1, <2>1
  <1>5. Max(S) \in S /\ \A y \in S : Max(S) >= y
    BY <1>4 DEF Max
  <1> QED
    BY <1>5

\* Every position lies in one of the buckets a list is cut into.
LEMMA BucketOf ==
  ASSUME NEW length \in Nat, NEW size \in Nat \ {0}, NEW i \in 1..length
  PROVE  /\ CeilDiv(length, size) \in Nat
         /\ \E b \in 1..CeilDiv(length, size) : (b - 1) * size + 1 <= i /\ i <= b * size
  <1> DEFINE q == CeilDiv(length, size)
             rest == (length + size - 1) % size
             enough == {b \in Nat : i <= b * size}
  <1>1. q \in Nat /\ rest \in 0..(size - 1) /\ length + size - 1 = size * q + rest
    BY DEF CeilDiv
  <1>2. length <= q * size
    <2> HIDE DEF q, rest
    <2> QED
      BY <1>1
  <1>3. q \in enough
    <2> HIDE DEF q
    <2>1. q * size \in Int
      BY <1>1
    <2> QED
      BY <1>1, <1>2, <2>1
  <1>4. PICK b \in enough : \A k \in enough : b <= k
    <2>1. enough \in SUBSET Nat /\ enough # {}
      BY <1>3
    <2> HIDE DEF enough
    <2> QED
      BY <2>1, LeastExists
  <1>5. b \in Nat /\ i <= b * size /\ b <= q
    BY <1>3, <1>4
  <1>6. b # 0
    BY <1>5
  <1>7. b - 1 \in Nat /\ b - 1 \notin enough
    <2> HIDE DEF enough
    <2> QED
      BY <1>4, <1>5, <1>6
  <1>8. (b - 1) * size \in Int /\ (b - 1) * size < i
    BY <1>7
  <1> HIDE DEF q
  <1>9. b \in 1..q /\ (b - 1) * size + 1 <= i
    BY <1>1, <1>5, <1>6, <1>8
  <1> QED
    BY <1>1, <1>5, <1>9 DEF q

-----------------------------------------------------------------------------
(* Finite sets: induction, and the sums of FiniteSetsExt                   *)

\* Induction on finite sets: among subsets of a finite set there is one of which no
\* member can be taken away.
LEMMA SmallestSubset ==
  ASSUME NEW S, IsFiniteSet(S), NEW bad \in SUBSET (SUBSET S), bad # {}
  PROVE  \E T \in bad : \A x \in T : T \ {x} \notin bad
  <1> DEFINE sizes == {Cardinality(T) : T \in bad}
  <1>1. \A T \in bad : IsFiniteSet(T) /\ Cardinality(T) \in Nat
    <2> TAKE T \in bad
    <2>1. IsFiniteSet(T)
      BY FS_Subset
    <2> QED
      BY <2>1, FS_CardinalityType
  <1>2. sizes \in SUBSET Nat /\ sizes # {}
    BY <1>1
  <1>3. PICK n \in sizes : \A k \in sizes : n <= k
    <2> HIDE DEF sizes
    <2> QED
      BY <1>2, LeastExists
  <1>4. PICK T \in bad : Cardinality(T) = n
    OBVIOUS
  <1>5. ASSUME NEW x \in T, T \ {x} \in bad
        PROVE  FALSE
    <2>1. Cardinality(T \ {x}) = Cardinality(T) - 1
      BY <1>1, FS_RemoveElement
    <2>2. Cardinality(T \ {x}) \in sizes
      BY <1>5
    <2> HIDE DEF sizes
    <2> QED
      BY <1>1, <1>3, <1>4, <2>1, <2>2
  <1> QED
    BY <1>5

SumOver(w, S) == MapThenSumSet(LAMBDA x : w[x], S)
Chosen(s) == CHOOSE x \in s : TRUE
\* The sum over s from a table of the sums over smaller sets.
SumStep(table, w, s) == IF s = {} THEN 0 ELSE w[Chosen(s)] + table[s \ {Chosen(s)}]
SumTable(w, S) == CHOOSE table : table = [s \in SUBSET S |-> SumStep(table, w, s)]

\* SumOver reads the table at the whole set.
LEMMA SumFromTable == ASSUME NEW w, NEW S PROVE SumOver(w, S) = SumTable(w, S)[S]
  BY DEF SumOver, MapThenSumSet, MapThenFoldSet, SumTable, SumStep, Chosen

\* The recursion of MapThenFoldSet defines a table for every finite set.
LEMMA TableExists ==
  ASSUME NEW w, NEW S, IsFiniteSet(S)
  PROVE  \A s \in SUBSET S : SumTable(w, S)[s] = SumStep(SumTable(w, S), w, s)
  <1> DEFINE Upto(n) == \E table : \A s \in SUBSET S :
                          Cardinality(s) <= n => table[s] = SumStep(table, w, s)
             without == {n \in Nat : ~Upto(n)}
  <1>1. \A s \in SUBSET S :
          /\ Cardinality(s) \in Nat
          /\ s # {} => s \ {Chosen(s)} \in SUBSET S /\ Cardinality(s \ {Chosen(s)}) = Cardinality(s) - 1
          /\ Cardinality(s) = 0 => s = {}
    <2> TAKE s \in SUBSET S
    <2>1. IsFiniteSet(s)
      BY FS_Subset
    <2>2. s # {} => Chosen(s) \in s
      BY DEF Chosen
    <2> QED
      BY <2>1, <2>2, FS_CardinalityType, FS_EmptySet, FS_RemoveElement
  <1>2. Upto(0)
    <2> DEFINE table == [s \in SUBSET S |-> 0]
    <2>1. ASSUME NEW s \in SUBSET S, Cardinality(s) <= 0
          PROVE  table[s] = SumStep(table, w, s)
      <3>1. s = {}
        <4> HIDE DEF table
        <4>1. Cardinality(s) \in Nat /\ (Cardinality(s) = 0 => s = {})
          BY <1>1
        <4> QED
          BY <2>1, <4>1
      <3> QED
        BY <3>1 DEF SumStep
    <2> QED
      BY <2>1
  <1>3. ASSUME NEW n \in Nat, Upto(n)
        PROVE  Upto(n + 1)
    <2>1. PICK table : \A s \in SUBSET S :
                         Cardinality(s) <= n => table[s] = SumStep(table, w, s)
      BY <1>3
    <2> DEFINE next == [s \in SUBSET S |-> SumStep(table, w, s)]
    <2>2. ASSUME NEW s \in SUBSET S, Cardinality(s) <= n + 1
          PROVE  next[s] = SumStep(next, w, s)
      <3>1. CASE s = {}
        BY <3>1 DEF SumStep
      <3>2. CASE s # {}
        <4>1. s \ {Chosen(s)} \in SUBSET S /\ Cardinality(s \ {Chosen(s)}) <= n
          BY <1>1, <2>2, <3>2
        <4>2. next[s \ {Chosen(s)}] = table[s \ {Chosen(s)}]
          BY <2>1, <4>1
        <4>3. next[s] = SumStep(table, w, s)
          OBVIOUS
        <4> HIDE DEF next
        <4> QED
          BY <4>2, <4>3 DEF SumStep
      <3> QED
        BY <3>1, <3>2
    <2> HIDE DEF next
    <2> QED
      BY <2>2
  <1>4. without = {}
    <2> SUFFICES ASSUME without # {}
                 PROVE  FALSE
      OBVIOUS
    <2>1. without \in SUBSET Nat
      OBVIOUS
    <2>2. PICK n \in without : \A k \in without : n <= k
      BY <2>1, LeastExists, Zenon
    <2>3. n \in Nat /\ ~Upto(n)
      OBVIOUS
    <2>4. n # 0
      BY <1>2, <2>3
    <2>5. n - 1 \in Nat /\ n - 1 \notin without
      <3> HIDE DEF without
      <3> QED
        BY <2>1, <2>2, <2>3, <2>4
    <2>6. Upto(n - 1)
      <3> HIDE DEF Upto
      <3> QED
        BY <2>5
    <2>7. Upto(n - 1 + 1)
      <3> HIDE DEF Upto
      <3> QED
        BY <1>3, <2>5, <2>6
    <2>8. n - 1 + 1 = n
      BY <2>3
    <2> HIDE DEF Upto
    <2> QED
      BY <2>3, <2>7, <2>8
  <1>5. Upto(Cardinality(S))
    <2> HIDE DEF Upto
    <2> QED
      BY <1>1, <1>4
  <1>6. PICK table : \A s \in SUBSET S :
                       Cardinality(s) <= Cardinality(S) => table[s] = SumStep(table, w, s)
    BY <1>5
  <1> DEFINE sums == [s \in SUBSET S |-> table[s]]
  <1>7. ASSUME NEW s \in SUBSET S
        PROVE  sums[s] = SumStep(sums, w, s)
    <2>1. table[s] = SumStep(table, w, s)
      <3>1. Cardinality(s) <= Cardinality(S)
        BY FS_Subset
      <3> QED
        BY <1>6, <3>1
    <2>2. s # {} => s \ {Chosen(s)} \in SUBSET S
      OBVIOUS
    <2> QED
      BY <2>1, <2>2 DEF SumStep
  <1>8. sums = [s \in SUBSET S |-> SumStep(sums, w, s)]
    BY <1>7
  <1> HIDE DEF sums
  <1>9. SumTable(w, S) = [s \in SUBSET S |-> SumStep(SumTable(w, S), w, s)]
    BY <1>8 DEF SumTable
  <1> DEFINE chosen == SumTable(w, S)
  <1>10. chosen = [s \in SUBSET S |-> SumStep(chosen, w, s)]
    BY <1>9, Zenon
  <1> HIDE DEF chosen
  <1>11. \A s \in SUBSET S : chosen[s] = SumStep(chosen, w, s)
    BY <1>10
  <1> QED
    BY <1>11 DEF chosen

\* Two tables agree where both are defined.
LEMMA TablesAgree ==
  ASSUME NEW w, NEW S, IsFiniteSet(S), NEW T \in SUBSET S
  PROVE  SumTable(w, S)[T] = SumTable(w, T)[T]
  <1> DEFINE f == SumTable(w, S)
             g == SumTable(w, T)
             bad == {s \in SUBSET T : f[s] # g[s]}
  <1>1. IsFiniteSet(T)
    BY FS_Subset
  <1>2. /\ \A s \in SUBSET S : f[s] = SumStep(f, w, s)
        /\ \A s \in SUBSET T : g[s] = SumStep(g, w, s)
    BY <1>1, TableExists
  <1> HIDE DEF f, g
  <1>3. SUFFICES ASSUME bad # {}
                 PROVE  FALSE
    BY DEF f, g
  <1>4. PICK s \in bad : \A x \in s : s \ {x} \notin bad
    <2>1. bad \in SUBSET (SUBSET T)
      OBVIOUS
    <2> HIDE DEF bad
    <2> QED
      BY <1>1, <1>3, <2>1, SmallestSubset
  <1>5. s \in SUBSET T /\ s \in SUBSET S /\ f[s] # g[s]
    OBVIOUS
  <1>6. s # {} => f[s \ {Chosen(s)}] = g[s \ {Chosen(s)}]
    <2> SUFFICES ASSUME s # {}
                 PROVE  f[s \ {Chosen(s)}] = g[s \ {Chosen(s)}]
      OBVIOUS
    <2>1. Chosen(s) \in s
      BY DEF Chosen
    <2> QED
      BY <1>4, <1>5, <2>1
  <1>7. SumStep(f, w, s) = SumStep(g, w, s)
    BY <1>6 DEF SumStep
  <1>8. f[s] = SumStep(f, w, s) /\ g[s] = SumStep(g, w, s)
    <2> HIDE DEF bad
    <2> QED
      BY <1>2, <1>5
  <1> QED
    BY <1>5, <1>7, <1>8

\* A sum is one of its terms and the sum of the others.
LEMMA SumUnfolded ==
  ASSUME NEW w, NEW S, IsFiniteSet(S)
  PROVE  /\ S = {} => SumOver(w, S) = 0
         /\ S # {} => /\ Chosen(S) \in S
                      /\ SumOver(w, S) = w[Chosen(S)] + SumOver(w, S \ {Chosen(S)})
  <1>1. SumTable(w, S)[S] = SumStep(SumTable(w, S), w, S)
    BY TableExists
  <1>2. S # {} => Chosen(S) \in S
    BY DEF Chosen
  <1>3. SumTable(w, S)[S \ {Chosen(S)}] = SumOver(w, S \ {Chosen(S)})
    BY TablesAgree, SumFromTable
  <1> QED
    BY <1>1, <1>2, <1>3, SumFromTable DEF SumStep


\* A sum of integers is an integer.
LEMMA SumIsInteger ==
  ASSUME NEW S, IsFiniteSet(S), NEW w, \A x \in S : w[x] \in Int
  PROVE  \A T \in SUBSET S : SumOver(w, T) \in Int
  <1> DEFINE bad == {T \in SUBSET S : SumOver(w, T) \notin Int}
  <1>1. SUFFICES ASSUME bad # {}
                 PROVE  FALSE
    OBVIOUS
  <1>2. PICK T \in bad : \A x \in T : T \ {x} \notin bad
    <2>1. bad \in SUBSET (SUBSET S)
      OBVIOUS
    <2> HIDE DEF bad
    <2> QED
      BY <1>1, <2>1, SmallestSubset
  <1>3. /\ T \in SUBSET S /\ SumOver(w, T) \notin Int
        /\ \A x \in T : SumOver(w, T \ {x}) \in Int
    BY <1>2
  <1>4. IsFiniteSet(T)
    BY <1>3, FS_Subset
  <1>5. T # {} => Chosen(T) \in T /\ SumOver(w, T) = w[Chosen(T)] + SumOver(w, T \ {Chosen(T)})
    BY <1>4, SumUnfolded
  <1>6. T = {} => SumOver(w, T) = 0
    BY <1>4, SumUnfolded
  <1> HIDE DEF bad
  <1>7. T # {} => w[Chosen(T)] \in Int /\ SumOver(w, T \ {Chosen(T)}) \in Int
    BY <1>3, <1>5
  <1> QED
    BY <1>3, <1>5, <1>6, <1>7

\* A sum of natural numbers is one.
LEMMA SumIsNatural ==
  ASSUME NEW S, IsFiniteSet(S), NEW w, \A x \in S : w[x] \in Nat
  PROVE  SumOver(w, S) \in Nat
  <1> DEFINE bad == {T \in SUBSET S : SumOver(w, T) \notin Nat}
  <1>1. bad = {}
    <2> SUFFICES ASSUME bad # {}
                 PROVE  FALSE
      OBVIOUS
    <2>1. PICK T \in bad : \A x \in T : T \ {x} \notin bad
      <3>1. bad \in SUBSET (SUBSET S)
        OBVIOUS
      <3> HIDE DEF bad
      <3> QED
        BY <3>1, SmallestSubset
    <2>2. /\ T \in SUBSET S /\ SumOver(w, T) \notin Nat
          /\ \A x \in T : SumOver(w, T \ {x}) \in Nat
      BY <2>1
    <2>3. IsFiniteSet(T)
      BY <2>2, FS_Subset
    <2>4. /\ T = {} => SumOver(w, T) = 0
          /\ T # {} => Chosen(T) \in T /\ SumOver(w, T) = w[Chosen(T)] + SumOver(w, T \ {Chosen(T)})
      BY <2>3, SumUnfolded
    <2> HIDE DEF bad
    <2>5. T # {} => w[Chosen(T)] \in Nat /\ SumOver(w, T \ {Chosen(T)}) \in Nat
      BY <2>2, <2>4
    <2> QED
      BY <2>2, <2>4, <2>5
  <1>2. S \in SUBSET S /\ S \notin bad
    BY <1>1
  <1> QED
    BY <1>2

\* Whatever the order of the terms: any member can be taken out first.
LEMMA SumWithout ==
  ASSUME NEW S, IsFiniteSet(S), NEW w, \A x \in S : w[x] \in Int
  PROVE  \A x \in S : SumOver(w, S) = w[x] + SumOver(w, S \ {x})
  <1> DEFINE Holds(T) == \A x \in T : SumOver(w, T) = w[x] + SumOver(w, T \ {x})
             bad == {T \in SUBSET S : ~Holds(T)}
  <1>1. \A T \in SUBSET S : SumOver(w, T) \in Int
    BY SumIsInteger
  <1>2. bad = {}
    <2> SUFFICES ASSUME bad # {}
                 PROVE  FALSE
      OBVIOUS
    <2>1. PICK T \in bad : \A x \in T : T \ {x} \notin bad
      <3>1. bad \in SUBSET (SUBSET S)
        OBVIOUS
      <3> HIDE DEF bad
      <3> QED
        BY <3>1, SmallestSubset
    <2>2. T \in SUBSET S /\ ~Holds(T) /\ \A x \in T : Holds(T \ {x})
      <3>1. T \in SUBSET S /\ ~Holds(T)
        OBVIOUS
      <3>2. \A x \in T : T \ {x} \in SUBSET S /\ T \ {x} \notin bad
        BY <2>1, <3>1
      <3> HIDE DEF Holds
      <3> QED
        BY <3>1, <3>2
    <2> HIDE DEF bad
    <2>3. PICK x \in T : SumOver(w, T) # w[x] + SumOver(w, T \ {x})
      BY <2>2
    <2> DEFINE a == Chosen(T)
    <2>4. a \in T /\ SumOver(w, T) = w[a] + SumOver(w, T \ {a})
      BY <2>2, <2>3, SumUnfolded, FS_Subset
    <2> HIDE DEF a
    <2>5. x # a
      BY <2>3, <2>4
    <2>6. SumOver(w, T \ {a}) = w[x] + SumOver(w, (T \ {a}) \ {x})
      BY <2>2, <2>3, <2>4, <2>5
    <2>7. SumOver(w, T \ {x}) = w[a] + SumOver(w, (T \ {x}) \ {a})
      BY <2>2, <2>3, <2>4, <2>5
    <2>8. (T \ {a}) \ {x} = (T \ {x}) \ {a} /\ (T \ {x}) \ {a} \in SUBSET S
      BY <2>2
    <2> DEFINE rest == SumOver(w, (T \ {x}) \ {a})
    <2>9. w[x] \in Int /\ w[a] \in Int /\ rest \in Int
      BY <1>1, <2>2, <2>3, <2>4, <2>8
    <2>10. SumOver(w, T \ {a}) = w[x] + rest
      BY <2>6, <2>8
    <2> HIDE DEF Holds, rest
    <2>11. SumOver(w, T) = w[a] + (w[x] + rest)
      BY <2>4, <2>10
    <2>12. w[x] + SumOver(w, T \ {x}) = w[x] + (w[a] + rest)
      BY <2>7 DEF rest
    <2> QED
      BY <2>3, <2>9, <2>11, <2>12
  <1> HIDE DEF Holds
  <1>3. S \in SUBSET S /\ S \notin bad
    BY <1>2
  <1>4. Holds(S)
    BY <1>3
  <1> QED
    BY <1>4 DEF Holds

\* The sum over two sets without a common member.
LEMMA SumJoined ==
  ASSUME NEW S, IsFiniteSet(S), NEW w, \A x \in S : w[x] \in Int,
         NEW A \in SUBSET S, NEW B \in SUBSET S, A \cap B = {}
  PROVE  SumOver(w, A \cup B) = SumOver(w, A) + SumOver(w, B)
  <1> DEFINE bad == {T \in SUBSET B : SumOver(w, A \cup T) # SumOver(w, A) + SumOver(w, T)}
  <1>1. SUFFICES ASSUME bad # {}
                 PROVE  FALSE
    OBVIOUS
  <1>2. PICK T \in bad : \A x \in T : T \ {x} \notin bad
    <2>1. bad \in SUBSET (SUBSET B) /\ IsFiniteSet(B)
      BY FS_Subset
    <2> HIDE DEF bad
    <2> QED
      BY <1>1, <2>1, SmallestSubset
  <1>3. /\ T \in SUBSET B /\ SumOver(w, A \cup T) # SumOver(w, A) + SumOver(w, T)
        /\ \A x \in T : SumOver(w, A \cup (T \ {x})) = SumOver(w, A) + SumOver(w, T \ {x})
    BY <1>2
  <1> HIDE DEF bad
  <1>4. \A U \in SUBSET S : SumOver(w, U) \in Int /\ IsFiniteSet(U)
    BY SumIsInteger, FS_Subset
  <1>5. CASE T = {}
    <2>1. SumOver(w, T) = 0 /\ A \cup T = A
      BY <1>5, SumUnfolded, FS_EmptySet
    <2> QED
      BY <1>3, <1>4, <2>1
  <1>6. CASE T # {}
    <2>1. PICK x \in T : TRUE
      BY <1>6
    <2>2. T \in SUBSET S /\ A \cup T \in SUBSET S /\ T \ {x} \in SUBSET S
      BY <1>3
    <2>3. SumOver(w, T) = w[x] + SumOver(w, T \ {x})
      BY <1>4, <2>1, <2>2, SumWithout
    <2>4. SumOver(w, A \cup T) = w[x] + SumOver(w, (A \cup T) \ {x})
      BY <1>4, <2>1, <2>2, SumWithout
    <2>5. (A \cup T) \ {x} = A \cup (T \ {x})
      BY <1>3, <2>1
    <2>6. w[x] \in Int
      BY <2>1, <2>2
    <2> QED
      BY <1>3, <1>4, <2>1, <2>2, <2>3, <2>4, <2>5, <2>6
  <1> QED
    BY <1>5, <1>6

\* The sum is that of the images under a function that tells the members apart.
LEMMA SumRenamed ==
  ASSUME NEW S, IsFiniteSet(S), NEW w, \A x \in S : w[x] \in Int,
         NEW f, NEW v, \A x \in S : v[f[x]] = w[x],
         \A x, y \in S : f[x] = f[y] => x = y
  PROVE  SumOver(v, {f[x] : x \in S}) = SumOver(w, S)
  <1> DEFINE image(T) == {f[x] : x \in T}
             bad == {T \in SUBSET S : SumOver(v, image(T)) # SumOver(w, T)}
  <1>1. SUFFICES ASSUME bad # {}
                 PROVE  FALSE
    OBVIOUS
  <1>2. PICK T \in bad : \A x \in T : T \ {x} \notin bad
    <2>1. bad \in SUBSET (SUBSET S)
      OBVIOUS
    <2> HIDE DEF bad
    <2> QED
      BY <1>1, <2>1, SmallestSubset
  <1>3. /\ T \in SUBSET S /\ SumOver(v, image(T)) # SumOver(w, T)
        /\ \A x \in T : SumOver(v, image(T \ {x})) = SumOver(w, T \ {x})
    <2>1. T \in SUBSET S /\ SumOver(v, image(T)) # SumOver(w, T)
      OBVIOUS
    <2>2. \A x \in T : T \ {x} \in SUBSET S
      BY <2>1
    <2> HIDE DEF image
    <2> QED
      BY <1>2, <2>1, <2>2
  <1> HIDE DEF bad
  <1>4. IsFiniteSet(T)
    BY <1>3, FS_Subset
  <1>5. IsFiniteSet(image(T))
    BY <1>4, ImageFinite
  <1>6. CASE T = {}
    <2>1. image(T) = {}
      BY <1>6
    <2>2. SumOver(v, image(T)) = 0 /\ SumOver(w, T) = 0
      BY <1>4, <1>5, <1>6, <2>1, SumUnfolded
    <2> QED
      BY <1>3, <2>2
  <1>7. CASE T # {}
    <2>1. PICK x \in T : TRUE
      BY <1>7
    <2>2. SumOver(w, T) = w[x] + SumOver(w, T \ {x})
      BY <1>3, <1>4, <2>1, SumWithout
    <2>3. SumOver(v, image(T)) = v[f[x]] + SumOver(v, image(T) \ {f[x]})
      <3>1. f[x] \in image(T) /\ \A y \in image(T) : v[y] \in Int
        BY <1>3, <2>1
      <3> HIDE DEF image
      <3> QED
        BY <1>5, <3>1, SumWithout
    <2>4. image(T) \ {f[x]} = image(T \ {x})
      BY <1>3, <2>1
    <2>5. v[f[x]] = w[x]
      BY <1>3, <2>1
    <2> HIDE DEF image
    <2> QED
      BY <1>3, <2>1, <2>2, <2>3, <2>4, <2>5
  <1> QED
    BY <1>6, <1>7

-----------------------------------------------------------------------------
(* Folds and concatenations of sequences                                   *)

\* A recursion over the subsets of a finite set that takes out one member at a time
\* defines a table, if its steps stay within a set of values.
FoldStep(table, base, step, pick, s) ==
  IF s = {} THEN base ELSE step[<<table[s \ {pick[s]}], pick[s]>>]
StaysWithin(S, T, base, step, pick) ==
  /\ IsFiniteSet(S) /\ base \in T
  /\ \A t \in T, x \in S : step[<<t, x>>] \in T
  /\ \A s \in SUBSET S : s # {} => pick[s] \in s
FoldsInto(table, S, T, base, step, pick) ==
  /\ table \in [SUBSET S -> T]
  /\ \A s \in SUBSET S : table[s] = FoldStep(table, base, step, pick, s)
LEMMA FoldTable ==
  ASSUME NEW S, NEW T, NEW base, NEW step, NEW pick, StaysWithin(S, T, base, step, pick)
  PROVE  \E table : FoldsInto(table, S, T, base, step, pick)
  <1> DEFINE Upto(n) == \E table \in [SUBSET S -> T] : \A s \in SUBSET S :
                          Cardinality(s) <= n => table[s] = FoldStep(table, base, step, pick, s)
             without == {n \in Nat : ~Upto(n)}
  <1>0. /\ IsFiniteSet(S) /\ base \in T
        /\ \A t \in T, x \in S : step[<<t, x>>] \in T
        /\ \A s \in SUBSET S : s # {} => pick[s] \in s
    BY DEF StaysWithin
  <1>1. \A s \in SUBSET S :
          /\ Cardinality(s) \in Nat
          /\ s # {} => /\ pick[s] \in S /\ s \ {pick[s]} \in SUBSET S
                       /\ Cardinality(s \ {pick[s]}) = Cardinality(s) - 1
          /\ Cardinality(s) = 0 => s = {}
          /\ Cardinality(s) <= Cardinality(S)
    <2> TAKE s \in SUBSET S
    <2>1. IsFiniteSet(s) /\ Cardinality(s) <= Cardinality(S)
      BY <1>0, FS_Subset
    <2> QED
      BY <1>0, <2>1, FS_CardinalityType, FS_EmptySet, FS_RemoveElement
  <1>2. Upto(0)
    <2> DEFINE table == [s \in SUBSET S |-> base]
    <2>2. table \in [SUBSET S -> T]
      BY <1>0
    <2>1. ASSUME NEW s \in SUBSET S, Cardinality(s) <= 0
          PROVE  table[s] = FoldStep(table, base, step, pick, s)
      <3>1. s = {}
        <4> HIDE DEF table
        <4>1. Cardinality(s) \in Nat /\ (Cardinality(s) = 0 => s = {})
          BY <1>1
        <4> QED
          BY <2>1, <4>1
      <3> QED
        BY <3>1 DEF FoldStep
    <2> QED
      BY <2>1, <2>2
  <1>3. ASSUME NEW n \in Nat, Upto(n)
        PROVE  Upto(n + 1)
    <2>1. PICK table \in [SUBSET S -> T] : \A s \in SUBSET S :
            Cardinality(s) <= n => table[s] = FoldStep(table, base, step, pick, s)
      BY <1>3
    <2> DEFINE next == [s \in SUBSET S |-> FoldStep(table, base, step, pick, s)]
    <2>2. next \in [SUBSET S -> T]
      <3>1. \A s \in SUBSET S : FoldStep(table, base, step, pick, s) \in T
        BY <1>0, <1>1 DEF FoldStep
      <3> QED
        BY <3>1
    <2>3. ASSUME NEW s \in SUBSET S, Cardinality(s) <= n + 1
          PROVE  next[s] = FoldStep(next, base, step, pick, s)
      <3>1. CASE s = {}
        BY <3>1 DEF FoldStep
      <3>2. CASE s # {}
        <4>1. s \ {pick[s]} \in SUBSET S /\ Cardinality(s \ {pick[s]}) <= n
          BY <1>1, <2>3, <3>2
        <4>2. next[s \ {pick[s]}] = table[s \ {pick[s]}]
          BY <2>1, <4>1
        <4>3. next[s] = FoldStep(table, base, step, pick, s)
          OBVIOUS
        <4> HIDE DEF next
        <4> QED
          BY <4>2, <4>3 DEF FoldStep
      <3> QED
        BY <3>1, <3>2
    <2> HIDE DEF next
    <2> QED
      BY <2>2, <2>3
  <1> HIDE DEF Upto
  <1>4. without = {}
    <2> SUFFICES ASSUME without # {}
                 PROVE  FALSE
      OBVIOUS
    <2>1. without \in SUBSET Nat
      OBVIOUS
    <2>2. PICK n \in without : \A k \in without : n <= k
      BY <2>1, LeastExists, Zenon
    <2>3. n \in Nat /\ ~Upto(n)
      OBVIOUS
    <2>4. n # 0
      BY <1>2, <2>3
    <2>5. n - 1 \in Nat /\ n - 1 \notin without
      <3> HIDE DEF without
      <3> QED
        BY <2>1, <2>2, <2>3, <2>4
    <2>6. Upto(n - 1) /\ n - 1 + 1 = n
      BY <2>3, <2>5
    <2>7. Upto(n - 1 + 1)
      BY <1>3, <2>5, <2>6
    <2> QED
      BY <2>3, <2>6, <2>7
  <1>5. Upto(Cardinality(S))
    <2>1. S \in SUBSET S /\ Cardinality(S) \in Nat
      BY <1>1
    <2> QED
      BY <1>4, <2>1
  <1>6. PICK table \in [SUBSET S -> T] : \A s \in SUBSET S :
          Cardinality(s) <= Cardinality(S) => table[s] = FoldStep(table, base, step, pick, s)
    BY <1>5 DEF Upto
  <1> QED
    BY <1>1, <1>6 DEF FoldsInto

\* The greatest position of a set of positions, and of the first k.
LEMMA PrefixSteps ==
  ASSUME NEW n \in Nat
  PROVE  /\ \A s \in SUBSET (1..n) : s # {} => Max(s) \in s
         /\ 1..0 = {} /\ 1..n \in SUBSET (1..n)
         /\ \A k \in 1..n : /\ 1..k \in SUBSET (1..n) /\ 1..k # {} /\ Max(1..k) = k
                            /\ (1..k) \ {k} = 1..(k - 1)
  <1>1. ASSUME NEW s \in SUBSET (1..n), s # {}
        PROVE  Max(s) \in s /\ \A x \in s : x <= Max(s)
    <2>1. IsFiniteSet(s)
      BY PositionsCounted, FS_Subset
    <2>2. s \in SUBSET Int
      OBVIOUS
    <2> QED
      BY <1>1, <2>1, <2>2, GreatestExists
  <1>2. ASSUME NEW k \in 1..n
        PROVE  /\ 1..k \in SUBSET (1..n) /\ 1..k # {} /\ Max(1..k) = k
               /\ (1..k) \ {k} = 1..(k - 1)
    <2>1. 1..k \in SUBSET (1..n) /\ 1..k # {} /\ k \in 1..k /\ (1..k) \ {k} = 1..(k - 1)
      OBVIOUS
    <2>2. Max(1..k) \in 1..k /\ k <= Max(1..k)
      BY <1>1, <2>1
    <2> QED
      BY <2>1, <2>2
  <1> QED
    BY <1>1, <1>2

\* A fold over the first n positions is the table of its results on sets of positions.
Rows(table, n, T, base, step) ==
  /\ table \in [SUBSET (1..n) -> T]
  /\ \A s \in SUBSET (1..n) :
       table[s] = IF s = {} THEN base ELSE step[<<table[s \ {Max(s)}], Max(s)>>]
RowsWithin(n, T, base, step) == base \in T /\ \A t \in T, x \in 1..n : step[<<t, x>>] \in T
LEMMA FoldRows ==
  ASSUME NEW n \in Nat, NEW T, NEW base, NEW step, RowsWithin(n, T, base, step)
  PROVE  \E table : Rows(table, n, T, base, step)
  <1> DEFINE pick == [s \in SUBSET (1..n) |-> Max(s)]
  <1>1. IsFiniteSet(1..n)
    BY PositionsCounted
  <1>2. \A s \in SUBSET (1..n) : s # {} => pick[s] = Max(s) /\ pick[s] \in s
    BY PrefixSteps
  <1> HIDE DEF pick
  <1>3. PICK table : FoldsInto(table, 1..n, T, base, step, pick)
    <2>1. StaysWithin(1..n, T, base, step, pick)
      BY <1>1, <1>2 DEF StaysWithin, RowsWithin
    <2> QED
      BY <2>1, FoldTable
  <1>4. table \in [SUBSET (1..n) -> T]
    BY <1>3 DEF FoldsInto
  <1>5. ASSUME NEW s \in SUBSET (1..n)
        PROVE  table[s] = IF s = {} THEN base ELSE step[<<table[s \ {Max(s)}], Max(s)>>]
    <2>1. table[s] = FoldStep(table, base, step, pick, s)
      BY <1>3 DEF FoldsInto
    <2> QED
      BY <1>2, <2>1 DEF FoldStep
  <1> QED
    BY <1>4, <1>5 DEF Rows

\* Induction over the first positions of a sequence.
LEMMA PrefixInduction ==
  ASSUME NEW n \in Nat, NEW good, 0 \in good, \A k \in 1..n : k - 1 \in good => k \in good
  PROVE  \A k \in 0..n : k \in good
  <1> DEFINE without == {k \in 0..n : k \notin good}
  <1>1. SUFFICES ASSUME without # {}
                 PROVE  FALSE
    OBVIOUS
  <1>2. without \in SUBSET Nat
    OBVIOUS
  <1>3. PICK k \in without : \A j \in without : k <= j
    BY <1>1, <1>2, LeastExists, Zenon
  <1>4. k \in 0..n /\ k \notin good /\ k # 0
    OBVIOUS
  <1>5. k \in 1..n /\ k - 1 \in 0..n /\ k - 1 \notin without
    <2>1. k \in Nat /\ ~(k <= k - 1)
      BY <1>4
    <2>2. k - 1 \notin without
      <3> HIDE DEF without
      <3> QED
        BY <1>3, <2>1
    <2> QED
      BY <1>4, <2>1, <2>2
  <1>6. k - 1 \in good
    BY <1>5
  <1> QED
    BY <1>4, <1>5, <1>6

\* FlattenSeq appends the sequences one after the other.
FlatTable(seqs) ==
  CHOOSE table : table = [i \in 1..Len(seqs) |->
                            IF i = 1 THEN seqs[i] ELSE table[i - 1] \o seqs[i]]
LEMMA FlatFromTable == ASSUME NEW seqs, Len(seqs) # 0
                       PROVE FlattenSeq(seqs) = FlatTable(seqs)[Len(seqs)]
  BY DEF FlattenSeq, FlatTable

\* The joined sequences, one more at a time.
JoinedSoFar(joined, seqs, T) ==
  /\ joined \in [0..Len(seqs) -> Seq(T)]
  /\ joined[0] = <<>>
  /\ \A k \in 1..Len(seqs) : joined[k] = joined[k - 1] \o seqs[k]
  /\ joined[Len(seqs)] = FlattenSeq(seqs)

LEMMA SequencesJoined ==
  ASSUME NEW T, NEW seqs \in Seq(Seq(T))
  PROVE  \E joined : JoinedSoFar(joined, seqs, T)
  <1> DEFINE n == Len(seqs)
             Upto(m) == \E table \in [0..m -> Seq(T)] :
                          /\ table[0] = <<>>
                          /\ \A k \in 1..m : table[k] = table[k - 1] \o seqs[k]
             good == {m \in 0..n : Upto(m)}
  <1>1. n \in Nat /\ \A k \in 1..n : seqs[k] \in Seq(T)
    OBVIOUS
  <1>2. Upto(0)
    <2> DEFINE table == [k \in 0..0 |-> <<>>]
    <2>1. table \in [0..0 -> Seq(T)] /\ table[0] = <<>> /\ 1..0 = {}
      OBVIOUS
    <2> QED
      BY <2>1
  <1>3. ASSUME NEW m \in 1..n, Upto(m - 1)
        PROVE  Upto(m)
    <2>1. PICK table \in [0..(m - 1) -> Seq(T)] :
                 /\ table[0] = <<>>
                 /\ \A k \in 1..(m - 1) : table[k] = table[k - 1] \o seqs[k]
      BY <1>3
    <2> DEFINE next == [k \in 0..m |-> IF k = m THEN table[m - 1] \o seqs[m] ELSE table[k]]
    <2> HIDE DEF n
    <2>2. m \in Nat /\ m >= 1 /\ m - 1 \in 0..(m - 1) /\ seqs[m] \in Seq(T)
      BY <1>1
    <2>3. table[m - 1] \o seqs[m] \in Seq(T)
      BY <2>1, <2>2
    <2>4. next \in [0..m -> Seq(T)]
      <3>1. \A k \in 0..m : k # m => k \in 0..(m - 1)
        BY <2>2
      <3> QED
        BY <2>3, <3>1
    <2>5. /\ \A k \in 0..m : k # m => next[k] = table[k]
          /\ next[m] = table[m - 1] \o seqs[m]
      <3>1. m \in 0..m
        BY <2>2
      <3> QED
        BY <3>1
    <2> HIDE DEF next
    <2>6. next[0] = <<>>
      BY <2>1, <2>2, <2>5
    <2>7. \A k \in 1..m : next[k] = next[k - 1] \o seqs[k]
      <3> TAKE k \in 1..m
      <3>1. k - 1 \in 0..m /\ k - 1 # m /\ k \in 0..m /\ (k # m => k \in 1..(m - 1))
        BY <2>2
      <3> QED
        BY <2>1, <2>5, <3>1
    <2> QED
      BY <2>4, <2>6, <2>7
  <1>4. Upto(n)
    <2> HIDE DEF Upto, n
    <2>1. 0 \in good /\ \A k \in 1..n : k - 1 \in good => k \in good
      BY <1>1, <1>2, <1>3
    <2>2. n \in 0..n
      BY <1>1
    <2>3. n \in good
      <3> HIDE DEF good
      <3> QED
        BY <1>1, <2>1, <2>2, PrefixInduction
    <2> QED
      BY <2>3
  <1>5. PICK joined \in [0..n -> Seq(T)] :
               /\ joined[0] = <<>>
               /\ \A k \in 1..n : joined[k] = joined[k - 1] \o seqs[k]
    BY <1>4
  <1>6. CASE n = 0
    BY <1>5, <1>6 DEF FlattenSeq, JoinedSoFar
  <1>7. CASE n # 0
    <2> DEFINE flat == [k \in 1..n |-> joined[k]]
               chosen == FlatTable(seqs)
    <2>1. flat = [i \in 1..n |-> IF i = 1 THEN seqs[i] ELSE flat[i - 1] \o seqs[i]]
      <3>1. ASSUME NEW i \in 1..n
            PROVE  flat[i] = IF i = 1 THEN seqs[i] ELSE flat[i - 1] \o seqs[i]
        <4>1. i = 1 => <<>> \o seqs[i] = seqs[i]
          BY <1>1
        <4>2. i # 1 => i - 1 \in 1..n
          BY <1>1
        <4>3. i = 1 => joined[i - 1] = <<>>
          BY <1>5
        <4> QED
          BY <1>5, <4>1, <4>2, <4>3
      <3> QED
        BY <3>1
    <2> HIDE DEF flat
    <2>2. chosen = [i \in 1..n |-> IF i = 1 THEN seqs[i] ELSE chosen[i - 1] \o seqs[i]]
      BY <2>1 DEF FlatTable
    <2> HIDE DEF chosen, n
    <2> DEFINE good2 == {k \in 0..n : k = 0 \/ chosen[k] = joined[k]}
    <2>3. ASSUME NEW k \in 1..n, k - 1 \in good2
          PROVE  k \in good2
      <3>1. chosen[k] = IF k = 1 THEN seqs[k] ELSE chosen[k - 1] \o seqs[k]
        BY <2>2
      <3>2. k = 1 => <<>> \o seqs[k] = seqs[k]
        BY <1>1
      <3>7. k \in 0..n /\ (k = 1 => k - 1 = 0)
        BY <1>1
      <3>3. k \in 0..n /\ joined[k] = joined[k - 1] \o seqs[k] /\ (k = 1 => k - 1 = 0)
        BY <1>5, <3>7
      <3>6. k - 1 = 0 \/ chosen[k - 1] = joined[k - 1]
        BY <2>3
      <3>4. k # 1 => chosen[k - 1] = joined[k - 1]
        BY <1>1, <3>6
      <3>5. chosen[k] = joined[k]
        BY <1>5, <3>1, <3>2, <3>3, <3>4
      <3> QED
        BY <3>3, <3>5
    <2>4. n \in good2
      <3>1. 0 \in good2 /\ n \in 0..n
        BY <1>1
      <3> HIDE DEF good2
      <3> QED
        BY <1>1, <2>3, <3>1, PrefixInduction
    <2>5. chosen[n] = joined[n]
      BY <1>7, <2>4
    <2>6. FlattenSeq(seqs) = chosen[n]
      BY <1>7, FlatFromTable DEF chosen, n
    <2> QED
      BY <1>5, <2>5, <2>6 DEF JoinedSoFar, n
  <1> QED
    BY <1>6, <1>7

\* Nothing is lost of the sequences and nothing added.
LEMMA OwnEntries ==
  ASSUME NEW T, NEW s \in Seq(T)
  PROVE  s \in Seq(Range(s)) /\ Range(s) \in SUBSET T
  <1>1. s = [i \in 1..Len(s) |-> s[i]] /\ Len(s) \in Nat
    OBVIOUS
  <1>2. Range(s) \in SUBSET T
    BY DEF Range
  <1> QED
    BY <1>1, <1>2, IsSequence

LEMMA EntriesFlattened ==
  ASSUME NEW T, NEW seqs \in Seq(Seq(T))
  PROVE  /\ FlattenSeq(seqs) \in Seq(T)
         /\ Range(FlattenSeq(seqs)) = UNION {Range(seqs[i]) : i \in DOMAIN seqs}
  <1> DEFINE n == Len(seqs)
  <1>1. PICK joined : JoinedSoFar(joined, seqs, T)
    BY SequencesJoined
  <1>2. /\ n \in Nat /\ DOMAIN seqs = 1..n /\ \A k \in 1..n : seqs[k] \in Seq(T)
        /\ joined \in [0..n -> Seq(T)] /\ joined[0] = <<>>
        /\ \A k \in 1..n : joined[k] = joined[k - 1] \o seqs[k]
        /\ joined[n] = FlattenSeq(seqs)
    BY <1>1 DEF JoinedSoFar
  <1> HIDE DEF n
  <1> DEFINE good == {k \in 0..n : Range(joined[k]) = UNION {Range(seqs[i]) : i \in 1..k}}
  <1>3. 0 \in good
    <2>1. Range(joined[0]) = {} /\ 1..0 = {}
      BY <1>2 DEF Range
    <2> QED
      BY <1>2, <2>1
  <1>4. ASSUME NEW k \in 1..n, k - 1 \in good
        PROVE  k \in good
    <2>0. k \in Nat /\ k >= 1 /\ k \in 0..n /\ k \in 1..k /\ k - 1 \in 0..n
      BY <1>2
    <2>1. joined[k - 1] \in Seq(T) /\ seqs[k] \in Seq(T)
      BY <1>2, <2>0
    <2>2. joined[k - 1] \in Seq(Range(joined[k - 1])) /\ seqs[k] \in Seq(Range(seqs[k]))
      BY <2>1, OwnEntries
    <2> DEFINE before == joined[k - 1]
               entries == seqs[k]
    <2>7. joined[k] = before \o entries
      BY <1>2
    <2> HIDE DEF before, entries
    <2>8. Range(before \o entries) = Range(before) \cup Range(entries)
      BY <2>2, EntriesJoined DEF before, entries
    <2>3. Range(joined[k]) = Range(joined[k - 1]) \cup Range(seqs[k])
      BY <2>7, <2>8 DEF before, entries
    <2>4. 1..k = (1..(k - 1)) \cup {k}
      BY <2>0
    <2> DEFINE part(i) == Range(seqs[i])
    <2>6. Range(joined[k - 1]) = UNION {part(i) : i \in 1..(k - 1)}
      BY <1>4
    <2>9. k \in good <=> Range(joined[k]) = UNION {part(i) : i \in 1..k}
      BY <2>0
    <2>10. Range(joined[k]) = Range(joined[k - 1]) \cup part(k)
      BY <2>3
    <2> HIDE DEF part, good
    <2>5. UNION {part(i) : i \in 1..k} = (UNION {part(i) : i \in 1..(k - 1)}) \cup part(k)
      <3> DEFINE P == 1..(k - 1)
                 Q == 1..k
      <3>1. Q = P \cup {k}
        BY <2>4
      <3> HIDE DEF P, Q
      <3> QED
        BY <3>1 DEF P, Q
    <2> QED
      BY <2>5, <2>6, <2>9, <2>10
  <1>5. n \in good
    <2>1. n \in 0..n
      BY <1>2
    <2> HIDE DEF good
    <2> QED
      BY <1>2, <1>3, <1>4, <2>1, PrefixInduction
  <1> QED
    BY <1>2, <1>5

\* What the sequences are sequences of does not matter.
LEMMA ListsFlattened ==
  ASSUME NEW n \in Nat, NEW seqs, seqs = [i \in 1..n |-> seqs[i]],
         \A i \in 1..n : seqs[i] \in Seq(Range(seqs[i]))
  PROVE  /\ FlattenSeq(seqs) \in Seq(Range(FlattenSeq(seqs)))
         /\ Range(FlattenSeq(seqs)) = UNION {Range(seqs[i]) : i \in 1..n}
  <1> DEFINE T == UNION {Range(seqs[i]) : i \in 1..n}
  <1>1. DOMAIN seqs = 1..n
    OBVIOUS
  <1>2. \A i \in 1..n : seqs[i] \in Seq(T)
    <2> TAKE i \in 1..n
    <2> DEFINE s == seqs[i]
    <2>1. s \in Seq(Range(s)) /\ Range(s) \subseteq T
      OBVIOUS
    <2> HIDE DEF s, T
    <2>2. s \in Seq(T)
      BY <2>1
    <2> QED
      BY <2>2 DEF s
  <1> HIDE DEF T
  <1>3. seqs \in Seq(Seq(T))
    <2>1. seqs \in [1..n -> Seq(T)]
      BY <1>2
    <2> QED
      BY <2>1
  <1>4. FlattenSeq(seqs) \in Seq(T) /\ Range(FlattenSeq(seqs)) = UNION {Range(seqs[i]) : i \in 1..n}
    BY <1>1, <1>3, EntriesFlattened
  <1>5. FlattenSeq(seqs) \in Seq(Range(FlattenSeq(seqs)))
    BY <1>4, OwnEntries
  <1> QED
    BY <1>4, <1>5

\* Lists of pairs kept as two lists: the entries of two joined lists that stand side by
\* side did so in the lists they were joined from.
SideBySide(a, b, seqs, others, n) ==
  /\ Len(a) = Len(b)
  /\ \A x \in 1..Len(a) : \E i \in 1..n : \E k \in 1..Len(seqs[i]) :
       a[x] = seqs[i][k] /\ b[x] = others[i][k]
  /\ \A i \in 1..n : \A k \in 1..Len(seqs[i]) : \E x \in 1..Len(a) :
       a[x] = seqs[i][k] /\ b[x] = others[i][k]

\* Two sequences joined, entry by entry.
LEMMA TwoJoined ==
  ASSUME NEW S, NEW s \in Seq(S), NEW t \in Seq(S)
  PROVE  /\ Len(s \o t) = Len(s) + Len(t)
         /\ \A x \in 1..Len(s) : (s \o t)[x] = s[x]
         /\ \A k \in 1..Len(t) : (s \o t)[Len(s) + k] = t[k]
  <1>1. /\ Len(s \o t) = Len(s) + Len(t)
        /\ \A i \in 1..(Len(s) + Len(t)) :
             (s \o t)[i] = IF i <= Len(s) THEN s[i] ELSE t[i - Len(s)]
    OBVIOUS
  <1>2. \A k \in 1..Len(t) : /\ Len(s) + k \in 1..(Len(s) + Len(t)) /\ ~(Len(s) + k <= Len(s))
                             /\ (Len(s) + k) - Len(s) = k
    OBVIOUS
  <1> DEFINE c == s \o t
  <1> HIDE DEF c
  <1>3. \A k \in 1..Len(t) : c[Len(s) + k] = t[k]
    BY <1>1, <1>2 DEF c
  <1>4. \A x \in 1..Len(s) : c[x] = s[x]
    BY <1>1 DEF c
  <1> QED
    BY <1>1, <1>3, <1>4 DEF c

\* One more of each is appended,
LEMMA SideBySideAppended ==
  ASSUME NEW S, NEW T, NEW a \in Seq(S), NEW b \in Seq(T), NEW n \in Nat \ {0},
         NEW seqs, NEW others, seqs[n] \in Seq(S), others[n] \in Seq(T),
         Len(seqs[n]) = Len(others[n]), SideBySide(a, b, seqs, others, n - 1)
  PROVE  SideBySide(a \o seqs[n], b \o others[n], seqs, others, n)
  <1> DEFINE s == seqs[n]
             t == others[n]
             c == a \o s
             d == b \o t
  <1>0. s \in Seq(S) /\ t \in Seq(T) /\ Len(s) = Len(t) /\ Len(a) = Len(b)
    BY DEF SideBySide
  <1> HIDE DEF s, t
  <1>1. /\ Len(a) \in Nat /\ Len(s) \in Nat /\ Len(a) = Len(b) /\ Len(s) = Len(t)
        /\ Len(c) = Len(a) + Len(s) /\ Len(d) = Len(a) + Len(s)
    <2>1. Len(c) = Len(a) + Len(s)
      BY <1>0, TwoJoined
    <2>2. Len(d) = Len(b) + Len(t)
      BY <1>0, TwoJoined
    <2>3. Len(a) \in Nat /\ Len(s) \in Nat
      BY <1>0
    <2> QED
      BY <1>0, <2>1, <2>2, <2>3
  <1>2. /\ \A x \in 1..Len(a) : c[x] = a[x] /\ d[x] = b[x]
        /\ \A k \in 1..Len(s) : c[Len(a) + k] = s[k] /\ d[Len(a) + k] = t[k]
    <2>1. /\ \A x \in 1..Len(a) : c[x] = a[x]
          /\ \A k \in 1..Len(s) : c[Len(a) + k] = s[k]
      BY <1>0, TwoJoined
    <2>2. /\ \A x \in 1..Len(b) : d[x] = b[x]
          /\ \A k \in 1..Len(t) : d[Len(b) + k] = t[k]
      BY <1>0, TwoJoined
    <2> QED
      BY <1>0, <2>1, <2>2
  <1> USE DEF s, t
  <1> HIDE DEF c, d
  <1>3. \A x \in 1..Len(c) : \E i \in 1..n : \E k \in 1..Len(seqs[i]) :
          c[x] = seqs[i][k] /\ d[x] = others[i][k]
    <2> TAKE x \in 1..Len(c)
    <2>1. CASE x \in 1..Len(a)
      <3>1. PICK i \in 1..(n - 1) : \E k \in 1..Len(seqs[i]) :
              a[x] = seqs[i][k] /\ b[x] = others[i][k]
        BY <2>1 DEF SideBySide
      <3>2. i \in 1..n
        OBVIOUS
      <3> QED
        BY <1>2, <2>1, <3>1, <3>2
    <2>2. CASE x \notin 1..Len(a)
      <3>1. x - Len(a) \in 1..Len(s) /\ x = Len(a) + (x - Len(a))
        BY <1>1, <2>2
      <3>2. c[x] = s[x - Len(a)] /\ d[x] = t[x - Len(a)]
        BY <1>2, <3>1
      <3> QED
        BY <3>1, <3>2
    <2> QED
      BY <2>1, <2>2
  <1>4. ASSUME NEW i \in 1..n, NEW k \in 1..Len(seqs[i])
        PROVE  \E x \in 1..Len(c) : c[x] = seqs[i][k] /\ d[x] = others[i][k]
    <2>1. CASE i = n
      <3>1. Len(a) + k \in 1..Len(c) /\ k \in 1..Len(s)
        BY <1>1, <2>1
      <3> QED
        BY <1>2, <2>1, <3>1
    <2>2. CASE i # n
      <3>1. i \in 1..(n - 1)
        BY <2>2
      <3>2. PICK x \in 1..Len(a) : a[x] = seqs[i][k] /\ b[x] = others[i][k]
        BY <3>1 DEF SideBySide
      <3>3. x \in 1..Len(c)
        BY <1>1
      <3> QED
        BY <1>2, <3>2, <3>3
    <2> QED
      BY <2>1, <2>2
  <1>5. Len(c) = Len(d)
    BY <1>1
  <1> QED
    BY <1>3, <1>4, <1>5 DEF SideBySide, c, d

\* and so all of them are joined.
LEMMA ListsJoinedSideBySide ==
  ASSUME NEW S, NEW T, NEW seqs \in Seq(Seq(S)), NEW others \in Seq(Seq(T)),
         NEW n \in Nat, Len(seqs) = n, Len(others) = n,
         \A i \in 1..n : Len(seqs[i]) = Len(others[i])
  PROVE  /\ FlattenSeq(seqs) \in Seq(S) /\ FlattenSeq(others) \in Seq(T)
         /\ SideBySide(FlattenSeq(seqs), FlattenSeq(others), seqs, others, n)
  <1>1. PICK a : JoinedSoFar(a, seqs, S)
    BY SequencesJoined
  <1>2. PICK b : JoinedSoFar(b, others, T)
    BY SequencesJoined
  <1>3. /\ a \in [0..n -> Seq(S)] /\ a[0] = <<>> /\ a[n] = FlattenSeq(seqs)
        /\ \A k \in 1..n : a[k] = a[k - 1] \o seqs[k]
    BY <1>1 DEF JoinedSoFar
  <1>4. /\ b \in [0..n -> Seq(T)] /\ b[0] = <<>> /\ b[n] = FlattenSeq(others)
        /\ \A k \in 1..n : b[k] = b[k - 1] \o others[k]
    BY <1>2 DEF JoinedSoFar
  <1> DEFINE good == {k \in 0..n : SideBySide(a[k], b[k], seqs, others, k)}
  <1>5. 0 \in good
    <2>1. Len(<<>>) = 0 /\ 1..0 = {}
      OBVIOUS
    <2> QED
      BY <1>3, <1>4, <2>1 DEF SideBySide
  <1>6. ASSUME NEW k \in 1..n, k - 1 \in good
        PROVE  k \in good
    <2>1. k \in Nat \ {0} /\ k - 1 \in 0..n /\ k \in 0..n
      OBVIOUS
    <2>2. a[k - 1] \in Seq(S) /\ b[k - 1] \in Seq(T)
      BY <1>3, <1>4, <2>1
    <2>3. seqs[k] \in Seq(S) /\ others[k] \in Seq(T) /\ Len(seqs[k]) = Len(others[k])
      OBVIOUS
    <2>4. SideBySide(a[k - 1], b[k - 1], seqs, others, k - 1)
      BY <1>6
    <2> HIDE DEF good
    <2>5. SideBySide(a[k - 1] \o seqs[k], b[k - 1] \o others[k], seqs, others, k)
      BY <2>1, <2>2, <2>3, <2>4, SideBySideAppended
    <2> QED
      BY <1>3, <1>4, <2>1, <2>5 DEF good
  <1>7. n \in good
    <2>1. n \in 0..n
      OBVIOUS
    <2> HIDE DEF good
    <2> QED
      BY <1>5, <1>6, <2>1, PrefixInduction
  <1>8. a[n] \in Seq(S) /\ b[n] \in Seq(T)
    BY <1>3, <1>4
  <1> QED
    BY <1>3, <1>4, <1>7, <1>8
=============================================================================
