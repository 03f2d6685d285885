------------------------- MODULE GatewayFrameProofs -------------------------
(***************************************************************************)
(* The downlink frames of the gateway, and the phases of its beacon        *)
(* period.                                                                 *)
(*                                                                         *)
(* FInv adds three things to the invariant of the ACKs.  The pool: every   *)
(* block in use is in one list and holds a frame.  The turns: a frame is   *)
(* in the list that is as many ahead of the current one as its beacon is   *)
(* of the last.  The order: the frames to send are the last that the       *)
(* beacon's ACKs announce, so that sending one leaves what is announced    *)
(* after it.  A beacon is made only when none is left to send: this needs  *)
(* what the engine does while there are some (TxListInUse, CurTxIsFirst).  *)
(*                                                                         *)
(* The phases say for each state of the engine which signals, timers and   *)
(* radio states go with it; with them no assertion fails.                  *)
(***************************************************************************)
EXTENDS GatewayMacProofs, FiniteSetTheorems, SequenceTheorems, WellFoundedInduction

----------------------------------------------------------------------------
(* The members of a list at some of its positions                         *)

\* A set of numbers has a least one.
LEMMA Least ==
    ASSUME NEW T \in SUBSET Nat, T # {}
    PROVE  \E x \in T : \A y \in T : x <= y
<1> DEFINE R == OpToRel(<, Nat)
<1>1. IsWellFoundedOn(R, Nat)
  BY ONLY NatLessThanWellFounded, Zenon
<1>2. \A x, y \in Nat : y < x => <<y, x>> \in R
  BY DEF OpToRel
<1> HIDE DEF R
<1>3. PICK x \in T : \A y \in T : ~ (<<y, x>> \in R)
  BY <1>1, WFMin
<1>4. ASSUME NEW y \in T PROVE x <= y
  <2>1. x \in Nat /\ y \in Nat /\ ~(y < x)
    BY <1>2, <1>3
  <2> QED
    BY <2>1
<1> QED
  BY <1>4

\* How many of the positions of I are up to k.
Upto(I, k) == {m \in I : m <= k}
Count(I, k) == Cardinality(Upto(I, k))

LEMMA Positions ==
    ASSUME NEW n \in Nat, NEW I \in SUBSET (1..n)
    PROVE  IsFiniteSet(I) /\ Cardinality(I) \in Nat /\ Cardinality(I) <= n
<1>1. IsFiniteSet(1..n) /\ Cardinality(1..n) = n
  BY FS_Interval
<1> QED
  BY <1>1, FS_Subset, FS_CardinalityType

LEMMA CountType ==
    ASSUME NEW n \in Nat, NEW I \in SUBSET (1..n), NEW k
    PROVE  IsFiniteSet(Upto(I, k)) /\ Count(I, k) \in Nat
<1>1. Upto(I, k) \in SUBSET I
  BY DEF Upto
<1> QED
  BY <1>1, Positions, FS_Subset, FS_CardinalityType DEF Count

LEMMA CountEnds ==
    ASSUME NEW n \in Nat, NEW I \in SUBSET (1..n)
    PROVE  Count(I, 0) = 0 /\ Count(I, n) = Cardinality(I)
<1> \A m \in I : m \in Int /\ 1 <= m /\ m <= n
  OBVIOUS
<1>1. Upto(I, 0) = {} /\ Upto(I, n) = I
  <2> \A m \in I : ~(m <= 0) /\ m <= n
    OBVIOUS
  <2>1. \A m : m \notin Upto(I, 0)
    BY Zenon DEF Upto
  <2>2. \A m : m \in Upto(I, n) <=> m \in I
    BY DEF Upto
  <2> QED
    BY <2>1, <2>2
<1> QED
  BY <1>1, FS_EmptySet DEF Count

LEMMA CountStep ==
    ASSUME NEW n \in Nat, NEW I \in SUBSET (1..n), NEW k \in 1..n
    PROVE  Count(I, k) = IF k \in I THEN Count(I, k - 1) + 1 ELSE Count(I, k - 1)
<1> k \in Int /\ \A m \in I : m \in Int /\ 1 <= m /\ m <= n
  OBVIOUS
<1>1. IsFiniteSet(Upto(I, k - 1)) /\ k \notin Upto(I, k - 1)
  <2>1. IsFiniteSet(Upto(I, k - 1))
    BY CountType
  <2>2. k \notin Upto(I, k - 1)
    BY DEF Upto
  <2> QED
    BY <2>1, <2>2
<1>2. CASE k \in I
  <2> \A m \in I : m <= k <=> m <= k - 1 \/ m = k
    OBVIOUS
  <2> \A m : m \in Upto(I, k) <=> m \in Upto(I, k - 1) \cup {k}
    BY <1>2, Zenon DEF Upto
  <2>1. Upto(I, k) = Upto(I, k - 1) \cup {k}
    OBVIOUS
  <2> QED
    BY <1>1, <1>2, <2>1, FS_AddElement DEF Count
<1>3. CASE k \notin I
  <2> \A m \in I : m <= k <=> m <= k - 1
    BY <1>3
  <2> \A m : m \in Upto(I, k) <=> m \in Upto(I, k - 1)
    BY Zenon DEF Upto
  <2>1. Upto(I, k) = Upto(I, k - 1)
    OBVIOUS
  <2> QED
    BY <1>3, <2>1 DEF Count
<1> QED
  BY <1>2, <1>3

LEMMA CountGrows ==
    ASSUME NEW n \in Nat, NEW I \in SUBSET (1..n), NEW j \in Int, NEW k \in Int, j <= k
    PROVE  /\ Count(I, j) <= Count(I, k)
           /\ j < k /\ k \in I => Count(I, j) < Count(I, k)
<1> \A m \in I : m \in Int
  OBVIOUS
<1>1. IsFiniteSet(Upto(I, k)) /\ Upto(I, j) \in SUBSET Upto(I, k)
  <2>1. IsFiniteSet(Upto(I, k))
    BY CountType
  <2>2. \A m \in Upto(I, j) : m \in Upto(I, k)
    BY DEF Upto
  <2> QED
    BY <2>1, <2>2
<1>2. Count(I, j) \in Nat /\ Count(I, k) \in Nat
  BY CountType
<1>3. /\ Cardinality(Upto(I, j)) <= Cardinality(Upto(I, k))
      /\ Cardinality(Upto(I, k)) = Cardinality(Upto(I, j)) => Upto(I, k) = Upto(I, j)
  BY <1>1, FS_Subset
<1>4. j < k /\ k \in I => Upto(I, k) # Upto(I, j)
  BY DEF Upto
<1> QED
  BY <1>2, <1>3, <1>4 DEF Count

LEMMA CountsDiffer ==
    ASSUME NEW n \in Nat, NEW I \in SUBSET (1..n), NEW j \in Int, NEW k \in Int, j < k, k \in I
    PROVE  Count(I, j) # Count(I, k)
<1>1. Count(I, j) < Count(I, k)
  BY CountGrows
<1>2. Count(I, j) \in Nat /\ Count(I, k) \in Nat
  BY CountType
<1> QED
  BY <1>1, <1>2

\* Some position of I is the c-th one.
LEMMA HasPosition ==
    ASSUME NEW n \in Nat, NEW I \in SUBSET (1..n), NEW c \in 1..Cardinality(I)
    PROVE  \E k \in I : Count(I, k) = c
<1> DEFINE T == {k \in 0..n : Count(I, k) >= c}
<1>1. Cardinality(I) \in Nat /\ c \in Nat /\ 1 <= c /\ c <= Cardinality(I)
  BY Positions
<1>2. \A k \in T : k \in 0..n /\ Count(I, k) >= c
  OBVIOUS
<1>3. \A k \in 0..n : Count(I, k) >= c => k \in T
  OBVIOUS
<1> HIDE DEF T
<1>4. n \in T
  <2>1. Count(I, n) = Cardinality(I)
    BY CountEnds
  <2> QED
    BY <1>1, <1>3, <2>1
<1>5. PICK k \in T : \A y \in T : k <= y
  <2>1. T \in SUBSET Nat
    BY <1>2
  <2> QED
    BY <1>4, <2>1, Least
<1>6. k # 0
  <2>1. Count(I, 0) = 0
    BY CountEnds
  <2> QED
    BY <1>1, <1>2, <2>1
<1>7. k \in 1..n /\ Count(I, k) >= c
  BY <1>2, <1>6
<1>8. k - 1 \in 0..n /\ k - 1 \notin T
  BY <1>5, <1>7
<1>9. Count(I, k - 1) \in Nat /\ Count(I, k) \in Nat
  BY CountType
<1>10. Count(I, k - 1) < c
  BY <1>1, <1>3, <1>8, <1>9
<1>11. Count(I, k) = IF k \in I THEN Count(I, k - 1) + 1 ELSE Count(I, k - 1)
  BY <1>7, CountStep
<1> QED
  BY <1>1, <1>7, <1>9, <1>10, <1>11

\* InOrder() counts the positions of I up.
LEMMA InOrderProperties ==
    ASSUME NEW n \in Nat, NEW I \in SUBSET (1..n)
    PROVE  /\ InOrder(I) \in [1..Cardinality(I) -> I]
           /\ \A j, k \in 1..Cardinality(I) : j < k => InOrder(I)[j] < InOrder(I)[k]
<1> \A m \in I : m \in Int
  OBVIOUS
<1> DEFINE c == Cardinality(I)
           p == [j \in 1..c |-> CHOOSE k \in I : Count(I, k) = j]
<1>1. \A j \in 1..c : p[j] \in I /\ Count(I, p[j]) = j
  BY HasPosition
<1>2. p \in [1..c -> I]
  BY <1>1
<1>3. ASSUME NEW j \in 1..c, NEW k \in 1..c, j < k PROVE p[j] < p[k]
  <2>1. p[j] \in I /\ p[k] \in I /\ Count(I, p[j]) = j /\ Count(I, p[k]) = k
    BY <1>1
  <2> HIDE DEF p
  <2>2. p[j] \in Int /\ p[k] \in Int
    BY <2>1
  <2>3. ASSUME p[k] <= p[j] PROVE FALSE
    <3>1. Count(I, p[k]) <= Count(I, p[j])
      BY <2>2, <2>3, CountGrows
    <3>2. j \in Int /\ k \in Int
      OBVIOUS
    <3> QED
      BY <1>3, <2>1, <3>1, <3>2
  <2> QED
    BY <2>2, <2>3
<1> HIDE DEF p
<1>4. \E q \in [1..c -> I] : \A j, k \in DOMAIN q : j < k => q[j] < q[k]
  BY <1>2, <1>3
<1> QED
  BY <1>4 DEF InOrder

LEMMA InOrderIsBijective ==
    ASSUME NEW n \in Nat, NEW I \in SUBSET (1..n)
    PROVE  InOrder(I) \in Bijection(1..Cardinality(I), I)
<1> \A m \in I : m \in Int
  OBVIOUS
<1> DEFINE p == InOrder(I)
           c == Cardinality(I)
<1>1. c \in Nat /\ IsFiniteSet(I)
  BY Positions
<1>2. p \in [1..c -> I] /\ \A j, k \in 1..c : j < k => p[j] < p[k]
  BY InOrderProperties
<1> HIDE DEF p, c
<1>3. \A j, k \in 1..c : p[j] = p[k] => j = k
  <2> SUFFICES ASSUME NEW j \in 1..c, NEW k \in 1..c, p[j] = p[k], j # k PROVE FALSE
    OBVIOUS
  <2>1. p[j] \in I /\ p[k] \in I
    BY <1>2
  <2>2. p[j] \in Int /\ p[k] \in Int
    BY <2>1
  <2>3. j < k \/ k < j
    OBVIOUS
  <2>4. p[j] < p[k] \/ p[k] < p[j]
    BY <1>2, <2>3
  <2> QED
    BY <2>2, <2>4
<1>4. p \in Injection(1..c, I)
  BY <1>2, <1>3 DEF Injection, IsInjective
<1>5. Cardinality(1..c) = c
  BY <1>1, FS_Interval
<1>6. p \in Surjection(1..c, I)
  BY <1>1, <1>4, <1>5, FS_Injection DEF c
<1> QED
  BY <1>4, <1>6 DEF Bijection, p, c

LEMMA AtProperties ==
    ASSUME NEW S, NEW list \in Seq(S), NEW I \in SUBSET DOMAIN list
    PROVE  /\ Cardinality(I) \in Nat /\ Cardinality(I) <= Len(list)
           /\ InOrder(I) \in Bijection(1..Cardinality(I), I)
           /\ At(list, I) \in Seq(S)
           /\ Len(At(list, I)) = Cardinality(I)
           /\ DOMAIN At(list, I) = 1..Cardinality(I)
           /\ \A k \in 1..Cardinality(I) : InOrder(I)[k] \in I /\ At(list, I)[k] = list[InOrder(I)[k]]
           /\ Range(At(list, I)) = {list[n] : n \in I}
           /\ (\A m, n \in I : list[m] = list[n] => m = n) => IsInjective(At(list, I))
<1> DEFINE p == InOrder(I)
           c == Cardinality(I)
<1>1. Len(list) \in Nat /\ DOMAIN list = 1..Len(list)
  OBVIOUS
<1>2. I \in SUBSET (1..Len(list))
  BY <1>1
<1>3. c \in Nat /\ c <= Len(list)
  BY <1>1, <1>2, Positions
<1>4. p \in Bijection(1..c, I)
  BY <1>1, <1>2, InOrderIsBijective
<1>5. /\ p \in [1..c -> I]
      /\ \A j, k \in 1..c : p[j] = p[k] => j = k
      /\ \A n \in I : \E k \in 1..c : p[k] = n
  BY <1>4 DEF Bijection, Injection, Surjection, IsInjective
<1> HIDE DEF p, c
<1> DEFINE a == [k \in 1..c |-> list[p[k]]]
<1>6. DOMAIN p = 1..c
  BY <1>5
<1>7. At(list, I) = a
  BY <1>6 DEF At, p
<1>8. \A n \in I : list[n] \in S
  OBVIOUS
<1>9. a \in [1..c -> S]
  BY <1>5, <1>8
<1>10. a \in Seq(S) /\ Len(a) = c
  BY <1>3, <1>9
<1>11. Range(a) = {list[n] : n \in I}
  <2>1. ASSUME NEW n \in I PROVE list[n] \in Range(a)
    <3>1. PICK k \in 1..c : p[k] = n
      BY <1>5
    <3>2. k \in DOMAIN a /\ a[k] = list[n]
      BY <3>1
    <3> QED BY <3>2 DEF Range
  <2>2. ASSUME NEW k \in DOMAIN a PROVE a[k] \in {list[n] : n \in I}
    BY <1>5
  <2> QED
    BY <2>1, <2>2 DEF Range
<1>12. ASSUME \A m, n \in I : list[m] = list[n] => m = n PROVE IsInjective(a)
  BY <1>5, <1>12 DEF IsInjective
<1> QED
  BY <1>3, <1>4, <1>5, <1>7, <1>10, <1>11, <1>12 DEF p, c

\* As many positions of I are up to its c-th one as that says.
LEMMA InOrderCounts ==
    ASSUME NEW n \in Nat, NEW I \in SUBSET (1..n), NEW c \in 1..Cardinality(I)
    PROVE  Count(I, InOrder(I)[c]) = c
<1> DEFINE p == InOrder(I)
           N == Cardinality(I)
           U == Upto(I, p[c])
           q == [j \in 1..c |-> p[j]]
<1>1. N \in Nat /\ c \in Nat /\ 1..c \subseteq 1..N
  BY Positions
<1>2. p \in [1..N -> I] /\ \A j, k \in 1..N : j < k => p[j] < p[k]
  BY InOrderProperties
<1>3. /\ \A j, k \in 1..N : p[j] = p[k] => j = k
      /\ \A m \in I : \E j \in 1..N : p[j] = m
  <2>1. p \in Bijection(1..N, I)
    BY InOrderIsBijective
  <2> HIDE DEF p, N
  <2> QED
    BY <2>1 DEF Bijection, Injection, Surjection, IsInjective
<1>4. \A m \in I : m \in Int
  OBVIOUS
<1>5. c \in 1..N
  OBVIOUS
<1> HIDE DEF p, N
<1>6. \A j \in 1..N : p[j] \in Int /\ p[j] \in I
  BY <1>2, <1>4
<1>7. \A j \in 1..c : p[j] <= p[c]
  <2> SUFFICES ASSUME NEW j \in 1..c PROVE p[j] <= p[c]
    OBVIOUS
  <2>1. j \in 1..N /\ (j < c \/ j = c)
    BY <1>1
  <2> QED
    BY <1>2, <1>5, <1>6, <2>1
<1>8. q \in [1..c -> U]
  BY <1>1, <1>6, <1>7 DEF Upto
<1>9. \A j, k \in 1..c : q[j] = q[k] => j = k
  BY <1>1, <1>3
<1>10. ASSUME NEW m \in U PROVE \E j \in 1..c : q[j] = m
  <2>1. m \in I /\ m <= p[c]
    BY DEF Upto
  <2>2. PICK j \in 1..N : p[j] = m
    BY <1>3, <2>1
  <2>3. ~(c < j)
    BY <1>2, <1>5, <1>6, <2>1, <2>2
  <2>4. j \in 1..c
    BY <1>1, <2>3
  <2> QED
    BY <2>2, <2>4
<1>11. q \in Bijection(1..c, U)
  BY <1>8, <1>9, <1>10 DEF Bijection, Injection, Surjection, IsInjective
<1>12. IsFiniteSet(1..c) /\ Cardinality(1..c) = c
  BY <1>1, FS_Interval
<1> HIDE DEF q
<1>13. Cardinality(U) = c
  BY <1>11, <1>12, FS_Bijection DEF ExistsBijection
<1> QED
  BY <1>13 DEF Count, p

----------------------------------------------------------------------------
(* Lists without some of their members                                    *)

\* The length of a list is the number of its members.
LEMMA LengthIsNumber ==
    ASSUME NEW S, NEW list \in Seq(S), IsInjective(list)
    PROVE  IsFiniteSet(Range(list)) /\ Cardinality(Range(list)) = Len(list)
<1>1. DOMAIN list = 1..Len(list) /\ Len(list) \in Nat
  OBVIOUS
<1>2. list \in Bijection(1..Len(list), Range(list))
  BY <1>1 DEF Bijection, Injection, Surjection, Range
<1>3. IsFiniteSet(1..Len(list)) /\ Cardinality(1..Len(list)) = Len(list)
  <2> DEFINE n == Len(list)
  <2>1. n \in Nat
    BY <1>1
  <2> HIDE DEF n
  <2>2. IsFiniteSet(1..n) /\ Cardinality(1..n) = n
    BY <2>1, FS_Interval
  <2> QED
    BY <2>2 DEF n
<1> QED
  BY <1>2, <1>3, FS_Bijection DEF ExistsBijection

LEMMA WithoutProperties ==
    ASSUME NEW S, NEW list \in Seq(S), IsInjective(list), NEW X
    PROVE  /\ Without(list, X) \in Seq(S)
           /\ IsInjective(Without(list, X))
           /\ Range(Without(list, X)) = Range(list) \ X
<1> DEFINE I == {n \in DOMAIN list : list[n] \notin X}
<1>1. I \in SUBSET DOMAIN list
  OBVIOUS
<1>2. \A m, n \in I : list[m] = list[n] => m = n
  BY DEF IsInjective
<1>3. {list[n] : n \in I} = Range(list) \ X
  BY DEF Range
<1> HIDE DEF I
<1>4. /\ At(list, I) \in Seq(S) /\ IsInjective(At(list, I))
      /\ Range(At(list, I)) = {list[n] : n \in I}
  BY <1>1, <1>2, AtProperties
<1> QED
  BY <1>3, <1>4 DEF Without, I

\* list_del() of members that are a list themselves.
LEMMA WithoutMoved ==
    ASSUME NEW S, NEW list \in Seq(S), IsInjective(list),
           NEW moved \in Seq(S), IsInjective(moved), Range(moved) \subseteq Range(list)
    PROVE  Len(Without(list, Range(moved))) = Len(list) - Len(moved)
<1> DEFINE left == Without(list, Range(moved))
<1>1. left \in Seq(S) /\ IsInjective(left) /\ Range(left) = Range(list) \ Range(moved)
  BY WithoutProperties
<1> HIDE DEF left
<1>2. /\ IsFiniteSet(Range(list)) /\ Cardinality(Range(list)) = Len(list)
      /\ Cardinality(Range(moved)) = Len(moved)
  BY LengthIsNumber
<1>3. Cardinality(Range(left)) = Len(left)
  BY <1>1, LengthIsNumber
<1>4. Range(list) \cap Range(moved) = Range(moved)
  OBVIOUS
<1>5. Cardinality(Range(left)) = Cardinality(Range(list)) - Cardinality(Range(list) \cap Range(moved))
  BY <1>1, <1>2, FS_Difference
<1> QED
  BY <1>2, <1>3, <1>4, <1>5 DEF left

\* list_del() of the first member.
LEMMA WithoutHead ==
    ASSUME NEW S, NEW list \in Seq(S), IsInjective(list), list # <<>>
    PROVE  Without(list, {Head(list)}) = Tail(list)
<1> DEFINE L == Len(list)
           I == {n \in DOMAIN list : list[n] \notin {Head(list)}}
<1>1. L \in Nat /\ L >= 1 /\ DOMAIN list = 1..L /\ Head(list) = list[1]
  OBVIOUS
<1>2. I = 2..L
  <2>1. \A n \in 1..L : n # 1 => list[n] # list[1]
    BY <1>1 DEF IsInjective
  <2>2. \A n : n \in I <=> n \in 2..L
    BY <1>1, <2>1
  <2> QED
    BY <2>2
<1>3. I \in SUBSET (1..L) /\ I \in SUBSET DOMAIN list
  BY <1>1
<1>4. Cardinality(I) = L - 1
  <2> HIDE DEF I, L
  <2>1. 2 \in Int /\ L \in Int
    BY <1>1
  <2> QED
    BY <1>1, <1>2, <2>1, FS_Interval
<1> HIDE DEF I, L
<1>5. /\ DOMAIN At(list, I) = 1..(L - 1)
      /\ At(list, I) \in Seq(S) /\ Len(At(list, I)) = L - 1
      /\ \A k \in 1..(L - 1) : InOrder(I)[k] \in I /\ At(list, I)[k] = list[InOrder(I)[k]]
  <2>1. /\ DOMAIN At(list, I) = 1..Cardinality(I)
        /\ At(list, I) \in Seq(S) /\ Len(At(list, I)) = Cardinality(I)
        /\ \A k \in 1..Cardinality(I) :
              InOrder(I)[k] \in I /\ At(list, I)[k] = list[InOrder(I)[k]]
    BY <1>3, AtProperties
  <2> QED
    BY <1>4, <2>1
<1>6. ASSUME NEW k \in 1..(L - 1) PROVE InOrder(I)[k] = k + 1
  <2> DEFINE n == InOrder(I)[k]
  <2>1. n \in 2..L
    BY <1>2, <1>5
  <2>2. Count(I, n) = k
    BY <1>1, <1>3, <1>4, InOrderCounts
  <2> HIDE DEF n
  <2>3. \A m : m \in Upto(I, n) <=> m \in 2..n
    BY <1>1, <1>2, <2>1 DEF Upto
  <2>4. Upto(I, n) = 2..n
    BY <2>3
  <2>5. Cardinality(2..n) = n - 1
    BY <2>1, FS_Interval
  <2> QED
    BY <2>1, <2>2, <2>4, <2>5 DEF Count, n
<1>7. \A k \in 1..(L - 1) : At(list, I)[k] = list[k + 1]
  BY <1>5, <1>6
<1>8. Tail(list) \in Seq(S) /\ Len(Tail(list)) = L - 1 /\ \A k \in 1..(L - 1) : Tail(list)[k] = list[k + 1]
  BY DEF L
<1>9. At(list, I) = Tail(list)
  BY <1>1, <1>5, <1>7, <1>8
<1> QED
  BY <1>9 DEF Without, I

LEMMA TailProperties ==
    ASSUME NEW S, NEW list \in Seq(S), IsInjective(list), list # <<>>
    PROVE  /\ Tail(list) \in Seq(S) /\ IsInjective(Tail(list))
           /\ Len(Tail(list)) = Len(list) - 1
           /\ \A k \in 1..(Len(list) - 1) : Tail(list)[k] = list[k + 1]
           /\ Range(Tail(list)) = Range(list) \ {Head(list)}
           /\ Head(list) \in Range(list)
<1>1. Without(list, {Head(list)}) = Tail(list)
  BY WithoutHead
<1>2. IsInjective(Tail(list)) /\ Range(Tail(list)) = Range(list) \ {Head(list)}
  <2>1. /\ IsInjective(Without(list, {Head(list)}))
        /\ Range(Without(list, {Head(list)})) = Range(list) \ {Head(list)}
    BY WithoutProperties
  <2> QED
    BY <1>1, <2>1
<1>3. Head(list) = list[1] /\ 1 \in DOMAIN list
  OBVIOUS
<1>4. Head(list) \in Range(list)
  BY <1>3 DEF Range
<1>5. /\ Tail(list) \in Seq(S) /\ Len(Tail(list)) = Len(list) - 1
      /\ \A k \in 1..(Len(list) - 1) : Tail(list)[k] = list[k + 1]
  OBVIOUS
<1> QED
  BY <1>2, <1>4, <1>5

LEMMA AppendMember ==
    ASSUME NEW S, NEW list \in Seq(S), IsInjective(list), NEW f \in S, f \notin Range(list)
    PROVE  /\ Append(list, f) \in Seq(S) /\ IsInjective(Append(list, f))
           /\ Len(Append(list, f)) = Len(list) + 1
           /\ Range(Append(list, f)) = Range(list) \cup {f}
<1> DEFINE l == Append(list, f)
           n == Len(list)
<1>1. /\ n \in Nat /\ DOMAIN list = 1..n /\ l \in Seq(S) /\ Len(l) = n + 1
      /\ DOMAIN l = 1..(n + 1) /\ l[n + 1] = f /\ \A k \in 1..n : l[k] = list[k]
  OBVIOUS
<1>2. \A k \in 1..(n + 1) : k \in 1..n \/ k = n + 1
  BY <1>1
<1>3. \A k \in 1..n : list[k] # f /\ list[k] \in Range(list)
  BY <1>1 DEF Range
<1> HIDE DEF l, n
<1>4. IsInjective(l)
  <2> SUFFICES ASSUME NEW j \in 1..(n + 1), NEW k \in 1..(n + 1), l[j] = l[k] PROVE j = k
    BY <1>1 DEF IsInjective
  <2> QED
    BY <1>1, <1>2, <1>3 DEF IsInjective
<1>5. Range(l) = Range(list) \cup {f}
  <2>1. \A x \in Range(l) : x \in Range(list) \cup {f}
    BY <1>1, <1>2, <1>3 DEF Range
  <2>2. \A k \in 1..n : k \in 1..(n + 1)
    BY <1>1
  <2>3. \A x \in Range(list) : x \in Range(l)
    BY <1>1, <2>2 DEF Range
  <2>4. n + 1 \in 1..(n + 1)
    BY <1>1
  <2>5. f \in Range(l)
    BY <1>1, <2>4 DEF Range
  <2> QED
    BY <2>1, <2>3, <2>5
<1> QED
  BY <1>1, <1>4, <1>5 DEF l, n

LEMMA NoMembers ==
    /\ Range(<<>>) = {} /\ IsInjective(<<>>)
    /\ \A S, list : list \in Seq(S) /\ Range(list) = {} => list = <<>>
<1>1. ASSUME NEW S, NEW list \in Seq(S), Range(list) = {} PROVE list = <<>>
  <2>1. Len(list) = 0
    <3>1. ASSUME Len(list) # 0 PROVE FALSE
      <4>1. 1 \in DOMAIN list
        BY <3>1
      <4> QED
        BY <1>1, <4>1 DEF Range
    <3> QED
      BY <3>1
  <2> QED
    BY <2>1
<1> QED
  BY <1>1 DEF Range, IsInjective

----------------------------------------------------------------------------
(* The buffers of the downlink frames                                     *)

BufType ==
    [flist : [ListId -> Seq(Fbuf)], list_len : [ListId -> Nat],
     tx_list : Seq(Fbuf), tx_list_len : Nat,
     used : SUBSET Fbuf, fbuf : [Fbuf -> Frame \cup {NoFrame}]]

ListsOf(b) == UNION {Range(b.flist[i]) : i \in ListId}

\* Bookkeeping, of any value of buf.
Books(b) ==
    /\ b \in BufType
    /\ b.used = ListsOf(b) \cup Range(b.tx_list)
    /\ IsInjective(b.tx_list)
    /\ \A i \in ListId : IsInjective(b.flist[i]) /\ Range(b.flist[i]) \cap Range(b.tx_list) = {}
    /\ \A i, j \in ListId : i # j => Range(b.flist[i]) \cap Range(b.flist[j]) = {}
    /\ \A i \in ListId : b.list_len[i] = Len(b.flist[i])
    /\ b.tx_list_len = Len(b.tx_list)

\* The blocks in use hold a frame each.
Filled(b) == \A f \in b.used : b.fbuf[f] \in Frame

LEMMA BufFields ==
    ASSUME NEW b \in BufType
    PROVE  /\ b.flist \in [ListId -> Seq(Fbuf)] /\ b.list_len \in [ListId -> Nat]
           /\ b.tx_list \in Seq(Fbuf) /\ b.tx_list_len \in Nat
           /\ b.used \in SUBSET Fbuf /\ b.fbuf \in [Fbuf -> Frame \cup {NoFrame}]
BY DEF BufType

LEMMA FreeFields ==
    ASSUME NEW b \in BufType, NEW S
    PROVE  /\ FreeBlocks(b, S) \in BufType
           /\ FreeBlocks(b, S).flist = b.flist /\ FreeBlocks(b, S).list_len = b.list_len
           /\ FreeBlocks(b, S).tx_list = b.tx_list /\ FreeBlocks(b, S).tx_list_len = b.tx_list_len
           /\ FreeBlocks(b, S).used = b.used \ S
           /\ \A f \in Fbuf : FreeBlocks(b, S).fbuf[f] = IF f \in S THEN NoFrame ELSE b.fbuf[f]
<1> DEFINE u == b.used \ S
           fb == [f \in Fbuf |-> IF f \in S THEN NoFrame ELSE b.fbuf[f]]
           c == [b EXCEPT !.used = u, !.fbuf = fb]
<1>1. b.used \in SUBSET Fbuf /\ b.fbuf \in [Fbuf -> Frame \cup {NoFrame}]
  BY BufFields
<1>2. /\ u \in SUBSET Fbuf /\ fb \in [Fbuf -> Frame \cup {NoFrame}]
      /\ \A f \in Fbuf : fb[f] = IF f \in S THEN NoFrame ELSE b.fbuf[f]
  BY <1>1
<1>3. FreeBlocks(b, S) = c
  BY DEF FreeBlocks
<1> HIDE DEF u, fb
<1>4. /\ c \in BufType /\ c.flist = b.flist /\ c.list_len = b.list_len
      /\ c.tx_list = b.tx_list /\ c.tx_list_len = b.tx_list_len
      /\ c.used = u /\ c.fbuf = fb
  BY <1>2 DEF BufType
<1> HIDE DEF c
<1> QED
  BY <1>2, <1>3, <1>4 DEF u

LEMMA ClearTxFields ==
    ASSUME NEW b \in BufType
    PROVE  LET c == downlink_frame_clear_tx_list(b)
           IN  /\ c \in BufType
               /\ c.flist = b.flist /\ c.list_len = b.list_len
               /\ c.tx_list = <<>> /\ c.tx_list_len = 0
               /\ c.used = b.used \ Range(b.tx_list)
               /\ \A f \in Fbuf : c.fbuf[f] = IF f \in Range(b.tx_list) THEN NoFrame ELSE b.fbuf[f]
<1> DEFINE d == FreeBlocks(b, Range(b.tx_list))
           tl == <<>>
           tn == 0
           c == [d EXCEPT !.tx_list = tl, !.tx_list_len = tn]
<1>1. /\ d \in BufType /\ d.flist = b.flist /\ d.list_len = b.list_len
      /\ d.used = b.used \ Range(b.tx_list)
      /\ \A f \in Fbuf : d.fbuf[f] = IF f \in Range(b.tx_list) THEN NoFrame ELSE b.fbuf[f]
  BY FreeFields
<1>2. downlink_frame_clear_tx_list(b) = c
  BY DEF downlink_frame_clear_tx_list
<1>3. tl \in Seq(Fbuf) /\ tn \in Nat
  OBVIOUS
<1> HIDE DEF d, tl, tn
<1>4. /\ c \in BufType /\ c.flist = d.flist /\ c.list_len = d.list_len
      /\ c.tx_list = tl /\ c.tx_list_len = tn /\ c.used = d.used /\ c.fbuf = d.fbuf
  BY <1>1, <1>3 DEF BufType
<1> HIDE DEF c
<1> QED
  BY <1>1, <1>2, <1>4 DEF tl, tn

\* downlink_frame_clear_list(), when the counters are right.
LEMMA ClearListsFields ==
    ASSUME NEW b, Books(b), NEW S \in SUBSET ListId
    PROVE  LET c == downlink_frame_clear_lists(b, S)
               blocks == UNION {Range(b.flist[i]) : i \in S}
           IN  /\ c \in BufType
               /\ \A i \in ListId : c.flist[i] = IF i \in S THEN <<>> ELSE b.flist[i]
               /\ \A i \in ListId : c.list_len[i] = IF i \in S THEN 0 ELSE b.list_len[i]
               /\ c.tx_list = b.tx_list /\ c.tx_list_len = b.tx_list_len
               /\ c.used = b.used \ blocks
               /\ \A f \in Fbuf : c.fbuf[f] = IF f \in blocks THEN NoFrame ELSE b.fbuf[f]
<1> DEFINE cleared == {i \in S : b.list_len[i] > 0}
           blocks  == UNION {Range(b.flist[i]) : i \in cleared}
           d == FreeBlocks(b, blocks)
           fl == [i \in ListId |-> IF i \in cleared THEN <<>> ELSE d.flist[i]]
           ll == [i \in ListId |-> IF i \in cleared THEN 0 ELSE d.list_len[i]]
           c == [d EXCEPT !.flist = fl, !.list_len = ll]
<1>1. /\ b \in BufType /\ b.flist \in [ListId -> Seq(Fbuf)]
      /\ \A i \in ListId : b.list_len[i] = Len(b.flist[i])
  BY BufFields DEF Books
<1>2. \A i \in S : i \notin cleared => b.flist[i] = <<>> /\ b.list_len[i] = 0
  <2> SUFFICES ASSUME NEW i \in S, ~(b.list_len[i] > 0) PROVE b.flist[i] = <<>> /\ b.list_len[i] = 0
    OBVIOUS
  <2>1. b.flist[i] \in Seq(Fbuf) /\ b.list_len[i] = Len(b.flist[i])
    BY <1>1
  <2> QED
    BY <2>1
<1>3. blocks = UNION {Range(b.flist[i]) : i \in S}
  <2>1. \A i \in S : i \notin cleared => Range(b.flist[i]) = {}
    BY <1>2, NoMembers
  <2>2. cleared \subseteq S
    OBVIOUS
  <2> HIDE DEF cleared
  <2> QED
    BY <2>1, <2>2
<1>4. /\ d \in BufType /\ d.flist = b.flist /\ d.list_len = b.list_len
      /\ d.tx_list = b.tx_list /\ d.tx_list_len = b.tx_list_len
      /\ d.used = b.used \ blocks
      /\ \A f \in Fbuf : d.fbuf[f] = IF f \in blocks THEN NoFrame ELSE b.fbuf[f]
  BY <1>1, FreeFields
<1>5. downlink_frame_clear_lists(b, S) = c
  BY DEF downlink_frame_clear_lists
<1>6. cleared \subseteq S
  OBVIOUS
<1> HIDE DEF cleared, blocks, d
<1>7. d.flist \in [ListId -> Seq(Fbuf)] /\ d.list_len \in [ListId -> Nat]
  BY <1>4, BufFields
<1>8. /\ fl \in [ListId -> Seq(Fbuf)] /\ ll \in [ListId -> Nat]
      /\ \A i \in ListId : fl[i] = IF i \in S THEN <<>> ELSE b.flist[i]
      /\ \A i \in ListId : ll[i] = IF i \in S THEN 0 ELSE b.list_len[i]
  BY <1>2, <1>4, <1>6, <1>7
<1> HIDE DEF fl, ll
<1>9. /\ c \in BufType /\ c.flist = fl /\ c.list_len = ll
      /\ c.tx_list = d.tx_list /\ c.tx_list_len = d.tx_list_len
      /\ c.used = d.used /\ c.fbuf = d.fbuf
  BY <1>4, <1>8 DEF BufType
<1> HIDE DEF c
<1> QED
  BY <1>3, <1>4, <1>5, <1>8, <1>9

LEMMA MoveFields ==
    ASSUME NEW b \in BufType, NEW i \in ListId, NEW moved \in Seq(Fbuf),
           Len(moved) <= b.list_len[i], Without(b.flist[i], Range(moved)) \in Seq(Fbuf)
    PROVE  LET c == MoveToTxList(b, i, moved)
           IN  /\ c \in BufType
               /\ \A j \in ListId :
                     c.flist[j] = IF j = i THEN Without(b.flist[i], Range(moved)) ELSE b.flist[j]
               /\ \A j \in ListId :
                     c.list_len[j] = IF j = i THEN b.list_len[i] - Len(moved) ELSE b.list_len[j]
               /\ c.tx_list = b.tx_list \o moved /\ c.tx_list_len = b.tx_list_len + Len(moved)
               /\ c.used = b.used /\ c.fbuf = b.fbuf
<1> DEFINE left == Without(b.flist[i], Range(moved))
           fl == [b.flist EXCEPT ![i] = left]
           ll == [b.list_len EXCEPT ![i] = @ - Len(moved)]
           tl == b.tx_list \o moved
           tn == b.tx_list_len + Len(moved)
           c == [b EXCEPT !.flist = fl, !.list_len = ll, !.tx_list = tl, !.tx_list_len = tn]
<1>1. /\ b.flist \in [ListId -> Seq(Fbuf)] /\ b.list_len \in [ListId -> Nat]
      /\ b.tx_list \in Seq(Fbuf) /\ b.tx_list_len \in Nat
  BY BufFields
<1>2. MoveToTxList(b, i, moved) = c
  BY <1>1 DEF MoveToTxList
<1>3. left \in Seq(Fbuf) /\ Len(moved) \in Nat /\ Len(moved) <= b.list_len[i]
  OBVIOUS
<1> HIDE DEF left
<1>4. /\ fl \in [ListId -> Seq(Fbuf)] /\ ll \in [ListId -> Nat]
      /\ tl \in Seq(Fbuf) /\ tn \in Nat
      /\ \A j \in ListId : fl[j] = IF j = i THEN left ELSE b.flist[j]
      /\ \A j \in ListId : ll[j] = IF j = i THEN b.list_len[i] - Len(moved) ELSE b.list_len[j]
  <2>1. b.list_len[i] \in Nat /\ b.list_len[i] - Len(moved) \in Nat
    BY <1>1, <1>3
  <2>2. fl \in [ListId -> Seq(Fbuf)] /\ ll \in [ListId -> Nat]
    BY <1>1, <1>3, <2>1
  <2> QED
    BY <1>1, <1>3, <2>2
<1> HIDE DEF fl, ll, tl, tn
<1>5. /\ c \in BufType /\ c.flist = fl /\ c.list_len = ll /\ c.tx_list = tl /\ c.tx_list_len = tn
      /\ c.used = b.used /\ c.fbuf = b.fbuf
  BY <1>4 DEF BufType
<1> HIDE DEF c
<1> QED
  BY <1>2, <1>4, <1>5 DEF left, tl, tn

LEMMA SentFields ==
    ASSUME NEW b \in BufType, NEW f \in Fbuf,
           b.tx_list_len >= 1, Without(b.tx_list, {f}) \in Seq(Fbuf)
    PROVE  LET c == SentOrFailed(b, f)
           IN  /\ c \in BufType
               /\ c.flist = b.flist /\ c.list_len = b.list_len
               /\ c.tx_list = Without(b.tx_list, {f}) /\ c.tx_list_len = b.tx_list_len - 1
               /\ c.used = b.used \ {f}
               /\ \A g \in Fbuf : c.fbuf[g] = IF g = f THEN NoFrame ELSE b.fbuf[g]
<1> DEFINE d == FreeBlocks(b, {f})
           tl == Without(b.tx_list, {f})
           tn == b.tx_list_len - 1
           c == [d EXCEPT !.tx_list = tl, !.tx_list_len = tn]
<1>1. /\ d \in BufType /\ d.flist = b.flist /\ d.list_len = b.list_len
      /\ d.tx_list = b.tx_list /\ d.tx_list_len = b.tx_list_len
      /\ d.used = b.used \ {f}
      /\ \A g \in Fbuf : d.fbuf[g] = IF g \in {f} THEN NoFrame ELSE b.fbuf[g]
  BY FreeFields
<1>2. b.tx_list_len \in Nat
  BY BufFields
<1>3. tl \in Seq(Fbuf) /\ tn \in Nat
  BY <1>2
<1> HIDE DEF d
<1>4. SentOrFailed(b, f) = c
  BY <1>1 DEF SentOrFailed, d, BufType
<1> HIDE DEF tl, tn
<1>5. /\ c \in BufType /\ c.flist = d.flist /\ c.list_len = d.list_len
      /\ c.tx_list = tl /\ c.tx_list_len = tn /\ c.used = d.used /\ c.fbuf = d.fbuf
  BY <1>1, <1>3 DEF BufType
<1> HIDE DEF c
<1> QED
  BY <1>1, <1>4, <1>5 DEF tl, tn


LEMMA InLists ==
    ASSUME NEW b, NEW f
    PROVE  f \in ListsOf(b) <=> \E i \in ListId : f \in Range(b.flist[i])
BY DEF ListsOf

LEMMA ClearTxBooks ==
    ASSUME NEW b, Books(b), Filled(b)
    PROVE  LET c == downlink_frame_clear_tx_list(b)
           IN  /\ Books(c) /\ Filled(c) /\ c.tx_list = <<>> /\ c.flist = b.flist
               /\ \A f \in c.used : c.fbuf[f] = b.fbuf[f]
<1> DEFINE c == downlink_frame_clear_tx_list(b)
<1>1. b \in BufType
  BY DEF Books
<1>2. /\ c \in BufType /\ c.flist = b.flist /\ c.list_len = b.list_len
      /\ c.tx_list = <<>> /\ c.tx_list_len = 0 /\ c.used = b.used \ Range(b.tx_list)
      /\ \A f \in Fbuf : c.fbuf[f] = IF f \in Range(b.tx_list) THEN NoFrame ELSE b.fbuf[f]
  BY <1>1, ClearTxFields
<1> HIDE DEF c
<1>3. c.used = ListsOf(c) \cup Range(c.tx_list)
  <2>1. \A f : f \in c.used <=> f \in b.used /\ f \notin Range(b.tx_list)
    BY <1>2
  <2>2. \A f : f \in ListsOf(c) <=> \E i \in ListId : f \in Range(b.flist[i])
    BY <1>2, InLists
  <2>3. \A f : f \in b.used <=> (\E i \in ListId : f \in Range(b.flist[i])) \/ f \in Range(b.tx_list)
    BY InLists DEF Books
  <2>4. \A i \in ListId : \A f : f \in Range(b.flist[i]) => f \notin Range(b.tx_list)
    BY DEF Books
  <2>5. \A f : f \in c.used <=> f \in ListsOf(c)
    BY <2>1, <2>2, <2>3, <2>4
  <2> QED
    BY <1>2, <2>5, NoMembers
<1>4. Books(c)
  <2>1. IsInjective(c.tx_list) /\ Range(c.tx_list) = {} /\ c.tx_list_len = Len(c.tx_list)
    BY <1>2, NoMembers
  <2> QED
    BY <1>2, <1>3, <2>1 DEF Books
<1>5. \A f \in c.used : c.fbuf[f] = b.fbuf[f]
  BY <1>1, <1>2, BufFields
<1>6. Filled(c)
  BY <1>2, <1>5 DEF Filled
<1> QED
  BY <1>2, <1>4, <1>5, <1>6 DEF c

LEMMA ClearListsBooks ==
    ASSUME NEW b, Books(b), Filled(b), NEW S \in SUBSET ListId
    PROVE  Books(downlink_frame_clear_lists(b, S)) /\ Filled(downlink_frame_clear_lists(b, S))
<1> DEFINE c == downlink_frame_clear_lists(b, S)
           blocks == UNION {Range(b.flist[i]) : i \in S}
<1>1. b \in BufType
  BY DEF Books
<1>2. /\ c \in BufType
      /\ \A i \in ListId : c.flist[i] = IF i \in S THEN <<>> ELSE b.flist[i]
      /\ \A i \in ListId : c.list_len[i] = IF i \in S THEN 0 ELSE b.list_len[i]
      /\ c.tx_list = b.tx_list /\ c.tx_list_len = b.tx_list_len
      /\ c.used = b.used \ blocks
      /\ \A f \in Fbuf : c.fbuf[f] = IF f \in blocks THEN NoFrame ELSE b.fbuf[f]
  BY ClearListsFields
<1>3. \A f : f \in blocks <=> \E i \in S : f \in Range(b.flist[i])
  OBVIOUS
<1> HIDE DEF c, blocks
<1>4. \A i \in ListId : i \in S => /\ Range(c.flist[i]) = {}
                                   /\ IsInjective(c.flist[i])
                                   /\ c.list_len[i] = Len(c.flist[i])
  BY <1>2, NoMembers
<1>5. \A i \in ListId : i \notin S => c.flist[i] = b.flist[i] /\ c.list_len[i] = b.list_len[i]
  BY <1>2
<1>6. c.used = ListsOf(c) \cup Range(c.tx_list)
  <2>1. \A f : f \in c.used <=> f \in b.used /\ ~(\E i \in S : f \in Range(b.flist[i]))
    BY <1>2, <1>3
  <2>2. \A f : f \in ListsOf(c) <=> \E i \in ListId : i \notin S /\ f \in Range(b.flist[i])
    BY <1>4, <1>5, InLists
  <2>3. \A f : f \in b.used <=> (\E i \in ListId : f \in Range(b.flist[i])) \/ f \in Range(b.tx_list)
    BY InLists DEF Books
  <2>4. /\ \A i \in ListId : \A f : f \in Range(b.flist[i]) => f \notin Range(b.tx_list)
        /\ \A i, j \in ListId : \A f : f \in Range(b.flist[i]) /\ f \in Range(b.flist[j]) => i = j
    <3>1. /\ \A i \in ListId : Range(b.flist[i]) \cap Range(b.tx_list) = {}
          /\ \A i, j \in ListId : i # j => Range(b.flist[i]) \cap Range(b.flist[j]) = {}
      BY DEF Books
    <3> QED
      BY <3>1
  <2>5. ASSUME NEW f PROVE f \in c.used <=> f \in ListsOf(c) \/ f \in Range(b.tx_list)
    <3>1. ASSUME f \in c.used PROVE f \in ListsOf(c) \/ f \in Range(b.tx_list)
      BY <2>1, <2>2, <2>3, <3>1
    <3>2. ASSUME f \in Range(b.tx_list) PROVE f \in c.used
      BY <2>1, <2>3, <2>4, <3>2
    <3>3. ASSUME f \in ListsOf(c) PROVE f \in c.used
      <4>1. PICK i \in ListId : i \notin S /\ f \in Range(b.flist[i])
        BY <2>2, <3>3
      <4>2. f \in b.used
        BY <2>3, <4>1
      <4>3. ~(\E j \in S : f \in Range(b.flist[j]))
        BY <2>4, <4>1
      <4> QED
        BY <2>1, <4>2, <4>3
    <3> QED
      BY <3>1, <3>2, <3>3
  <2>6. c.tx_list = b.tx_list
    BY <1>2
  <2> QED
    BY <2>5, <2>6
<1>7. Books(c)
  <2>1. c.tx_list = b.tx_list /\ c.tx_list_len = b.tx_list_len
    BY <1>2
  <2>2. IsInjective(c.tx_list) /\ c.tx_list_len = Len(c.tx_list)
    BY <2>1 DEF Books
  <2>3. ASSUME NEW i \in ListId
        PROVE  /\ IsInjective(c.flist[i])
               /\ Range(c.flist[i]) \cap Range(c.tx_list) = {}
               /\ c.list_len[i] = Len(c.flist[i])
    BY <1>4, <1>5, <2>1 DEF Books
  <2>4. ASSUME NEW i \in ListId, NEW j \in ListId, i # j
        PROVE  Range(c.flist[i]) \cap Range(c.flist[j]) = {}
    BY <1>4, <1>5, <2>4 DEF Books
  <2> QED
    BY <1>2, <1>6, <2>2, <2>3, <2>4 DEF Books
<1>8. Filled(c)
  BY <1>1, <1>2, BufFields DEF Filled
<1> QED
  BY <1>7, <1>8 DEF c

\* Frames that are in list i are moved to the tx list, which is empty.
LEMMA MoveBooks ==
    ASSUME NEW b, Books(b), Filled(b), b.tx_list = <<>>, NEW i \in ListId,
           NEW moved \in Seq(Fbuf), IsInjective(moved), Range(moved) \subseteq Range(b.flist[i])
    PROVE  LET c == MoveToTxList(b, i, moved)
           IN  /\ Books(c) /\ Filled(c)
               /\ c.tx_list = moved /\ c.fbuf = b.fbuf
               /\ \A j \in ListId : Range(c.flist[j]) \subseteq Range(b.flist[j])
               /\ \A j \in ListId : j # i => c.flist[j] = b.flist[j]
<1> DEFINE c == MoveToTxList(b, i, moved)
           left == Without(b.flist[i], Range(moved))
<1>1. b \in BufType /\ IsInjective(b.flist[i]) /\ b.list_len[i] = Len(b.flist[i])
  BY DEF Books
<1>2. b.flist[i] \in Seq(Fbuf) /\ b.list_len[i] \in Nat /\ Len(moved) \in Nat
  BY <1>1, BufFields
<1>3. left \in Seq(Fbuf) /\ IsInjective(left) /\ Range(left) = Range(b.flist[i]) \ Range(moved)
  BY <1>1, <1>2, WithoutProperties
<1>4. Len(left) = Len(b.flist[i]) - Len(moved)
  BY <1>1, <1>2, WithoutMoved
<1> HIDE DEF left
<1>5. Len(moved) <= b.list_len[i]
  <2>1. Len(left) \in Nat
    BY <1>3
  <2> QED
    BY <1>1, <1>2, <1>4, <2>1
<1>6. /\ c \in BufType
      /\ \A j \in ListId : c.flist[j] = IF j = i THEN left ELSE b.flist[j]
      /\ \A j \in ListId : c.list_len[j] = IF j = i THEN b.list_len[i] - Len(moved) ELSE b.list_len[j]
      /\ c.tx_list = b.tx_list \o moved /\ c.tx_list_len = b.tx_list_len + Len(moved)
      /\ c.used = b.used /\ c.fbuf = b.fbuf
  <2>1. b \in BufType /\ i \in ListId /\ moved \in Seq(Fbuf)
    BY <1>1
  <2>2. Without(b.flist[i], Range(moved)) \in Seq(Fbuf)
    BY <1>3 DEF left
  <2> QED
    BY ONLY <1>5, <2>1, <2>2, MoveFields DEF left
<1> HIDE DEF c
<1>7. c.tx_list = moved /\ c.tx_list_len = Len(moved)
  <2>1. b.tx_list_len = 0
    BY DEF Books
  <2>2. <<>> \o moved = moved
    OBVIOUS
  <2> QED
    BY <1>2, <1>6, <2>1, <2>2
<1>8. \A j \in ListId : j # i => c.flist[j] = b.flist[j] /\ c.list_len[j] = b.list_len[j]
  BY <1>6
<1>9. c.flist[i] = left /\ c.list_len[i] = Len(left)
  BY <1>1, <1>4, <1>6
<1>10. \A j \in ListId : Range(c.flist[j]) \subseteq Range(b.flist[j])
  BY <1>3, <1>8, <1>9
<1>11. /\ \A j, k \in ListId : j # k => Range(b.flist[j]) \cap Range(b.flist[k]) = {}
       /\ Range(b.tx_list) = {}
  BY NoMembers DEF Books
<1>12. c.used = ListsOf(c) \cup Range(c.tx_list)
  <2>1. \A f : f \in c.used <=> \E j \in ListId : f \in Range(b.flist[j])
    BY <1>6, <1>11, InLists DEF Books
  <2>2. ASSUME NEW f PROVE f \in c.used <=> f \in ListsOf(c) \/ f \in Range(moved)
    <3>1. ASSUME f \in c.used PROVE f \in ListsOf(c) \/ f \in Range(moved)
      <4>1. PICK j \in ListId : f \in Range(b.flist[j])
        BY <2>1, <3>1
      <4>2. f \in Range(c.flist[j]) \/ f \in Range(moved)
        BY <1>3, <1>8, <1>9, <4>1
      <4> QED
        BY <4>2, InLists
    <3>2. ASSUME f \in ListsOf(c) PROVE f \in c.used
      BY <1>10, <2>1, <3>2, InLists
    <3>3. ASSUME f \in Range(moved) PROVE f \in c.used
      BY <2>1, <3>3
    <3> QED
      BY <3>1, <3>2, <3>3
  <2> QED
    BY <1>7, <2>2
<1>13. Books(c)
  <2>1. IsInjective(c.tx_list) /\ c.tx_list_len = Len(c.tx_list)
    BY <1>7
  <2>2. ASSUME NEW j \in ListId
        PROVE  /\ IsInjective(c.flist[j])
               /\ Range(c.flist[j]) \cap Range(c.tx_list) = {}
               /\ c.list_len[j] = Len(c.flist[j])
    <3>1. CASE j = i
      BY <1>3, <1>7, <1>9, <3>1
    <3>2. CASE j # i
      <4>1. Range(b.flist[j]) \cap Range(b.flist[i]) = {}
        BY <1>11, <3>2
      <4> QED
        BY <1>7, <1>8, <3>2, <4>1 DEF Books
    <3> QED
      BY <3>1, <3>2
  <2>3. ASSUME NEW j \in ListId, NEW k \in ListId, j # k
        PROVE  Range(c.flist[j]) \cap Range(c.flist[k]) = {}
    <3>1. Range(b.flist[j]) \cap Range(b.flist[k]) = {}
      BY <1>11, <2>3
    <3> QED
      BY <1>10, <3>1
  <2> QED
    BY <1>6, <1>12, <2>1, <2>2, <2>3 DEF Books
<1>14. Filled(c)
  BY <1>6 DEF Filled
<1> QED
  BY <1>6, <1>7, <1>8, <1>10, <1>13, <1>14 DEF c

\* The first frame of the tx list has been sent.
LEMMA SentBooks ==
    ASSUME NEW b, Books(b), Filled(b), b.tx_list # <<>>
    PROVE  LET c == SentOrFailed(b, Head(b.tx_list))
           IN  /\ Books(c) /\ Filled(c)
               /\ c.tx_list = Tail(b.tx_list) /\ c.tx_list_len = b.tx_list_len - 1
               /\ c.flist = b.flist /\ c.used \subseteq b.used
               /\ \A f \in c.used : c.fbuf[f] = b.fbuf[f]
<1> DEFINE first == Head(b.tx_list)
           c == SentOrFailed(b, first)
<1>1. b \in BufType /\ IsInjective(b.tx_list) /\ b.tx_list_len = Len(b.tx_list)
  BY DEF Books
<1>2. b.tx_list \in Seq(Fbuf) /\ b.used \in SUBSET Fbuf
  BY <1>1, BufFields
<1>3. /\ Tail(b.tx_list) \in Seq(Fbuf) /\ IsInjective(Tail(b.tx_list))
      /\ Len(Tail(b.tx_list)) = Len(b.tx_list) - 1
      /\ Range(Tail(b.tx_list)) = Range(b.tx_list) \ {first}
      /\ first \in Range(b.tx_list)
  BY <1>1, <1>2, TailProperties
<1>4. Without(b.tx_list, {first}) = Tail(b.tx_list)
  BY <1>1, <1>2, WithoutHead
<1>5. first \in Fbuf /\ b.tx_list_len >= 1
  BY <1>1, <1>2
<1> HIDE DEF first
<1>6. /\ c \in BufType /\ c.flist = b.flist /\ c.list_len = b.list_len
      /\ c.tx_list = Tail(b.tx_list) /\ c.tx_list_len = b.tx_list_len - 1
      /\ c.used = b.used \ {first}
      /\ \A g \in Fbuf : c.fbuf[g] = IF g = first THEN NoFrame ELSE b.fbuf[g]
  <2>1. Without(b.tx_list, {first}) \in Seq(Fbuf)
    BY <1>3, <1>4
  <2> QED
    BY ONLY <1>1, <1>4, <1>5, <2>1, SentFields
<1> HIDE DEF c
<1>7. c.used = ListsOf(c) \cup Range(c.tx_list)
  <2>1. \A f : f \in ListsOf(c) <=> f \in ListsOf(b)
    BY <1>6, InLists
  <2>2. b.used = ListsOf(b) \cup Range(b.tx_list)
    BY DEF Books
  <2>3. first \notin ListsOf(b)
    <3>1. \A i \in ListId : Range(b.flist[i]) \cap Range(b.tx_list) = {}
      BY DEF Books
    <3> QED
      BY <1>3, <3>1, InLists
  <2> QED
    BY <1>3, <1>6, <2>1, <2>2, <2>3
<1>8. Books(c)
  <2>1. IsInjective(c.tx_list) /\ c.tx_list_len = Len(c.tx_list)
    BY <1>1, <1>3, <1>6
  <2>2. ASSUME NEW i \in ListId
        PROVE  /\ IsInjective(c.flist[i])
               /\ Range(c.flist[i]) \cap Range(c.tx_list) = {}
               /\ c.list_len[i] = Len(c.flist[i])
    <3>1. Range(b.flist[i]) \cap Range(b.tx_list) = {}
      BY DEF Books
    <3> QED
      BY <1>3, <1>6, <3>1 DEF Books
  <2>3. \A i, j \in ListId : i # j => Range(c.flist[i]) \cap Range(c.flist[j]) = {}
    BY <1>6 DEF Books
  <2> QED
    BY <1>6, <1>7, <2>1, <2>2, <2>3 DEF Books
<1>9. c.used \subseteq b.used /\ \A f \in c.used : c.fbuf[f] = b.fbuf[f]
  BY <1>2, <1>6
<1>10. Filled(c)
  BY <1>9 DEF Filled
<1> QED
  BY <1>6, <1>8, <1>9, <1>10 DEF c, first

\* mem_pool_alloc_blk() and list_add_tail().
Alloc(b, i, f, frame) ==
    [b EXCEPT !.used = @ \cup {f}, !.fbuf[f] = frame,
              !.flist[i] = Append(@, f), !.list_len[i] = @ + 1]

LEMMA AllocBooks ==
    ASSUME NEW b, Books(b), Filled(b), NEW i \in ListId, NEW f \in Fbuf, f \notin b.used,
           NEW frame \in Frame
    PROVE  LET c == Alloc(b, i, f, frame)
           IN  /\ Books(c) /\ Filled(c)
               /\ c.tx_list = b.tx_list /\ c.fbuf[f] = frame
               /\ \A g \in b.used : c.fbuf[g] = b.fbuf[g]
               /\ Range(c.flist[i]) = Range(b.flist[i]) \cup {f}
               /\ \A j \in ListId : j # i => c.flist[j] = b.flist[j]
<1> DEFINE u == b.used \cup {f}
           fb == [b.fbuf EXCEPT ![f] = frame]
           l == Append(b.flist[i], f)
           fl == [b.flist EXCEPT ![i] = l]
           ll == [b.list_len EXCEPT ![i] = @ + 1]
           c == [b EXCEPT !.used = u, !.fbuf = fb, !.flist = fl, !.list_len = ll]
<1>1. /\ b \in BufType /\ b.flist \in [ListId -> Seq(Fbuf)] /\ b.list_len \in [ListId -> Nat]
      /\ b.tx_list \in Seq(Fbuf) /\ b.tx_list_len \in Nat
      /\ b.used \in SUBSET Fbuf /\ b.fbuf \in [Fbuf -> Frame \cup {NoFrame}]
      /\ IsInjective(b.flist[i]) /\ b.list_len[i] = Len(b.flist[i])
  BY BufFields DEF Books
<1>2. Alloc(b, i, f, frame) = c
  BY <1>1 DEF Alloc
<1>3. \A g : g \in b.used <=> (\E j \in ListId : g \in Range(b.flist[j])) \/ g \in Range(b.tx_list)
  BY InLists DEF Books
<1>4. b.flist[i] \in Seq(Fbuf) /\ f \notin Range(b.flist[i])
  BY <1>1, <1>3
<1>5. /\ l \in Seq(Fbuf) /\ IsInjective(l) /\ Len(l) = Len(b.flist[i]) + 1
      /\ Range(l) = Range(b.flist[i]) \cup {f}
  BY <1>1, <1>4, AppendMember
<1> HIDE DEF l
<1>6. /\ u \in SUBSET Fbuf /\ fb \in [Fbuf -> Frame \cup {NoFrame}]
      /\ fl \in [ListId -> Seq(Fbuf)] /\ ll \in [ListId -> Nat]
      /\ fb[f] = frame /\ \A g \in Fbuf : g # f => fb[g] = b.fbuf[g]
      /\ fl[i] = l /\ \A j \in ListId : j # i => fl[j] = b.flist[j]
      /\ ll[i] = Len(l) /\ \A j \in ListId : j # i => ll[j] = b.list_len[j]
  <2>1. b.list_len[i] + 1 \in Nat
    BY <1>1
  <2> QED
    BY <1>1, <1>5, <2>1
<1>7. u = b.used \cup {f}
  OBVIOUS
<1> HIDE DEF u, fb, fl, ll
<1>8. /\ c \in BufType /\ c.flist = fl /\ c.list_len = ll
      /\ c.tx_list = b.tx_list /\ c.tx_list_len = b.tx_list_len
      /\ c.used = u /\ c.fbuf = fb
  BY <1>1, <1>6 DEF BufType
<1> HIDE DEF c
<1>9. c.used = ListsOf(c) \cup Range(c.tx_list)
  <2>1. ASSUME NEW g PROVE g \in c.used <=> g \in ListsOf(c) \/ g \in Range(b.tx_list)
    <3>1. g \in c.used <=> (\E j \in ListId : g \in Range(b.flist[j])) \/ g \in Range(b.tx_list) \/ g = f
      BY <1>3, <1>7, <1>8
    <3>2. (\E j \in ListId : g \in Range(c.flist[j]))
             <=> (\E j \in ListId : g \in Range(b.flist[j])) \/ g = f
      BY <1>5, <1>6, <1>8
    <3> QED
      BY <3>1, <3>2, InLists
  <2> QED
    BY <1>8, <2>1
<1>10. \A j \in ListId : f \notin Range(b.flist[j])
  BY <1>3
<1>11. f \notin Range(b.tx_list)
  BY <1>3
<1>12. Books(c)
  <2>1. IsInjective(c.tx_list) /\ c.tx_list_len = Len(c.tx_list)
    BY <1>8 DEF Books
  <2>2. ASSUME NEW j \in ListId
        PROVE  /\ IsInjective(c.flist[j])
               /\ Range(c.flist[j]) \cap Range(c.tx_list) = {}
               /\ c.list_len[j] = Len(c.flist[j])
    <3>1. Range(b.flist[j]) \cap Range(b.tx_list) = {}
      BY DEF Books
    <3>2. CASE j = i
      BY <1>5, <1>6, <1>8, <1>11, <3>1, <3>2
    <3>3. CASE j # i
      BY <1>6, <1>8, <3>1, <3>3 DEF Books
    <3> QED
      BY <3>2, <3>3
  <2>3. ASSUME NEW j \in ListId, NEW k \in ListId, j # k
        PROVE  Range(c.flist[j]) \cap Range(c.flist[k]) = {}
    <3>1. Range(b.flist[j]) \cap Range(b.flist[k]) = {}
      BY <2>3 DEF Books
    <3>2. c.flist[j] = IF j = i THEN l ELSE b.flist[j]
      BY <1>6, <1>8
    <3>3. c.flist[k] = IF k = i THEN l ELSE b.flist[k]
      BY <1>6, <1>8
    <3> QED
      BY <1>5, <1>10, <2>3, <3>1, <3>2, <3>3
  <2> QED
    BY <1>8, <1>9, <2>1, <2>2, <2>3 DEF Books
<1>13. \A g \in b.used : c.fbuf[g] = b.fbuf[g]
  BY <1>1, <1>6, <1>8
<1>14. Filled(c)
  BY <1>6, <1>7, <1>8, <1>13 DEF Filled
<1> QED
  BY <1>2, <1>5, <1>6, <1>8, <1>12, <1>13, <1>14

----------------------------------------------------------------------------
(* What a beacon announces                                                *)

\* The frames of list i for a device, by their positions.
FramesFor(b, i, addr) == {m \in DOMAIN b.flist[i] : b.fbuf[b.flist[i][m]].dest = addr}

\* The ACKs for a device.
AcksFor(acks, addr) == {m \in DOMAIN acks : acks[m].addr = addr}

\* The frame that is announced by ACK k: as many frames for its device are
\* before it as there are ACKs for the device before this one.
LEMMA CheckFinds ==
    ASSUME NEW b, Books(b), NEW i \in ListId, NEW acks \in Seq(Ack), NEW k \in DOMAIN acks,
           downlink_frames_check(b, i, acks, k) # NoFrame
    PROVE  LET F == FramesFor(b, i, acks[k].addr)
               n == Count(AcksFor(acks, acks[k].addr), k)
           IN  /\ n \in 1..Cardinality(F)
               /\ InOrder(F)[n] \in F
               /\ downlink_frames_check(b, i, acks, k) = b.flist[i][InOrder(F)[n]]
<1> DEFINE list == b.flist[i]
           addr == acks[k].addr
           F == FramesFor(b, i, addr)
           A == AcksFor(acks, addr)
           n == Count(A, k)
           L == Len(acks)
<1>1. L \in Nat /\ DOMAIN acks = 1..L /\ k \in 1..L
  OBVIOUS
<1>2. list \in Seq(Fbuf)
  BY BufFields DEF Books
<1>3. F \in SUBSET (1..Len(list)) /\ Len(list) \in Nat
  BY <1>2 DEF FramesFor
<1>4. A \in SUBSET (1..L) /\ k \in A
  BY <1>1 DEF AcksFor
<1> HIDE DEF L
<1>5. {m \in 1..k : acks[m].addr = addr} = Upto(A, k)
  <2>1. \A m : m \in 1..k <=> m \in 1..L /\ m <= k
    BY <1>1
  <2>2. \A m : m \in Upto(A, k) <=> m \in 1..L /\ acks[m].addr = addr /\ m <= k
    BY <1>1 DEF AcksFor, Upto
  <2>3. \A m : m \in {j \in 1..k : acks[j].addr = addr} <=> m \in Upto(A, k)
    BY <2>1, <2>2
  <2> QED
    BY <2>3
<1>6. n \in Nat /\ n >= 1
  <2>1. Count(A, k - 1) \in Nat /\ Count(A, k) \in Nat
    BY <1>1, <1>4, CountType
  <2>2. Count(A, k - 1) < Count(A, k)
    <3>1. k \in Int /\ k - 1 \in Int /\ k - 1 <= k /\ k - 1 < k
      BY <1>1
    <3> QED
      BY ONLY <1>1, <1>4, <3>1, CountGrows
  <2> QED
    BY <2>1, <2>2
<1>7. {m \in DOMAIN list : b.fbuf[list[m]].dest = addr} = F
  BY DEF FramesFor
<1>8. downlink_frames_check(b, i, acks, k)
         = IF b.list_len[i] > 0 /\ n <= Cardinality(F) THEN list[InOrder(F)[n]] ELSE NoFrame
  <2> DEFINE U1 == {m \in 1..k : acks[m].addr = addr}
             F1 == {m \in DOMAIN list : b.fbuf[list[m]].dest = addr}
  <2>1. downlink_frames_check(b, i, acks, k)
           = IF b.list_len[i] > 0 /\ Cardinality(U1) <= Cardinality(F1)
             THEN list[InOrder(F1)[Cardinality(U1)]] ELSE NoFrame
    BY Zenon DEF downlink_frames_check
  <2>2. U1 = Upto(A, k) /\ F1 = F
    BY <1>5, <1>7
  <2> HIDE DEF A, F, U1, F1, list
  <2> QED
    BY ONLY <2>1, <2>2 DEF Count
<1> HIDE DEF A, n, F, list
<1>9. n <= Cardinality(F) /\ downlink_frames_check(b, i, acks, k) = list[InOrder(F)[n]]
  BY <1>8
<1>10. Cardinality(F) \in Nat
  BY <1>3, Positions
<1>11. n \in 1..Cardinality(F)
  BY <1>6, <1>9, <1>10
<1>12. InOrder(F)[n] \in F
  BY <1>3, <1>11, InOrderProperties
<1> QED
  BY <1>9, <1>11, <1>12 DEF A, n, F, list

\* It is a frame of the list for that device, and no ACK before it has announced
\* it.
LEMMA CheckIsFrame ==
    ASSUME NEW b, Books(b), NEW i \in ListId, NEW acks \in Seq(Ack), NEW k \in DOMAIN acks,
           downlink_frames_check(b, i, acks, k) # NoFrame
    PROVE  LET f == downlink_frames_check(b, i, acks, k)
           IN  f \in Range(b.flist[i]) /\ b.fbuf[f].dest = acks[k].addr
<1> DEFINE F == FramesFor(b, i, acks[k].addr)
           n == Count(AcksFor(acks, acks[k].addr), k)
           p == InOrder(F)[n]
<1>1. p \in F /\ downlink_frames_check(b, i, acks, k) = b.flist[i][p]
  BY CheckFinds
<1> HIDE DEF p
<1>2. p \in DOMAIN b.flist[i] /\ b.fbuf[b.flist[i][p]].dest = acks[k].addr
  BY <1>1 DEF FramesFor
<1> QED
  BY <1>1, <1>2 DEF Range

LEMMA CheckIsInjective ==
    ASSUME NEW b, Books(b), NEW i \in ListId, NEW acks \in Seq(Ack),
           NEW j \in DOMAIN acks, NEW k \in DOMAIN acks, j < k,
           downlink_frames_check(b, i, acks, k) # NoFrame
    PROVE  downlink_frames_check(b, i, acks, j) # downlink_frames_check(b, i, acks, k)
<1> SUFFICES ASSUME downlink_frames_check(b, i, acks, j) = downlink_frames_check(b, i, acks, k)
             PROVE  FALSE
  OBVIOUS
<1> DEFINE list == b.flist[i]
           addr == acks[k].addr
           F == FramesFor(b, i, addr)
           A == AcksFor(acks, addr)
           L == Len(acks)
<1>1. acks[j].addr = addr
  BY CheckIsFrame
<1>2. /\ Count(A, k) \in 1..Cardinality(F) /\ InOrder(F)[Count(A, k)] \in F
      /\ downlink_frames_check(b, i, acks, k) = list[InOrder(F)[Count(A, k)]]
  BY CheckFinds
<1>3. /\ Count(AcksFor(acks, acks[j].addr), j) \in 1..Cardinality(FramesFor(b, i, acks[j].addr))
      /\ InOrder(FramesFor(b, i, acks[j].addr))[Count(AcksFor(acks, acks[j].addr), j)]
            \in FramesFor(b, i, acks[j].addr)
      /\ downlink_frames_check(b, i, acks, j)
            = list[InOrder(FramesFor(b, i, acks[j].addr))[Count(AcksFor(acks, acks[j].addr), j)]]
  BY CheckFinds
<1>4. /\ Count(A, j) \in 1..Cardinality(F) /\ InOrder(F)[Count(A, j)] \in F
      /\ downlink_frames_check(b, i, acks, j) = list[InOrder(F)[Count(A, j)]]
  BY ONLY <1>1, <1>3
<1>5. list \in Seq(Fbuf) /\ IsInjective(list)
  BY BufFields DEF Books
<1>6. F \in SUBSET (1..Len(list)) /\ Len(list) \in Nat /\ F \subseteq DOMAIN list
  BY <1>5 DEF FramesFor
<1>7. A \in SUBSET (1..L) /\ L \in Nat /\ k \in A /\ j \in Int /\ k \in Int
  BY DEF AcksFor
<1> HIDE DEF A, F, L, list
<1>8. Count(A, j) # Count(A, k)
  BY ONLY j < k, <1>7, CountsDiffer, Zenon
<1>9. InOrder(F)[Count(A, j)] = InOrder(F)[Count(A, k)]
  BY <1>2, <1>4, <1>5, <1>6 DEF IsInjective
<1>10. InOrder(F) \in Bijection(1..Cardinality(F), F)
  BY <1>6, InOrderIsBijective
<1>11. \A m, n \in 1..Cardinality(F) : InOrder(F)[m] = InOrder(F)[n] => m = n
  BY <1>10 DEF Bijection, Injection, IsInjective
<1>12. Count(A, j) = Count(A, k)
  BY <1>2, <1>4, <1>9, <1>11
<1> QED
  BY <1>8, <1>12

\* found is what the ACKs of a list announce.
Checked(b, i, acks, found) ==
    /\ found \in [DOMAIN acks -> Fbuf \cup {NoFrame}]
    /\ \A k \in DOMAIN acks : found[k] = downlink_frames_check(b, i, acks, k)

\* The ACKs that announce a frame, and these frames.
Announcing(acks, found) == {k \in DOMAIN acks : found[k] # NoFrame}

LEMMA FoundFrames ==
    ASSUME NEW b, Books(b), NEW i \in ListId, NEW acks \in Seq(Ack), NEW found,
           Checked(b, i, acks, found)
    PROVE  LET P == Announcing(acks, found)
               moved == At(found, P)
           IN  /\ moved \in Seq(Fbuf) /\ IsInjective(moved)
               /\ Range(moved) \subseteq Range(b.flist[i])
               /\ P \in SUBSET DOMAIN acks /\ Cardinality(P) \in Nat
               /\ Len(moved) = Cardinality(P) /\ Len(moved) <= Len(acks)
               /\ \A k \in 1..Cardinality(P) :
                     /\ InOrder(P)[k] \in P
                     /\ b.fbuf[moved[k]].dest = acks[InOrder(P)[k]].addr
<1> DEFINE P == Announcing(acks, found)
           moved == At(found, P)
           L == Len(acks)
<1>1. L \in Nat /\ DOMAIN acks = 1..L
  OBVIOUS
<1>2. found \in [1..L -> Fbuf \cup {NoFrame}] /\ DOMAIN found = DOMAIN acks
  BY <1>1 DEF Checked
<1>3. found \in Seq(Fbuf \cup {NoFrame}) /\ Len(found) = L
  BY <1>1, <1>2
<1>4. P \in SUBSET DOMAIN found
  BY <1>2 DEF Announcing
<1>5. \A k \in P : /\ k \in DOMAIN acks /\ found[k] # NoFrame
                   /\ found[k] = downlink_frames_check(b, i, acks, k)
  BY DEF Announcing, Checked
<1>6. \A k \in P : found[k] \in Range(b.flist[i]) /\ b.fbuf[found[k]].dest = acks[k].addr
  BY <1>5, CheckIsFrame
<1>7. \A j, k \in P : found[j] = found[k] => j = k
  <2> SUFFICES ASSUME NEW j \in P, NEW k \in P, found[j] = found[k], j # k PROVE FALSE
    OBVIOUS
  <2>1. j < k \/ k < j
    BY <1>1, <1>5
  <2> QED
    BY <1>5, <2>1, CheckIsInjective
<1> HIDE DEF P, L
<1>8. /\ Cardinality(P) \in Nat /\ Cardinality(P) <= Len(found)
      /\ moved \in Seq(Fbuf \cup {NoFrame})
      /\ Len(moved) = Cardinality(P)
      /\ \A k \in 1..Cardinality(P) : InOrder(P)[k] \in P /\ moved[k] = found[InOrder(P)[k]]
      /\ Range(moved) = {found[n] : n \in P}
      /\ IsInjective(moved)
  <2>1. /\ Cardinality(P) \in Nat /\ Cardinality(P) <= Len(found)
        /\ moved \in Seq(Fbuf \cup {NoFrame})
        /\ Len(moved) = Cardinality(P)
        /\ \A k \in 1..Cardinality(P) : InOrder(P)[k] \in P /\ moved[k] = found[InOrder(P)[k]]
        /\ Range(moved) = {found[n] : n \in P}
        /\ (\A m, n \in P : found[m] = found[n] => m = n) => IsInjective(moved)
    BY <1>3, <1>4, AtProperties
  <2> QED
    BY <1>7, <2>1
<1> HIDE DEF moved
<1>9. Range(moved) \subseteq Range(b.flist[i])
  BY <1>6, <1>8
<1>10. moved \in Seq(Fbuf)
  <2>1. b.flist[i] \in Seq(Fbuf)
    BY BufFields DEF Books
  <2>2. Range(b.flist[i]) \subseteq Fbuf
    BY <2>1 DEF Range
  <2>3. \A k \in 1..Len(moved) : moved[k] \in Fbuf
    BY <1>6, <1>8, <2>2
  <2> QED
    BY <1>8, <2>3
<1>11. \A k \in 1..Cardinality(P) : b.fbuf[moved[k]].dest = acks[InOrder(P)[k]].addr
  BY <1>6, <1>8
<1> QED
  BY <1>2, <1>3, <1>4, <1>8, <1>9, <1>10, <1>11 DEF P, moved, L

\* The buffers of a beacon that has ACKs: the announced frames are to be sent,
\* and the rest of the list is freed.
AfterBeacon(b, i, acks, found) ==
    downlink_frame_clear_lists(MoveToTxList(b, i, At(found, Announcing(acks, found))), {i})

LEMMA BeaconBooks ==
    ASSUME NEW b, Books(b), Filled(b), b.tx_list = <<>>, NEW i \in ListId,
           NEW acks \in Seq(Ack), NEW found, Checked(b, i, acks, found)
    PROVE  LET moved == At(found, Announcing(acks, found))
               c == AfterBeacon(b, i, acks, found)
           IN  /\ Books(c) /\ Filled(c)
               /\ c.tx_list = moved /\ c.tx_list_len = Len(moved)
               /\ c.flist[i] = <<>> /\ \A j \in ListId : j # i => c.flist[j] = b.flist[j]
               /\ \A f \in c.used : c.fbuf[f] = b.fbuf[f]
<1> DEFINE moved == At(found, Announcing(acks, found))
           m == MoveToTxList(b, i, moved)
           c == downlink_frame_clear_lists(m, {i})
<1>1. moved \in Seq(Fbuf) /\ IsInjective(moved) /\ Range(moved) \subseteq Range(b.flist[i])
  BY FoundFrames
<1> HIDE DEF moved
<1>2. /\ Books(m) /\ Filled(m) /\ m.tx_list = moved /\ m.fbuf = b.fbuf
      /\ \A j \in ListId : j # i => m.flist[j] = b.flist[j]
  BY <1>1, MoveBooks
<1> HIDE DEF m
<1>3. {i} \in SUBSET ListId
  OBVIOUS
<1>4. Books(c) /\ Filled(c)
  BY <1>2, <1>3, ClearListsBooks
<1>5. /\ \A j \in ListId : c.flist[j] = IF j \in {i} THEN <<>> ELSE m.flist[j]
      /\ c.tx_list = m.tx_list
      /\ c.used = m.used \ UNION {Range(m.flist[j]) : j \in {i}}
      /\ \A f \in Fbuf : c.fbuf[f] = IF f \in UNION {Range(m.flist[j]) : j \in {i}}
                                     THEN NoFrame ELSE m.fbuf[f]
  BY <1>2, <1>3, ClearListsFields
<1> HIDE DEF c
<1>6. \A f \in c.used : c.fbuf[f] = b.fbuf[f]
  <2>1. c.used \in SUBSET Fbuf
    BY <1>4, BufFields DEF Books
  <2> QED
    BY <1>2, <1>5, <2>1
<1>7. c.tx_list_len = Len(moved)
  BY <1>2, <1>4, <1>5 DEF Books
<1> QED
  BY <1>2, <1>4, <1>5, <1>6, <1>7 DEF AfterBeacon, c, m, moved

----------------------------------------------------------------------------
(* The properties of the frames, of any buffers and beacon                *)

BeaconAck == [addr : Device, bcn : BeaconSeqNum, pending : BOOLEAN]

Pending(acks) == {k \in DOMAIN acks : acks[k].pending}

\* AnnouncedInOrder, without the two lists that it compares.
Order(acks, b, slots) ==
    LET c == Cardinality(Pending(acks))
        n == Len(b.tx_list)
    IN  /\ n <= c /\ n <= slots
        /\ \A k \in 1..n :
              b.fbuf[b.tx_list[k]].dest = acks[InOrder(Pending(acks))[c - n + k]].addr

\* Every frame is in the list that its beacon will make the current one.
InTurn(b, cur, seq) ==
    \A i \in ListId : \A f \in Range(b.flist[i]) :
        i = (cur + calc_bcn_seq_delta(b.fbuf[f].due, seq)) % PACKED_ACK_DELAY_NUM

\* No frame stays behind in the list of a beacon that had ACKs.
NoneBehind(b, cur, bcn) ==
    cur >= 0 /\ bcn.acks # <<>> => \A f \in Range(b.flist[cur]) : b.fbuf[f].due # bcn.seq

LEMMA PendingProperties ==
    ASSUME NEW acks \in Seq(BeaconAck)
    PROVE  /\ Cardinality(Pending(acks)) \in Nat
           /\ Len(At(acks, Pending(acks))) = Cardinality(Pending(acks))
           /\ \A k \in 1..Cardinality(Pending(acks)) :
                 At(acks, Pending(acks))[k] = acks[InOrder(Pending(acks))[k]]
<1>1. Pending(acks) \in SUBSET DOMAIN acks
  BY DEF Pending
<1> QED
  BY <1>1, AtProperties

LEMMA OrderIsAnnounced ==
    ASSUME beacon.acks \in Seq(BeaconAck), buf.tx_list \in Seq(Fbuf), slots_downlink_msg \in Nat
    PROVE  AnnouncedInOrder <=> Order(beacon.acks, buf, slots_downlink_msg)
<1> DEFINE acks == beacon.acks
           P == Pending(acks)
           c == Cardinality(P)
           n == Len(buf.tx_list)
           announced == At(acks, {k \in DOMAIN acks : acks[k].pending})
           to_send == [k \in DOMAIN buf.tx_list |-> buf.fbuf[buf.tx_list[k]].dest]
<1>1. /\ c \in Nat /\ Len(announced) = c
      /\ \A k \in 1..c : announced[k] = acks[InOrder(P)[k]]
  BY PendingProperties DEF Pending
<1>2. n \in Nat /\ DOMAIN buf.tx_list = 1..n
  OBVIOUS
<1>3. Len(to_send) = n /\ DOMAIN to_send = 1..n /\ \A k \in 1..n : to_send[k] = buf.fbuf[buf.tx_list[k]].dest
  <2>1. DOMAIN to_send = 1..n
    BY <1>2
  <2> HIDE DEF n
  <2>2. Len(to_send) = n
    BY <1>2, <2>1
  <2> QED
    BY <1>2, <2>1, <2>2
<1>4. AnnouncedInOrder <=>
         /\ Len(announced) - Len(to_send) >= 0
         /\ \A k \in DOMAIN to_send : to_send[k] = announced[Len(announced) - Len(to_send) + k].addr
         /\ Len(to_send) <= slots_downlink_msg
  BY Zenon DEF AnnouncedInOrder
<1>5. Order(acks, buf, slots_downlink_msg) <=>
         /\ n <= c /\ n <= slots_downlink_msg
         /\ \A k \in 1..n : buf.fbuf[buf.tx_list[k]].dest = acks[InOrder(P)[c - n + k]].addr
  BY Zenon DEF Order
<1> HIDE DEF announced, to_send, c, n, acks
<1>6. n <= c => \A k \in 1..n : c - n + k \in 1..c
  BY <1>1, <1>2
<1>7. AnnouncedInOrder <=>
         /\ c - n >= 0
         /\ \A k \in 1..n : to_send[k] = announced[c - n + k].addr
         /\ n <= slots_downlink_msg
  BY ONLY <1>1, <1>3, <1>4
<1>8. c - n >= 0 <=> n <= c
  BY <1>1, <1>2
<1>9. AnnouncedInOrder <=> Order(acks, buf, slots_downlink_msg)
  <2>1. CASE n <= c
    <3>1. \A k \in 1..n : announced[c - n + k] = acks[InOrder(P)[c - n + k]]
      BY <1>1, <1>6, <2>1
    <3> QED
      BY ONLY <1>3, <1>5, <1>7, <1>8, <2>1, <3>1
  <2>2. CASE ~(n <= c)
    BY ONLY <1>5, <1>7, <1>8, <2>2
  <2> QED
    BY <2>1, <2>2
<1> QED
  BY <1>9 DEF acks

\* Nothing is to be sent.
LEMMA OrderOfNone ==
    ASSUME NEW acks \in Seq(BeaconAck), NEW b, b.tx_list = <<>>, NEW slots \in Nat
    PROVE  Order(acks, b, slots)
<1>1. Cardinality(Pending(acks)) \in Nat
  BY PendingProperties
<1>2. Len(b.tx_list) = 0
  OBVIOUS
<1>3. 0 <= Cardinality(Pending(acks)) /\ 0 <= slots /\ 1..0 = {}
  BY <1>1
<1> QED
  BY <1>2, <1>3 DEF Order

\* The first frame has been sent.
LEMMA OrderOfRest ==
    ASSUME NEW acks \in Seq(BeaconAck), NEW b, Books(b), Filled(b), b.tx_list # <<>>,
           NEW slots \in Nat, Order(acks, b, slots)
    PROVE  Order(acks, SentOrFailed(b, Head(b.tx_list)), slots)
<1> DEFINE c == SentOrFailed(b, Head(b.tx_list))
           card == Cardinality(Pending(acks))
           n == Len(b.tx_list)
<1>1. /\ Books(c) /\ c.tx_list = Tail(b.tx_list)
      /\ \A f \in c.used : c.fbuf[f] = b.fbuf[f]
  BY SentBooks
<1> HIDE DEF c
<1>2. b.tx_list \in Seq(Fbuf) /\ IsInjective(b.tx_list)
  BY BufFields DEF Books
<1>3. /\ Len(c.tx_list) = n - 1 /\ c.tx_list \in Seq(Fbuf)
      /\ \A k \in 1..(n - 1) : c.tx_list[k] = b.tx_list[k + 1]
  BY <1>1, <1>2, TailProperties
<1>4. card \in Nat /\ n \in Nat
  BY <1>2, PendingProperties
<1>5. /\ n <= card /\ n <= slots
      /\ \A k \in 1..n : b.fbuf[b.tx_list[k]].dest = acks[InOrder(Pending(acks))[card - n + k]].addr
  BY DEF Order
<1> HIDE DEF n, card
<1>6. ASSUME NEW k \in 1..(n - 1)
      PROVE  c.fbuf[c.tx_list[k]].dest = acks[InOrder(Pending(acks))[card - (n - 1) + k]].addr
  <2>1. c.tx_list[k] \in c.used
    <3>1. k \in DOMAIN c.tx_list
      BY <1>3
    <3> QED
      BY <1>1, <3>1 DEF Books, Range
  <2>2. c.fbuf[c.tx_list[k]] = b.fbuf[b.tx_list[k + 1]]
    BY <1>1, <1>3, <2>1
  <2>3. k + 1 \in 1..n /\ card - n + (k + 1) = card - (n - 1) + k
    BY <1>4
  <2> QED
    BY <1>5, <2>2, <2>3
<1>7. n - 1 <= card /\ n - 1 <= slots
  BY <1>4, <1>5
<1> QED
  BY <1>3, <1>6, <1>7 DEF Order, c, card

\* Another frame is put into a list.
LEMMA OrderKept ==
    ASSUME NEW acks, NEW slots, NEW b, NEW c, Books(b), c.tx_list = b.tx_list,
           \A f \in b.used : c.fbuf[f] = b.fbuf[f], Order(acks, b, slots)
    PROVE  Order(acks, c, slots)
<1>1. b.tx_list \in Seq(Fbuf) /\ Range(b.tx_list) \subseteq b.used
  BY BufFields DEF Books
<1>2. \A k \in 1..Len(b.tx_list) : c.fbuf[b.tx_list[k]] = b.fbuf[b.tx_list[k]]
  BY <1>1 DEF Range
<1> QED
  BY <1>2 DEF Order

\* What the ACKs of a beacon announce is to be sent.
LEMMA OrderOfBeacon ==
    ASSUME NEW b, Books(b), Filled(b), b.tx_list = <<>>, NEW i \in ListId,
           NEW acks \in Seq(Ack), NEW found, Checked(b, i, acks, found),
           NEW sent \in Seq(BeaconAck), DOMAIN sent = DOMAIN acks,
           \A k \in DOMAIN acks : sent[k].addr = acks[k].addr /\ sent[k].pending = (found[k] # NoFrame),
           NEW slots \in Nat
    PROVE  LET moved == At(found, Announcing(acks, found))
               c == AfterBeacon(b, i, acks, found)
           IN  Len(moved) <= slots => Order(sent, c, slots)
<1> DEFINE P == Announcing(acks, found)
           moved == At(found, P)
           c == AfterBeacon(b, i, acks, found)
<1>1. Pending(sent) = P
  BY DEF Pending, Announcing
<1>2. /\ moved \in Seq(Fbuf) /\ P \in SUBSET DOMAIN acks
      /\ Cardinality(P) \in Nat /\ Len(moved) = Cardinality(P)
      /\ \A k \in 1..Cardinality(P) :
            InOrder(P)[k] \in P /\ b.fbuf[moved[k]].dest = acks[InOrder(P)[k]].addr
  BY FoundFrames
<1>3. Books(c) /\ c.tx_list = moved /\ \A f \in c.used : c.fbuf[f] = b.fbuf[f]
  BY BeaconBooks
<1> HIDE DEF moved, c, P
<1>4. ASSUME NEW k \in 1..Len(moved)
      PROVE  c.fbuf[c.tx_list[k]].dest = sent[InOrder(P)[Cardinality(P) - Len(moved) + k]].addr
  <2>1. k \in DOMAIN moved
    BY <1>2
  <2>2. moved[k] \in c.used
    BY <1>3, <2>1 DEF Books, Range
  <2>3. Cardinality(P) - Len(moved) + k = k
    BY <1>2
  <2> QED
    BY <1>2, <1>3, <2>2, <2>3
<1>5. Len(moved) <= Cardinality(P)
  BY <1>2
<1>6. ASSUME Len(moved) <= slots PROVE Order(sent, c, slots)
  BY <1>1, <1>3, <1>4, <1>5, <1>6 DEF Order
<1> QED
  BY <1>6 DEF moved, c, P

\* Lists that lose frames.
LEMMA ListsKept ==
    ASSUME NEW b, NEW c, Books(c), NEW cur, NEW seq, NEW bcn,
           \A f \in c.used : c.fbuf[f] = b.fbuf[f],
           \A j \in ListId : c.flist[j] = <<>> \/ c.flist[j] = b.flist[j]
    PROVE  /\ InTurn(b, cur, seq) => InTurn(c, cur, seq)
           /\ cur \in ListId /\ NoneBehind(b, cur, bcn) => NoneBehind(c, cur, bcn)
<1>1. ASSUME NEW j \in ListId, NEW f \in Range(c.flist[j])
      PROVE  f \in Range(b.flist[j]) /\ c.fbuf[f] = b.fbuf[f]
  <2>1. f \in c.used
    BY <1>1, InLists DEF Books
  <2>2. c.flist[j] = b.flist[j]
    BY <1>1, NoMembers
  <2> QED
    BY <2>1, <2>2
<1>2. InTurn(b, cur, seq) => InTurn(c, cur, seq)
  BY <1>1 DEF InTurn
<1>3. cur \in ListId /\ NoneBehind(b, cur, bcn) => NoneBehind(c, cur, bcn)
  BY <1>1 DEF NoneBehind
<1> QED
  BY <1>2, <1>3

\* With the next beacon every other one is one nearer, or a cycle farther.
LEMMA DeltaStep ==
    ASSUME NEW due \in BeaconSeqNum, NEW seq \in BeaconSeqNum
    PROVE  LET before == calc_bcn_seq_delta(due, seq)
               after  == calc_bcn_seq_delta(due, NextBeaconSeq(seq))
           IN  /\ before \in Int /\ after \in Int
               /\ \/ after = before - 1
                  \/ after = before - 1 + (BEACON_MAX_SEQ_NUM + 1)
                  \/ after = before - 1 - (BEACON_MAX_SEQ_NUM + 1)
<1>1. NextBeaconSeq(seq) = IF seq = BEACON_MAX_SEQ_NUM THEN 0 ELSE seq + 1
  BY NextBeaconSeqType
<1> QED
  BY <1>1, BeaconMaxSeqNumAssumption
     DEF calc_bcn_seq_delta, BeaconSeqNum, BEACON_OVERFLOW_SEQ_NUM

\* The lists take turns as the beacons do.
LEMMA TurnStep ==
    ASSUME NEW cur \in CurListId, NEW due \in BeaconSeqNum, NEW seq \in BeaconSeqNum
    PROVE  LET next == IF cur + 1 >= PACKED_ACK_DELAY_NUM THEN 0 ELSE cur + 1
           IN  (next + calc_bcn_seq_delta(due, NextBeaconSeq(seq))) % PACKED_ACK_DELAY_NUM
                  = (cur + calc_bcn_seq_delta(due, seq)) % PACKED_ACK_DELAY_NUM
<1> DEFINE before == calc_bcn_seq_delta(due, seq)
           after == calc_bcn_seq_delta(due, NextBeaconSeq(seq))
           N == BEACON_MAX_SEQ_NUM + 1
<1>1. /\ before \in Int /\ after \in Int
      /\ after = before - 1 \/ after = before - 1 + N \/ after = before - 1 - N
  BY DeltaStep
<1>2. N \in Nat /\ N % PACKED_ACK_DELAY_NUM = 0
  BY BeaconMaxSeqNumAssumption, GatewayMacAssumption
<1> DEFINE next == IF cur + 1 >= PACKED_ACK_DELAY_NUM THEN 0 ELSE cur + 1
<1> HIDE DEF before, after, N
<1>3. ASSUME PACKED_ACK_DELAY_NUM = 1
      PROVE  (next + after) % PACKED_ACK_DELAY_NUM = (cur + before) % PACKED_ACK_DELAY_NUM
  BY <1>1, <1>3 DEF CurListId
<1>4. ASSUME PACKED_ACK_DELAY_NUM = 2
      PROVE  (next + after) % PACKED_ACK_DELAY_NUM = (cur + before) % PACKED_ACK_DELAY_NUM
  <2>1. cur \in -2..1
    BY <1>4 DEF CurListId
  <2>2. N % 2 = 0
    BY <1>2, <1>4
  <2>3. PICK h \in Int : N = 2 * h
    BY <1>2, <2>2
  <2>4. \A x, y \in Int : x = y + 2 \/ x = y - 2 \/ x = y => x % 2 = y % 2
    OBVIOUS
  <2>5. \A x, y \in Int : x = y + 2 * h \/ x = y - 2 * h => x % 2 = y % 2
    OBVIOUS
  <2>6. (cur + 1 + after) % 2 = (cur + before) % 2
    BY <1>1, <2>1, <2>3, <2>5
  <2>7. ((IF cur + 1 >= 2 THEN 0 ELSE cur + 1) + after) % 2 = (cur + 1 + after) % 2
    BY <1>1, <2>1, <2>4
  <2> QED
    BY <1>4, <2>6, <2>7
<1> QED
  BY <1>3, <1>4, Delays DEF before, after

LEMMA ListsTakeTurns ==
    ASSUME NEW b, Books(b), Filled(b), NEW cur \in CurListId, NEW seq \in BeaconSeqNum,
           InTurn(b, cur, seq)
    PROVE  InTurn(b, IF cur + 1 >= PACKED_ACK_DELAY_NUM THEN 0 ELSE cur + 1, NextBeaconSeq(seq))
<1> SUFFICES ASSUME NEW i \in ListId, NEW f \in Range(b.flist[i])
             PROVE  i = ((IF cur + 1 >= PACKED_ACK_DELAY_NUM THEN 0 ELSE cur + 1)
                            + calc_bcn_seq_delta(b.fbuf[f].due, NextBeaconSeq(seq)))
                               % PACKED_ACK_DELAY_NUM
  BY DEF InTurn
<1>1. b.fbuf[f] \in Frame
  BY InLists DEF Books, Filled
<1>2. b.fbuf[f].due \in BeaconSeqNum
  BY <1>1 DEF Frame
<1>3. i = (cur + calc_bcn_seq_delta(b.fbuf[f].due, seq)) % PACKED_ACK_DELAY_NUM
  BY DEF InTurn
<1> QED
  BY <1>2, <1>3, TurnStep

----------------------------------------------------------------------------
(* The invariant                                                          *)

FlagType ==
    /\ signals \subseteq Signal
    /\ beacon_timer \in BOOLEAN /\ timeout_timer \in BOOLEAN
    /\ rlc \in {"IDLE", "TX", "RX"}
    /\ rx_buffer \in Ack \cup {NoFrame}
    /\ cur_tx \in Fbuf \cup {NoFrame}
    /\ halted \in {"no", "WrongSignal", "RadioBusy", "TimerRunning", "NotInTxList"}

AckLimit == \A i \in ListId : Len(ack_list[i]) <= GATEWAY_MAX_UPLINK_MSG_PER_BEACON_PERIOD

\* The engine has its delay from the start on, and none before.
Delay == packed_ack_delay_num = IF state = "INITED" THEN 0 ELSE PACKED_ACK_DELAY_NUM

\* Frames wait for their beacon to be sent, or are sent themselves; the timer of
\* the next beacon runs while they do.
TxListInUse ==
    buf.tx_list # <<>> =>
        /\ beacon_timer
        /\ \/ state = "TX_DOWNLINK"
           \/ /\ state = "TX_BEACON"
              /\ rlc = "TX" \/ "RLC_TX_OK" \in signals \/ "RLC_TX_FAILED" \in signals

\* The frame that is being sent is the first one to send.
CurTxIsFirst ==
    cur_tx # NoFrame =>
        state = "TX_DOWNLINK" /\ buf.tx_list # <<>> /\ cur_tx = Head(buf.tx_list)

BeaconType == beacon \in [seq : BeaconSeqNum, acks : Seq(BeaconAck)]
SlotsType == slots_downlink_msg \in 0..GATEWAY_MAX_UPLINK_MSG_PER_BEACON_PERIOD

BeaconIsLast == cur_list_id >= 0 => beacon.seq = beacon_seq_id

ControlInv == FlagType /\ AckLimit /\ Delay /\ TxListInUse /\ CurTxIsFirst
FrameInv ==
    /\ BeaconType /\ SlotsType /\ Books(buf) /\ Filled(buf)
    /\ Order(beacon.acks, buf, slots_downlink_msg)
    /\ InTurn(buf, cur_list_id, beacon_seq_id)
    /\ NoneBehind(buf, cur_list_id, beacon) /\ BeaconIsLast

FInv == IInv /\ ControlInv /\ FrameInv

FrameVars == <<buf, beacon, slots_downlink_msg, cur_list_id, beacon_seq_id>>

LEMMA FramesUnchanged == FrameInv /\ UNCHANGED FrameVars => FrameInv'
BY DEF FrameInv, FrameVars, BeaconType, SlotsType, BeaconIsLast

LEMMA InitFrames == Init => FInv
<1> SUFFICES ASSUME Init PROVE FInv
  OBVIOUS
<1>1. IInv
  BY InitInvariant
<1>2. /\ buf.flist = [i \in ListId |-> <<>>] /\ buf.list_len = [i \in ListId |-> 0]
      /\ buf.tx_list = <<>> /\ buf.tx_list_len = 0
      /\ buf.used = {} /\ buf.fbuf = [f \in Fbuf |-> NoFrame]
  BY DEF Init
<1>3. buf \in BufType
  BY DEF Init, BufType
<1>4. \A i \in ListId : /\ Range(buf.flist[i]) = {}
                        /\ IsInjective(buf.flist[i])
                        /\ buf.list_len[i] = Len(buf.flist[i])
  BY <1>2, NoMembers
<1>5. Books(buf)
  <2>1. \A f : f \notin ListsOf(buf)
    BY <1>4, InLists
  <2>2. ListsOf(buf) = {}
    BY <2>1
  <2>3. Range(buf.tx_list) = {} /\ IsInjective(buf.tx_list) /\ buf.tx_list_len = Len(buf.tx_list)
    BY <1>2, NoMembers
  <2> QED
    BY <1>2, <1>3, <1>4, <2>2, <2>3 DEF Books
<1>6. Filled(buf)
  BY <1>2 DEF Filled
<1>7. /\ beacon = [seq |-> 0, acks |-> <<>>] /\ slots_downlink_msg = 0
      /\ cur_list_id = 0 /\ beacon_seq_id = 0
  BY DEF Init
<1>8. BeaconType /\ SlotsType
  BY <1>7, BeaconMaxSeqNumAssumption, GatewayMacAssumption
     DEF BeaconType, SlotsType, BeaconSeqNum, BEACON_OVERFLOW_SEQ_NUM
<1>9. Order(beacon.acks, buf, slots_downlink_msg)
  <2>1. beacon.acks \in Seq(BeaconAck) /\ slots_downlink_msg \in Nat
    BY <1>7
  <2> QED
    BY <1>2, <2>1, OrderOfNone
<1>10. /\ InTurn(buf, cur_list_id, beacon_seq_id)
       /\ NoneBehind(buf, cur_list_id, beacon) /\ BeaconIsLast
  BY <1>4, <1>7 DEF InTurn, NoneBehind, BeaconIsLast
<1>11. ControlInv
  <2>1. FlagType
    BY DEF Init, FlagType
  <2>2. AckLimit
    <3>1. \A i \in ListId : ack_list[i] = <<>>
      BY DEF Init, EmptyAckLists
    <3>2. Len(<<>>) = 0 /\ 0 <= GATEWAY_MAX_UPLINK_MSG_PER_BEACON_PERIOD
      BY GatewayMacAssumption
    <3> QED
      BY <3>1, <3>2 DEF AckLimit
  <2>3. Delay /\ CurTxIsFirst
    BY DEF Init, Delay, CurTxIsFirst
  <2>4. TxListInUse
    BY <1>2 DEF TxListInUse
  <2> QED
    BY <2>1, <2>2, <2>3, <2>4 DEF ControlInv
<1> QED
  BY <1>1, <1>5, <1>6, <1>8, <1>9, <1>10, <1>11 DEF FInv, FrameInv

LEMMA FrameFacts ==
    ASSUME FrameInv
    PROVE  /\ beacon.acks \in Seq(BeaconAck) /\ beacon.seq \in BeaconSeqNum
           /\ slots_downlink_msg \in Nat /\ Books(buf) /\ Filled(buf)
           /\ buf \in BufType /\ buf.tx_list \in Seq(Fbuf)
           /\ buf.tx_list_len = Len(buf.tx_list)
           /\ buf.tx_list_len = 0 <=> buf.tx_list = <<>>
<1>1. Books(buf) /\ Filled(buf) /\ BeaconType /\ SlotsType
  BY DEF FrameInv
<1>2. /\ buf \in BufType /\ buf.tx_list \in Seq(Fbuf)
      /\ buf.tx_list_len = Len(buf.tx_list)
  BY <1>1, BufFields DEF Books
<1>3. buf.tx_list_len = 0 <=> buf.tx_list = <<>>
  BY <1>2
<1>4. slots_downlink_msg \in Nat
  BY <1>1, GatewayMacAssumption DEF SlotsType
<1> QED
  BY <1>1, <1>2, <1>3, <1>4 DEF BeaconType

----------------------------------------------------------------------------
(* The steps that change the frames                                       *)

LEMMA StartedFrames ==
    ASSUME FInv, Started
    PROVE  FrameInv' /\ buf'.tx_list = <<>>
<1> DEFINE b == downlink_frame_clear_tx_list(buf)
           c == downlink_frame_clear_lists(b, ListId)
<1>1. /\ buf' = c /\ beacon' = beacon /\ slots_downlink_msg' = 0
      /\ cur_list_id' = -PACKED_ACK_DELAY_NUM
  BY DEF Started
<1>2. /\ beacon.acks \in Seq(BeaconAck) /\ Books(buf) /\ Filled(buf) /\ BeaconType
  BY FrameFacts DEF FInv, FrameInv
<1>3. Books(b) /\ Filled(b) /\ b.tx_list = <<>>
  BY <1>2, ClearTxBooks
<1> HIDE DEF b
<1>4. Books(c) /\ Filled(c)
  BY <1>3, ClearListsBooks
<1>5. c.tx_list = b.tx_list /\ \A i \in ListId : c.flist[i] = IF i \in ListId THEN <<>> ELSE b.flist[i]
  BY <1>3, ClearListsFields
<1> HIDE DEF c
<1>6. c.tx_list = <<>> /\ \A i \in ListId : Range(c.flist[i]) = {}
  BY <1>3, <1>5, NoMembers
<1>7. ~(cur_list_id' >= 0)
  BY <1>1, Delays
<1>8. Order(beacon.acks, c, 0)
  BY <1>2, <1>6, OrderOfNone
<1>9. InTurn(c, cur_list_id', beacon_seq_id')
  BY <1>6 DEF InTurn
<1>10. NoneBehind(c, cur_list_id', beacon') /\ BeaconIsLast'
  BY <1>7 DEF NoneBehind, BeaconIsLast
<1>11. BeaconType' /\ SlotsType'
  BY <1>1, <1>2, GatewayMacAssumption DEF BeaconType, SlotsType
<1> QED
  BY <1>1, <1>4, <1>6, <1>8, <1>9, <1>10, <1>11 DEF FrameInv

LEMMA FailedFrames ==
    ASSUME FInv, BeaconFailed
    PROVE  FrameInv' /\ buf'.tx_list = <<>>
<1> DEFINE c == downlink_frame_clear_tx_list(buf)
<1>1. buf' = c /\ UNCHANGED <<beacon, slots_downlink_msg, cur_list_id, beacon_seq_id>>
  BY DEF BeaconFailed, info
<1>2. /\ beacon.acks \in Seq(BeaconAck) /\ slots_downlink_msg \in Nat
      /\ Books(buf) /\ Filled(buf)
  BY FrameFacts DEF FInv
<1>3. /\ Books(c) /\ Filled(c) /\ c.tx_list = <<>> /\ c.flist = buf.flist
      /\ \A f \in c.used : c.fbuf[f] = buf.fbuf[f]
  BY <1>2, ClearTxBooks
<1> HIDE DEF c
<1>4. Order(beacon.acks, c, slots_downlink_msg)
  BY <1>2, <1>3, OrderOfNone
<1>5. InTurn(c, cur_list_id, beacon_seq_id)
  BY <1>3, ListsKept DEF FInv, FrameInv
<1>6. NoneBehind(c, cur_list_id, beacon)
  <2>1. cur_list_id >= 0 => cur_list_id \in ListId
    BY Delays DEF FInv, IInv, AckType, CurListId, ListId
  <2>2. CASE cur_list_id >= 0
    BY <1>3, <2>1, <2>2, ListsKept DEF FInv, FrameInv
  <2> QED
    BY <2>2 DEF NoneBehind
<1> QED
  BY <1>1, <1>3, <1>4, <1>5, <1>6 DEF FInv, FrameInv, BeaconType, SlotsType, BeaconIsLast

\* A frame has been sent, or it could not be sent.
LEMMA SentFrames ==
    ASSUME FInv, buf.tx_list # <<>>, cur_tx = Head(buf.tx_list),
           buf' = SentOrFailed(buf, cur_tx),
           UNCHANGED <<beacon, slots_downlink_msg, cur_list_id, beacon_seq_id>>
    PROVE  FrameInv' /\ buf'.tx_list = Tail(buf.tx_list)
<1> DEFINE c == SentOrFailed(buf, Head(buf.tx_list))
<1>1. buf' = c
  OBVIOUS
<1>2. /\ beacon.acks \in Seq(BeaconAck) /\ slots_downlink_msg \in Nat
      /\ Books(buf) /\ Filled(buf) /\ Order(beacon.acks, buf, slots_downlink_msg)
  BY FrameFacts DEF FInv, FrameInv
<1>3. /\ Books(c) /\ Filled(c) /\ c.tx_list = Tail(buf.tx_list) /\ c.flist = buf.flist
      /\ \A f \in c.used : c.fbuf[f] = buf.fbuf[f]
  BY <1>2, SentBooks
<1>4. Order(beacon.acks, c, slots_downlink_msg)
  BY <1>2, OrderOfRest
<1> HIDE DEF c
<1>5. InTurn(c, cur_list_id, beacon_seq_id)
  BY <1>3, ListsKept DEF FInv, FrameInv
<1>6. NoneBehind(c, cur_list_id, beacon)
  <2>1. cur_list_id >= 0 => cur_list_id \in ListId
    BY Delays DEF FInv, IInv, AckType, CurListId, ListId
  <2>2. CASE cur_list_id >= 0
    BY <1>3, <2>1, <2>2, ListsKept DEF FInv, FrameInv
  <2> QED
    BY <2>2 DEF NoneBehind
<1> QED
  BY <1>1, <1>3, <1>4, <1>5, <1>6 DEF FInv, FrameInv, BeaconType, SlotsType, BeaconIsLast

\* The host's frame is put into the list of its beacon, which is not that of the
\* last beacon.
LEMMA HostFrames ==
    ASSUME FInv, NEW addr \in Device, NEW bcn \in BeaconSeqNum, HostSendsDownlink(addr, bcn)
    PROVE  FrameInv' /\ buf'.tx_list = buf.tx_list
<1> DEFINE delta == calc_bcn_seq_delta(bcn, beacon_seq_id)
           i == calc_downlink_expected_list_id(bcn)
           f == AnyFree(buf)
           frame == [dest |-> addr, due |-> bcn]
           c == Alloc(buf, i, f, frame)
<1>1. /\ UNCHANGED <<beacon, slots_downlink_msg, cur_list_id, beacon_seq_id>>
      /\ gw_mac_is_valid_tx_bcn_seq_id(bcn, beacon_seq_id, packed_ack_delay_num)
      /\ i # -1 /\ buf.used # Fbuf /\ buf' = c
  BY DEF HostSendsDownlink, info, Alloc
<1>2. /\ beacon.acks \in Seq(BeaconAck) /\ slots_downlink_msg \in Nat
      /\ Books(buf) /\ Filled(buf) /\ Order(beacon.acks, buf, slots_downlink_msg)
      /\ beacon_seq_id \in BeaconSeqNum /\ cur_list_id \in CurListId
  BY FrameFacts DEF FInv, FrameInv, IInv, AckType
<1>3. delta \in Int /\ (delta = 0 <=> bcn = beacon_seq_id)
  BY <1>2, DeltaStep, DeltaZeroOnlyIfEqual
<1>4. 0 < delta /\ delta <= packed_ack_delay_num
  BY <1>1 DEF gw_mac_is_valid_tx_bcn_seq_id
<1>5. packed_ack_delay_num = PACKED_ACK_DELAY_NUM
  <2>1. packed_ack_delay_num = 0 \/ packed_ack_delay_num = PACKED_ACK_DELAY_NUM
    BY DEF FInv, ControlInv, Delay
  <2> HIDE DEF delta
  <2> QED
    BY <1>3, <1>4, <2>1
<1>6. i = (cur_list_id + delta) % PACKED_ACK_DELAY_NUM
  BY <1>1, <1>5 DEF calc_downlink_expected_list_id
<1>7. i \in ListId
  <2> HIDE DEF delta, i
  <2>1. cur_list_id + delta \in Int
    BY <1>2, <1>3, Delays DEF CurListId
  <2>2. \A x \in Int : x % 1 \in 0..0 /\ x % 2 \in 0..1
    OBVIOUS
  <2> QED
    BY <1>6, <2>1, <2>2, Delays DEF ListId
<1>8. f \in Fbuf /\ f \notin buf.used
  <2>1. buf.used \in SUBSET Fbuf
    BY <1>2, BufFields DEF Books
  <2>2. \E x \in Fbuf : x \notin buf.used
    BY <1>1, <2>1
  <2> QED
    BY <2>2 DEF AnyFree
<1>9. frame \in Frame /\ frame.due = bcn
  BY DEF Frame
<1> HIDE DEF frame, f, i
<1>10. /\ Books(c) /\ Filled(c) /\ c.tx_list = buf.tx_list /\ c.fbuf[f] = frame
       /\ \A g \in buf.used : c.fbuf[g] = buf.fbuf[g]
       /\ Range(c.flist[i]) = Range(buf.flist[i]) \cup {f}
       /\ \A j \in ListId : j # i => c.flist[j] = buf.flist[j]
  <2>1. Books(buf) /\ Filled(buf) /\ frame \in Frame
    BY <1>2, <1>9
  <2> QED
    BY ONLY <1>7, <1>8, <2>1, AllocBooks
<1> HIDE DEF c
<1>11. Order(beacon.acks, c, slots_downlink_msg)
  BY <1>2, <1>10, OrderKept
<1>12. ASSUME NEW j \in ListId, NEW g \in Range(c.flist[j])
       PROVE  \/ g \in Range(buf.flist[j]) /\ c.fbuf[g] = buf.fbuf[g]
              \/ j = i /\ c.fbuf[g].due = bcn
  <2>1. g \in Range(buf.flist[j]) => g \in buf.used
    BY <1>2, InLists DEF Books
  <2> QED
    BY <1>9, <1>10, <2>1
<1>13. InTurn(c, cur_list_id, beacon_seq_id)
  <2> SUFFICES ASSUME NEW j \in ListId, NEW g \in Range(c.flist[j])
               PROVE  j = (cur_list_id + calc_bcn_seq_delta(c.fbuf[g].due, beacon_seq_id))
                             % PACKED_ACK_DELAY_NUM
    BY DEF InTurn
  <2>1. CASE j = i /\ c.fbuf[g].due = bcn
    BY <1>6, <2>1
  <2>2. CASE g \in Range(buf.flist[j]) /\ c.fbuf[g] = buf.fbuf[g]
    BY <2>2 DEF FInv, FrameInv, InTurn
  <2> QED
    BY <1>12, <2>1, <2>2
<1>14. NoneBehind(c, cur_list_id, beacon)
  <2> SUFFICES ASSUME cur_list_id >= 0, beacon.acks # <<>>, NEW g \in Range(c.flist[cur_list_id])
               PROVE  c.fbuf[g].due # beacon.seq
    BY DEF NoneBehind
  <2>1. cur_list_id \in ListId
    BY <1>2, Delays DEF CurListId, ListId
  <2>2. CASE c.fbuf[g].due = bcn
    <3>1. beacon.seq = beacon_seq_id
      BY DEF FInv, FrameInv, BeaconIsLast
    <3> HIDE DEF delta
    <3> QED
      BY <1>3, <1>4, <2>2, <3>1
  <2>3. CASE g \in Range(buf.flist[cur_list_id]) /\ c.fbuf[g] = buf.fbuf[g]
    BY <2>3 DEF FInv, FrameInv, NoneBehind
  <2> QED
    BY <1>12, <2>1, <2>2, <2>3
<1> QED
  BY <1>1, <1>10, <1>11, <1>13, <1>14 DEF FInv, FrameInv, BeaconType, SlotsType, BeaconIsLast

\* The next beacon: its list is freed of what it does not announce, all others
\* come nearer.
LEMMA BeaconActs ==
    ASSUME FInv, SendBeacon, halted' = halted
    PROVE  /\ buf.tx_list = <<>> /\ state = "TX_BEACON" /\ ~beacon_timer
           /\ beacon_timer' /\ rlc' = "TX" /\ signals' = signals \ {"SEND_BEACON"}
           /\ UNCHANGED <<state, timeout_timer, rx_buffer, packed_ack_delay_num, cur_tx>>
           /\ beacon_seq_id' = NextBeaconSeq(beacon_seq_id)
           /\ cur_list_id' = IF cur_list_id + 1 >= PACKED_ACK_DELAY_NUM THEN 0 ELSE cur_list_id + 1
           /\ slots_downlink_msg' = SlotsAnnounced(buf')
           /\ \/ /\ cur_list_id' \in ListId
                 /\ construct_gateway_beacon_packed_ack(cur_list_id')
              \/ /\ beacon' = [seq |-> beacon_seq_id', acks |-> <<>>]
                 /\ UNCHANGED <<ack_list, buf>>
<1>1. halted = "no" /\ state = "TX_BEACON"
  BY DEF SendBeacon, Handles, Running
<1>2. rlc # "TX" /\ ~beacon_timer
  BY <1>1 DEF SendBeacon, Halt
<1>3. buf.tx_list = <<>>
  BY <1>2 DEF FInv, ControlInv, TxListInUse
<1>4. /\ beacon_timer' = TRUE /\ beacon_seq_id' = NextBeaconSeq(beacon_seq_id)
      /\ cur_list_id' = packed_ack_ticktock
      /\ IF packed_ack_ticktock >= 0 /\ ack_list[packed_ack_ticktock] # <<>>
         THEN construct_gateway_beacon_packed_ack(packed_ack_ticktock)
         ELSE beacon' = [seq |-> beacon_seq_id', acks |-> <<>>] /\ UNCHANGED frames
      /\ slots_downlink_msg' = SlotsAnnounced(buf') /\ rlc' = "TX"
      /\ HandledAndRaised("SEND_BEACON", {})
      /\ UNCHANGED <<state, timeout_timer, rx_buffer, packed_ack_delay_num, cur_tx>>
  BY <1>2 DEF SendBeacon
<1>5. packed_ack_delay_num = PACKED_ACK_DELAY_NUM
  BY <1>1 DEF FInv, IInv, DelayKnown
<1>6. AckType
  BY DEF FInv, IInv
<1>7. cur_list_id' \in CurListId
  BY <1>4, <1>5, <1>6, Ticktock
<1>8. cur_list_id' >= 0 => cur_list_id' \in ListId
  BY <1>7, Delays DEF CurListId, ListId
<1>9. cur_list_id' = IF cur_list_id + 1 >= PACKED_ACK_DELAY_NUM THEN 0 ELSE cur_list_id + 1
  BY <1>4, <1>5 DEF packed_ack_ticktock
<1>10. signals' = signals \ {"SEND_BEACON"}
  BY <1>4 DEF HandledAndRaised
<1>11. IF cur_list_id' >= 0 /\ ack_list[cur_list_id'] # <<>>
       THEN construct_gateway_beacon_packed_ack(cur_list_id')
       ELSE beacon' = [seq |-> beacon_seq_id', acks |-> <<>>] /\ UNCHANGED frames
  BY ONLY <1>4
<1>12. \/ cur_list_id' \in ListId /\ construct_gateway_beacon_packed_ack(cur_list_id')
       \/ /\ beacon' = [seq |-> beacon_seq_id', acks |-> <<>>]
          /\ UNCHANGED <<ack_list, buf>>
  BY <1>8, <1>11 DEF frames
<1> QED
  BY <1>1, <1>2, <1>3, <1>4, <1>9, <1>10, <1>12

LEMMA BeaconWithAcks ==
    ASSUME FInv, NEW i \in ListId, construct_gateway_beacon_packed_ack(i), buf.tx_list = <<>>,
           slots_downlink_msg' = SlotsAnnounced(buf'), beacon_seq_id' \in BeaconSeqNum
    PROVE  /\ Books(buf') /\ Filled(buf') /\ BeaconType' /\ SlotsType'
           /\ beacon'.seq = beacon_seq_id'
           /\ Order(beacon'.acks, buf', slots_downlink_msg')
           /\ buf'.flist[i] = <<>> /\ \A j \in ListId : j # i => buf'.flist[j] = buf.flist[j]
           /\ \A f \in buf'.used : buf'.fbuf[f] = buf.fbuf[f]
<1> DEFINE acks == ack_list[i]
<1>1. acks \in Seq(Ack) /\ Len(acks) <= GATEWAY_MAX_UPLINK_MSG_PER_BEACON_PERIOD
  BY DEF FInv, IInv, AckType, ControlInv, AckLimit
<1>2. Books(buf) /\ Filled(buf) /\ slots_downlink_msg \in Nat /\ SlotsType
  BY FrameFacts DEF FInv, FrameInv
<1>3. PICK found \in [DOMAIN acks -> Fbuf \cup {NoFrame}] :
         /\ \A k \in DOMAIN acks : found[k] = downlink_frames_check(buf, i, acks, k)
         /\ buf' = AfterBeacon(buf, i, acks, found)
         /\ beacon' = [seq  |-> beacon_seq_id',
                       acks |-> [k \in DOMAIN acks |->
                                    [addr |-> acks[k].addr, bcn |-> acks[k].bcn,
                                     pending |-> found[k] # NoFrame]]]
  BY Zenon DEF construct_gateway_beacon_packed_ack, AfterBeacon, Announcing
<1>4. Checked(buf, i, acks, found)
  BY <1>3 DEF Checked
<1> HIDE DEF acks
<1> DEFINE sent == [k \in DOMAIN acks |-> [addr |-> acks[k].addr, bcn |-> acks[k].bcn,
                                           pending |-> found[k] # NoFrame]]
           moved == At(found, Announcing(acks, found))
<1>5. beacon'.seq = beacon_seq_id' /\ beacon'.acks = sent /\ beacon' = [seq |-> beacon_seq_id', acks |-> sent]
  BY <1>3
<1>6. /\ sent \in Seq(BeaconAck) /\ DOMAIN sent = DOMAIN acks
      /\ \A k \in DOMAIN acks : /\ sent[k].addr = acks[k].addr
                                /\ sent[k].pending = (found[k] # NoFrame)
  <2> DEFINE L == Len(acks)
  <2>1. L \in Nat /\ DOMAIN acks = 1..L
    BY <1>1
  <2>2. \A k \in DOMAIN acks : acks[k] \in Ack
    BY <1>1
  <2> HIDE DEF L
  <2>3. \A k \in 1..L : [addr |-> acks[k].addr, bcn |-> acks[k].bcn,
                         pending |-> found[k] # NoFrame] \in BeaconAck
    BY <2>1, <2>2 DEF Ack, BeaconAck
  <2>4. sent \in [1..L -> BeaconAck]
    BY <2>1, <2>3
  <2> QED
    BY <2>1, <2>4
<1> HIDE DEF sent
<1>7. moved \in Seq(Fbuf) /\ Len(moved) <= Len(acks)
  BY <1>1, <1>2, <1>4, FoundFrames
<1>8. /\ Books(buf') /\ Filled(buf') /\ buf'.tx_list = moved /\ buf'.tx_list_len = Len(moved)
      /\ buf'.flist[i] = <<>> /\ \A j \in ListId : j # i => buf'.flist[j] = buf.flist[j]
      /\ \A f \in buf'.used : buf'.fbuf[f] = buf.fbuf[f]
  <2> DEFINE c == AfterBeacon(buf, i, acks, found)
  <2>1. /\ Books(c) /\ Filled(c) /\ c.tx_list = moved /\ c.tx_list_len = Len(moved)
        /\ c.flist[i] = <<>> /\ \A j \in ListId : j # i => c.flist[j] = buf.flist[j]
        /\ \A f \in c.used : c.fbuf[f] = buf.fbuf[f]
    BY <1>1, <1>2, <1>4, BeaconBooks
  <2> HIDE DEF c
  <2> QED
    BY <1>3, <2>1 DEF c
<1> HIDE DEF moved
<1>9. /\ slots_downlink_msg' \in 0..GATEWAY_MAX_UPLINK_MSG_PER_BEACON_PERIOD
      /\ Len(moved) <= slots_downlink_msg'
  <2>1. slots_downlink_msg' = IF Len(moved) > 0 THEN Len(moved) ELSE slots_downlink_msg
    BY <1>8 DEF SlotsAnnounced
  <2>2. Len(moved) \in Nat /\ Len(moved) <= GATEWAY_MAX_UPLINK_MSG_PER_BEACON_PERIOD
    BY <1>1, <1>7, GatewayMacAssumption
  <2> QED
    BY <1>2, <2>1, <2>2, GatewayMacAssumption DEF SlotsType
<1>10. slots_downlink_msg' \in Nat
  BY <1>9, GatewayMacAssumption
<1>11. Order(sent, buf', slots_downlink_msg')
  <2> DEFINE slots == slots_downlink_msg'
  <2> HIDE DEF slots
  <2>1. slots \in Nat /\ Len(moved) <= slots
    BY <1>9, <1>10 DEF slots
  <2>2. Len(At(found, Announcing(acks, found))) <= slots
           => Order(sent, AfterBeacon(buf, i, acks, found), slots)
    BY <1>1, <1>2, <1>4, <1>6, <2>1, OrderOfBeacon
  <2> QED
    BY <1>3, <2>1, <2>2 DEF moved, slots, acks
<1>12. BeaconType'
  BY <1>5, <1>6 DEF BeaconType
<1> QED
  BY <1>5, <1>8, <1>9, <1>11, <1>12 DEF SlotsType

LEMMA BeaconFrames == FInv /\ SendBeacon /\ halted' = halted => FrameInv'
<1> SUFFICES ASSUME FInv, SendBeacon, halted' = halted PROVE FrameInv'
  OBVIOUS
<1>1. /\ buf.tx_list = <<>> /\ beacon_seq_id' = NextBeaconSeq(beacon_seq_id)
      /\ cur_list_id' = IF cur_list_id + 1 >= PACKED_ACK_DELAY_NUM THEN 0 ELSE cur_list_id + 1
      /\ slots_downlink_msg' = SlotsAnnounced(buf')
      /\ \/ cur_list_id' \in ListId /\ construct_gateway_beacon_packed_ack(cur_list_id')
         \/ /\ beacon' = [seq |-> beacon_seq_id', acks |-> <<>>]
            /\ UNCHANGED <<ack_list, buf>>
  BY BeaconActs
<1>2. /\ Books(buf) /\ Filled(buf) /\ cur_list_id \in CurListId /\ beacon_seq_id \in BeaconSeqNum
      /\ InTurn(buf, cur_list_id, beacon_seq_id) /\ SlotsType /\ slots_downlink_msg \in Nat
      /\ buf.tx_list_len = 0
  BY <1>1, FrameFacts DEF FInv, FrameInv, IInv, AckType
<1>3. beacon_seq_id' \in BeaconSeqNum
  BY <1>1, <1>2, NextBeaconSeqType
<1>4. InTurn(buf, cur_list_id', beacon_seq_id')
  <2>1. InTurn(buf, IF cur_list_id + 1 >= PACKED_ACK_DELAY_NUM THEN 0 ELSE cur_list_id + 1,
               NextBeaconSeq(beacon_seq_id))
    BY <1>2, ListsTakeTurns
  <2> QED
    BY ONLY <1>1, <2>1
<1>5. CASE cur_list_id' \in ListId /\ construct_gateway_beacon_packed_ack(cur_list_id')
  <2> DEFINE i == cur_list_id'
  <2> HIDE DEF i
  <2>1. i \in ListId /\ construct_gateway_beacon_packed_ack(i)
    BY <1>5 DEF i
  <2>2. /\ Books(buf') /\ Filled(buf') /\ BeaconType' /\ SlotsType'
        /\ beacon'.seq = beacon_seq_id'
        /\ Order(beacon'.acks, buf', slots_downlink_msg')
        /\ buf'.flist[i] = <<>> /\ \A j \in ListId : j # i => buf'.flist[j] = buf.flist[j]
        /\ \A f \in buf'.used : buf'.fbuf[f] = buf.fbuf[f]
    BY <1>1, <1>3, <2>1, BeaconWithAcks
  <2>3. \A j \in ListId : buf'.flist[j] = <<>> \/ buf'.flist[j] = buf.flist[j]
    BY <2>2
  <2>4. InTurn(buf', cur_list_id', beacon_seq_id')
    <3> DEFINE b == buf'
    <3> HIDE DEF b
    <3>1. /\ Books(b) /\ \A f \in b.used : b.fbuf[f] = buf.fbuf[f]
          /\ \A j \in ListId : b.flist[j] = <<>> \/ b.flist[j] = buf.flist[j]
      BY <2>2, <2>3 DEF b
    <3>2. InTurn(buf, cur_list_id', beacon_seq_id') => InTurn(b, cur_list_id', beacon_seq_id')
      BY <3>1, ListsKept
    <3> QED
      BY <1>4, <3>2 DEF b
  <2>5. NoneBehind(buf', cur_list_id', beacon')
    BY <2>2, NoMembers DEF NoneBehind, i
  <2> QED
    BY <2>2, <2>4, <2>5 DEF FrameInv, BeaconIsLast
<1>6. CASE beacon' = [seq |-> beacon_seq_id', acks |-> <<>>] /\ UNCHANGED <<ack_list, buf>>
  <2>1. slots_downlink_msg' = slots_downlink_msg
    BY <1>1, <1>2, <1>6 DEF SlotsAnnounced
  <2>2. BeaconType' /\ SlotsType' /\ BeaconIsLast' /\ NoneBehind(buf', cur_list_id', beacon')
    BY <1>2, <1>3, <1>6, <2>1 DEF BeaconType, SlotsType, BeaconIsLast, NoneBehind
  <2>3. Order(beacon'.acks, buf', slots_downlink_msg')
    <3>1. beacon'.acks = <<>> /\ <<>> \in Seq(BeaconAck)
      BY <1>6
    <3>2. Order(<<>>, buf, slots_downlink_msg)
      BY <1>1, <1>2, <3>1, OrderOfNone
    <3> QED
      BY <1>6, <2>1, <3>1, <3>2
  <2> QED
    BY <1>2, <1>4, <1>6, <2>2, <2>3 DEF FrameInv
<1> QED
  BY <1>1, <1>5, <1>6

----------------------------------------------------------------------------
(* The steps keep the invariant                                           *)

LEMMA LimitKept == FInv /\ [Next]_vars => AckLimit'
<1> SUFFICES ASSUME FInv, [Next]_vars PROVE AckLimit'
  OBVIOUS
<1> DEFINE MAX == GATEWAY_MAX_UPLINK_MSG_PER_BEACON_PERIOD
<1>1. IInv /\ AckLimit /\ ack_list \in [ListId -> Seq(Ack)]
  BY DEF FInv, ControlInv, IInv, AckType
<1>2. MAX \in Nat /\ Len(<<>>) = 0
  BY GatewayMacAssumption
<1>3. CASE Quiet
  BY <1>1, <1>3 DEF Quiet, AckLimit
<1>4. CASE Started
  BY <1>2, <1>4 DEF Started, EmptyAckLists, AckLimit
<1>5. CASE SendBeacon /\ halted' = halted
  <2>1. ack_list' = [k \in ListId |-> IF k = ListAhead(1) THEN <<>> ELSE ack_list[k]]
    BY <1>1, <1>5, BeaconSteps
  <2> QED
    BY <1>1, <1>2, <2>1 DEF AckLimit
<1>6. CASE HandleUplinkFrame
  <2>1. CASE ack_list' = ack_list
    BY <1>1, <2>1 DEF AckLimit
  <2>2. CASE /\ Len(ack_list[ListAhead(PACKED_ACK_DELAY_NUM)]) < MAX
             /\ ack_list' = [ack_list EXCEPT ![ListAhead(PACKED_ACK_DELAY_NUM)] = Append(@, rx_buffer)]
    <3> DEFINE i == ListAhead(PACKED_ACK_DELAY_NUM)
               l == Append(ack_list[i], rx_buffer)
    <3>1. i \in ListId /\ rx_buffer \in Ack
      BY <1>1, <1>6, ExpectedList
    <3> HIDE DEF i
    <3>2. Len(l) = Len(ack_list[i]) + 1 /\ Len(ack_list[i]) \in Nat
      BY <1>1, <3>1
    <3>3. Len(l) <= MAX
      BY <1>2, <2>2, <3>2 DEF i
    <3> HIDE DEF l
    <3>4. \A j \in ListId : ack_list'[j] = IF j = i THEN l ELSE ack_list[j]
      BY <1>1, <2>2, <3>1 DEF i, l
    <3> QED
      BY <1>1, <3>3, <3>4 DEF AckLimit
  <2> QED
    BY <1>1, <1>6, <2>1, <2>2, UplinkSteps
<1> QED
  BY <1>1, <1>3, <1>4, <1>5, <1>6, Steps

\* All of the control but the number of ACKs.
Ctl == FlagType /\ Delay /\ TxListInUse /\ CurTxIsFirst
Both == Ctl' /\ FrameInv'

\* A step of which only signals and flags are left to look at.
LEMMA SameFrames ==
    ASSUME FInv, UNCHANGED <<info, frames, beacon>>
    PROVE  FrameInv' /\ packed_ack_delay_num' = packed_ack_delay_num /\ buf' = buf
<1>1. UNCHANGED FrameVars
  BY DEF info, frames, FrameVars
<1>2. FrameInv'
  BY <1>1, FramesUnchanged DEF FInv
<1> QED
  BY <1>2 DEF info, frames

LEMMA HaltKeeps ==
    ASSUME FInv, NEW assertion \in {"WrongSignal", "RadioBusy", "TimerRunning", "NotInTxList"},
           Halt(assertion)
    PROVE  Both
<1>1. FrameInv' /\ packed_ack_delay_num' = packed_ack_delay_num /\ buf' = buf
  BY SameFrames DEF Halt
<1> QED
  BY <1>1 DEF Both, Ctl, FInv, ControlInv, FlagType, Delay, TxListInUse, CurTxIsFirst,
              Halt, timers, radio, info, frames

\* The signals of a handler that is no radio result's.
LEMMA DriverSignalsKeep ==
    ASSUME FInv, EngineStart \/ UpdateModemChannel
    PROVE  Both
<1>1. /\ signals' \subseteq signals
      /\ \A s \in {"RLC_TX_OK", "RLC_TX_FAILED"} : s \in signals => s \in signals'
  BY DEF EngineStart, UpdateModemChannel, HandledAndRaised
<1>2. CASE Started
  <2>1. FrameInv' /\ buf'.tx_list = <<>>
    BY <1>2, StartedFrames
  <2> QED
    BY <1>1, <1>2, <2>1
       DEF Both, Ctl, FInv, ControlInv, FlagType, Delay, TxListInUse, CurTxIsFirst, Started
<1>3. CASE UNCHANGED <<state, timers, radio, info, frames, cur_tx, beacon, halted>>
  <2>1. FrameInv' /\ packed_ack_delay_num' = packed_ack_delay_num /\ buf' = buf
    BY <1>3, SameFrames
  <2> QED
    BY <1>1, <1>3, <2>1
       DEF Both, Ctl, FInv, ControlInv, FlagType, Delay, TxListInUse, CurTxIsFirst, timers, radio
<1> QED
  BY <1>2, <1>3 DEF EngineStart, UpdateModemChannel

LEMMA SendBeaconKeeps == FInv /\ SendBeacon => Both
<1> SUFFICES ASSUME FInv, SendBeacon PROVE Both
  OBVIOUS
<1>1. CASE rlc = "TX" \/ beacon_timer
  BY <1>1, HaltKeeps DEF SendBeacon
<1>2. CASE rlc # "TX" /\ ~beacon_timer
  <2>1. halted' = halted
    BY <1>2 DEF SendBeacon
  <2>2. FrameInv'
    BY <2>1, BeaconFrames
  <2>3. /\ state = "TX_BEACON" /\ beacon_timer' = TRUE /\ rlc' = "TX" /\ signals' = signals \ {"SEND_BEACON"}
        /\ UNCHANGED <<state, timeout_timer, rx_buffer, packed_ack_delay_num, cur_tx>>
    BY <1>2, <2>1, BeaconActs DEF SendBeacon
  <2>4. cur_tx = NoFrame
    BY <2>3 DEF FInv, ControlInv, CurTxIsFirst
  <2> QED
    BY <2>1, <2>2, <2>3, <2>4
       DEF Both, Ctl, FInv, ControlInv, FlagType, Delay, TxListInUse, CurTxIsFirst
<1> QED
  BY <1>1, <1>2

LEMMA ContinueKeeps ==
    ASSUME NEW s, NEW b, ContinueTxOrBeginRx(s, b), FlagType,
           b.tx_list_len = 0 <=> b.tx_list = <<>>
    PROVE  /\ signals' \subseteq Signal /\ timeout_timer' \in BOOLEAN /\ beacon_timer' = beacon_timer
           /\ halted' \in {halted, "TimerRunning"}
           /\ state' # "INITED"
           /\ b.tx_list # <<>> => state' = "TX_DOWNLINK"
<1>1. CASE b.tx_list_len = 0
  BY <1>1 DEF ContinueTxOrBeginRx, HandledAndRaised, FlagType, Signal, timers
<1>2. CASE b.tx_list_len # 0
  BY <1>2 DEF ContinueTxOrBeginRx, HandledAndRaised, FlagType, Signal, timers
<1> QED
  BY <1>1, <1>2

LEMMA ResultsKeep ==
    ASSUME FInv, \/ BeaconFailed \/ BeaconOk
                 \/ DownlinkDone("RLC_TX_OK") \/ DownlinkDone("RLC_TX_FAILED")
    PROVE  Both
<1> USE DEF Both, Ctl, FlagType, Delay, TxListInUse, CurTxIsFirst
<1>1. Ctl /\ FlagType /\ FrameInv
  BY DEF FInv, ControlInv
<1>2. CASE BeaconFailed
  <2>1. FrameInv' /\ buf'.tx_list = <<>>
    BY <1>2, FailedFrames
  <2>2. /\ state = "TX_BEACON" /\ signals' \subseteq signals
        /\ UNCHANGED <<state, beacon_timer, timeout_timer, rlc, rx_buffer,
                       packed_ack_delay_num, cur_tx, halted>>
    BY <1>2 DEF BeaconFailed, HandledAndRaised, timers, radio, info
  <2> QED
    BY <1>1, <2>1, <2>2
<1>3. CASE BeaconOk
  <2>1. FrameInv' /\ packed_ack_delay_num' = packed_ack_delay_num /\ buf' = buf
    BY <1>3, SameFrames DEF BeaconOk
  <2>2. /\ ContinueTxOrBeginRx("RLC_TX_OK", buf) /\ state = "TX_BEACON"
        /\ UNCHANGED <<rlc, rx_buffer, cur_tx>>
    BY <1>3 DEF BeaconOk, radio
  <2>3. buf.tx_list_len = 0 <=> buf.tx_list = <<>>
    BY <1>1, FrameFacts
  <2>4. /\ signals' \subseteq Signal /\ timeout_timer' \in BOOLEAN /\ beacon_timer' = beacon_timer
        /\ halted' \in {halted, "TimerRunning"}
        /\ state' # "INITED"
        /\ buf.tx_list # <<>> => state' = "TX_DOWNLINK"
    BY <1>1, <2>2, <2>3, ContinueKeeps
  <2> QED
    BY <1>1, <2>1, <2>2, <2>4
<1>4. ASSUME NEW result \in {"RLC_TX_OK", "RLC_TX_FAILED"}, DownlinkDone(result) PROVE Both
  <2>1. CASE cur_tx \notin Range(buf.tx_list)
    <3>1. Halt("NotInTxList")
      BY <1>4, <2>1 DEF DownlinkDone
    <3> QED
      BY <3>1, HaltKeeps
  <2>2. CASE cur_tx \in Range(buf.tx_list)
    <3>1. /\ buf' = SentOrFailed(buf, cur_tx) /\ cur_tx' = NoFrame
          /\ ContinueTxOrBeginRx(result, buf') /\ state = "TX_DOWNLINK"
          /\ UNCHANGED <<rlc, rx_buffer, beacon, beacon_seq_id, cur_list_id,
                         packed_ack_delay_num, slots_downlink_msg>>
      BY <1>4, <2>2 DEF DownlinkDone, radio, info
    <3>2. cur_tx # NoFrame
      <4>1. buf.tx_list \in Seq(Fbuf)
        BY <1>1, FrameFacts
      <4>2. Range(buf.tx_list) \subseteq Fbuf
        BY <4>1 DEF Range
      <4> QED
        BY <2>2, <4>2, GatewayMacAssumption
    <3>3. buf.tx_list # <<>> /\ cur_tx = Head(buf.tx_list)
      BY <1>1, <3>2
    <3>4. FrameInv'
      BY <3>1, <3>3, SentFrames
    <3> DEFINE b == buf'
    <3>5. b.tx_list_len = 0 <=> b.tx_list = <<>>
      <4>1. Books(b)
        BY <3>4 DEF FrameInv
      <4> HIDE DEF b
      <4>2. b.tx_list \in Seq(Fbuf) /\ b.tx_list_len = Len(b.tx_list)
        BY <4>1, BufFields DEF Books
      <4> QED
        BY <4>2
    <3>6. ContinueTxOrBeginRx(result, b)
      BY <3>1
    <3> HIDE DEF b
    <3>7. /\ signals' \subseteq Signal /\ timeout_timer' \in BOOLEAN /\ beacon_timer' = beacon_timer
          /\ halted' \in {halted, "TimerRunning"}
          /\ state' # "INITED"
          /\ b.tx_list # <<>> => state' = "TX_DOWNLINK"
      BY <1>1, <3>5, <3>6, ContinueKeeps
    <3>8. beacon_timer
      BY <1>1, <3>3
    <3> QED
      BY <1>1, <3>1, <3>4, <3>7, <3>8 DEF b
  <2> QED
    BY <2>1, <2>2
<1> QED
  BY <1>2, <1>3, <1>4

LEMMA OthersKeep ==
    ASSUME FInv, \/ TxDownlinkFrame \/ BeginRxUplink \/ HandleUplinkFrame \/ StopRx \/ WrongSignal
    PROVE  Both
<1> USE DEF Both, Ctl, FlagType, Delay, TxListInUse, CurTxIsFirst
<1>1. Ctl /\ FlagType /\ FrameInv /\ buf.tx_list \in Seq(Fbuf)
  BY FrameFacts DEF FInv, ControlInv
<1>2. CASE TxDownlinkFrame
  <2>1. CASE buf.tx_list = <<>> \/ rlc # "IDLE"
    BY <1>2, <2>1, HaltKeeps DEF TxDownlinkFrame
  <2>2. CASE buf.tx_list # <<>> /\ rlc = "IDLE"
    <3>1. /\ state = "TX_DOWNLINK" /\ cur_tx' = Head(buf.tx_list) /\ rlc' = "TX"
          /\ HandledAndRaised("TX_DOWNLINK_FRAME", {})
          /\ UNCHANGED <<state, timers, rx_buffer, info, frames, beacon, halted>>
      BY <1>2, <2>2 DEF TxDownlinkFrame
    <3>2. FrameInv' /\ packed_ack_delay_num' = packed_ack_delay_num /\ buf' = buf
      BY <3>1, SameFrames
    <3>3. Head(buf.tx_list) \in Fbuf
      BY <1>1, <2>2
    <3> QED
      BY <1>1, <2>2, <3>1, <3>2, <3>3 DEF HandledAndRaised, timers
  <2> QED
    BY <2>1, <2>2
<1>3. CASE BeginRxUplink
  <2>1. CASE rlc # "IDLE"
    BY <1>3, <2>1, HaltKeeps DEF BeginRxUplink
  <2>2. CASE rlc = "IDLE"
    <3>1. /\ rlc' = "RX" /\ HandledAndRaised("BEGIN_RX_UPLINK", {})
          /\ UNCHANGED <<state, timers, rx_buffer, info, frames, cur_tx, beacon, halted>>
      BY <1>3, <2>2 DEF BeginRxUplink
    <3>2. FrameInv' /\ packed_ack_delay_num' = packed_ack_delay_num /\ buf' = buf
      BY <3>1, SameFrames
    <3> QED
      BY <1>1, <2>2, <3>1, <3>2 DEF HandledAndRaised, timers
  <2> QED
    BY <2>1, <2>2
<1>4. CASE HandleUplinkFrame
  <2>1. state = "RX_UPLINK"
    BY <1>4, ReadsWhenStarted DEF FInv, IInv, HandleUplinkFrame
  <2>2. /\ rx_buffer' = NoFrame /\ HandledAndRaised("RLC_RX_OK", {})
        /\ UNCHANGED <<state, timers, rlc, info, buf, cur_tx, beacon, halted>>
    BY <1>4 DEF HandleUplinkFrame
  <2>3. FrameInv'
    BY <2>2, FramesUnchanged DEF FInv, FrameVars, info
  <2> QED
    BY <1>1, <2>1, <2>2, <2>3 DEF HandledAndRaised, timers, info
<1>5. CASE StopRx
  <2>1. CASE rlc = "TX"
    BY <1>5, <2>1, HaltKeeps DEF StopRx
  <2>2. CASE rlc # "TX"
    <3>1. /\ state = "RX_UPLINK" /\ rlc' = "IDLE" /\ state' = "TX_BEACON"
          /\ HandledAndRaised("SEND_BEACON", {"SEND_BEACON"})
          /\ UNCHANGED <<timers, rx_buffer, info, frames, cur_tx, beacon, halted>>
      BY <1>5, <2>2 DEF StopRx
    <3>2. FrameInv' /\ packed_ack_delay_num' = packed_ack_delay_num /\ buf' = buf
      BY <3>1, SameFrames
    <3> QED
      BY <1>1, <3>1, <3>2 DEF HandledAndRaised, timers, Signal
  <2> QED
    BY <2>1, <2>2
<1>6. CASE WrongSignal
  BY <1>6, HaltKeeps DEF WrongSignal
<1> QED
  BY <1>2, <1>3, <1>4, <1>5, <1>6

LEMMA EnvironmentKeeps == FInv /\ Environment => Both
<1> SUFFICES ASSUME FInv, Environment PROVE Both
  OBVIOUS
<1> USE DEF Both, Ctl, FlagType, Delay, TxListInUse, CurTxIsFirst
<1>1. Ctl /\ FlagType /\ FrameInv
  BY DEF FInv, ControlInv
<1>2. CASE HostStart \/ HostUpdatesChannel
  <2>1. /\ signals' \subseteq Signal /\ signals = {}
        /\ UNCHANGED <<state, timers, radio, info, frames, cur_tx, beacon, halted>>
    BY <1>2 DEF HostStart, HostUpdatesChannel, HostRuns, Signal
  <2>2. FrameInv' /\ packed_ack_delay_num' = packed_ack_delay_num /\ buf' = buf
    BY <2>1, SameFrames
  <2> QED
    BY <1>1, <2>1, <2>2 DEF timers, radio
<1>3. ASSUME NEW addr \in Device, NEW bcn \in BeaconSeqNum, HostSendsDownlink(addr, bcn)
      PROVE  Both
  <2>1. FrameInv' /\ buf'.tx_list = buf.tx_list
    BY <1>3, HostFrames
  <2>2. UNCHANGED <<state, signals, timers, radio, info, ack_list, cur_tx, beacon, halted>>
    BY <1>3 DEF HostSendsDownlink
  <2> QED
    BY <1>1, <2>1, <2>2 DEF timers, radio, info
<1>4. CASE BeaconTimerExpires
  <2>1. /\ state \in {"TX_BEACON", "RX_UPLINK"} /\ rlc # "TX"
        /\ signals \subseteq {"UPDATE_MODEM_CHANNEL", "RLC_RX_OK"}
        /\ beacon_timer' = FALSE /\ signals' = signals \cup {"SEND_BEACON"}
        /\ UNCHANGED <<state, timeout_timer, radio, info, frames, cur_tx, beacon, halted>>
    BY <1>4 DEF BeaconTimerExpires
  <2>2. FrameInv' /\ packed_ack_delay_num' = packed_ack_delay_num /\ buf' = buf
    BY <2>1, SameFrames
  <2>3. buf.tx_list = <<>>
    BY <1>1, <2>1
  <2> QED
    BY <1>1, <2>1, <2>2, <2>3 DEF radio, Signal
<1>5. CASE TimeoutTimerExpires
  <2>1. /\ timeout_timer' = FALSE /\ signals' = signals \cup {"TX_DOWNLINK_FRAME"}
        /\ UNCHANGED <<state, beacon_timer, radio, info, frames, cur_tx, beacon, halted>>
    BY <1>5 DEF TimeoutTimerExpires
  <2>2. FrameInv' /\ packed_ack_delay_num' = packed_ack_delay_num /\ buf' = buf
    BY <2>1, SameFrames
  <2> QED
    BY <1>1, <2>1, <2>2 DEF radio, Signal
<1>6. CASE RadioTxDone
  <2>1. /\ rlc' = "IDLE"
        /\ signals' = signals \cup {"RLC_TX_OK"} \/ signals' = signals \cup {"RLC_TX_FAILED"}
        /\ UNCHANGED <<state, timers, rx_buffer, info, frames, cur_tx, beacon, halted>>
    BY <1>6 DEF RadioTxDone
  <2>2. FrameInv' /\ packed_ack_delay_num' = packed_ack_delay_num /\ buf' = buf
    BY <2>1, SameFrames
  <2> QED
    BY <1>1, <2>1, <2>2 DEF timers, Signal
<1>7. ASSUME NEW addr \in Device, NEW bcn \in {beacon_seq_id, NextBeaconSeq(beacon_seq_id)},
             RadioRxDone(addr, bcn)
      PROVE  Both
  <2>1. /\ rx_buffer' = [addr |-> addr, bcn |-> bcn] /\ signals' = signals \cup {"RLC_RX_OK"}
        /\ UNCHANGED <<state, timers, rlc, info, frames, cur_tx, beacon, halted>>
    BY <1>7 DEF RadioRxDone
  <2>2. FrameInv' /\ packed_ack_delay_num' = packed_ack_delay_num /\ buf' = buf
    BY <2>1, SameFrames
  <2>3. bcn \in BeaconSeqNum
    BY NextBeaconSeqType DEF FInv, IInv, AckType
  <2>4. rx_buffer' \in Ack
    BY <2>1, <2>3 DEF Ack
  <2> QED
    BY <1>1, <2>1, <2>2, <2>4 DEF timers, Signal
<1> QED
  BY <1>2, <1>3, <1>4, <1>5, <1>6, <1>7 DEF Environment

LEMMA UnchangedKeeps == FInv /\ UNCHANGED vars => Both
<1> SUFFICES ASSUME FInv, UNCHANGED vars PROVE Both
  OBVIOUS
<1>1. FrameInv' /\ packed_ack_delay_num' = packed_ack_delay_num /\ buf' = buf
  BY SameFrames DEF vars
<1> QED
  BY <1>1 DEF Both, Ctl, FInv, ControlInv, FlagType, Delay, TxListInUse, CurTxIsFirst,
              vars, timers, radio, info, frames

\* Every step keeps every frame where its beacon will find it.
THEOREM FrameInvariance == Spec => []FInv
<1>1. FInv /\ [Next]_vars => Both
  <2> SUFFICES ASSUME FInv, [Next]_vars PROVE Both
    OBVIOUS
  <2> QED
    BY DriverSignalsKeep, SendBeaconKeeps, ResultsKeep, OthersKeep, EnvironmentKeeps, UnchangedKeeps
       DEF Next, Engine
<1>2. FInv /\ [Next]_vars => FInv'
  <2> SUFFICES ASSUME FInv, [Next]_vars PROVE FInv'
    OBVIOUS
  <2>1. IInv'
    BY Steps, QuietKeeps, StartedKeeps, BeaconKeeps, UplinkKeeps DEF FInv
  <2>2. AckLimit'
    BY LimitKept
  <2> QED
    BY <1>1, <2>1, <2>2 DEF FInv, Both, Ctl, ControlInv
<1> QED
  BY <1>2, InitFrames, PTL DEF Spec

----------------------------------------------------------------------------
(* The phases of a beacon period                                          *)

Results == {"RLC_TX_OK", "RLC_TX_FAILED"}
NothingToSend == buf.tx_list = <<>>

\* The beacon is due, or it is awaited, or it is sent, or the radio has answered.
SendingBeacon ==
    /\ ~timeout_timer
    /\ \/ ~beacon_timer /\ rlc = "IDLE" /\ signals = {"SEND_BEACON"} /\ NothingToSend
       \/ beacon_timer /\ rlc = "IDLE" /\ signals = {} /\ NothingToSend
       \/ beacon_timer /\ rlc = "TX" /\ signals = {}
       \/ beacon_timer /\ rlc = "IDLE" /\ \E s \in Results : signals = {s}

\* The same of a downlink frame.
SendingDownlink ==
    /\ beacon_timer /\ ~NothingToSend
    /\ \/ ~timeout_timer /\ rlc = "IDLE" /\ cur_tx = NoFrame /\ signals = {"TX_DOWNLINK_FRAME"}
       \/ timeout_timer /\ rlc = "IDLE" /\ cur_tx = NoFrame /\ signals = {}
       \/ ~timeout_timer /\ rlc = "TX" /\ cur_tx # NoFrame /\ signals = {}
       \/ ~timeout_timer /\ rlc = "IDLE" /\ cur_tx # NoFrame /\ \E s \in Results : signals = {s}

Receiving ==
    /\ ~timeout_timer /\ NothingToSend
    /\ "SEND_BEACON" \in signals <=> ~beacon_timer
    /\ \/ rlc = "IDLE" /\ signals = {"BEGIN_RX_UPLINK"}
       \/ rlc = "RX" /\ signals \subseteq {"RLC_RX_OK", "SEND_BEACON"}

Stopped ==
    /\ ~beacon_timer /\ ~timeout_timer /\ rlc = "IDLE" /\ NothingToSend
    /\ signals \subseteq {"ENGINE_START"}

Phase ==
    \/ state = "INITED" /\ Stopped
    \/ state = "TX_BEACON" /\ SendingBeacon
    \/ state = "TX_DOWNLINK" /\ SendingDownlink
    \/ state = "RX_UPLINK" /\ Receiving

PInv == Phase /\ NoHang

\* A list of two followed by one of three.
LEMMA ConcatTwoThree ==
    ASSUME NEW S, NEW s \in Seq(S), NEW t \in Seq(S), Len(s) = 2, Len(t) = 3
    PROVE  /\ Len(s \o t) = 5 /\ s \o t \in Seq(S)
           /\ \A k \in 1..5 : (s \o t)[k] = IF k <= 2 THEN s[k] ELSE t[k - 2]
<1>1. /\ s \o t \in Seq(S) /\ Len(s \o t) = Len(s) + Len(t)
      /\ \A k \in 1..(Len(s) + Len(t)) : (s \o t)[k] = IF k <= Len(s) THEN s[k] ELSE t[k - Len(s)]
  BY ConcatProperties
<1> QED
  BY <1>1

\* What the entry looks for.
LEMMA FiveSignals ==
    ASSUME NEW a, NEW b, NEW c, NEW d, NEW e, HandledSignals = <<a, b>> \o <<c, d, e>>
    PROVE  /\ DOMAIN HandledSignals = 1..5
           /\ HandledSignals[1] = a /\ HandledSignals[2] = b /\ HandledSignals[3] = c
           /\ HandledSignals[4] = d /\ HandledSignals[5] = e
           /\ {a, b, c, d, e} \subseteq Range(HandledSignals)
<1> DEFINE s == <<a, b>>
           t == <<c, d, e>>
           S == {a, b, c, d, e}
<1>1. /\ s \in Seq(S) /\ Len(s) = 2 /\ s[1] = a /\ s[2] = b
      /\ t \in Seq(S) /\ Len(t) = 3 /\ t[1] = c /\ t[2] = d /\ t[3] = e
  OBVIOUS
<1> HIDE DEF s, t
<1> HIDE DEF S
<1>2. /\ Len(s \o t) = 5 /\ s \o t \in Seq(S)
      /\ \A k \in 1..5 : (s \o t)[k] = IF k <= 2 THEN s[k] ELSE t[k - 2]
  BY <1>1, ConcatTwoThree
<1>3. /\ DOMAIN HandledSignals = 1..5
      /\ \A k \in 1..5 : HandledSignals[k] = IF k <= 2 THEN s[k] ELSE t[k - 2]
  BY <1>2 DEF s, t
<1>4. /\ HandledSignals[1] = a /\ HandledSignals[2] = b /\ HandledSignals[3] = c
      /\ HandledSignals[4] = d /\ HandledSignals[5] = e
  BY <1>1, <1>3
<1>5. {a, b, c, d, e} \subseteq Range(HandledSignals)
  BY <1>3, <1>4 DEF Range, S
<1> QED
  BY <1>3, <1>4, <1>5

LEMMA Looks ==
    /\ state = "INITED" => "ENGINE_START" \in Range(HandledSignals)
    /\ state = "TX_BEACON" => {"SEND_BEACON", "RLC_TX_FAILED", "RLC_TX_OK"} \subseteq Range(HandledSignals)
    /\ state = "TX_DOWNLINK" =>
          {"TX_DOWNLINK_FRAME", "RLC_TX_FAILED", "RLC_TX_OK"} \subseteq Range(HandledSignals)
    /\ state = "RX_UPLINK" => {"BEGIN_RX_UPLINK", "RLC_RX_OK", "SEND_BEACON"} \subseteq Range(HandledSignals)
<1>1. ASSUME state = "INITED" PROVE "ENGINE_START" \in Range(HandledSignals)
  <2>1. HandledSignals = <<"ENGINE_START", "UPDATE_MODEM_CHANNEL">> \o <<>>
    BY <1>1 DEF HandledSignals, EntryOrder
  <2>2. 1 \in DOMAIN HandledSignals /\ HandledSignals[1] = "ENGINE_START"
    BY <2>1
  <2> QED
    BY <2>2 DEF Range
<1>2. ASSUME state = "TX_BEACON"
      PROVE  {"SEND_BEACON", "RLC_TX_FAILED", "RLC_TX_OK"} \subseteq Range(HandledSignals)
  <2>1. HandledSignals = <<"ENGINE_START", "UPDATE_MODEM_CHANNEL">>
                            \o <<"SEND_BEACON", "RLC_TX_FAILED", "RLC_TX_OK">>
    BY <1>2 DEF HandledSignals, EntryOrder
  <2> QED
    BY <2>1, FiveSignals
<1>3. ASSUME state = "TX_DOWNLINK"
      PROVE  {"TX_DOWNLINK_FRAME", "RLC_TX_FAILED", "RLC_TX_OK"} \subseteq Range(HandledSignals)
  <2>1. HandledSignals = <<"ENGINE_START", "UPDATE_MODEM_CHANNEL">>
                            \o <<"TX_DOWNLINK_FRAME", "RLC_TX_FAILED", "RLC_TX_OK">>
    BY <1>3 DEF HandledSignals, EntryOrder
  <2> QED
    BY <2>1, FiveSignals
<1>4. ASSUME state = "RX_UPLINK"
      PROVE  {"BEGIN_RX_UPLINK", "RLC_RX_OK", "SEND_BEACON"} \subseteq Range(HandledSignals)
  <2>1. HandledSignals = <<"ENGINE_START", "UPDATE_MODEM_CHANNEL">>
                            \o <<"BEGIN_RX_UPLINK", "RLC_RX_OK", "SEND_BEACON">>
    BY <1>4 DEF HandledSignals, EntryOrder
  <2> QED
    BY <2>1, FiveSignals
<1> QED
  BY <1>1, <1>2, <1>3, <1>4

\* A received frame is looked at before the beacon that is due.
LEMMA FrameBeforeBeacon ==
    ASSUME state = "RX_UPLINK", Handles("SEND_BEACON")
    PROVE  "RLC_RX_OK" \notin signals
<1>1. HandledSignals = <<"ENGINE_START", "UPDATE_MODEM_CHANNEL">>
                          \o <<"BEGIN_RX_UPLINK", "RLC_RX_OK", "SEND_BEACON">>
  BY DEF HandledSignals, EntryOrder
<1>2. /\ DOMAIN HandledSignals = 1..5 /\ HandledSignals[1] = "ENGINE_START"
      /\ HandledSignals[2] = "UPDATE_MODEM_CHANNEL" /\ HandledSignals[3] = "BEGIN_RX_UPLINK"
      /\ HandledSignals[4] = "RLC_RX_OK"
  BY <1>1, FiveSignals
<1>3. PICK n \in DOMAIN HandledSignals :
         /\ HandledSignals[n] = "SEND_BEACON"
         /\ \A k \in 1..(n - 1) : HandledSignals[k] \notin signals
  BY DEF Handles
<1>4. n = 5
  BY <1>2, <1>3
<1>5. 4 \in 1..(5 - 1)
  OBVIOUS
<1> QED
  BY <1>2, <1>3, <1>4, <1>5

LEMMA NeverWrong == PInv /\ WrongSignal => FALSE
<1> SUFFICES ASSUME PInv, WrongSignal PROVE FALSE
  OBVIOUS
<1>1. signals # {} /\ \A s \in signals : s \notin Range(HandledSignals)
  BY DEF WrongSignal
<1>2. PICK s \in signals : TRUE
  BY <1>1
<1>3. s \in Range(HandledSignals)
  BY <1>2, Looks DEF PInv, Phase, Stopped, SendingBeacon, SendingDownlink, Receiving, Results
<1> QED
  BY <1>1, <1>3

\* What the parts of the invariant above say in a phase.
LEMMA PhaseFacts ==
    ASSUME FInv
    PROVE  /\ cur_tx # NoFrame => state = "TX_DOWNLINK" /\ ~NothingToSend /\ cur_tx = Head(buf.tx_list)
           /\ buf.tx_list_len = 0 <=> NothingToSend
           /\ ~NothingToSend => Head(buf.tx_list) \in Range(buf.tx_list)
<1>1. /\ buf.tx_list \in Seq(Fbuf)
      /\ buf.tx_list_len = 0 <=> NothingToSend
  BY FrameFacts DEF FInv, NothingToSend
<1>2. ASSUME ~NothingToSend PROVE Head(buf.tx_list) \in Range(buf.tx_list)
  <2>1. 1 \in DOMAIN buf.tx_list /\ Head(buf.tx_list) = buf.tx_list[1]
    BY <1>1, <1>2 DEF NothingToSend
  <2> QED
    BY <2>1 DEF Range
<1> QED
  BY <1>1, <1>2 DEF FInv, ControlInv, CurTxIsFirst, NothingToSend

\* After a transmission the engine sends the next frame or listens.
LEMMA ContinuePhase ==
    ASSUME NEW s \in Results, ContinueTxOrBeginRx(s, buf'), signals = {s}, rlc' = "IDLE",
           beacon_timer, ~timeout_timer, halted = "no", cur_tx' = NoFrame,
           buf'.tx_list_len = 0 <=> NothingToSend'
    PROVE  PInv'
<1>1. CASE buf'.tx_list_len = 0
  <2>1. /\ state' = "RX_UPLINK" /\ signals' = {"BEGIN_RX_UPLINK"}
        /\ beacon_timer' = beacon_timer /\ timeout_timer' = timeout_timer /\ halted' = halted
    BY <1>1 DEF ContinueTxOrBeginRx, HandledAndRaised, timers
  <2> QED
    BY <1>1, <2>1 DEF PInv, Phase, Receiving, NoHang
<1>2. CASE buf'.tx_list_len # 0
  <2>1. /\ state' = "TX_DOWNLINK" /\ beacon_timer' = beacon_timer /\ halted' = halted
        /\ \/ signals' = {"TX_DOWNLINK_FRAME"} /\ ~timeout_timer'
           \/ signals' = {} /\ timeout_timer'
    BY <1>2 DEF ContinueTxOrBeginRx, HandledAndRaised, timers
  <2> QED
    BY <1>2, <2>1 DEF PInv, Phase, SendingDownlink, NoHang
<1> QED
  BY <1>1, <1>2

LEMMA EnginePhase == FInv /\ PInv /\ Engine => PInv'
<1> SUFFICES ASSUME FInv, PInv, Engine PROVE PInv'
  OBVIOUS
<1> USE DEF PInv, Phase, NoHang, Results
<1>1. halted = "no"
  OBVIOUS
<1>2. CASE EngineStart
  <2>1. state = "INITED" /\ signals = {"ENGINE_START"}
    BY <1>2 DEF EngineStart, Handles, Stopped, SendingBeacon, SendingDownlink, Receiving
  <2>2. Started /\ signals' = {}
    BY <1>2, <2>1 DEF EngineStart, HandledAndRaised
  <2>3. NothingToSend'
    BY <2>2, StartedFrames DEF NothingToSend
  <2> QED
    BY <1>1, <2>2, <2>3 DEF Started, SendingBeacon
<1>3. CASE UpdateModemChannel
  <2>1. "UPDATE_MODEM_CHANNEL" \in signals
    BY <1>3 DEF UpdateModemChannel, Handles
  <2> QED
    BY <2>1 DEF Stopped, SendingBeacon, SendingDownlink, Receiving
<1>4. CASE SendBeacon
  <2>1. state = "TX_BEACON" /\ "SEND_BEACON" \in signals
    BY <1>4 DEF SendBeacon, Handles
  <2>2. ~beacon_timer /\ rlc = "IDLE" /\ signals = {"SEND_BEACON"} /\ ~timeout_timer
    BY <2>1 DEF SendingBeacon
  <2>3. halted' = halted /\ beacon_timer' = TRUE
    BY <1>4, <2>2 DEF SendBeacon
  <2>4. rlc' = "TX" /\ signals' = {} /\ UNCHANGED <<state, timeout_timer>>
    BY <1>4, <2>2, <2>3, BeaconActs
  <2> QED
    BY <1>1, <2>1, <2>2, <2>3, <2>4 DEF SendingBeacon
<1>5. CASE BeaconFailed
  <2>1. state = "TX_BEACON" /\ "RLC_TX_FAILED" \in signals
    BY <1>5 DEF BeaconFailed, Handles
  <2>2. beacon_timer /\ rlc = "IDLE" /\ signals = {"RLC_TX_FAILED"} /\ ~timeout_timer
    BY <2>1 DEF SendingBeacon
  <2>3. signals' = {} /\ UNCHANGED <<state, beacon_timer, timeout_timer, rlc, halted>>
    BY <1>5, <2>2 DEF BeaconFailed, HandledAndRaised, timers, radio
  <2>4. NothingToSend'
    BY <1>5, FailedFrames DEF NothingToSend
  <2> QED
    BY <2>1, <2>2, <2>3, <2>4 DEF SendingBeacon
<1>6. CASE BeaconOk
  <2>1. state = "TX_BEACON" /\ "RLC_TX_OK" \in signals
    BY <1>6 DEF BeaconOk, Handles
  <2>2. beacon_timer /\ rlc = "IDLE" /\ signals = {"RLC_TX_OK"} /\ ~timeout_timer
    BY <2>1 DEF SendingBeacon
  <2>3. ContinueTxOrBeginRx("RLC_TX_OK", buf) /\ UNCHANGED <<rlc, buf, cur_tx>>
    BY <1>6 DEF BeaconOk, radio, frames
  <2>4. cur_tx = NoFrame /\ (buf.tx_list_len = 0 <=> NothingToSend)
    BY <2>1, PhaseFacts
  <2>5. ContinueTxOrBeginRx("RLC_TX_OK", buf') /\ (buf'.tx_list_len = 0 <=> NothingToSend')
    BY <2>3, <2>4 DEF NothingToSend
  <2>6. "RLC_TX_OK" \in Results
    OBVIOUS
  <2> QED
    BY <1>1, <2>2, <2>3, <2>4, <2>5, <2>6, ContinuePhase
<1>7. CASE TxDownlinkFrame
  <2>1. state = "TX_DOWNLINK" /\ "TX_DOWNLINK_FRAME" \in signals
    BY <1>7 DEF TxDownlinkFrame, Handles
  <2>2. /\ beacon_timer /\ ~timeout_timer /\ rlc = "IDLE" /\ ~NothingToSend
        /\ signals = {"TX_DOWNLINK_FRAME"}
    BY <2>1 DEF SendingDownlink
  <2>3. /\ cur_tx' = Head(buf.tx_list) /\ rlc' = "TX" /\ signals' = {}
        /\ UNCHANGED <<state, beacon_timer, timeout_timer, buf, halted>>
    BY <1>7, <2>2 DEF TxDownlinkFrame, HandledAndRaised, timers, frames, NothingToSend
  <2>4. cur_tx' # NoFrame
    <3>1. buf.tx_list \in Seq(Fbuf) /\ buf.tx_list # <<>>
      BY <2>2, FrameFacts DEF FInv, NothingToSend
    <3>2. Head(buf.tx_list) \in Fbuf
      BY <3>1
    <3> QED
      BY <2>3, <3>2, GatewayMacAssumption
  <2> QED
    BY <2>1, <2>2, <2>3, <2>4 DEF SendingDownlink, NothingToSend
<1>8. ASSUME NEW result \in Results, DownlinkDone(result) PROVE PInv'
  <2>1. state = "TX_DOWNLINK" /\ result \in signals
    BY <1>8 DEF DownlinkDone, Handles
  <2>2. /\ beacon_timer /\ ~timeout_timer /\ rlc = "IDLE" /\ cur_tx # NoFrame
        /\ signals = {result}
    BY <2>1 DEF SendingDownlink
  <2>3. cur_tx \in Range(buf.tx_list) /\ cur_tx = Head(buf.tx_list) /\ buf.tx_list # <<>>
    BY <2>2, PhaseFacts DEF NothingToSend
  <2>4. /\ buf' = SentOrFailed(buf, cur_tx) /\ cur_tx' = NoFrame
        /\ ContinueTxOrBeginRx(result, buf') /\ rlc' = rlc
        /\ UNCHANGED <<beacon, slots_downlink_msg, cur_list_id, beacon_seq_id>>
    BY <1>8, <2>3 DEF DownlinkDone, radio, info
  <2>5. FrameInv'
    BY <2>3, <2>4, SentFrames
  <2>6. buf'.tx_list_len = 0 <=> NothingToSend'
    <3> DEFINE b == buf'
    <3>1. Books(b)
      BY <2>5 DEF FrameInv
    <3> HIDE DEF b
    <3>2. b.tx_list \in Seq(Fbuf) /\ b.tx_list_len = Len(b.tx_list)
      BY <3>1, BufFields DEF Books
    <3>3. b.tx_list_len = 0 <=> b.tx_list = <<>>
      BY <3>2
    <3> QED
      BY <3>3 DEF b, NothingToSend
  <2> QED
    BY <1>1, <2>2, <2>4, <2>6, ContinuePhase
<1>9. CASE BeginRxUplink
  <2>1. "BEGIN_RX_UPLINK" \in signals
    BY <1>9 DEF BeginRxUplink, Handles
  <2>2. /\ state = "RX_UPLINK" /\ rlc = "IDLE" /\ signals = {"BEGIN_RX_UPLINK"}
        /\ beacon_timer /\ ~timeout_timer /\ NothingToSend
    BY <2>1 DEF Stopped, SendingBeacon, SendingDownlink, Receiving
  <2>3. rlc' = "RX" /\ signals' = {} /\ UNCHANGED <<state, beacon_timer, timeout_timer, buf, halted>>
    BY <1>9, <2>2 DEF BeginRxUplink, HandledAndRaised, timers, frames
  <2> QED
    BY <2>2, <2>3 DEF Receiving, NothingToSend
<1>10. CASE HandleUplinkFrame
  <2>1. state = "RX_UPLINK" /\ "RLC_RX_OK" \in signals
    BY <1>10, ReadsWhenStarted DEF FInv, IInv, HandleUplinkFrame, Handles
  <2>2. /\ rlc = "RX" /\ signals \subseteq {"RLC_RX_OK", "SEND_BEACON"} /\ ~timeout_timer
        /\ NothingToSend /\ ("SEND_BEACON" \in signals <=> ~beacon_timer)
    BY <2>1 DEF Receiving
  <2>3. /\ signals' = signals \ {"RLC_RX_OK"}
        /\ UNCHANGED <<state, beacon_timer, timeout_timer, rlc, buf, halted>>
    BY <1>10 DEF HandleUplinkFrame, HandledAndRaised, timers
  <2> QED
    BY <2>1, <2>2, <2>3 DEF Receiving, NothingToSend
<1>11. CASE StopRx
  <2>1. state = "RX_UPLINK" /\ Handles("SEND_BEACON") /\ "SEND_BEACON" \in signals
    BY <1>11 DEF StopRx, Handles
  <2>2. "RLC_RX_OK" \notin signals
    BY <2>1, FrameBeforeBeacon
  <2>3. ~beacon_timer /\ ~timeout_timer /\ NothingToSend /\ rlc = "RX" /\ signals = {"SEND_BEACON"}
    BY <2>1, <2>2 DEF Receiving
  <2>4. /\ rlc' = "IDLE" /\ state' = "TX_BEACON" /\ signals' = {"SEND_BEACON"}
        /\ UNCHANGED <<beacon_timer, timeout_timer, buf, halted>>
    BY <1>11, <2>3 DEF StopRx, HandledAndRaised, timers, frames
  <2> QED
    BY <2>3, <2>4 DEF SendingBeacon, NothingToSend
<1>12. CASE WrongSignal
  BY <1>12, NeverWrong
<1> QED
  BY <1>2, <1>3, <1>4, <1>5, <1>6, <1>7, <1>8, <1>9, <1>10, <1>11, <1>12 DEF Engine

LEMMA EnvironmentPhase == ~ChannelUpdates /\ FInv /\ PInv /\ Environment => PInv'
<1> SUFFICES ASSUME ~ChannelUpdates, FInv, PInv, Environment PROVE PInv'
  OBVIOUS
<1> USE DEF PInv, Phase, NoHang, Results
<1>1. CASE HostStart
  <2>1. state = "INITED" /\ Stopped
    BY <1>1 DEF HostStart
  <2> QED
    BY <1>1, <2>1 DEF HostStart, Stopped, timers, radio, frames, NothingToSend
<1>2. CASE HostUpdatesChannel
  BY <1>2 DEF HostUpdatesChannel
<1>3. ASSUME NEW addr \in Device, NEW bcn \in BeaconSeqNum, HostSendsDownlink(addr, bcn)
      PROVE  PInv'
  <2>1. /\ buf'.tx_list = buf.tx_list
        /\ UNCHANGED <<state, signals, timers, radio, cur_tx, halted>>
    <3>1. buf'.tx_list = buf.tx_list
      BY <1>3, HostFrames
    <3>2. UNCHANGED <<state, signals, timers, radio, cur_tx, halted>>
      BY <1>3 DEF HostSendsDownlink
    <3> QED
      BY <3>1, <3>2
  <2>2. NothingToSend' <=> NothingToSend
    BY <2>1 DEF NothingToSend
  <2>3. UNCHANGED <<state, signals, beacon_timer, timeout_timer, rlc, cur_tx, halted>>
    BY <2>1 DEF timers, radio
  <2> QED
    BY <2>2, <2>3 DEF Stopped, SendingBeacon, SendingDownlink, Receiving
<1>4. CASE BeaconTimerExpires
  <2>1. /\ beacon_timer /\ rlc # "TX" /\ signals \subseteq {"UPDATE_MODEM_CHANNEL", "RLC_RX_OK"}
        /\ state \in {"TX_BEACON", "RX_UPLINK"}
        /\ beacon_timer' = FALSE /\ signals' = signals \cup {"SEND_BEACON"}
        /\ UNCHANGED <<state, timeout_timer, rlc, buf, halted>>
    BY <1>4 DEF BeaconTimerExpires, radio, frames
  <2>2. CASE state = "TX_BEACON"
    <3>1. rlc = "IDLE" /\ signals = {} /\ NothingToSend /\ ~timeout_timer
      BY <2>1, <2>2 DEF SendingBeacon
    <3> QED
      BY <2>1, <2>2, <3>1 DEF SendingBeacon, NothingToSend
  <2>3. CASE state = "RX_UPLINK"
    <3>1. rlc = "RX" /\ signals \subseteq {"RLC_RX_OK"} /\ NothingToSend /\ ~timeout_timer
      BY <2>1, <2>3 DEF Receiving
    <3> QED
      BY <2>1, <2>3, <3>1 DEF Receiving, NothingToSend
  <2> QED
    BY <2>1, <2>2, <2>3
<1>5. CASE TimeoutTimerExpires
  <2>1. /\ timeout_timer /\ timeout_timer' = FALSE /\ signals' = signals \cup {"TX_DOWNLINK_FRAME"}
        /\ UNCHANGED <<state, beacon_timer, rlc, buf, cur_tx, halted>>
    BY <1>5 DEF TimeoutTimerExpires, radio, frames
  <2>2. /\ state = "TX_DOWNLINK" /\ beacon_timer /\ ~NothingToSend /\ rlc = "IDLE"
        /\ cur_tx = NoFrame /\ signals = {}
    BY <2>1 DEF Stopped, SendingBeacon, SendingDownlink, Receiving
  <2> QED
    BY <2>1, <2>2 DEF SendingDownlink, NothingToSend
<1>6. CASE RadioTxDone
  <2>1. /\ rlc = "TX" /\ rlc' = "IDLE"
        /\ \E result \in Results : signals' = signals \cup {result}
        /\ UNCHANGED <<state, beacon_timer, timeout_timer, buf, cur_tx, halted>>
    BY <1>6 DEF RadioTxDone, timers, frames
  <2>2. CASE state = "TX_BEACON"
    <3>1. beacon_timer /\ ~timeout_timer /\ signals = {}
      BY <2>1, <2>2 DEF SendingBeacon
    <3> QED
      BY <2>1, <2>2, <3>1 DEF SendingBeacon
  <2>3. CASE state = "TX_DOWNLINK"
    <3>1. beacon_timer /\ ~timeout_timer /\ signals = {} /\ cur_tx # NoFrame /\ ~NothingToSend
      BY <2>1, <2>3 DEF SendingDownlink
    <3> QED
      BY <2>1, <2>3, <3>1 DEF SendingDownlink, NothingToSend
  <2>4. state # "INITED" /\ state # "RX_UPLINK"
    BY <2>1 DEF Stopped, Receiving
  <2> QED
    BY <2>2, <2>3, <2>4
<1>7. ASSUME NEW addr \in Device, NEW bcn \in {beacon_seq_id, NextBeaconSeq(beacon_seq_id)},
             RadioRxDone(addr, bcn)
      PROVE  PInv'
  <2>1. /\ rlc = "RX" /\ signals' = signals \cup {"RLC_RX_OK"}
        /\ UNCHANGED <<state, beacon_timer, timeout_timer, rlc, buf, halted>>
    BY <1>7 DEF RadioRxDone, timers, frames
  <2>2. state = "RX_UPLINK" /\ Receiving
    BY <2>1 DEF Stopped, SendingBeacon, SendingDownlink
  <2> QED
    BY <2>1, <2>2 DEF Receiving, NothingToSend
<1> QED
  BY <1>1, <1>2, <1>3, <1>4, <1>5, <1>6, <1>7 DEF Environment

LEMMA UnchangedPhase == PInv /\ UNCHANGED vars => PInv'
BY DEF PInv, Phase, NoHang, Stopped, SendingBeacon, SendingDownlink, Receiving, NothingToSend,
       vars, timers, radio, frames

\* As long as the host does not change the channel, the phases follow each
\* other and no assertion of the engine fails: the timers do not run when they
\* are started, the radio is idle when it is to send or to listen, the frame that
\* was sent is still the first of its list, and no signal comes in a state whose
\* entry does not look for it.
THEOREM NoAssertionFails == ~ChannelUpdates => (Spec => []NoHang)
<1>1. Init => PInv
  BY DEF Init, PInv, Phase, NoHang, Stopped, NothingToSend
<1>2. ~ChannelUpdates /\ FInv /\ PInv /\ [Next]_vars => PInv'
  BY EnginePhase, EnvironmentPhase, UnchangedPhase DEF Next
<1>3. ~ChannelUpdates => [](~ChannelUpdates)
  OBVIOUS
<1>4. PInv => NoHang
  BY DEF PInv
<1> QED
  BY <1>1, <1>2, <1>3, <1>4, FrameInvariance, PTL DEF Spec

-----------------------------------------------------------------------------
(* What the invariant says                                                 *)

LEMMA FramesAndAcksTyped == FInv => TypeOK
<1> SUFFICES ASSUME FInv PROVE TypeOK
  OBVIOUS
<1>1. AckType /\ FlagType /\ AckLimit /\ Delay /\ BeaconType /\ SlotsType /\ buf \in BufType
  BY FrameFacts DEF FInv, IInv, ControlInv, FrameInv
<1>2. packed_ack_delay_num \in {0, PACKED_ACK_DELAY_NUM}
  BY <1>1 DEF Delay
<1>3. beacon \in [seq : BeaconSeqNum,
                  acks : Seq([addr : Device, bcn : BeaconSeqNum, pending : BOOLEAN])]
  BY <1>1 DEF BeaconType, BeaconAck
<1>4. buf \in [flist : [ListId -> Seq(Fbuf)], list_len : [ListId -> Nat],
               tx_list : Seq(Fbuf), tx_list_len : Nat,
               used : SUBSET Fbuf, fbuf : [Fbuf -> Frame \cup {NoFrame}]]
  BY <1>1 DEF BufType
<1> QED
  BY <1>1, <1>2, <1>3, <1>4, Zenon
     DEF TypeOK, AckType, FlagType, AckLimit, SlotsType, CurListId

\* The engine's variables keep the types of the C structs: no list of ACKs
\* outgrows a beacon, and the list id is that of a list, or the -1 and less that
\* mean none before the first beacon.
THEOREM TypeCorrect == Spec => []TypeOK
<1> QED
  BY FrameInvariance, FramesAndAcksTyped, PTL

\* Every block that is taken from the pool is in one list, once, and the
\* counters are the lengths of the lists: none leaks and none is freed twice,
\* whatever the host sends, the devices confirm and the radio fails to send.
THEOREM BlocksAccountedFor == Spec => []Bookkeeping
<1>1. FInv => Bookkeeping
  <2> SUFFICES ASSUME FInv PROVE Bookkeeping
    OBVIOUS
  <2>1. Books(buf) /\ AllLists = ListsOf(buf)
    BY FrameFacts DEF FInv, AllLists, ListsOf
  <2> QED
    BY <2>1 DEF Books, Bookkeeping
<1> QED
  BY <1>1, FrameInvariance, PTL

\* A frame waits in the list that is the current one when its beacon comes, and
\* stays there after it only if that beacon had no ACKs: the lists take turns as
\* the numbers of the beacons do, at their wrap too.
THEOREM FramesWaitInTheirList == Spec => []FramesInTheirList
<1>1. FInv => FramesInTheirList
  BY DEF FInv, FrameInv, InTurn, NoneBehind, FramesInTheirList
<1> QED
  BY <1>1, FrameInvariance, PTL

\* The frames that wait to be sent are the last that the beacon's ACKs have
\* announced, in the order of these ACKs, and the slots that the beacon leaves
\* for them are enough.
THEOREM SentAsAnnounced == Spec => []AnnouncedInOrder
<1>1. FInv => AnnouncedInOrder
  BY FrameFacts, OrderIsAnnounced DEF FInv, FrameInv
<1> QED
  BY <1>1, FrameInvariance, PTL
=============================================================================
