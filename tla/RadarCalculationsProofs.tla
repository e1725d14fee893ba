------------------------ MODULE RadarCalculationsProofs ------------------------
(***************************************************************************)
(* Proofs about the calculations of the market radar, for any input that   *)
(* may arrive and any windows: a sync that does not raise leaves a         *)
(* snapshot that its record accepts, and none has seen a later day.        *)
(***************************************************************************)
EXTENDS RadarCalculations, FiniteSetTheorems, SequenceTheorems, WellFoundedInduction, TLAPS

-----------------------------------------------------------------------------
(* Least and greatest elements.                                             *)

\* Some number of any is the least: what inductions over sizes rest on.
LEMMA LeastOf ==
    ASSUME NEW T \in SUBSET Nat, T # {}
    PROVE  \E t \in T : \A u \in T : t <= u
<1> DEFINE R == {p \in Nat \X Nat : p[1] < p[2]}
<1>1. R = OpToRel(<, Nat)
  BY DEF OpToRel
<1>2. IsWellFoundedOn(R, Nat)
  BY <1>1, NatLessThanWellFounded
<1> HIDE DEF R
<1>3. PICK t \in T : \A u \in T : ~(<<u, t>> \in R)
  BY <1>2, WFMin
<1>4. SUFFICES ASSUME NEW u \in T PROVE t <= u
  BY <1>3
<1>5. ~(u < t)
  BY <1>3 DEF R
<1>6. QED
  BY <1>5

\* A finite set has a greatest element, and a least.
LEMMA Greatest ==
    ASSUME NEW S \in SUBSET Int, IsFiniteSet(S), S # {}
    PROVE  \E m \in S : \A k \in S : k <= m
<1> DEFINE Without(U) == U # {} /\ ~\E m \in U : \A k \in U : k <= m
           T == {n \in Nat : \E U \in SUBSET S : Cardinality(U) = n /\ Without(U)}
<1>1. SUFFICES ASSUME T # {} PROVE FALSE
  <2>1. Cardinality(S) \in Nat /\ S \in SUBSET S
    BY FS_CardinalityType
  <2>2. QED
    BY <1>1, <2>1
<1>2. PICK n \in T : \A u \in T : n <= u
  <2>1. T \in SUBSET Nat
    OBVIOUS
  <2>2. QED
    BY <1>1, <2>1, LeastOf
<1>3. PICK U \in SUBSET S : Cardinality(U) = n /\ Without(U)
  OBVIOUS
<1>4. PICK x : x \in U
  BY <1>3
<1>5. x \in Int /\ U \subseteq Int /\ IsFiniteSet(U)
  BY <1>4, FS_Subset
<1>6. Cardinality(U \ {x}) = n - 1 /\ n \in Nat
  BY <1>3, <1>4, <1>5, FS_RemoveElement
<1>7. IsFiniteSet(U \ {x})
  BY <1>5, FS_RemoveElement
<1>7b. Cardinality(U \ {x}) \in Nat
  BY <1>7, FS_CardinalityType
<1>8. ~Without(U \ {x})
  <2>1. n - 1 \in Nat /\ ~(n <= n - 1)
    BY <1>6, <1>7b
  <2>2. U \ {x} \in SUBSET S
    OBVIOUS
  <2>3. n - 1 \notin T
    BY <1>2, <2>1
  <2>4. QED
    BY <1>6, <2>1, <2>2, <2>3
<1>9. CASE U \ {x} = {}
  BY <1>3, <1>4, <1>5, <1>9
<1>10. CASE U \ {x} # {}
  <2>1. PICK m \in U \ {x} : \A k \in U \ {x} : k <= m
    BY <1>8, <1>10
  <2>2. CASE x <= m
    BY <1>3, <1>5, <2>1, <2>2
  <2>3. CASE m <= x
    <3>1. \A k \in U : k <= x
      BY <1>5, <2>1, <2>3
    <3>2. QED
      BY <1>3, <1>4, <3>1
  <2>4. QED
    BY <1>5, <2>1, <2>2, <2>3
<1>11. QED
  BY <1>9, <1>10

\* The element no other exceeds is the greatest.
LEMMA MaxIs ==
    ASSUME NEW S \in SUBSET Int, NEW m \in S, \A k \in S : k <= m
    PROVE  Max(S) = m
<1>1. Max(S) = CHOOSE x \in S : \A y \in S : x >= y
  BY DEF Max
<1>2. m \in S /\ \A y \in S : m >= y
  OBVIOUS
<1>3. Max(S) \in S /\ \A y \in S : Max(S) >= y
  BY <1>1, <1>2
<1>4. Max(S) >= m /\ m >= Max(S) /\ Max(S) \in Int /\ m \in Int
  BY <1>2, <1>3
<1>5. QED
  BY <1>4

\* Max of a finite set is its greatest element.
LEMMA MaxOf ==
    ASSUME NEW S \in SUBSET Int, IsFiniteSet(S), S # {}
    PROVE  Max(S) \in S /\ \A k \in S : k <= Max(S)
<1>1. PICK m \in S : \A k \in S : k <= m
  BY Greatest
<1>2. Max(S) = m
  BY <1>1, MaxIs
<1>3. QED
  BY <1>1, <1>2

\* The element that exceeds no other is the least.
LEMMA MinIs ==
    ASSUME NEW S \in SUBSET Int, NEW m \in S, \A k \in S : m <= k
    PROVE  Min(S) = m
<1>1. Min(S) = CHOOSE x \in S : \A y \in S : x =< y
  BY DEF Min
<1>2. Min(S) \in S /\ \A y \in S : Min(S) <= y
  BY <1>1
<1>3. Min(S) <= m /\ m <= Min(S) /\ Min(S) \in Int /\ m \in Int
  BY <1>2
<1>4. QED
  BY <1>3

\* Min of a finite set is its least element.
LEMMA MinOf ==
    ASSUME NEW S \in SUBSET Int, IsFiniteSet(S), S # {}
    PROVE  Min(S) \in S /\ \A k \in S : Min(S) <= k
<1> DEFINE N == {i \in Int : -i \in S}
           f == [i \in N |-> -i]
<1>1. N \in SUBSET Int /\ N # {}
  <2>1. \A k \in S : -k \in Int /\ -(-k) = k
    OBVIOUS
  <2>2. QED
    BY <2>1
<1>2. IsFiniteSet(N)
  <2>1. f \in Injection(N, S)
    <3>1. f \in [N -> S]
      OBVIOUS
    <3>2. \A a, b \in N : f[a] = f[b] => a = b
      <4>1. SUFFICES ASSUME NEW a \in N, NEW b \in N, f[a] = f[b] PROVE a = b
        OBVIOUS
      <4>2. a \in Int /\ b \in Int /\ -a = -b
        BY <4>1
      <4>3. QED
        BY <4>2
    <3>3. QED
      BY <3>1, <3>2 DEF Injection, IsInjective
  <2>2. QED
    BY <2>1, FS_Injection
<1>3. PICK m \in N : \A k \in N : k <= m
  BY <1>1, <1>2, Greatest
<1>4. -m \in S /\ m \in Int
  OBVIOUS
<1>5. ASSUME NEW k \in S PROVE -m <= k
  <2>1. k \in Int /\ -k \in Int /\ -(-k) = k
    OBVIOUS
  <2>2. -k \in N
    BY <2>1
  <2>3. -k <= m
    BY <1>3, <2>2
  <2>4. QED
    BY <1>4, <2>1, <2>3
<1>6. Min(S) = -m
  BY <1>4, <1>5, MinIs
<1>7. QED
  BY <1>4, <1>5, <1>6

\* Of two.
LEMMA MinOfTwo ==
    ASSUME NEW a \in Int, NEW b \in Int
    PROVE  Min({a, b}) = IF a <= b THEN a ELSE b
<1>1. {a, b} \in SUBSET Int
  OBVIOUS
<1>2. CASE a <= b
  BY <1>1, <1>2, MinIs
<1>3. CASE ~(a <= b)
  <2>1. \A k \in {a, b} : b <= k
    BY <1>3
  <2>2. QED
    BY <1>1, <1>3, <2>1, MinIs
<1>4. QED
  BY <1>2, <1>3

\* The greater of two.
LEMMA MaxOfTwo ==
    ASSUME NEW a \in Int, NEW b \in Int
    PROVE  Max({a, b}) = IF a <= b THEN b ELSE a
<1>1. {a, b} \in SUBSET Int
  OBVIOUS
<1>2. CASE a <= b
  <2>1. \A k \in {a, b} : k <= b
    BY <1>2
  <2>2. QED
    BY <1>1, <1>2, <2>1, MaxIs
<1>3. CASE ~(a <= b)
  <2>1. \A k \in {a, b} : k <= a
    BY <1>3
  <2>2. QED
    BY <1>1, <1>3, <2>1, MaxIs
<1>4. QED
  BY <1>2, <1>3

-----------------------------------------------------------------------------
(* A set in order.                                                          *)

UpTo(S, d) == {e \in S : e <= d}

\* The elements up to a day are finitely many, at most as many as all.
LEMMA UpToFinite ==
    ASSUME NEW S \in SUBSET Int, IsFiniteSet(S), NEW d \in Int
    PROVE  /\ IsFiniteSet(UpTo(S, d)) /\ UpTo(S, d) \in SUBSET S
           /\ Cardinality(UpTo(S, d)) \in 0..Cardinality(S) /\ Cardinality(S) \in Nat
           /\ d \in S => Cardinality(UpTo(S, d)) # 0
<1>1. UpTo(S, d) \in SUBSET S
  BY DEF UpTo
<1>2. IsFiniteSet(UpTo(S, d)) /\ Cardinality(UpTo(S, d)) <= Cardinality(S)
  BY <1>1, FS_Subset
<1>3. Cardinality(UpTo(S, d)) \in Nat /\ Cardinality(S) \in Nat
  BY <1>2, FS_CardinalityType
<1>4. d \in S => UpTo(S, d) # {}
  BY DEF UpTo
<1>5. QED
  BY <1>1, <1>2, <1>3, <1>4, FS_EmptySet

\* A later element has more elements up to it.
LEMMA UpToGrows ==
    ASSUME NEW S \in SUBSET Int, IsFiniteSet(S), NEW d \in Int, NEW e \in S, d < e
    PROVE  Cardinality(UpTo(S, d)) < Cardinality(UpTo(S, e))
<1>1. UpTo(S, d) \in SUBSET UpTo(S, e) /\ e \in UpTo(S, e) /\ e \notin UpTo(S, d)
  <2>1. e \in Int /\ e <= e /\ ~(e <= d)
    OBVIOUS
  <2>2. \A x \in S : x \in Int
    OBVIOUS
  <2>3. \A x \in S : x <= d => x <= e
    BY <2>1, <2>2
  <2>4. QED
    BY <2>1, <2>3 DEF UpTo
<1>2. IsFiniteSet(UpTo(S, e)) /\ Cardinality(UpTo(S, e)) \in Nat /\ Cardinality(UpTo(S, d)) \in Nat
  BY UpToFinite
<1>3. /\ Cardinality(UpTo(S, d)) <= Cardinality(UpTo(S, e))
      /\ Cardinality(UpTo(S, e)) = Cardinality(UpTo(S, d)) => UpTo(S, e) = UpTo(S, d)
  BY <1>1, <1>2, FS_Subset
<1>4. QED
  BY <1>1, <1>2, <1>3

\* Every place is some element's.
LEMMA PlaceTaken ==
    ASSUME NEW S \in SUBSET Int, IsFiniteSet(S), NEW k \in 1..Cardinality(S)
    PROVE  \E d \in S : Cardinality(UpTo(S, d)) = k
<1> DEFINE Misses(U) == k <= Cardinality(U) /\ ~\E d \in U : Cardinality(UpTo(U, d)) = k
           T == {n \in Nat : \E U \in SUBSET S : Cardinality(U) = n /\ Misses(U)}
<1>1. SUFFICES ASSUME T # {} PROVE FALSE
  <2>1. Cardinality(S) \in Nat /\ S \in SUBSET S
    BY FS_CardinalityType
  <2>2. k <= Cardinality(S)
    BY <2>1
  <2>3. QED
    BY <1>1, <2>1, <2>2
<1>2. PICK n \in T : \A u \in T : n <= u
  <2>1. T \in SUBSET Nat
    OBVIOUS
  <2>2. QED
    BY <1>1, <2>1, LeastOf
<1>3. PICK U \in SUBSET S : Cardinality(U) = n /\ Misses(U)
  OBVIOUS
<1>4. U \in SUBSET Int /\ IsFiniteSet(U) /\ n \in Nat /\ k \in Nat /\ 1 <= k /\ k <= n
  <2>1. U \in SUBSET Int /\ IsFiniteSet(U)
    BY FS_Subset
  <2>2. n \in Nat
    OBVIOUS
  <2>3. k \in Nat /\ 1 <= k
    <3>1. Cardinality(S) \in Nat
      BY FS_CardinalityType
    <3>2. QED
      BY <3>1
  <2>4. QED
    BY <1>3, <2>1, <2>2, <2>3
<1>5. U # {}
  BY <1>3, <1>4, FS_EmptySet
<1>6. PICK m \in U : \A e \in U : e <= m
  BY <1>4, <1>5, Greatest
<1>7. UpTo(U, m) = U
  BY <1>6 DEF UpTo
<1>8. k # n
  BY <1>3, <1>6, <1>7
<1> DEFINE V == U \ {m}
<1>9. Cardinality(V) = n - 1 /\ IsFiniteSet(V) /\ V \in SUBSET S
  BY <1>3, <1>4, <1>6, FS_RemoveElement
<1>10. ~Misses(V)
  <2>1. n - 1 \in Nat /\ ~(n <= n - 1)
    BY <1>4
  <2>2. n - 1 \notin T
    BY <1>2, <2>1
  <2>3. QED
    BY <1>9, <2>1, <2>2
<1>11. PICK d \in V : Cardinality(UpTo(V, d)) = k
  BY <1>4, <1>8, <1>9, <1>10
<1>12. UpTo(U, d) = UpTo(V, d)
  <2>1. d <= m /\ d # m /\ d \in Int /\ m \in Int
    BY <1>4, <1>6, <1>11
  <2>2. ~(m <= d)
    BY <2>1
  <2>3. QED
    BY <2>2 DEF UpTo
<1>13. QED
  BY <1>3, <1>11, <1>12

\* The places of InOrder.
LEMMA InOrderPlaces ==
    ASSUME NEW S \in SUBSET Int, IsFiniteSet(S)
    PROVE  /\ Cardinality(S) \in Nat /\ InOrder(S) \in [1..Cardinality(S) -> S]
           /\ \A k \in 1..Cardinality(S) : Cardinality(UpTo(S, InOrder(S)[k])) = k
           /\ \A d \in S : /\ Cardinality(UpTo(S, d)) \in 1..Cardinality(S)
                           /\ InOrder(S)[Cardinality(UpTo(S, d))] = d
<1> DEFINE Nth(k) == CHOOSE d \in S : Cardinality({e \in S : e <= d}) = k
<1>1. Cardinality(S) \in Nat
  BY FS_CardinalityType
<1>2. InOrder(S) = [k \in 1..Cardinality(S) |-> Nth(k)]
  BY DEF InOrder
<1>3. ASSUME NEW k \in 1..Cardinality(S)
      PROVE  Nth(k) \in S /\ Cardinality(UpTo(S, Nth(k))) = k
  <2>1. PICK d \in S : Cardinality(UpTo(S, d)) = k
    BY PlaceTaken
  <2>2. Cardinality({e \in S : e <= d}) = k
    BY <2>1 DEF UpTo
  <2>3. Nth(k) \in S /\ Cardinality({e \in S : e <= Nth(k)}) = k
    BY <2>2
  <2> HIDE DEF Nth
  <2>4. QED
    BY <2>3 DEF UpTo
<1> HIDE DEF Nth
<1>4. ASSUME NEW d \in S
      PROVE  Cardinality(UpTo(S, d)) \in 1..Cardinality(S) /\ Nth(Cardinality(UpTo(S, d))) = d
  <2>1. PICK k : k = Cardinality(UpTo(S, d))
    OBVIOUS
  <2>2. k \in 1..Cardinality(S)
    BY <2>1, UpToFinite
  <2>3. Nth(k) \in S /\ Cardinality(UpTo(S, Nth(k))) = k
    BY <1>3, <2>2
  <2>4. PICK e : e = Nth(k)
    OBVIOUS
  <2>5. ~(e < d) /\ ~(d < e)
    <3>1. e \in S /\ e \in Int /\ d \in Int /\ Cardinality(UpTo(S, e)) = Cardinality(UpTo(S, d))
      BY <2>1, <2>3, <2>4
    <3>2. Cardinality(UpTo(S, e)) \in Nat
      BY <2>2, <2>3, <2>4
    <3>3. ASSUME e < d PROVE FALSE
      BY <3>1, <3>2, <3>3, UpToGrows
    <3>4. ASSUME d < e PROVE FALSE
      BY <3>1, <3>2, <3>4, UpToGrows
    <3>5. QED
      BY <3>3, <3>4
  <2>6. e = d
    <3>1. e \in Int /\ d \in Int
      BY <2>3, <2>4
    <3>2. QED
      BY <2>5, <3>1
  <2>7. QED
    BY <2>1, <2>2, <2>4, <2>6
<1>5. QED
  BY <1>1, <1>2, <1>3, <1>4

\* It is a sequence, and it increases.
LEMMA InOrderIncreases ==
    ASSUME NEW S \in SUBSET Int, IsFiniteSet(S)
    PROVE  /\ InOrder(S) \in Seq(S) /\ Len(InOrder(S)) = Cardinality(S)
           /\ DOMAIN InOrder(S) = 1..Cardinality(S)
           /\ \A i, j \in 1..Cardinality(S) : i < j => InOrder(S)[i] < InOrder(S)[j]
<1>1. Cardinality(S) \in Nat /\ InOrder(S) \in [1..Cardinality(S) -> S]
  BY InOrderPlaces
<1>2. InOrder(S) \in Seq(S) /\ Len(InOrder(S)) = Cardinality(S)
  BY <1>1
<1>3. ASSUME NEW i \in 1..Cardinality(S), NEW j \in 1..Cardinality(S), i < j
      PROVE  InOrder(S)[i] < InOrder(S)[j]
  <2>1. PICK d \in S : d = InOrder(S)[i]
    BY <1>1
  <2>2. PICK e \in S : e = InOrder(S)[j]
    BY <1>1
  <2>3. Cardinality(UpTo(S, d)) = i /\ Cardinality(UpTo(S, e)) = j
    BY <2>1, <2>2, InOrderPlaces
  <2>4. d # e
    BY <1>3, <2>3
  <2>5. ~(e < d)
    <3>1. ASSUME e < d PROVE FALSE
      <4>1. j < i
        BY <2>3, <3>1, UpToGrows
      <4>2. QED
        BY <1>3, <4>1
    <3>2. QED
      BY <3>1
  <2>6. QED
    BY <2>1, <2>2, <2>4, <2>5
<1>4. QED
  BY <1>1, <1>2, <1>3

\* The last one in order is the greatest.
LEMMA InOrderLast ==
    ASSUME NEW S \in SUBSET Int, IsFiniteSet(S), S # {}
    PROVE  /\ Cardinality(S) \in Nat \ {0} /\ InOrder(S) # <<>>
           /\ Last(InOrder(S)) = Max(S) /\ InOrder(S)[Cardinality(S)] = Max(S)
<1>1. Max(S) \in S /\ \A k \in S : k <= Max(S)
  BY MaxOf
<1>2. UpTo(S, Max(S)) = S
  BY <1>1 DEF UpTo
<1>3. InOrder(S)[Cardinality(S)] = Max(S) /\ Cardinality(S) \in Nat \ {0}
  <2>1. PICK m \in S : m = Max(S)
    BY <1>1
  <2>2. Cardinality(UpTo(S, m)) \in 1..Cardinality(S) /\ InOrder(S)[Cardinality(UpTo(S, m))] = m
    BY InOrderPlaces
  <2>3. Cardinality(S) \in Nat
    BY FS_CardinalityType
  <2>4. QED
    BY <1>2, <2>1, <2>2, <2>3
<1>4. Len(InOrder(S)) = Cardinality(S)
  BY InOrderIncreases
<1>5. QED
  BY <1>3, <1>4 DEF Last

\* What is up to a day is a prefix.
LEMMA InOrderPrefix ==
    ASSUME NEW S \in SUBSET Int, IsFiniteSet(S), NEW d \in Int
    PROVE  LET T == UpTo(S, d)
           IN  /\ Cardinality(T) \in 0..Cardinality(S)
               /\ \A k \in 1..Cardinality(T) : InOrder(T)[k] = InOrder(S)[k]
               /\ \A k \in 1..Cardinality(S) : InOrder(S)[k] <= d <=> k <= Cardinality(T)
<1> DEFINE T == UpTo(S, d)
<1>1. /\ IsFiniteSet(T) /\ T \in SUBSET S /\ T \in SUBSET Int
      /\ Cardinality(T) \in 0..Cardinality(S) /\ Cardinality(S) \in Nat
  BY UpToFinite
<1>2. ASSUME NEW e \in T
      PROVE  UpTo(T, e) = UpTo(S, e)
  <2>1. e \in Int /\ e <= d
    BY DEF UpTo
  <2>2. \A x \in S : x \in Int
    OBVIOUS
  <2>3. \A x \in S : x <= e => x <= d
    BY <2>1, <2>2
  <2>4. QED
    BY <2>3 DEF UpTo
<1>3. ASSUME NEW k \in 1..Cardinality(T)
      PROVE  InOrder(T)[k] = InOrder(S)[k] /\ InOrder(T)[k] \in T
  <2>1. PICK e \in T : e = InOrder(T)[k]
    BY <1>1, InOrderPlaces
  <2>2. Cardinality(UpTo(S, e)) = k
    BY <1>1, <1>2, <2>1, InOrderPlaces
  <2>3. InOrder(S)[k] = e
    BY <1>1, <2>2, InOrderPlaces
  <2>4. QED
    BY <2>1, <2>3
<1>4. ASSUME NEW k \in 1..Cardinality(S), k <= Cardinality(T)
      PROVE  InOrder(S)[k] <= d
  <2>1. InOrder(S)[k] \in T
    BY <1>1, <1>3, <1>4
  <2>2. QED
    BY <2>1 DEF UpTo
<1>5. ASSUME NEW k \in 1..Cardinality(S), InOrder(S)[k] <= d
      PROVE  k <= Cardinality(T)
  <2>1. PICK e \in S : e = InOrder(S)[k]
    BY InOrderPlaces
  <2>2. Cardinality(UpTo(S, e)) = k
    BY <2>1, InOrderPlaces
  <2>3. e \in T
    BY <1>5, <2>1 DEF UpTo
  <2>4. Cardinality(UpTo(T, e)) \in 1..Cardinality(T)
    BY <1>1, <2>3, InOrderPlaces
  <2>5. QED
    BY <1>1, <1>2, <2>2, <2>3, <2>4
<1>6. QED
  BY <1>1, <1>3, <1>4, <1>5

\* There is an n-th from the end.
LEMMA FromEndIn ==
    ASSUME NEW S \in SUBSET Int, IsFiniteSet(S), NEW n \in 1..Cardinality(S)
    PROVE  FromEnd(S, n) \in S /\ Cardinality({e \in S : e >= FromEnd(S, n)}) = n
<1>1. Cardinality(S) \in Nat
  BY FS_CardinalityType
<1>2. PICK d \in S : Cardinality(UpTo(S, d)) = Cardinality(S) - n + 1
  <2>1. Cardinality(S) - n + 1 \in 1..Cardinality(S)
    BY <1>1
  <2>2. QED
    BY <2>1, PlaceTaken
<1> DEFINE Lower == {e \in S : e < d}
           Upper == {e \in S : e >= d}
<1>3. UpTo(S, d) = Lower \cup {d} /\ d \notin Lower /\ S = Lower \cup Upper /\ Lower \cap Upper = {}
  <2>1. \A x \in S : x \in Int
    OBVIOUS
  <2>2. \A x \in S : /\ x <= d <=> (x < d \/ x = d)
                     /\ x >= d <=> ~(x < d)
    BY <2>1
  <2>3. QED
    BY <2>2 DEF UpTo
<1>4. IsFiniteSet(Lower) /\ IsFiniteSet(Upper)
  BY FS_Subset
<1>5. Cardinality(Lower) \in Nat /\ Cardinality(Upper) \in Nat
  BY <1>4, FS_CardinalityType
<1> HIDE DEF Lower, Upper
<1>6. Cardinality(UpTo(S, d)) = Cardinality(Lower) + 1
  BY <1>3, <1>4, FS_AddElement
<1>7. Cardinality(S) = Cardinality(Lower) + Cardinality(Upper)
  <2>1. Cardinality(Lower \cap Upper) = 0
    BY <1>3, FS_EmptySet
  <2>2. Cardinality(Lower \cup Upper) = Cardinality(Lower) + Cardinality(Upper) - Cardinality(Lower \cap Upper)
    BY <1>4, FS_Union
  <2>3. QED
    BY <1>3, <1>5, <2>1, <2>2
<1>8. Cardinality(Upper) = n
  BY <1>1, <1>2, <1>5, <1>6, <1>7
<1>9. QED
  BY <1>8 DEF Upper, FromEnd

\* There are n last days.
LEMMA LastDaysCount ==
    ASSUME NEW S \in SUBSET Int, IsFiniteSet(S), NEW n \in 1..Cardinality(S)
    PROVE  LastDays(S, n) \in SUBSET S /\ IsFiniteSet(LastDays(S, n)) /\ Cardinality(LastDays(S, n)) = n
<1> DEFINE From(d) == {e \in S : e >= d}
<1>1. PICK f \in S : Cardinality(From(f)) = n
  BY FromEndIn
<1>2. \A d \in S : IsFiniteSet(From(d)) /\ From(d) \in SUBSET S /\ Cardinality(From(d)) \in Nat
  BY FS_Subset, FS_CardinalityType
<1>3. n \in Nat
  BY <1>1, <1>2
<1>4. ASSUME NEW d \in S, d >= f PROVE Cardinality(From(d)) <= n
  <2>1. \A e \in S : e >= d => e >= f
    BY <1>4
  <2>2. From(d) \in SUBSET From(f)
    BY <2>1
  <2> HIDE DEF From
  <2>3. QED
    BY <1>1, <1>2, <2>2, FS_Subset
<1>5. ASSUME NEW d \in S, ~(d >= f) PROVE ~(Cardinality(From(d)) <= n)
  <2>1. d \in Int /\ f \in Int
    OBVIOUS
  <2>2. \A e \in S : e >= f => e >= d
    BY <1>5, <2>1
  <2>3. From(f) \in SUBSET From(d) /\ d \in From(d) /\ d \notin From(f)
    <3>1. d >= d
      BY <2>1
    <3>2. QED
      BY <1>5, <2>2, <3>1
  <2> HIDE DEF From
  <2>4. Cardinality(From(f)) <= Cardinality(From(d)) /\ Cardinality(From(d)) # Cardinality(From(f))
    BY <1>2, <2>3, FS_Subset
  <2>5. QED
    BY <1>1, <1>2, <1>3, <2>4
<1>6. LastDays(S, n) = From(f)
  BY <1>4, <1>5 DEF LastDays
<1>7. QED
  BY <1>1, <1>2, <1>6

-----------------------------------------------------------------------------
(* Prices.                                                                  *)

\* What is cut at a day is a history, and to cut it again changes nothing.
LEMMA CutIsHistory ==
    ASSUME NEW bars, IsHistory(bars), NEW day \in Int
    PROVE  /\ IsHistory(CutAt(bars, day)) /\ DOMAIN CutAt(bars, day) = UpTo(DOMAIN bars, day)
           /\ \A d \in UpTo(DOMAIN bars, day) : CutAt(bars, day)[d] = bars[d]
<1>1. CutAt(bars, day) = [d \in UpTo(DOMAIN bars, day) |-> bars[d]]
  BY DEF CutAt, Restrict, UpTo
<1>2. IsFiniteSet(UpTo(DOMAIN bars, day)) /\ UpTo(DOMAIN bars, day) \subseteq DOMAIN bars
  <2>1. DOMAIN bars \in SUBSET Int /\ IsFiniteSet(DOMAIN bars)
    BY DEF IsHistory
  <2>2. QED
    BY <2>1, UpToFinite
<1>3. QED
  BY <1>1, <1>2 DEF IsHistory

\* Cut at a later day first, a history is the same once cut.
LEMMA CutTwice ==
    ASSUME NEW bars, IsHistory(bars), NEW day \in Int, NEW later \in Int, day <= later
    PROVE  CutAt(CutAt(bars, later), day) = CutAt(bars, day)
<1>1. \A e \in DOMAIN bars : e <= day => e <= later
  BY DEF IsHistory
<1>2. UpTo(UpTo(DOMAIN bars, later), day) = UpTo(DOMAIN bars, day)
  BY <1>1 DEF UpTo
<1>3. PICK cut : cut = CutAt(bars, later)
  OBVIOUS
<1>4. /\ DOMAIN cut = UpTo(DOMAIN bars, later)
      /\ \A d \in UpTo(DOMAIN bars, day) : cut[d] = bars[d]
  <2>1. UpTo(DOMAIN bars, day) \subseteq UpTo(DOMAIN bars, later)
    BY <1>1 DEF UpTo
  <2>2. QED
    BY <1>3, <2>1, CutIsHistory
<1>5. CutAt(cut, day) = [d \in UpTo(DOMAIN cut, day) |-> cut[d]]
  BY DEF CutAt, Restrict, UpTo
<1>6. CutAt(bars, day) = [d \in UpTo(DOMAIN bars, day) |-> bars[d]]
  BY DEF CutAt, Restrict, UpTo
<1>7. QED
  BY <1>2, <1>3, <1>4, <1>5, <1>6

\* A day that is no later than any of them cuts nothing.
LEMMA CutNothing ==
    ASSUME NEW bars, IsHistory(bars), NEW day \in Int, \A d \in DOMAIN bars : d <= day
    PROVE  CutAt(bars, day) = bars
BY DEF CutAt, Restrict, IsHistory

\* Cut is the cut of each history.
LEMMA CutInput ==
    ASSUME NEW input, NEW day, NEW x \in DOMAIN input
    PROVE  DOMAIN Cut(input, day) = DOMAIN input /\ Cut(input, day)[x] = CutAt(input[x], day)
BY DEF Cut

\* The price snapshot has seen no bar dated after it.
LEMMA PricesOfTheirDay ==
    ASSUME NEW input, PriceInput(input), ~PriceRaises(input)
    PROVE  LET s == PriceSnapshot(input) IN s = PriceSnapshot(Cut(input, s.asOf))
<1> DEFINE D == DOMAIN input[Benchmark]
           asOf == Max(D)
           series == [i \in PriceInstruments |-> CutAt(input[i], asOf)]
           cut == Cut(input, asOf)
<1>1. /\ Benchmark \in PriceInstruments /\ PriceInstruments \subseteq DOMAIN input
      /\ \A i \in PriceInstruments : IsHistory(input[i])
  BY DEF PriceInput, PriceInstruments
<1>2. D \in SUBSET Int /\ IsFiniteSet(D) /\ D # {}
  BY <1>1 DEF PriceRaises, IsHistory
<1>3. asOf \in Int /\ \A d \in D : d <= asOf
  BY <1>2, MaxOf
<1>4. PriceSnapshot(input) = PriceMetrics(series, asOf)
  BY DEF PriceSnapshot
<1>5. PriceSnapshot(input).asOf = asOf
  BY <1>4 DEF PriceMetrics
<1> HIDE DEF asOf
<1>6. \A i \in PriceInstruments : cut[i] = CutAt(input[i], asOf)
  BY <1>1, CutInput
<1>7. cut[Benchmark] = input[Benchmark]
  BY <1>1, <1>3, <1>6, CutNothing
<1>8. \A i \in PriceInstruments : CutAt(cut[i], asOf) = CutAt(input[i], asOf)
  <2>1. asOf <= asOf
    BY <1>3
  <2>2. QED
    BY <1>1, <1>3, <1>6, <2>1, CutTwice
<1>9. PriceSnapshot(cut) = PriceMetrics([i \in PriceInstruments |-> CutAt(cut[i], asOf)], asOf)
  BY <1>7 DEF PriceSnapshot, asOf
<1>10. [i \in PriceInstruments |-> CutAt(cut[i], asOf)] = series
  BY <1>8
<1>11. QED
  BY <1>4, <1>5, <1>9, <1>10

\* A metric whose requirement is known.
MetricOf(m, required) ==
    /\ WellFormedMetric(m) /\ m.required = required
    /\ m.observations \in Nat /\ m.value \in BarsUsed \cup {Absent}

\* It is well formed when the bars it reads are there as soon as it has enough.
LEMMA MetricIsWellFormed ==
    ASSUME NEW bars, IsHistory(bars), NEW asOf, NEW required \in Nat \ {0}, NEW used,
           Cardinality(DOMAIN bars) >= required => used \subseteq DOMAIN bars
    PROVE  MetricOf(MetricFromSeries(bars, asOf, required, used), required)
<1> DEFINE n == Cardinality(DOMAIN bars)
           value == [bars |-> {<<d, bars[d]>> : d \in used}]
<1>1. n \in Nat
  BY FS_CardinalityType DEF IsHistory
<1>2. n >= required => value \in BarsUsed /\ value # Absent
  <2>1. SUFFICES ASSUME n >= required PROVE value \in BarsUsed /\ value # Absent
    OBVIOUS
  <2>2. \A d \in used : <<d, bars[d]>> \in Nat \X Int
    BY <2>1 DEF IsHistory
  <2>3. value \in BarsUsed
    BY <2>2 DEF BarsUsed
  <2>4. QED
    BY <2>3, MetricsAssumption
<1> HIDE DEF n, value
<1>3. MetricFromSeries(bars, asOf, required, used) =
          IF asOf \notin DOMAIN bars \/ \E d \in DOMAIN bars : d > asOf
          THEN Value("unavailable", Absent, n, required)
          ELSE IF n < required THEN Value("insufficient_history", Absent, n, required)
          ELSE Value("complete", value, n, required)
  BY DEF MetricFromSeries, n, value
<1>4. \A v \in {"unavailable", "insufficient_history"} : MetricOf(Value(v, Absent, n, required), required)
  BY <1>1 DEF MetricOf, Value, WellFormedMetric
<1>5. n >= required => MetricOf(Value("complete", value, n, required), required)
  BY <1>1, <1>2 DEF MetricOf, Value, WellFormedMetric
<1>6. ~(n < required) => n >= required
  BY <1>1
<1>7. QED
  BY <1>3, <1>4, <1>5, <1>6

\* Between two metrics of the same requirement.
LEMMA DifferenceIsWellFormed ==
    ASSUME NEW left, NEW right, NEW required \in Nat \ {0}, MetricOf(left, required), MetricOf(right, required)
    PROVE  WellFormedMetric(Difference(left, right))
<1> DEFINE pair == {left.validity, right.validity}
           validity == IF "unavailable" \in pair THEN "unavailable"
                       ELSE IF pair = {"complete"} THEN "complete" ELSE "insufficient_history"
           value == IF validity = "complete" THEN <<left.value, right.value>> ELSE Absent
           n == Min({left.observations, right.observations})
           r == Max({left.required, right.required})
<1>1. n \in Nat /\ n \in {left.observations, right.observations} /\ r = required
  BY MinOfTwo, MaxOfTwo DEF MetricOf
<1>2. validity \in {"complete", "insufficient_history", "unavailable"}
  OBVIOUS
<1>3. validity = "complete" => left.validity = "complete" /\ right.validity = "complete"
  OBVIOUS
<1>4. validity = "complete" => n >= required
  BY <1>1, <1>3 DEF MetricOf, WellFormedMetric
<1>5. (validity = "complete") <=> (value # Absent)
  <2>1. CASE validity = "complete"
    <3>1. left.value \in BarsUsed /\ right.value \in BarsUsed
      BY <1>3, <2>1 DEF MetricOf, WellFormedMetric
    <3>2. <<left.value, right.value>> \in BarsUsed \X BarsUsed
      BY <3>1
    <3>3. QED
      BY <2>1, <3>2, MetricsAssumption
  <2>2. CASE validity # "complete"
    BY <2>2
  <2>3. QED
    BY <2>1, <2>2
<1>6. Difference(left, right) = Value(validity, value, n, r)
  BY DEF Difference
<1> HIDE DEF validity, value, n, r
<1>7. QED
  BY <1>1, <1>2, <1>4, <1>5, <1>6 DEF WellFormedMetric, Value

\* Each of them, of a series that is a history.
LEMMA SeriesMetrics ==
    ASSUME NEW bars, IsHistory(bars), NEW asOf
    PROVE  /\ \A periods \in {Periods.short, Periods.long} :
                  MetricOf(TotalReturn(bars, periods, asOf), periods + 1)
           /\ MetricOf(DistanceToAverage(bars, Periods.long, asOf), Periods.long)
           /\ MetricOf(Momentum(bars, asOf), Periods.long + 1)
           /\ MetricOf(RealizedVolatility(bars, asOf), Periods.short + 1)
           /\ MetricOf(MaxDrawdown(bars, asOf), Periods.long)
           /\ MetricOf(AtrRatio(bars, asOf), Periods.short + 1)
<1>1. DOMAIN bars \in SUBSET Int /\ IsFiniteSet(DOMAIN bars) /\ Cardinality(DOMAIN bars) \in Nat
  BY FS_CardinalityType DEF IsHistory
<1>2. /\ Periods.short \in Nat /\ Periods.long \in Nat /\ Periods.skip \in Nat
      /\ 2 <= Periods.short /\ 2 <= Periods.long /\ Periods.skip <= Periods.long
  BY MetricsAssumption
<1>3. ASSUME NEW required \in Nat, NEW newest \in 1..required, Cardinality(DOMAIN bars) >= required
      PROVE  EndDays(bars, newest, required) \subseteq DOMAIN bars
  <2>1. newest \in 1..Cardinality(DOMAIN bars) /\ required \in 1..Cardinality(DOMAIN bars)
    BY <1>1, <1>3
  <2>2. QED
    BY <1>1, <2>1, FromEndIn DEF EndDays
<1>4. \A n : LastDays(DOMAIN bars, n) \subseteq DOMAIN bars
  BY DEF LastDays
<1>5. ASSUME NEW periods \in {Periods.short, Periods.long}
      PROVE  MetricOf(TotalReturn(bars, periods, asOf), periods + 1)
  <2>1. periods + 1 \in Nat \ {0} /\ 1 \in 1..(periods + 1)
    BY <1>2
  <2>2. QED
    BY <1>3, <2>1, MetricIsWellFormed DEF TotalReturn
<1>6. MetricOf(Momentum(bars, asOf), Periods.long + 1)
  <2>1. Periods.long + 1 \in Nat \ {0} /\ Periods.skip + 1 \in 1..(Periods.long + 1)
    BY <1>2
  <2>2. QED
    BY <1>3, <2>1, MetricIsWellFormed DEF Momentum
<1>7. Periods.long \in Nat \ {0} /\ Periods.short + 1 \in Nat \ {0}
  BY <1>2
<1>8. /\ MetricOf(DistanceToAverage(bars, Periods.long, asOf), Periods.long)
      /\ MetricOf(MaxDrawdown(bars, asOf), Periods.long)
  BY <1>4, <1>7, MetricIsWellFormed DEF DistanceToAverage, MaxDrawdown
<1>9. /\ MetricOf(RealizedVolatility(bars, asOf), Periods.short + 1)
      /\ MetricOf(AtrRatio(bars, asOf), Periods.short + 1)
  BY <1>4, <1>7, MetricIsWellFormed DEF RealizedVolatility, AtrRatio
<1>10. QED
  BY <1>5, <1>6, <1>8, <1>9

\* A price snapshot is one its record accepts.
LEMMA PricesReadable ==
    ASSUME NEW input, PriceInput(input), ~PriceRaises(input)
    PROVE  WellFormedPrices(PriceSnapshot(input))
<1> DEFINE asOf == Max(DOMAIN input[Benchmark])
           cut == [i \in PriceInstruments |-> CutAt(input[i], asOf)]
<1>1. /\ Benchmark \in PriceInstruments /\ EqualWeight \in PriceInstruments
      /\ \A s \in DOMAIN SectorEtf : SectorEtf[s] \in PriceInstruments
      /\ \A i \in DOMAIN SectorOf : i \in PriceInstruments /\ SectorEtf[SectorOf[i]] \in PriceInstruments
  BY MetricsAssumption DEF PriceInstruments, Range
<1>2. IsFiniteSet(PriceInstruments)
  <2>1. IsFiniteSet(Range(SectorEtf))
    <3>1. [s \in DOMAIN SectorEtf |-> SectorEtf[s]] \in Surjection(DOMAIN SectorEtf, Range(SectorEtf))
      BY DEF Surjection, Range
    <3>2. QED
      BY <3>1, FS_Surjection, MetricsAssumption
  <2>2. IsFiniteSet({Benchmark, EqualWeight})
    <3>1. {Benchmark, EqualWeight} = {Benchmark} \cup {EqualWeight}
      OBVIOUS
    <3>2. IsFiniteSet({Benchmark}) /\ IsFiniteSet({EqualWeight})
      BY FS_Singleton
    <3>3. IsFiniteSet({Benchmark} \cup {EqualWeight})
      BY <3>2, FS_Union
    <3>4. QED
      BY <3>1, <3>3
  <2>3. QED
    BY <2>1, <2>2, FS_Union, MetricsAssumption DEF PriceInstruments
<1>3. asOf \in Int
  <2>1. DOMAIN input[Benchmark] \in SUBSET Int /\ IsFiniteSet(DOMAIN input[Benchmark])
    BY <1>1 DEF PriceInput, IsHistory
  <2>2. QED
    BY <2>1, MaxOf DEF PriceRaises
<1> HIDE DEF asOf
<1>4. PICK series : series = cut
  OBVIOUS
<1>5. \A i \in PriceInstruments : IsHistory(series[i])
  BY <1>3, <1>4, CutIsHistory DEF PriceInput
<1>6. PriceSnapshot(input) = PriceMetrics(series, asOf)
  BY <1>4 DEF PriceSnapshot, asOf
<1> HIDE DEF cut
<1>7. PICK m : m = PriceMetrics(series, asOf)
  OBVIOUS
<1> DEFINE return(i, periods) == TotalReturn(series[i], periods, asOf)
           relative(i, periods) == Difference(return(i, periods), return(Benchmark, periods))
           stock(i) ==
               [momentum |-> Momentum(series[i], asOf),
                relative_momentum |-> Difference(Momentum(series[i], asOf),
                                          Momentum(series[SectorEtf[SectorOf[i]]], asOf)),
                distance |-> DistanceToAverage(series[i], Periods.long, asOf),
                volatility |-> RealizedVolatility(series[i], asOf),
                drawdown |-> MaxDrawdown(series[i], asOf),
                atr |-> AtrRatio(series[i], asOf)]
           observed == {i \in PriceInstruments : asOf \in DOMAIN series[i]}
<1>8. /\ m.coverage = Coverage(Cardinality(PriceInstruments), Cardinality(observed))
      /\ m.market = [spy |-> return(Benchmark, Periods.short),
                     distance |-> DistanceToAverage(series[Benchmark], Periods.long, asOf),
                     rsp |-> relative(EqualWeight, Periods.short)]
      /\ m.sectors = [s \in DOMAIN SectorEtf |->
                        [short |-> relative(SectorEtf[s], Periods.short),
                         long |-> relative(SectorEtf[s], Periods.long)]]
      /\ m.stocks = [i \in DOMAIN SectorOf |-> stock(i)]
  BY <1>7 DEF PriceMetrics
<1>9. ASSUME NEW i \in PriceInstruments, NEW periods \in {Periods.short, Periods.long}
      PROVE  WellFormedMetric(return(i, periods)) /\ WellFormedMetric(relative(i, periods))
  <2>1. periods + 1 \in Nat \ {0}
    BY MetricsAssumption
  <2>2. MetricOf(return(i, periods), periods + 1) /\ MetricOf(return(Benchmark, periods), periods + 1)
    BY <1>1, <1>5, SeriesMetrics
  <2> HIDE DEF return
  <2>3. QED
    BY <2>1, <2>2, DifferenceIsWellFormed DEF MetricOf
<1>10. ASSUME NEW i \in DOMAIN SectorOf, NEW name \in DOMAIN stock(i)
       PROVE  WellFormedMetric(stock(i)[name])
  <2>1. i \in PriceInstruments /\ SectorEtf[SectorOf[i]] \in PriceInstruments
    BY <1>1
  <2>2. Periods.long + 1 \in Nat \ {0}
    BY MetricsAssumption
  <2>3. WellFormedMetric(Difference(Momentum(series[i], asOf), Momentum(series[SectorEtf[SectorOf[i]]], asOf)))
    BY <1>5, <2>1, <2>2, SeriesMetrics, DifferenceIsWellFormed
  <2>4. /\ WellFormedMetric(Momentum(series[i], asOf))
        /\ WellFormedMetric(DistanceToAverage(series[i], Periods.long, asOf))
        /\ WellFormedMetric(RealizedVolatility(series[i], asOf))
        /\ WellFormedMetric(MaxDrawdown(series[i], asOf))
        /\ WellFormedMetric(AtrRatio(series[i], asOf))
    BY <1>5, <2>1, SeriesMetrics DEF MetricOf
  <2>5. QED
    BY <2>3, <2>4
<1>11. WellFormedCoverage(m.coverage)
  <2>1. /\ IsFiniteSet(observed) /\ Cardinality(observed) <= Cardinality(PriceInstruments)
        /\ Cardinality(observed) \in Nat /\ Cardinality(PriceInstruments) \in Nat
    BY <1>2, FS_Subset, FS_CardinalityType
  <2>2. Cardinality(PriceInstruments) # 0
    BY <1>1, <1>2, FS_EmptySet
  <2> HIDE DEF observed
  <2>3. QED
    BY <1>8, <2>1, <2>2 DEF WellFormedCoverage, Coverage
<1>12. \A name \in DOMAIN m.market : WellFormedMetric(m.market[name])
  <2>1. /\ WellFormedMetric(return(Benchmark, Periods.short))
        /\ WellFormedMetric(relative(EqualWeight, Periods.short))
    BY <1>1, <1>9
  <2>2. WellFormedMetric(DistanceToAverage(series[Benchmark], Periods.long, asOf))
    BY <1>1, <1>5, SeriesMetrics DEF MetricOf
  <2> HIDE DEF return, relative
  <2>3. QED
    BY <1>8, <2>1, <2>2
<1>13. \A x \in DOMAIN m.sectors, name \in {"short", "long"} : WellFormedMetric(m.sectors[x][name])
  <2>1. \A s \in DOMAIN SectorEtf : /\ WellFormedMetric(relative(SectorEtf[s], Periods.short))
                                   /\ WellFormedMetric(relative(SectorEtf[s], Periods.long))
    BY <1>1, <1>9
  <2> HIDE DEF relative
  <2>2. QED
    BY <1>8, <2>1
<1>14. \A i \in DOMAIN m.stocks : \A name \in DOMAIN m.stocks[i] : WellFormedMetric(m.stocks[i][name])
  <2> HIDE DEF stock
  <2>1. QED
    BY <1>8, <1>10
<1>15. QED
  BY <1>6, <1>7, <1>11, <1>12, <1>13, <1>14 DEF WellFormedPrices

-----------------------------------------------------------------------------
(* Breadth.                                                                 *)

\* Neither the days of a series, nor its last bars, see what is cut.
LEMMA SeriesOfTheirDay ==
    ASSUME NEW bars, NEW cut, NEW day \in Int, \A m \in DOMAIN bars : IsHistory(bars[m]),
           DOMAIN cut = DOMAIN bars, \A m \in DOMAIN bars : cut[m] = CutAt(bars[m], day)
    PROVE  /\ \A m \in DOMAIN bars : SeriesDays(cut[m], day) = SeriesDays(bars[m], day)
           /\ \A required : /\ Held(cut, day, required) = Held(bars, day, required)
                            /\ Above(cut, day, required) = Above(bars, day, required)
                            /\ HighLow(cut, day, required) = HighLow(bars, day, required)
<1>1. \A m \in DOMAIN bars : SeriesDays(cut[m], day) = SeriesDays(bars[m], day)
  BY CutIsHistory DEF SeriesDays, UpTo
<1>2. ASSUME NEW required PROVE Held(cut, day, required) = Held(bars, day, required)
  BY <1>1 DEF Held
<1>3. ASSUME NEW required, NEW m \in DOMAIN bars
      PROVE  CurrentSeries(cut[m], day, required) = CurrentSeries(bars[m], day, required)
  <2>1. LastDays(SeriesDays(bars[m], day), required) \subseteq UpTo(DOMAIN bars[m], day)
    BY DEF LastDays, SeriesDays, UpTo
  <2>2. \A d \in UpTo(DOMAIN bars[m], day) : cut[m][d] = bars[m][d]
    BY CutIsHistory
  <2>3. QED
    BY <1>1, <2>1, <2>2 DEF CurrentSeries, Restrict
<1>4. ASSUME NEW required
      PROVE  /\ Above(cut, day, required) = Above(bars, day, required)
             /\ HighLow(cut, day, required) = HighLow(bars, day, required)
  <2>1. Held(bars, day, required) \subseteq DOMAIN bars
    BY DEF Held
  <2>2. QED
    BY <1>2, <1>3, <2>1 DEF Above, HighLow
<1>5. QED
  BY <1>1, <1>2, <1>4

\* Nor do the moves of the members between dates that have come.
LEMMA MovesOfTheirDay ==
    ASSUME NEW bars, NEW cut, NEW day \in Int, \A m \in DOMAIN bars : IsHistory(bars[m]),
           DOMAIN cut = DOMAIN bars, \A m \in DOMAIN bars : cut[m] = CutAt(bars[m], day),
           NEW dates, \A d \in ToSet(dates) : d <= day
    PROVE  /\ Moving(cut, dates) = Moving(bars, dates)
           /\ \A k : k \in DOMAIN dates /\ k - 1 \in DOMAIN dates => Moves(cut, dates, k) = Moves(bars, dates, k)
<1>1. \A m \in DOMAIN bars : ToSet(dates) \subseteq DOMAIN cut[m] <=> ToSet(dates) \subseteq DOMAIN bars[m]
  <2>1. \A m \in DOMAIN bars : DOMAIN cut[m] = UpTo(DOMAIN bars[m], day)
    BY CutIsHistory
  <2>2. QED
    BY <2>1 DEF UpTo
<1>2. Moving(cut, dates) = Moving(bars, dates)
  BY <1>1 DEF Moving
<1>3. ASSUME NEW m \in Moving(bars, dates), NEW k \in DOMAIN dates PROVE cut[m][dates[k]] = bars[m][dates[k]]
  <2>1. m \in DOMAIN bars /\ dates[k] \in ToSet(dates) /\ dates[k] \in DOMAIN bars[m]
    BY DEF Moving, ToSet
  <2>2. dates[k] \in UpTo(DOMAIN bars[m], day)
    BY <2>1 DEF UpTo
  <2>3. QED
    BY <2>1, <2>2, CutIsHistory
<1>4. QED
  BY <1>2, <1>3 DEF Moves

\* The dates the moves are read at are days of the benchmark, one more than the moves.
LEMMA AdvanceDates ==
    ASSUME NEW days \in SUBSET Nat, IsFiniteSet(days), NEW need \in Nat \ {0},
           NEW dates, dates = IF Cardinality(days) >= need THEN InOrder(LastDays(days, need)) ELSE <<>>
    PROVE  /\ ToSet(dates) \subseteq days
           /\ dates # <<>> => DOMAIN dates = 1..need
<1>1. CASE Cardinality(days) >= need
  <2>1. Cardinality(days) \in Nat /\ days \in SUBSET Int /\ need \in 1..Cardinality(days)
    BY <1>1, FS_CardinalityType
  <2>2. PICK last : last = LastDays(days, need)
    OBVIOUS
  <2>3. last \in SUBSET days /\ IsFiniteSet(last) /\ Cardinality(last) = need
    BY <2>1, <2>2, LastDaysCount
  <2>4. InOrder(last) \in [1..need -> last]
    BY <2>3, InOrderPlaces
  <2>5. dates = InOrder(last)
    BY <1>1, <2>2
  <2>6. QED
    BY <2>3, <2>4, <2>5 DEF ToSet
<1>2. CASE ~(Cardinality(days) >= need)
  BY <1>2 DEF ToSet
<1>3. QED
  BY <1>1, <1>2

\* The breadth snapshot has seen no bar dated after it.
LEMMA BreadthOfTheirDay ==
    ASSUME NEW input, BreadthInput(input), ~BreadthRaises(input)
    PROVE  LET s == BreadthSnapshot(input) IN s = BreadthSnapshot(CutBreadth(input, s.asOf))
<1>1. PICK asOf : asOf = Max(input.benchmark)
  OBVIOUS
<1>2. /\ input.benchmark \in SUBSET Int /\ IsFiniteSet(input.benchmark) /\ input.benchmark # {}
      /\ DOMAIN input = {"benchmark", "members", "bars"}
      /\ \A m \in DOMAIN input.bars : IsHistory(input.bars[m])
  BY DEF BreadthInput, BreadthRaises
<1>3. asOf \in Int /\ \A d \in input.benchmark : d <= asOf
  BY <1>1, <1>2, MaxOf
<1>4. BreadthSnapshot(input).asOf = asOf
  BY <1>1 DEF BreadthSnapshot
<1>5. PICK cut : cut = CutBreadth(input, asOf)
  OBVIOUS
<1>6. /\ cut.benchmark = input.benchmark /\ cut.members = input.members
      /\ cut.bars = Cut(input.bars, asOf)
  BY <1>2, <1>3, <1>5 DEF CutBreadth
<1>7. DOMAIN cut.bars = DOMAIN input.bars /\ \A m \in DOMAIN input.bars : cut.bars[m] = CutAt(input.bars[m], asOf)
  BY <1>6, CutInput DEF Cut
<1>8. \A required : /\ Above(cut.bars, asOf, required) = Above(input.bars, asOf, required)
                    /\ HighLow(cut.bars, asOf, required) = HighLow(input.bars, asOf, required)
  BY <1>2, <1>3, <1>7, SeriesOfTheirDay
<1> DEFINE need == Periods.short + 1
           at == IF Cardinality(input.benchmark) >= need THEN InOrder(LastDays(input.benchmark, need)) ELSE <<>>
<1>9. PICK dates : dates = at
  OBVIOUS
<1>10. need \in Nat \ {0} /\ Periods.short \in Nat
  BY MetricsAssumption
<1>11. ToSet(dates) \subseteq input.benchmark /\ (dates # <<>> => DOMAIN dates = 1..need)
  BY <1>2, <1>9, <1>10, AdvanceDates DEF BreadthInput
<1>12. /\ Moving(cut.bars, dates) = Moving(input.bars, dates)
       /\ \A k : k \in DOMAIN dates /\ k - 1 \in DOMAIN dates => Moves(cut.bars, dates, k) = Moves(input.bars, dates, k)
  <2>1. \A d \in ToSet(dates) : d <= asOf
    BY <1>3, <1>11
  <2>2. QED
    BY <1>2, <1>3, <1>7, <2>1, MovesOfTheirDay
<1>13. ASSUME NEW k \in 1..Periods.short PROVE Moves(cut.bars, dates, k + 1) = Moves(input.bars, dates, k + 1)
  <2>1. CASE dates = <<>>
    BY <1>7, <2>1 DEF Moves, Moving
  <2>2. CASE dates # <<>>
    <3>1. k + 1 \in 1..need /\ k + 1 - 1 \in 1..need
      BY <1>10
    <3>2. QED
      BY <1>11, <1>12, <2>2, <3>1
  <2>3. QED
    BY <2>1, <2>2
<1>14. [k \in 1..Periods.short |-> Balance(Moves(cut.bars, dates, k + 1))] =
       [k \in 1..Periods.short |-> Balance(Moves(input.bars, dates, k + 1))]
  BY <1>13
<1> DEFINE of(bars, daily, moving) ==
               LET eligible == Cardinality(DOMAIN bars)
                   result(scores, required) ==
                       BreadthResult(Mean(scores), eligible, Cardinality(DOMAIN scores), required)
               IN [asOf |-> asOf, members |-> input.members,
                   b50 |-> result(Above(bars, asOf, Periods.short), Periods.short),
                   b200 |-> result(Above(bars, asOf, Periods.long), Periods.long),
                   nhnl |-> result(HighLow(bars, asOf, Periods.year), Periods.year),
                   ad10 |-> BreadthResult(IF moving = 0 THEN Absent ELSE Ema(daily, Periods.short, moving),
                                          eligible, moving, need)]
           days(bars) == [k \in 1..Periods.short |-> Balance(Moves(bars, dates, k + 1))]
           count(bars) == Cardinality(Moving(bars, dates))
<1>15. BreadthSnapshot(input) = of(input.bars, days(input.bars), count(input.bars))
  BY <1>1, <1>9 DEF BreadthSnapshot
<1>16. BreadthSnapshot(cut) = of(cut.bars, days(cut.bars), count(cut.bars))
  BY <1>1, <1>6, <1>9 DEF BreadthSnapshot
<1>17. days(cut.bars) = days(input.bars) /\ count(cut.bars) = count(input.bars)
  BY <1>12, <1>14
<1> HIDE DEF days, count
<1>18. of(cut.bars, days(cut.bars), count(cut.bars)) = of(input.bars, days(input.bars), count(input.bars))
  BY <1>7, <1>8, <1>17
<1>19. QED
  BY <1>4, <1>5, <1>15, <1>16, <1>18

\* A balance is at most the number it is taken of.
LEMMA BalanceIsBounded ==
    ASSUME NEW scores, IsFiniteSet(DOMAIN scores)
    PROVE  /\ Cardinality(DOMAIN scores) \in Nat /\ Balance(scores) \in Int
           /\ -Cardinality(DOMAIN scores) <= Balance(scores) /\ Balance(scores) <= Cardinality(DOMAIN scores)
<1> DEFINE Up == {m \in DOMAIN scores : scores[m] = 1}
           Down == {m \in DOMAIN scores : scores[m] = -1}
<1>1. /\ Cardinality(Up) \in Nat /\ Cardinality(Up) <= Cardinality(DOMAIN scores)
      /\ Cardinality(Down) \in Nat /\ Cardinality(Down) <= Cardinality(DOMAIN scores)
      /\ Cardinality(DOMAIN scores) \in Nat
  BY FS_Subset, FS_CardinalityType
<1>2. Balance(scores) = Cardinality(Up) - Cardinality(Down)
  BY DEF Balance
<1>3. QED
  BY <1>1, <1>2

\* A fraction within one.
Share(value) == value \in Int \X Int /\ value[2] > 0 /\ -value[2] <= value[1] /\ value[1] <= value[2]

\* A breadth result with a share as its value is accepted by its record.
LEMMA ResultIsWellFormed ==
    ASSUME NEW eligible \in Nat \ {0}, NEW observed \in 0..eligible, NEW required \in Nat, required >= 2,
           NEW value, observed # 0 => Share(value)
    PROVE  /\ WellFormedBreadthMetric(BreadthResult(value, eligible, observed, required))
           /\ BreadthResult(value, eligible, observed, required).coverage.eligible = eligible
<1> DEFINE validity == BreadthValidity(observed, eligible)
           kept == IF validity = "insufficient_coverage" THEN Absent ELSE value
<1>1. validity # "insufficient_coverage" => observed # 0
  BY DEF BreadthValidity
<1>2. Share(value) => value # Absent
  BY MetricsAssumption DEF Share
<1>3. (validity = "insufficient_coverage") <=> (kept = Absent)
  BY <1>1, <1>2
<1>4. kept # Absent => Share(kept)
  BY <1>1
<1>5. BreadthResult(value, eligible, observed, required) =
          [validity |-> validity, coverage |-> Coverage(eligible, observed), required |-> required, value |-> kept]
  BY DEF BreadthResult
<1> HIDE DEF validity, kept
<1>6. PICK m : m = BreadthResult(value, eligible, observed, required)
  OBVIOUS
<1>7. /\ m.validity = validity /\ m.coverage = Coverage(eligible, observed)
      /\ m.required = required /\ m.value = kept
  BY <1>5, <1>6
<1>8. m.coverage.eligible = eligible /\ m.coverage.observed = observed
  BY <1>7 DEF Coverage
<1>9. WellFormedCoverage(m.coverage)
  BY <1>8 DEF WellFormedCoverage
<1>10. m.validity = BreadthValidity(m.coverage.observed, m.coverage.eligible)
  BY <1>7, <1>8 DEF validity
<1>11. m.value # Absent => m.value[2] > 0 /\ -m.value[2] <= m.value[1] /\ m.value[1] <= m.value[2]
  BY <1>4, <1>7 DEF Share
<1>12. QED
  BY <1>3, <1>6, <1>7, <1>8, <1>9, <1>10, <1>11 DEF WellFormedBreadthMetric

\* The recursion of the exponential average has a solution.
Averages(f, values, n) ==
    f = [k \in 1..n |-> IF k = 1 THEN <<values[1], 1>>
                        ELSE <<2 * values[k] * f[k - 1][2] + (n - 1) * f[k - 1][1], (n + 1) * f[k - 1][2]>>]

\* The recursive average is the one its own equation gives.
LEMMA EmaIs ==
    ASSUME NEW values, NEW n \in Nat \ {0}, NEW base
    PROVE  \E f : Averages(f, values, n) /\ Ema(values, n, base) = <<f[n][1], f[n][2] * base>>
<1> DEFINE of(k, r) == IF k = 1 THEN <<values[1], 1>>
                       ELSE <<2 * values[k] * r[2] + (n - 1) * r[1], (n + 1) * r[2]>>
           Solves(f, m) == f = [k \in 1..m |-> of(k, f[k - 1])]
           Unsolved == {m \in Nat : ~\E f : Solves(f, m)}
<1>1. Unsolved = {}
  <2>1. SUFFICES ASSUME Unsolved # {} PROVE FALSE
    OBVIOUS
  <2>2. Unsolved \in SUBSET Nat
    OBVIOUS
  <2>3. PICK m \in Unsolved : \A u \in Unsolved : m <= u
    BY <2>1, <2>2, LeastOf
  <2> HIDE DEF of
  <2>4. m # 0
    <3>1. Solves([k \in 1..0 |-> 0], 0)
      OBVIOUS
    <3>2. QED
      BY <3>1
  <2>5. m - 1 \in Nat /\ ~(m <= m - 1) /\ m \in Nat
    BY <2>4
  <2>6. PICK f : Solves(f, m - 1)
    BY <2>3, <2>5
  <2> DEFINE g == [k \in 1..m |-> of(k, f[k - 1])]
  <2>7. \A k \in 1..(m - 1) : g[k] = f[k]
    <3>1. \A k \in 1..(m - 1) : k \in 1..m
      BY <2>5
    <3>2. \A k \in 1..(m - 1) : f[k] = of(k, f[k - 1])
      BY <2>6
    <3>3. QED
      BY <3>1, <3>2
  <2>8. \A k \in 1..m : of(k, g[k - 1]) = of(k, f[k - 1])
    <3>1. \A k \in 1..m : k = 1 \/ k - 1 \in 1..(m - 1)
      BY <2>5
    <3>2. \A r, s : of(1, r) = of(1, s)
      BY DEF of
    <3> HIDE DEF g
    <3>3. QED
      BY <2>7, <3>1, <3>2
  <2>9. Solves(g, m)
    BY <2>8
  <2>10. QED
    BY <2>3, <2>9
<1>2. n \in Nat
  OBVIOUS
<1>3. PICK h : Solves(h, n)
  BY <1>1, <1>2
<1> DEFINE average == CHOOSE f : Solves(f, n)
<1>4. Solves(average, n)
  BY <1>3
<1>5. Ema(values, n, base) = <<average[n][1], average[n][2] * base>>
  BY DEF Ema
<1>6. Averages(average, values, n)
  BY <1>4 DEF Averages
<1> HIDE DEF average
<1>7. QED
  BY <1>5, <1>6

\* An average of balances is one.
LEMMA EmaIsShare ==
    ASSUME NEW base \in Nat \ {0}, NEW n \in Nat \ {0},
           NEW values, \A k \in 1..n : values[k] \in Int /\ -base <= values[k] /\ values[k] <= base
    PROVE  Share(Ema(values, n, base))
<1>1. PICK f : Averages(f, values, n) /\ Ema(values, n, base) = <<f[n][1], f[n][2] * base>>
  BY EmaIs
<1> DEFINE Within(k) == /\ f[k][1] \in Int /\ f[k][2] \in Nat \ {0}
                        /\ -(base * f[k][2]) <= f[k][1] /\ f[k][1] <= base * f[k][2]
           Outside == {k \in Nat : k \in 1..n /\ ~Within(k)}
<1>2. Within(1)
  <2>1. 1 \in 1..n
    OBVIOUS
  <2>2. f[1] = <<values[1], 1>>
    BY <1>1, <2>1 DEF Averages
  <2>3. QED
    BY <2>1, <2>2
<1>3. ASSUME NEW k \in 1..n, k # 1, Within(k - 1) PROVE Within(k)
  <2>1. f[k] = <<2 * values[k] * f[k - 1][2] + (n - 1) * f[k - 1][1], (n + 1) * f[k - 1][2]>>
    BY <1>1, <1>3 DEF Averages
  <2>2. PICK a \in Int : a = f[k - 1][1]
    BY <1>3
  <2>3. PICK b \in Nat \ {0} : b = f[k - 1][2]
    BY <1>3
  <2>4. PICK v \in Int : v = values[k] /\ -base <= v /\ v <= base
    OBVIOUS
  <2>5. f[k][1] = 2 * v * b + (n - 1) * a /\ f[k][2] = (n + 1) * b
    BY <2>1, <2>2, <2>3, <2>4
  <2>6. -(base * b) <= a /\ a <= base * b
    BY <1>3, <2>2, <2>3
  <2>7. -(base * b) <= v * b /\ v * b <= base * b
    <3>1. (base - v) * b >= 0 /\ (base + v) * b >= 0
      <4>1. base - v \in Nat /\ base + v \in Nat
        BY <2>4
      <4>2. \A x, y \in Nat : x * y >= 0
        OBVIOUS
      <4>3. QED
        BY <4>1, <4>2
    <3>2. (base - v) * b = base * b - v * b /\ (base + v) * b = base * b + v * b
      OBVIOUS
    <3>3. base * b \in Int /\ v * b \in Int
      OBVIOUS
    <3>4. QED
      BY <3>1, <3>2, <3>3
  <2>8. PICK c \in Int : c = base * b
    OBVIOUS
  <2>9. -((n - 1) * c) <= (n - 1) * a /\ (n - 1) * a <= (n - 1) * c
    <3>1. (n - 1) * (c - a) >= 0 /\ (n - 1) * (c + a) >= 0
      <4>1. c - a \in Nat /\ c + a \in Nat /\ n - 1 \in Nat
        BY <2>6, <2>8
      <4>2. \A x, y \in Nat : x * y >= 0
        OBVIOUS
      <4>3. QED
        BY <4>1, <4>2
    <3>2. (n - 1) * (c - a) = (n - 1) * c - (n - 1) * a /\ (n - 1) * (c + a) = (n - 1) * c + (n - 1) * a
      OBVIOUS
    <3>3. (n - 1) * c \in Int /\ (n - 1) * a \in Int
      OBVIOUS
    <3>4. QED
      BY <3>1, <3>2, <3>3
  <2>10. base * ((n + 1) * b) = (n - 1) * c + 2 * c
    BY <2>8
  <2>11. 2 * v * b = 2 * (v * b)
    OBVIOUS
  <2>12. /\ -(base * ((n + 1) * b)) <= 2 * v * b + (n - 1) * a
         /\ 2 * v * b + (n - 1) * a <= base * ((n + 1) * b)
    <3>1. PICK x \in Int : x = v * b
      OBVIOUS
    <3>2. PICK y \in Int : y = (n - 1) * a
      OBVIOUS
    <3>3. PICK z \in Int : z = (n - 1) * c
      OBVIOUS
    <3>4. /\ -c <= x /\ x <= c /\ -z <= y /\ y <= z
      BY <2>7, <2>8, <2>9, <3>1, <3>2, <3>3
    <3>5. -(z + 2 * c) <= 2 * x + y /\ 2 * x + y <= z + 2 * c
      BY <3>4
    <3>6. QED
      BY <2>10, <2>11, <3>1, <3>2, <3>3, <3>5
  <2>13. (n + 1) * b \in Nat \ {0} /\ 2 * v * b + (n - 1) * a \in Int
    <3>1. n * b \in Nat /\ (n + 1) * b = n * b + b
      OBVIOUS
    <3>2. QED
      BY <3>1
  <2>14. QED
    BY <2>5, <2>12, <2>13
<1> HIDE DEF Within
<1>4. Outside = {}
  <2>1. SUFFICES ASSUME Outside # {} PROVE FALSE
    OBVIOUS
  <2>2. Outside \in SUBSET Nat
    OBVIOUS
  <2>3. PICK k \in Outside : \A u \in Outside : k <= u
    BY <2>1, <2>2, LeastOf
  <2>4. k # 1
    BY <1>2
  <2>5. k - 1 \in Nat /\ k - 1 \in 1..n /\ ~(k <= k - 1)
    BY <2>4
  <2>6. Within(k - 1)
    BY <2>3, <2>5
  <2>7. QED
    BY <1>3, <2>4, <2>6
<1>5. Within(n)
  BY <1>4
<1>6. PICK a \in Int : a = f[n][1]
  BY <1>5 DEF Within
<1>7. PICK b \in Nat \ {0} : b = f[n][2]
  BY <1>5 DEF Within
<1>8. b * base \in Nat \ {0} /\ b * base = base * b
  <2>1. \A x, y \in Nat : x # 0 /\ y # 0 => x * y \in Nat /\ x * y # 0 /\ x * y = y * x
    OBVIOUS
  <2>2. QED
    BY <2>1
<1>9. -(b * base) <= a /\ a <= b * base
  BY <1>5, <1>6, <1>7, <1>8 DEF Within
<1>10. Ema(values, n, base) = <<a, b * base>>
  BY <1>1, <1>6, <1>7
<1>11. PICK q \in Nat \ {0} : q = b * base
  BY <1>8
<1>12. QED
  BY <1>9, <1>10, <1>11 DEF Share

\* A breadth snapshot is one its record accepts.
LEMMA BreadthReadable ==
    ASSUME NEW input, BreadthInput(input), ~BreadthRaises(input)
    PROVE  WellFormedBreadth(BreadthSnapshot(input))
<1> DEFINE asOf == Max(input.benchmark)
           bars == input.bars
           eligible == Cardinality(DOMAIN bars)
           result(scores, required) == BreadthResult(Mean(scores), eligible, Cardinality(DOMAIN scores), required)
           need == Periods.short + 1
           dates == IF Cardinality(input.benchmark) >= need
                    THEN InOrder(LastDays(input.benchmark, need)) ELSE <<>>
           moving == Cardinality(Moving(bars, dates))
           daily == [k \in 1..Periods.short |-> Balance(Moves(bars, dates, k + 1))]
           advance == BreadthResult(IF moving = 0 THEN Absent ELSE Ema(daily, Periods.short, moving),
                                    eligible, moving, need)
           Good(m) == WellFormedBreadthMetric(m) /\ m.coverage.eligible = eligible
<1>1. IsFiniteSet(DOMAIN bars) /\ eligible \in Nat \ {0}
  BY FS_CardinalityType, FS_EmptySet DEF BreadthInput
<1>2. asOf \in Int /\ input.members <= asOf
  <2>1. input.benchmark \in SUBSET Int /\ IsFiniteSet(input.benchmark) /\ input.benchmark # {}
    BY DEF BreadthInput, BreadthRaises
  <2>2. asOf \in Int
    BY <2>1, MaxOf
  <2>3. ~(input.members > asOf) /\ input.members \in Int
    BY DEF BreadthInput, BreadthRaises
  <2>4. QED
    BY <2>2, <2>3
<1>3. ASSUME NEW scores, DOMAIN scores \subseteq DOMAIN bars, NEW required \in Nat, required >= 2
      PROVE  Good(result(scores, required))
  <2>1. IsFiniteSet(DOMAIN scores) /\ Cardinality(DOMAIN scores) \in 0..eligible
    BY <1>1, <1>3, FS_Subset, FS_CardinalityType
  <2>2. Cardinality(DOMAIN scores) # 0 => DOMAIN scores # {}
    BY FS_EmptySet
  <2>3. Cardinality(DOMAIN scores) # 0 => Share(Mean(scores))
    BY <2>1, <2>2, BalanceIsBounded DEF Share, Mean
  <2> HIDE DEF eligible
  <2>4. QED
    BY <1>1, <1>3, <2>1, <2>3, ResultIsWellFormed
<1>4. \A required : /\ DOMAIN Above(bars, asOf, required) \subseteq DOMAIN bars
                    /\ DOMAIN HighLow(bars, asOf, required) \subseteq DOMAIN bars
  BY DEF Above, HighLow, Held
<1>5. /\ Periods.short \in Nat /\ Periods.long \in Nat /\ Periods.year \in Nat
      /\ Periods.short >= 2 /\ Periods.long >= 2 /\ Periods.year >= 2
  BY MetricsAssumption
<1>6. Good(advance)
  <2>1. IsFiniteSet(Moving(bars, dates)) /\ moving \in 0..eligible
    <3>1. Moving(bars, dates) \subseteq DOMAIN bars
      BY DEF Moving
    <3>2. QED
      BY <1>1, <3>1, FS_Subset, FS_CardinalityType
  <2>2. \A k : DOMAIN Moves(bars, dates, k) = Moving(bars, dates)
    BY DEF Moves
  <2>3. \A k \in 1..Periods.short : daily[k] \in Int /\ -moving <= daily[k] /\ daily[k] <= moving
    BY <2>1, <2>2, BalanceIsBounded
  <2> HIDE DEF eligible, moving, daily
  <2>4. moving # 0 => Share(Ema(daily, Periods.short, moving))
    <3>1. SUFFICES ASSUME moving # 0 PROVE Share(Ema(daily, Periods.short, moving))
      OBVIOUS
    <3>2. moving \in Nat \ {0} /\ Periods.short \in Nat \ {0}
      BY <1>1, <1>5, <2>1, <3>1
    <3>3. QED
      BY <2>3, <3>2, EmaIsShare
  <2>5. need \in Nat /\ need >= 2
    BY <1>5
  <2> HIDE DEF need
  <2>6. QED
    BY <1>1, <2>1, <2>4, <2>5, ResultIsWellFormed
<1> HIDE DEF Good, advance, result, asOf
<1>7. /\ Good(result(Above(bars, asOf, Periods.short), Periods.short))
      /\ Good(result(Above(bars, asOf, Periods.long), Periods.long))
      /\ Good(result(HighLow(bars, asOf, Periods.year), Periods.year))
  BY <1>3, <1>4, <1>5
<1>8. BreadthSnapshot(input) =
          [asOf |-> asOf, members |-> input.members,
           b50 |-> result(Above(bars, asOf, Periods.short), Periods.short),
           b200 |-> result(Above(bars, asOf, Periods.long), Periods.long),
           nhnl |-> result(HighLow(bars, asOf, Periods.year), Periods.year),
           ad10 |-> advance]
  BY DEF BreadthSnapshot, result, advance, asOf
<1>9. PICK s : s = BreadthSnapshot(input)
  OBVIOUS
<1>10. /\ s.asOf = asOf /\ s.members = input.members
       /\ Good(s.b50) /\ Good(s.b200) /\ Good(s.nhnl) /\ Good(s.ad10)
  BY <1>6, <1>7, <1>8, <1>9
<1>11. QED
  BY <1>2, <1>9, <1>10 DEF WellFormedBreadth, Good

-----------------------------------------------------------------------------
(* Robust Z-scores.                                                         *)

\* The last n of a sequence.
LEMMA LastOfIs ==
    ASSUME NEW S, NEW s \in Seq(S), NEW n \in Nat
    PROVE  /\ LastOf(s, n) \in Seq(S) /\ Len(LastOf(s, n)) = Min({Len(s), n})
           /\ Len(LastOf(s, n)) <= n /\ Len(LastOf(s, n)) <= Len(s)
           /\ \A k \in 1..Len(LastOf(s, n)) : LastOf(s, n)[k] = s[Len(s) - Len(LastOf(s, n)) + k]
<1>1. Len(s) \in Nat
  BY LenProperties
<1>2. CASE Len(s) <= n
  <2>1. LastOf(s, n) = s /\ Min({Len(s), n}) = Len(s)
    BY <1>1, <1>2, MinOfTwo DEF LastOf
  <2>2. \A k \in 1..Len(s) : Len(s) - Len(s) + k = k
    BY <1>1
  <2>3. QED
    BY <1>1, <1>2, <2>1, <2>2
<1>3. CASE ~(Len(s) <= n)
  <2>1. PICK i \in Int : i = Len(s) - n + 1
    <3>1. Len(s) - n + 1 \in Int
      BY <1>1
    <3>2. QED
      BY <3>1
  <2>2. LastOf(s, n) = SubSeq(s, i, Len(s)) /\ Min({Len(s), n}) = n
    <3>1. LastOf(s, n) = SubSeq(s, i, Len(s))
      BY <1>3, <2>1 DEF LastOf
    <3>2. Min({Len(s), n}) = n
      BY <1>1, <1>3, MinOfTwo
    <3>3. QED
      BY <3>1, <3>2
  <2>3. \A k \in i..Len(s) : s[k] \in S
    BY <1>1, <1>3, <2>1, ElementOfSeq
  <2>4. /\ SubSeq(s, i, Len(s)) \in Seq(S) /\ Len(SubSeq(s, i, Len(s))) = IF i <= Len(s) THEN Len(s) - i + 1 ELSE 0
        /\ \A k \in 1..Len(s) - i + 1 : SubSeq(s, i, Len(s))[k] = s[i + k - 1]
    BY <1>1, <2>3, SubSeqProperties
  <2>5. (IF i <= Len(s) THEN Len(s) - i + 1 ELSE 0) = n /\ Len(s) - i + 1 = n
    BY <1>1, <1>3, <2>1
  <2>6. \A k \in 1..n : i + k - 1 = Len(s) - n + k
    BY <1>1, <2>1
  <2>7. PICK t : t = SubSeq(s, i, Len(s))
    OBVIOUS
  <2>8. t \in Seq(S) /\ Len(t) = n /\ \A k \in 1..n : t[k] = s[Len(s) - n + k]
    BY <2>4, <2>5, <2>6, <2>7
  <2>9. n <= n /\ n <= Len(s)
    BY <1>1, <1>3
  <2>10. LastOf(s, n) = t
    BY <2>2, <2>7
  <2>11. QED
    BY <2>2, <2>8, <2>9, <2>10
<1>4. QED
  BY <1>2, <1>3

\* The last of them is the last.
LEMMA LastOfLast ==
    ASSUME NEW S, NEW s \in Seq(S), s # <<>>, NEW n \in Nat \ {0}
    PROVE  /\ LastOf(s, n) # <<>> /\ Last(LastOf(s, n)) = Last(s) /\ Last(s) \in S
           /\ Len(LastOf(s, n)) \in Nat \ {0} /\ Len(s) \in Nat \ {0}
<1>1. Len(s) \in Nat \ {0}
  BY EmptySeq
<1>2. PICK t \in Seq(S) : t = LastOf(s, n)
  BY LastOfIs
<1>3. Len(t) = Min({Len(s), n}) /\ \A k \in 1..Len(t) : t[k] = s[Len(s) - Len(t) + k]
  BY <1>2, LastOfIs
<1>4. Len(t) \in Nat \ {0}
  BY <1>1, <1>3, MinOfTwo
<1>5. t[Len(t)] = s[Len(s)]
  <2>1. Len(t) \in 1..Len(t) /\ Len(s) - Len(t) + Len(t) = Len(s)
    BY <1>1, <1>4
  <2>2. QED
    BY <1>3, <2>1
<1>6. t # <<>>
  BY <1>4, EmptySeq
<1>7. s[Len(s)] \in S
  BY <1>1, ElementOfSeq
<1>8. QED
  BY <1>1, <1>2, <1>4, <1>5, <1>6, <1>7 DEF Last

\* There is an n-th smallest among them.
LEMMA NthSmallestIn ==
    ASSUME NEW values \in Seq(Int), NEW n \in 1..Len(values)
    PROVE  NthSmallest(values, n) \in Range(values) /\ NthSmallest(values, n) \in Int
<1> DEFINE R == Range(values)
           UpToValue(v) == {k \in DOMAIN values : values[k] <= v}
           V == {v \in R : Cardinality(UpToValue(v)) >= n}
<1>1. /\ Len(values) \in Nat /\ DOMAIN values = 1..Len(values) /\ IsFiniteSet(DOMAIN values)
      /\ Cardinality(DOMAIN values) = Len(values)
  <2>1. Len(values) \in Nat /\ DOMAIN values = 1..Len(values)
    BY LenProperties
  <2>2. IsFiniteSet(1..Len(values)) /\ Cardinality(1..Len(values)) = Len(values)
    BY <2>1, FS_Interval
  <2>3. QED
    BY <2>1, <2>2
<1>2. R \in SUBSET Int /\ \A k \in DOMAIN values : values[k] \in R
  BY <1>1, RangeOfSeq DEF Range
<1>3. IsFiniteSet(R) /\ R # {}
  <2>1. [k \in DOMAIN values |-> values[k]] \in Surjection(DOMAIN values, R)
    BY DEF Surjection, Range
  <2>2. IsFiniteSet(R)
    BY <1>1, <2>1, FS_Surjection
  <2>3. n \in DOMAIN values
    BY <1>1
  <2>4. QED
    BY <1>2, <2>2, <2>3
<1>4. Max(R) \in R /\ \A v \in R : v <= Max(R)
  BY <1>2, <1>3, MaxOf
<1>5. UpToValue(Max(R)) = DOMAIN values
  BY <1>2, <1>4
<1>6. Max(R) \in V
  <2>1. n <= Len(values) /\ n \in Int
    BY <1>1
  <2>2. Cardinality(UpToValue(Max(R))) >= n
    BY <1>1, <1>5, <2>1
  <2>3. QED
    BY <1>4, <2>2
<1>7. V \in SUBSET Int /\ IsFiniteSet(V) /\ V # {}
  BY <1>2, <1>3, <1>6, FS_Subset
<1>8. Min(V) \in V
  BY <1>7, MinOf
<1>9. NthSmallest(values, n) = Min(V)
  BY DEF NthSmallest
<1>10. QED
  BY <1>2, <1>8, <1>9

\* A median is a number, and no less than zero when all values are.
LEMMA MedianIs ==
    ASSUME NEW values \in Seq(Int), values # <<>>
    PROVE  /\ Median2(values) \in Int
           /\ (\A k \in DOMAIN values : values[k] >= 0) => Median2(values) >= 0
<1>1. PICK n : n = Len(values)
  OBVIOUS
<1>2. n \in Nat \ {0}
  BY <1>1, EmptySeq
<1>3. (n + 1) \div 2 \in 1..n /\ n \div 2 + 1 \in 1..n
  BY <1>2
<1>4. PICK a : a = NthSmallest(values, (n + 1) \div 2)
  OBVIOUS
<1>5. PICK b : b = NthSmallest(values, n \div 2 + 1)
  OBVIOUS
<1>6. a \in Range(values) /\ a \in Int /\ b \in Range(values) /\ b \in Int
  BY <1>1, <1>3, <1>4, <1>5, NthSmallestIn
<1>7. Median2(values) = a + b
  BY <1>1, <1>4, <1>5 DEF Median2
<1>8. (\A k \in DOMAIN values : values[k] >= 0) => a >= 0 /\ b >= 0
  BY <1>6 DEF Range
<1>9. QED
  BY <1>6, <1>7, <1>8

\* A Z-score needs enough values, and is bounded.
LEMMA RobustZIs ==
    ASSUME NEW values \in Seq(Int)
    PROVE  /\ RobustZ(values) \in Int \cup {Absent}
           /\ RobustZ(values) # Absent => ZScore(RobustZ(values)) /\ Len(values) >= MinRobust
<1>1. Len(values) \in Nat
  BY LenProperties
<1>2. CASE Len(values) < MinRobust
  BY <1>2 DEF RobustZ
<1>3. CASE ~(Len(values) < MinRobust)
  <2>1. RobustWindow \in Nat \ {0} /\ MinRobust \in Nat \ {0}
    BY RegimeAssumption
  <2>2. values # <<>>
    BY <1>1, <1>3, <2>1, EmptySeq
  <2>3. PICK w \in Seq(Int) : w = LastOf(values, RobustWindow) /\ w # <<>>
    <3>1. LastOf(values, RobustWindow) \in Seq(Int)
      BY <2>1, LastOfIs
    <3>2. LastOf(values, RobustWindow) # <<>>
      BY <2>1, <2>2, LastOfLast
    <3>3. QED
      BY <3>1, <3>2
  <2>4. /\ Len(w) \in Nat \ {0} /\ DOMAIN w = 1..Len(w) /\ Median2(w) \in Int
        /\ \A k \in 1..Len(w) : w[k] \in Int
    BY <2>3, EmptySeq, LenProperties, MedianIs, ElementOfSeq
  <2>5. PICK middle \in Int : middle = Median2(w)
    BY <2>4
  <2> DEFINE off == [k \in DOMAIN w |-> 2 * w[k] - Median2(w)]
             size == [k \in DOMAIN off |-> Magnitude(off[k])]
  <2>6. off \in [1..Len(w) -> Int] /\ Last(off) \in Int
    <3>1. off \in [1..Len(w) -> Int]
      BY <2>4, <2>5
    <3>2. Len(off) = Len(w) /\ Len(w) \in 1..Len(w)
      BY <2>4, <3>1
    <3> HIDE DEF off
    <3>3. QED
      BY <3>1, <3>2 DEF Last
  <2>7. size \in [1..Len(w) -> Int] /\ \A k \in 1..Len(w) : size[k] >= 0
    <3> HIDE DEF off
    <3>1. \A x \in Int : Magnitude(x) \in Int /\ Magnitude(x) >= 0
      BY DEF Magnitude
    <3>2. DOMAIN off = 1..Len(w) /\ \A k \in 1..Len(w) : off[k] \in Int
      BY <2>6
    <3>3. QED
      BY <3>1, <3>2
  <2> HIDE DEF off, size
  <2>8. size \in Seq(Int) /\ size # <<>> /\ DOMAIN size = 1..Len(w)
    <3> PICK n \in Nat : n = Len(w)
      BY <2>4
    <3>1. size \in Seq(Int) /\ Len(size) = Len(w) /\ DOMAIN size = 1..Len(w)
      BY <2>7
    <3>2. QED
      BY <2>4, <3>1, EmptySeq
  <2>9. PICK mad \in Int : mad = Median2(size) /\ mad >= 0
    BY <2>7, <2>8, MedianIs
  <2>10. RobustZ(values) = IF mad = 0 THEN Absent
                           ELSE Max({-300, Min({300, Scaled(Last(off), mad)})})
    BY <1>3, <2>3, <2>9 DEF RobustZ, off, size
  <2>11. ASSUME mad # 0 PROVE ZScore(RobustZ(values))
    <3>1. \A x \in Int, y \in Int \ {0} : y >= 0 => Scaled(x, y) \in Int
      BY SMT DEF Scaled
    <3>2. mad \in Int \ {0} /\ mad >= 0
      BY <2>9, <2>11
    <3>3. PICK z \in Int : z = Scaled(Last(off), mad)
      BY <2>6, <3>1, <3>2
    <3>4. PICK y \in Int : y = Min({300, z}) /\ y <= 300
      BY MinOfTwo
    <3>5. Max({-300, y}) = IF -300 <= y THEN y ELSE -300
      BY MaxOfTwo
    <3>6. RobustZ(values) = Max({-300, y})
      BY <2>10, <2>11, <3>3, <3>4
    <3>7. PICK x : x = Max({-300, y})
      OBVIOUS
    <3>8. ZScore(x)
      BY <3>4, <3>5, <3>7 DEF ZScore, Magnitude
    <3>9. QED
      BY <3>6, <3>7, <3>8
  <2>12. CASE mad = 0
    BY <2>10, <2>12
  <2>13. CASE mad # 0
    <3>1. Len(values) >= MinRobust
      BY <1>1, <1>3, <2>1
    <3>2. ZScore(RobustZ(values))
      BY <2>11, <2>13
    <3>3. QED
      BY <3>1, <3>2 DEF ZScore
  <2>14. QED
    BY <2>12, <2>13
<1>4. QED
  BY <1>2, <1>3

\* What comes up to a place is the same in a prefix.
LEMMA SubSeqPrefix ==
    ASSUME NEW S, NEW values \in Seq(S), NEW prefix \in Seq(S), Len(prefix) <= Len(values),
           \A k \in 1..Len(prefix) : prefix[k] = values[k]
    PROVE  \A k \in 1..Len(prefix) : SubSeq(prefix, 1, k) = SubSeq(values, 1, k)
<1>1. Len(values) \in Nat /\ Len(prefix) \in Nat
  BY LenProperties
<1>2. SUFFICES ASSUME NEW k \in 1..Len(prefix) PROVE SubSeq(prefix, 1, k) = SubSeq(values, 1, k)
  OBVIOUS
<1>3. k \in Int /\ k \in Nat /\ k - 1 + 1 = k /\ 1 <= k /\ k <= Len(prefix)
  BY <1>1
<1>4. \A i \in 1..k : prefix[i] \in S /\ values[i] \in S /\ prefix[i] = values[i]
  BY <1>1, <1>3, ElementOfSeq
<1>5. /\ SubSeq(prefix, 1, k) \in Seq(S) /\ Len(SubSeq(prefix, 1, k)) = k
      /\ \A i \in 1..k : SubSeq(prefix, 1, k)[i] = prefix[1 + i - 1]
  BY <1>3, <1>4, SubSeqProperties
<1>6. /\ SubSeq(values, 1, k) \in Seq(S) /\ Len(SubSeq(values, 1, k)) = k
      /\ \A i \in 1..k : SubSeq(values, 1, k)[i] = values[1 + i - 1]
  BY <1>3, <1>4, SubSeqProperties
<1>7. \A i \in 1..k : 1 + i - 1 = i
  BY <1>3
<1>8. \A i \in 1..k : SubSeq(prefix, 1, k)[i] = SubSeq(values, 1, k)[i]
  BY <1>4, <1>5, <1>6, <1>7
<1>9. QED
  BY <1>5, <1>6, <1>8, SeqEqual

\* The Z-score of a value has seen no later one.
LEMMA RobustZsPrefix ==
    ASSUME NEW values \in Seq(Int), NEW prefix \in Seq(Int), Len(prefix) <= Len(values),
           \A k \in 1..Len(prefix) : prefix[k] = values[k]
    PROVE  \A k \in 1..Len(prefix) : RobustZs(prefix)[k] = RobustZs(values)[k]
<1>1. /\ Len(values) \in Nat /\ DOMAIN values = 1..Len(values)
      /\ Len(prefix) \in Nat /\ DOMAIN prefix = 1..Len(prefix)
  BY LenProperties
<1>2. \A k \in 1..Len(prefix) : SubSeq(prefix, 1, k) = SubSeq(values, 1, k)
  BY SubSeqPrefix
<1>3. \A k \in 1..Len(prefix) : k \in 1..Len(values)
  BY <1>1
<1>4. \A k \in 1..Len(prefix) : RobustZs(prefix)[k] = RobustZ(SubSeq(prefix, 1, k))
  BY <1>1 DEF RobustZs
<1>5. \A k \in 1..Len(values) : RobustZs(values)[k] = RobustZ(SubSeq(values, 1, k))
  BY <1>1 DEF RobustZs
<1>6. QED
  BY <1>2, <1>3, <1>4, <1>5

\* Every Z-score is bounded, and there is none before enough values.
LEMMA RobustZsAre ==
    ASSUME NEW values \in Seq(Int)
    PROVE  /\ DOMAIN RobustZs(values) = 1..Len(values)
           /\ \A k \in 1..Len(values) :
                  /\ RobustZs(values)[k] \in Int \cup {Absent}
                  /\ RobustZs(values)[k] # Absent => ZScore(RobustZs(values)[k]) /\ k >= MinRobust
<1>1. Len(values) \in Nat /\ DOMAIN values = 1..Len(values)
  BY LenProperties
<1>2. ASSUME NEW k \in 1..Len(values)
      PROVE  SubSeq(values, 1, k) \in Seq(Int) /\ Len(SubSeq(values, 1, k)) = k
  <2>1. k \in Int /\ 1 <= k /\ k - 1 + 1 = k /\ \A i \in 1..k : values[i] \in Int
    BY <1>1, ElementOfSeq
  <2>2. QED
    BY <2>1, SubSeqProperties
<1>3. QED
  BY <1>1, <1>2, RobustZIs DEF RobustZs

-----------------------------------------------------------------------------
(* Risk appetite up to a day.                                               *)

\* Of a sequence of dated points: it increases, and another is what it was on a day.
InDays(s) == /\ \A k \in 1..Len(s) : s[k].day \in Nat
             /\ \A i, j \in 1..Len(s) : i < j => s[i].day < s[j].day

IsUpTo(p, s, day) ==
    /\ Len(p) \in Nat /\ Len(s) \in Nat /\ Len(p) <= Len(s)
    /\ \A k \in 1..Len(p) : p[k] = s[k]
    /\ \A k \in 1..Len(s) : s[k].day <= day <=> k <= Len(p)

RawPoint == [day : Nat, credit : Int, volatility : Int]

RawAt(input, days, k) ==
    [day |-> days[k + Change],
     credit |-> (input["hyg"][days[k + Change]] - input["lqd"][days[k + Change]])
                    - (input["hyg"][days[k]] - input["lqd"][days[k]]),
     volatility |-> input["vix"][days[k + Change]] - input["vix3m"][days[k + Change]]]

\* The days that all the risk series have.
LEMMA CommonDaysAre ==
    ASSUME NEW input, MacroInput(input)
    PROVE  /\ CommonDays(input) \in SUBSET Nat /\ CommonDays(input) \in SUBSET Int
           /\ IsFiniteSet(CommonDays(input)) /\ Cardinality(CommonDays(input)) \in Nat
           /\ \A x \in RiskInputs : IsHistory(input[x]) /\ CommonDays(input) \subseteq DOMAIN input[x]
<1>1. \A x \in RiskInputs : IsHistory(input[x]) /\ CommonDays(input) \subseteq DOMAIN input[x]
  BY DEF MacroInput, CommonDays
<1>2. "hyg" \in RiskInputs
  BY DEF RiskInputs
<1>3. CommonDays(input) \in SUBSET Nat /\ CommonDays(input) \in SUBSET DOMAIN input["hyg"]
  BY <1>1, <1>2 DEF IsHistory
<1>4. IsFiniteSet(CommonDays(input))
  BY <1>1, <1>2, <1>3, FS_Subset DEF IsHistory
<1>5. QED
  BY <1>1, <1>3, <1>4, FS_CardinalityType

\* The raw points are those of the common days from the first change on, in order.
LEMMA RawPointsAre ==
    ASSUME NEW input, MacroInput(input)
    PROVE  LET days == InOrder(CommonDays(input))
               raw == RawPoints(input)
           IN  /\ raw \in Seq(RawPoint) /\ InDays(raw)
               /\ Len(raw) = IF Cardinality(CommonDays(input)) > Change
                             THEN Cardinality(CommonDays(input)) - Change ELSE 0
               /\ \A k \in 1..Len(raw) : raw[k] = RawAt(input, days, k) /\ raw[k].day = days[k + Change]
<1> DEFINE raw == RawPoints(input)
<1>1. PICK C \in SUBSET Int : C = CommonDays(input)
  BY CommonDaysAre
<1>2. PICK days : days = InOrder(C)
  OBVIOUS
<1>3. PICK n \in Nat : n = Cardinality(C)
  BY <1>1, CommonDaysAre
<1>4. /\ days \in [1..n -> C] /\ Len(days) = n
      /\ \A i, j \in 1..n : i < j => days[i] < days[j]
  BY <1>1, <1>2, <1>3, CommonDaysAre, InOrderPlaces, InOrderIncreases
<1>5. raw = [k \in 1..n - Change |-> RawAt(input, days, k)]
  BY <1>1, <1>2, <1>4 DEF RawPoints, RawAt
<1>6. PICK m \in Nat : m = IF n > Change THEN n - Change ELSE 0
  <2>1. (IF n > Change THEN n - Change ELSE 0) \in Nat
    BY RegimeAssumption
  <2>2. QED
    BY <2>1
<1>7. 1..n - Change = 1..m /\ \A k \in 1..m : k + Change \in 1..n /\ k \in 1..n
  BY <1>6, RegimeAssumption
<1>8. ASSUME NEW k \in 1..m PROVE RawAt(input, days, k) \in RawPoint
  <2>1. PICK d \in C : d = days[k + Change]
    BY <1>4, <1>7
  <2>2. PICK e \in C : e = days[k]
    BY <1>4, <1>7
  <2>3. \A x \in RiskInputs : input[x][d] \in Int /\ input[x][e] \in Int
    BY <1>1, CommonDaysAre DEF IsHistory
  <2>4. /\ input["hyg"][d] \in Int /\ input["lqd"][d] \in Int /\ input["hyg"][e] \in Int /\ input["lqd"][e] \in Int
        /\ input["vix"][d] \in Int /\ input["vix3m"][d] \in Int
    BY <2>3 DEF RiskInputs
  <2>5. d \in Nat
    BY <1>1, CommonDaysAre
  <2>6. (input["hyg"][d] - input["lqd"][d]) - (input["hyg"][e] - input["lqd"][e]) \in Int
    BY <2>4
  <2>7. input["vix"][d] - input["vix3m"][d] \in Int
    BY <2>4
  <2>8. QED
    BY <2>1, <2>2, <2>5, <2>6, <2>7 DEF RawAt, RawPoint
<1> HIDE DEF raw
<1>9. raw \in [1..m -> RawPoint]
  BY <1>5, <1>7, <1>8
<1>10. raw \in Seq(RawPoint) /\ Len(raw) = m
  BY <1>9
<1>11. \A k \in 1..m : raw[k] = RawAt(input, days, k)
  BY <1>5, <1>7
<1>12. \A k \in 1..m : raw[k].day = days[k + Change] /\ raw[k].day \in Nat
  <2>1. \A k \in 1..m : RawAt(input, days, k).day = days[k + Change]
    BY DEF RawAt
  <2>2. \A k \in 1..m : RawAt(input, days, k).day \in Nat
    BY <1>8 DEF RawPoint
  <2>3. QED
    BY <1>11, <2>1, <2>2
<1>13. \A i, j \in 1..m : i < j => raw[i].day < raw[j].day
  <2>1. \A i, j \in 1..m : i < j => i + Change < j + Change
    BY RegimeAssumption
  <2>2. QED
    BY <1>4, <1>7, <1>12, <2>1
<1>14. QED
  BY <1>1, <1>2, <1>3, <1>6, <1>10, <1>11, <1>12, <1>13 DEF InDays, raw

\* The points of the inputs known on a day are the points up to it.
LEMMA RawUpTo ==
    ASSUME NEW input, MacroInput(input), NEW day \in Int
    PROVE  /\ MacroInput(Cut(input, day))
           /\ IsUpTo(RawPoints(Cut(input, day)), RawPoints(input), day)
<1>1. PICK cut : cut = Cut(input, day)
  OBVIOUS
<1>2. /\ DOMAIN cut = DOMAIN input
      /\ \A x \in RiskInputs \cup {"rates"} : cut[x] = CutAt(input[x], day) /\ IsHistory(input[x])
  BY <1>1, CutInput DEF MacroInput, Cut
<1>3. MacroInput(cut)
  BY <1>2, CutIsHistory DEF MacroInput
<1>4. \A x \in RiskInputs : /\ DOMAIN cut[x] = UpTo(DOMAIN input[x], day)
                            /\ \A d \in DOMAIN input[x] : d <= day => cut[x][d] = input[x][d]
  <2>1. \A x \in RiskInputs : /\ DOMAIN cut[x] = UpTo(DOMAIN input[x], day)
                              /\ \A d \in UpTo(DOMAIN input[x], day) : cut[x][d] = input[x][d]
    BY <1>2, CutIsHistory
  <2>2. QED
    BY <2>1 DEF UpTo
<1>5. PICK C \in SUBSET Int : C = CommonDays(input) /\ IsFiniteSet(C)
  BY CommonDaysAre
<1>6. PICK T \in SUBSET Int : T = CommonDays(cut) /\ IsFiniteSet(T)
  BY <1>3, CommonDaysAre
<1>7. T = UpTo(C, day)
  <2>1. "hyg" \in RiskInputs
    BY DEF RiskInputs
  <2>2. \A d : d \in T <=> \A x \in RiskInputs : d \in DOMAIN cut[x]
    BY <1>6, <2>1 DEF CommonDays
  <2>3. \A d : d \in C <=> \A x \in RiskInputs : d \in DOMAIN input[x]
    BY <1>5, <2>1 DEF CommonDays
  <2>4. \A d : d \in T <=> d \in C /\ d <= day
    BY <1>4, <2>1, <2>2, <2>3 DEF UpTo
  <2>5. QED
    BY <2>4 DEF UpTo
<1>8. PICK n \in Nat : n = Cardinality(C)
  BY <1>5, FS_CardinalityType
<1>9. PICK m \in Nat : m = Cardinality(T)
  BY <1>6, FS_CardinalityType
<1>10. PICK days : days = InOrder(C)
  OBVIOUS
<1>11. PICK then : then = InOrder(T)
  OBVIOUS
<1>12. /\ m <= n
       /\ \A k \in 1..m : then[k] = days[k]
       /\ \A k \in 1..n : days[k] <= day <=> k <= m
  <2>1. /\ Cardinality(T) \in 0..Cardinality(C)
        /\ \A k \in 1..Cardinality(T) : InOrder(T)[k] = InOrder(C)[k]
        /\ \A k \in 1..Cardinality(C) : InOrder(C)[k] <= day <=> k <= Cardinality(T)
    BY <1>5, <1>7, InOrderPrefix
  <2>2. QED
    BY <1>8, <1>9, <1>10, <1>11, <2>1
<1>13. \A k \in 1..n : days[k] \in C
  BY <1>5, <1>8, <1>10, InOrderPlaces
<1>14. PICK raw : raw = RawPoints(input)
  OBVIOUS
<1>15. PICK p : p = RawPoints(cut)
  OBVIOUS
<1>16. /\ Len(raw) = (IF n > Change THEN n - Change ELSE 0)
       /\ \A k \in 1..Len(raw) : raw[k] = RawAt(input, days, k) /\ raw[k].day = days[k + Change]
  BY <1>5, <1>8, <1>10, <1>14, RawPointsAre
<1>17. /\ Len(p) = (IF m > Change THEN m - Change ELSE 0)
       /\ \A k \in 1..Len(p) : p[k] = RawAt(cut, then, k)
  BY <1>3, <1>6, <1>9, <1>11, <1>15, RawPointsAre
<1>18. Len(p) \in Nat /\ Len(raw) \in Nat /\ Len(p) <= Len(raw)
  BY <1>12, <1>16, <1>17, RegimeAssumption
<1>19. ASSUME NEW k \in 1..Len(p) PROVE p[k] = raw[k]
  <2>1. k \in 1..m /\ k + Change \in 1..m /\ k \in 1..n /\ k + Change \in 1..n /\ k \in 1..Len(raw)
    BY <1>12, <1>16, <1>17, <1>18, RegimeAssumption
  <2>2. PICK d \in C : d = days[k + Change] /\ d = then[k + Change] /\ d <= day
    <3>1. \A i \in 1..m : i \in 1..n => days[i] \in C /\ days[i] = then[i] /\ days[i] <= day
      BY <1>12, <1>13
    <3>2. QED
      BY <2>1, <3>1
  <2>3. PICK e \in C : e = days[k] /\ e = then[k] /\ e <= day
    <3>1. days[k] \in C /\ then[k] = days[k] /\ days[k] <= day
      BY <1>12, <1>13, <2>1
    <3>2. QED
      BY <3>1
  <2>4. \A x \in RiskInputs : d \in DOMAIN input[x] /\ e \in DOMAIN input[x]
    BY <1>5 DEF CommonDays
  <2>5. \A x \in RiskInputs : cut[x][d] = input[x][d] /\ cut[x][e] = input[x][e]
    BY <1>4, <2>2, <2>3, <2>4
  <2>6. RawAt(cut, then, k) = RawAt(input, days, k)
    BY <2>2, <2>3, <2>5 DEF RawAt, RiskInputs
  <2>7. QED
    BY <1>16, <1>17, <2>1, <2>6
<1>20. ASSUME NEW k \in 1..Len(raw) PROVE raw[k].day <= day <=> k <= Len(p)
  <2>1. k + Change \in 1..n /\ n > Change /\ k \in Nat /\ k >= 1
    BY <1>16, <1>18, RegimeAssumption
  <2>2. raw[k].day <= day <=> k + Change <= m
    BY <1>12, <1>16, <2>1
  <2>3. k + Change <= m <=> k <= Len(p)
    BY <1>17, <2>1, RegimeAssumption
  <2>4. QED
    BY <2>2, <2>3
<1>21. QED
  BY <1>1, <1>3, <1>14, <1>15, <1>18, <1>19, <1>20 DEF IsUpTo

-----------------------------------------------------------------------------
(* Scored points.                                                           *)

Credits(raw) == [k \in DOMAIN raw |-> raw[k].credit]
Volatilities(raw) == [k \in DOMAIN raw |-> raw[k].volatility]
Scorable(raw) ==
    {k \in DOMAIN raw : RobustZs(Credits(raw))[k] # Absent /\ RobustZs(Volatilities(raw))[k] # Absent}
PointAt(raw, k) ==
    [day |-> raw[k].day, credit |-> RobustZs(Credits(raw))[k], volatility |-> RobustZs(Volatilities(raw))[k],
     score |-> Score(RobustZs(Credits(raw))[k], RobustZs(Volatilities(raw))[k])]

RiskPoint == [day : Nat, credit : Int, volatility : Int, score : Int]

\* The two columns of the raw points.
LEMMA ColumnsAre ==
    ASSUME NEW raw \in Seq(RawPoint)
    PROVE  /\ Credits(raw) \in Seq(Int) /\ Len(Credits(raw)) = Len(raw)
           /\ Volatilities(raw) \in Seq(Int) /\ Len(Volatilities(raw)) = Len(raw)
           /\ Len(raw) \in Nat /\ DOMAIN raw = 1..Len(raw)
           /\ \A k \in 1..Len(raw) : Credits(raw)[k] = raw[k].credit /\ Volatilities(raw)[k] = raw[k].volatility
<1>1. PICK n \in Nat : n = Len(raw)
  BY LenProperties
<1>2. DOMAIN raw = 1..n /\ \A k \in 1..n : raw[k].credit \in Int /\ raw[k].volatility \in Int
  <2>1. DOMAIN raw = 1..n /\ \A k \in 1..n : raw[k] \in RawPoint
    BY <1>1, LenProperties, ElementOfSeq
  <2>2. \A r \in RawPoint : r.credit \in Int /\ r.volatility \in Int
    BY DEF RawPoint
  <2>3. QED
    BY <2>1, <2>2
<1>3. Credits(raw) \in [1..n -> Int] /\ Volatilities(raw) \in [1..n -> Int]
  BY <1>2 DEF Credits, Volatilities
<1>4. /\ Credits(raw) \in Seq(Int) /\ Len(Credits(raw)) = n
      /\ Volatilities(raw) \in Seq(Int) /\ Len(Volatilities(raw)) = n
  BY <1>3
<1>5. \A k \in 1..n : Credits(raw)[k] = raw[k].credit /\ Volatilities(raw)[k] = raw[k].volatility
  BY <1>2 DEF Credits, Volatilities
<1>6. QED
  BY <1>1, <1>2, <1>4, <1>5

\* The n-th scored point is that of the n-th place that has one.
LEMMA ScoredPointsAre ==
    ASSUME NEW raw \in Seq(RawPoint), InDays(raw)
    PROVE  LET S == Scorable(raw)
               scored == ScoredPoints(raw)
           IN  /\ S \in SUBSET Int /\ S \in SUBSET (1..Len(raw)) /\ IsFiniteSet(S) /\ Cardinality(S) \in Nat
               /\ scored \in Seq(RiskPoint) /\ Len(scored) = Cardinality(S) /\ InDays(scored)
               /\ \A q \in 1..Len(scored) :
                      /\ InOrder(S)[q] \in S /\ scored[q] = PointAt(raw, InOrder(S)[q])
                      /\ scored[q].day = raw[InOrder(S)[q]].day
                      /\ WellFormedRiskPoint(scored[q])
<1>1. PICK S : S = Scorable(raw)
  OBVIOUS
<1>2. DOMAIN raw = 1..Len(raw) /\ Len(raw) \in Nat
  BY ColumnsAre
<1>3. S \in SUBSET Int /\ S \in SUBSET (1..Len(raw))
  BY <1>1, <1>2 DEF Scorable
<1>4. IsFiniteSet(S) /\ Cardinality(S) \in Nat
  <2>1. IsFiniteSet(1..Len(raw))
    BY <1>2, FS_Interval
  <2>2. QED
    BY <1>3, <2>1, FS_Subset, FS_CardinalityType
<1>5. PICK m \in Nat : m = Cardinality(S)
  BY <1>4
<1>6. PICK places : places = InOrder(S)
  OBVIOUS
<1>7. /\ places \in [1..m -> S] /\ DOMAIN places = 1..m
      /\ \A i, j \in 1..m : i < j => places[i] < places[j]
  BY <1>3, <1>4, <1>5, <1>6, InOrderPlaces, InOrderIncreases
<1>8. PICK scored : scored = ScoredPoints(raw)
  OBVIOUS
<1>9. ScoredPoints(raw) = [n \in DOMAIN places |-> PointAt(raw, places[n])]
  BY <1>1, <1>6 DEF ScoredPoints, PointAt, Scorable, Credits, Volatilities
<1>10. ASSUME NEW k \in S
       PROVE  PointAt(raw, k) \in RiskPoint /\ WellFormedRiskPoint(PointAt(raw, k)) /\ PointAt(raw, k).day = raw[k].day
  <2>1. k \in 1..Len(raw)
    BY <1>3
  <2>2. PICK c : c = RobustZs(Credits(raw))[k]
    OBVIOUS
  <2>3. PICK v : v = RobustZs(Volatilities(raw))[k]
    OBVIOUS
  <2>4. c # Absent /\ v # Absent
    BY <1>1, <2>2, <2>3 DEF Scorable
  <2>5. ZScore(c) /\ ZScore(v)
    BY <2>1, <2>2, <2>3, <2>4, ColumnsAre, RobustZsAre
  <2>6. c \in Int /\ v \in Int
    BY <2>5 DEF ZScore
  <2>7. Score(c, v) \in Int
    BY <2>6 DEF Score
  <2>8. raw[k].day \in Nat
    BY <2>1 DEF InDays
  <2>9. PointAt(raw, k) = [day |-> raw[k].day, credit |-> c, volatility |-> v, score |-> Score(c, v)]
    BY <2>2, <2>3 DEF PointAt
  <2>10. QED
    BY <2>5, <2>6, <2>7, <2>8, <2>9 DEF RiskPoint, WellFormedRiskPoint
<1>11. scored \in [1..m -> RiskPoint] /\ \A q \in 1..m : scored[q] = PointAt(raw, places[q])
  BY <1>7, <1>8, <1>9, <1>10
<1>12. scored \in Seq(RiskPoint) /\ Len(scored) = m
  BY <1>11
<1>13. \A q \in 1..m : /\ places[q] \in S /\ scored[q].day = raw[places[q]].day
                      /\ WellFormedRiskPoint(scored[q]) /\ scored[q].day \in Nat
  <2>1. \A q \in 1..m : places[q] \in S
    BY <1>7
  <2>2. \A q \in 1..m : PointAt(raw, places[q]).day \in Nat
    BY <1>10, <2>1 DEF RiskPoint
  <2>3. QED
    BY <1>10, <1>11, <2>1, <2>2
<1>14. ASSUME NEW i \in 1..m, NEW j \in 1..m, i < j PROVE scored[i].day < scored[j].day
  <2>1. places[i] < places[j] /\ places[i] \in 1..Len(raw) /\ places[j] \in 1..Len(raw)
    BY <1>3, <1>7, <1>14
  <2>2. raw[places[i]].day < raw[places[j]].day
    BY <2>1 DEF InDays
  <2>3. QED
    BY <1>13, <2>2
<1>15. InDays(scored)
  BY <1>12, <1>13, <1>14 DEF InDays
<1>16. QED
  BY <1>1, <1>3, <1>4, <1>5, <1>6, <1>8, <1>11, <1>12, <1>13, <1>15

\* What was scored on a day are the scored points up to it.
LEMMA ScoredUpTo ==
    ASSUME NEW raw \in Seq(RawPoint), NEW p \in Seq(RawPoint), InDays(raw), InDays(p),
           NEW day \in Int, IsUpTo(p, raw, day)
    PROVE  IsUpTo(ScoredPoints(p), ScoredPoints(raw), day)
<1>1. PICK n \in Nat : n = Len(p) /\ n <= Len(raw)
  BY DEF IsUpTo
<1>2. Len(raw) \in Nat /\ DOMAIN raw = 1..Len(raw) /\ DOMAIN p = 1..n
  BY <1>1, ColumnsAre
<1>3. \A k \in 1..n : k \in 1..Len(raw) /\ p[k] = raw[k]
  BY <1>1, <1>2 DEF IsUpTo
<1>4. \A k \in 1..n : /\ RobustZs(Credits(p))[k] = RobustZs(Credits(raw))[k]
                      /\ RobustZs(Volatilities(p))[k] = RobustZs(Volatilities(raw))[k]
  <2>1. /\ Credits(p) \in Seq(Int) /\ Credits(raw) \in Seq(Int)
        /\ Len(Credits(p)) = n /\ Len(Credits(p)) <= Len(Credits(raw))
        /\ \A k \in 1..n : Credits(p)[k] = Credits(raw)[k]
    BY <1>1, <1>3, ColumnsAre
  <2>2. /\ Volatilities(p) \in Seq(Int) /\ Volatilities(raw) \in Seq(Int)
        /\ Len(Volatilities(p)) = n /\ Len(Volatilities(p)) <= Len(Volatilities(raw))
        /\ \A k \in 1..n : Volatilities(p)[k] = Volatilities(raw)[k]
    BY <1>1, <1>3, ColumnsAre
  <2>3. \A k \in 1..n : RobustZs(Credits(p))[k] = RobustZs(Credits(raw))[k]
    BY <2>1, RobustZsPrefix
  <2>4. \A k \in 1..n : RobustZs(Volatilities(p))[k] = RobustZs(Volatilities(raw))[k]
    BY <2>2, RobustZsPrefix
  <2>5. QED
    BY <2>3, <2>4
<1>5. PICK S \in SUBSET Int : S = Scorable(raw) /\ IsFiniteSet(S) /\ S \in SUBSET (1..Len(raw))
  BY ScoredPointsAre
<1>6. Scorable(p) = UpTo(S, n)
  <2>1. \A k : k \in Scorable(p) <=> k \in 1..n /\ k \in Scorable(raw)
    BY <1>2, <1>3, <1>4 DEF Scorable
  <2>2. \A k \in S : k \in 1..n <=> k <= n
    BY <1>2, <1>5
  <2>3. QED
    BY <1>5, <2>1, <2>2 DEF UpTo
<1>7. PICK m \in Nat : m = Cardinality(Scorable(p))
  BY ScoredPointsAre
<1>8. PICK l \in Nat : l = Cardinality(S)
  BY <1>5, ScoredPointsAre
<1>9. PICK places : places = InOrder(S)
  OBVIOUS
<1>10. PICK then : then = InOrder(Scorable(p))
  OBVIOUS
<1>11. /\ m <= l
       /\ \A k \in 1..m : then[k] = places[k]
       /\ \A k \in 1..l : places[k] <= n <=> k <= m
  <2>1. LET T == UpTo(S, n)
        IN  /\ Cardinality(T) \in 0..Cardinality(S)
            /\ \A k \in 1..Cardinality(T) : InOrder(T)[k] = InOrder(S)[k]
            /\ \A k \in 1..Cardinality(S) : InOrder(S)[k] <= n <=> k <= Cardinality(T)
    <3>1. n \in Int /\ S \in SUBSET Int /\ IsFiniteSet(S)
      BY <1>5
    <3>2. QED
      BY <3>1, InOrderPrefix
  <2>2. QED
    BY <1>6, <1>7, <1>8, <1>9, <1>10, <2>1
<1>12. PICK scored : scored = ScoredPoints(raw)
  OBVIOUS
<1>13. PICK known : known = ScoredPoints(p)
  OBVIOUS
<1>14. /\ Len(scored) = l
       /\ \A q \in 1..l : places[q] \in S /\ scored[q] = PointAt(raw, places[q]) /\ scored[q].day = raw[places[q]].day
  BY <1>5, <1>8, <1>9, <1>12, ScoredPointsAre
<1>15. /\ Len(known) = m
       /\ \A q \in 1..m : then[q] \in Scorable(p) /\ known[q] = PointAt(p, then[q])
  BY <1>7, <1>10, <1>13, ScoredPointsAre
<1>16. ASSUME NEW q \in 1..m PROVE known[q] = scored[q]
  <2>1. q \in 1..l /\ then[q] = places[q]
    BY <1>11
  <2>2. PICK k \in 1..n : k = places[q]
    BY <1>6, <1>15, <2>1, <1>2 DEF Scorable
  <2>3. PointAt(p, k) = PointAt(raw, k)
    BY <1>3, <1>4 DEF PointAt
  <2>4. QED
    BY <1>14, <1>15, <2>1, <2>2, <2>3
<1>17. ASSUME NEW q \in 1..l PROVE scored[q].day <= day <=> q <= m
  <2>1. PICK k \in 1..Len(raw) : k = places[q]
    BY <1>5, <1>14
  <2>2. raw[k].day <= day <=> k <= n
    BY <1>1 DEF IsUpTo
  <2>3. places[q] <= n <=> q <= m
    BY <1>11
  <2>4. QED
    BY <1>14, <2>1, <2>2, <2>3
<1>18. QED
  BY <1>11, <1>12, <1>13, <1>14, <1>15, <1>16, <1>17 DEF IsUpTo

-----------------------------------------------------------------------------
(* Real rates up to a day.                                                  *)

RatePoint ==
    [day : Nat, level : Int, change : Int \cup {Absent}, pressure : Int \cup {Absent},
     percentile : Nat \X Nat]

\* What is promised of the rate of a day.
RateHolds(r) ==
    /\ r.pressure # Absent => ZScore(r.pressure) /\ r.change # Absent
    /\ r.percentile[1] \in 0..r.percentile[2]

Levels(rates) == [k \in DOMAIN InOrder(DOMAIN rates) |-> rates[InOrder(DOMAIN rates)[k]]]
Changes(levels, n) == [k \in 1..n - Change |-> levels[k + Change] - levels[k]]
RateAt(day, levels, changes, pressure, k) ==
    [day |-> day, level |-> levels[k],
     change |-> IF k > Change THEN changes[k - Change] ELSE Absent,
     pressure |-> IF k > Change THEN pressure[k - Change] ELSE Absent,
     percentile |-> Percentile(LastOf(SubSeq(levels, 1, k), RobustWindow))]

\* A percentile is a part of the values it is taken of.
LEMMA PercentileIs ==
    ASSUME NEW levels \in Seq(Int)
    PROVE  /\ Percentile(levels) \in Nat \X Nat
           /\ Percentile(levels)[1] \in 0..Percentile(levels)[2]
<1> DEFINE Low == {k \in DOMAIN levels : levels[k] <= Last(levels)}
<1>1. Len(levels) \in Nat /\ DOMAIN levels = 1..Len(levels)
  BY LenProperties
<1>2. IsFiniteSet(1..Len(levels)) /\ Cardinality(1..Len(levels)) = Len(levels)
  BY <1>1, FS_Interval
<1>3. Low \in SUBSET (1..Len(levels))
  BY <1>1
<1>4. Cardinality(Low) \in Nat /\ Cardinality(Low) <= Len(levels)
  BY <1>2, <1>3, FS_Subset, FS_CardinalityType
<1>5. Percentile(levels) = <<Cardinality(Low), Len(levels)>>
  BY DEF Percentile
<1>6. QED
  BY <1>1, <1>4, <1>5

\* The history of the rates has one entry for each observation, in order.
LEMMA RateHistoryIs ==
    ASSUME NEW rates, IsHistory(rates)
    PROVE  LET days == InOrder(DOMAIN rates)
               levels == Levels(rates)
               changes == Changes(levels, Len(days))
               history == RateHistory(rates)
           IN  /\ levels \in Seq(Int) /\ Len(levels) = Len(days) /\ Len(days) = Cardinality(DOMAIN rates)
               /\ changes \in Seq(Int)
               /\ Len(changes) = IF Len(days) > Change THEN Len(days) - Change ELSE 0
               /\ history \in Seq(RatePoint) /\ Len(history) = Len(days) /\ InDays(history)
               /\ \A k \in 1..Len(history) :
                      /\ history[k] = RateAt(days[k], levels, changes, RobustZs(changes), k)
                      /\ history[k].day = days[k] /\ RateHolds(history[k])
               /\ \A k \in 1..Len(levels) : levels[k] = rates[days[k]]
<1>1. DOMAIN rates \in SUBSET Int /\ DOMAIN rates \in SUBSET Nat /\ IsFiniteSet(DOMAIN rates)
  BY DEF IsHistory
<1>2. PICK n \in Nat : n = Cardinality(DOMAIN rates)
  BY <1>1, FS_CardinalityType
<1>3. PICK days : days = InOrder(DOMAIN rates)
  OBVIOUS
<1>4. /\ days \in [1..n -> DOMAIN rates] /\ Len(days) = n /\ DOMAIN days = 1..n
      /\ \A i, j \in 1..n : i < j => days[i] < days[j]
  BY <1>1, <1>2, <1>3, InOrderPlaces, InOrderIncreases
<1>5. PICK levels : levels = Levels(rates)
  OBVIOUS
<1>6. levels = [k \in 1..n |-> rates[days[k]]]
  BY <1>3, <1>4, <1>5 DEF Levels
<1>7. levels \in [1..n -> Int]
  BY <1>4, <1>6 DEF IsHistory
<1>8. levels \in Seq(Int) /\ Len(levels) = n
  BY <1>7
<1>9. PICK m \in Nat : m = IF n > Change THEN n - Change ELSE 0
  <2>1. (IF n > Change THEN n - Change ELSE 0) \in Nat
    BY RegimeAssumption
  <2>2. QED
    BY <2>1
<1>10. /\ 1..n - Change = 1..m /\ \A k \in 1..m : k + Change \in 1..n /\ k \in 1..n
       /\ \A k \in 1..n : k > Change => k - Change \in 1..m
  BY <1>9, RegimeAssumption
<1>11. PICK changes : changes = Changes(levels, n)
  OBVIOUS
<1>12. changes \in [1..m -> Int]
  <2>1. \A k \in 1..m : levels[k + Change] - levels[k] \in Int
    BY <1>7, <1>10
  <2>2. QED
    BY <1>10, <1>11, <2>1 DEF Changes
<1>13. changes \in Seq(Int) /\ Len(changes) = m
  BY <1>12
<1>14. PICK pressure : pressure = RobustZs(changes)
  OBVIOUS
<1>15. \A k \in 1..m : /\ pressure[k] \in Int \cup {Absent}
                       /\ pressure[k] # Absent => ZScore(pressure[k])
  BY <1>13, <1>14, RobustZsAre
<1>16. PICK history : history = RateHistory(rates)
  OBVIOUS
<1>17. history = [k \in 1..n |-> RateAt(days[k], levels, changes, pressure, k)]
  <2> DEFINE D == InOrder(DOMAIN rates)
             L == Levels(rates)
             C == Changes(L, Len(D))
  <2>1. RateHistory(rates) = [k \in DOMAIN D |-> RateAt(D[k], L, C, RobustZs(C), k)]
    BY DEF RateHistory, RateAt, Levels, Changes
  <2>2. D = days /\ L = levels
    BY <1>3, <1>5
  <2>3. C = changes
    BY <1>4, <1>11, <2>2
  <2> HIDE DEF D, L, C
  <2>4. QED
    BY <1>4, <1>14, <1>16, <2>1, <2>2, <2>3
<1>18. ASSUME NEW k \in 1..n
       PROVE  /\ RateAt(days[k], levels, changes, pressure, k) \in RatePoint
              /\ RateHolds(RateAt(days[k], levels, changes, pressure, k))
              /\ RateAt(days[k], levels, changes, pressure, k).day = days[k] /\ days[k] \in Nat
  <2>1. PICK c : c = IF k > Change THEN changes[k - Change] ELSE Absent
    OBVIOUS
  <2>2. PICK z : z = IF k > Change THEN pressure[k - Change] ELSE Absent
    OBVIOUS
  <2>3. PICK window : window = LastOf(SubSeq(levels, 1, k), RobustWindow)
    OBVIOUS
  <2>4. window \in Seq(Int)
    <3>1. SubSeq(levels, 1, k) \in Seq(Int)
      <4>1. k \in Int /\ \A i \in 1..k : levels[i] \in Int
        BY <1>7
      <4>2. QED
        BY <4>1, SubSeqProperties
    <3>2. QED
      BY <2>3, <3>1, LastOfIs, RegimeAssumption
  <2>5. PICK share \in Nat \X Nat : share = Percentile(window) /\ share[1] \in 0..share[2]
    BY <2>4, PercentileIs
  <2>6. c \in Int \cup {Absent} /\ (k > Change => c \in Int)
    BY <1>10, <1>12, <2>1
  <2>7. z \in Int \cup {Absent} /\ (z # Absent => ZScore(z) /\ k > Change)
    BY <1>10, <1>15, <2>2
  <2>8. z # Absent => c # Absent
    BY <2>6, <2>7, MetricsAssumption
  <2>9. days[k] \in Nat /\ levels[k] \in Int
    BY <1>1, <1>4, <1>7
  <2>10. RateAt(days[k], levels, changes, pressure, k) =
             [day |-> days[k], level |-> levels[k], change |-> c, pressure |-> z, percentile |-> share]
    BY <2>1, <2>2, <2>3, <2>5 DEF RateAt
  <2>11. QED
    BY <2>5, <2>6, <2>7, <2>8, <2>9, <2>10 DEF RatePoint, RateHolds
<1>19. history \in [1..n -> RatePoint] /\ \A k \in 1..n : history[k] = RateAt(days[k], levels, changes, pressure, k)
  BY <1>17, <1>18
<1>20. history \in Seq(RatePoint) /\ Len(history) = n
  BY <1>19
<1>21. \A k \in 1..n : history[k].day = days[k] /\ RateHolds(history[k]) /\ history[k].day \in Nat
  BY <1>18, <1>19
<1>22. InDays(history)
  <2>1. \A i, j \in 1..n : i < j => history[i].day < history[j].day
    BY <1>4, <1>21
  <2>2. QED
    BY <1>20, <1>21, <2>1 DEF InDays
<1>23. \A k \in 1..n : levels[k] = rates[days[k]]
  BY <1>6
<1>24. QED
  BY <1>2, <1>3, <1>4, <1>5, <1>8, <1>9, <1>11, <1>13, <1>14, <1>16, <1>19, <1>20, <1>21, <1>22, <1>23

\* The same, each part of it named.
LEMMA RateHistoryOf ==
    ASSUME NEW rates, IsHistory(rates), NEW days, days = InOrder(DOMAIN rates),
           NEW n, n = Cardinality(DOMAIN rates), NEW levels, levels = Levels(rates),
           NEW changes, changes = Changes(levels, n), NEW history, history = RateHistory(rates)
    PROVE  /\ levels \in Seq(Int) /\ Len(levels) = n
           /\ changes \in Seq(Int) /\ Len(changes) = (IF n > Change THEN n - Change ELSE 0)
           /\ Len(history) = n
           /\ \A k \in 1..n : /\ history[k] = RateAt(days[k], levels, changes, RobustZs(changes), k)
                             /\ history[k].day = days[k] /\ levels[k] = rates[days[k]]
<1>1. Len(days) = n
  BY RateHistoryIs
<1>2. changes = Changes(Levels(rates), Len(InOrder(DOMAIN rates)))
  BY <1>1
<1>3. /\ levels \in Seq(Int) /\ Len(levels) = n /\ \A k \in 1..Len(levels) : levels[k] = rates[days[k]]
  BY <1>1, RateHistoryIs
<1>4. changes \in Seq(Int) /\ Len(changes) = (IF n > Change THEN n - Change ELSE 0)
  BY <1>1, <1>2, RateHistoryIs
<1>5. Len(history) = n
  BY <1>1, RateHistoryIs
<1>6. \A k \in 1..Len(history) :
          history[k] = RateAt(days[k], levels, changes, RobustZs(changes), k) /\ history[k].day = days[k]
  BY <1>1, <1>2, RateHistoryIs
<1>7. QED
  BY <1>3, <1>4, <1>5, <1>6

\* What was known of the rates on a day is their history up to it.
LEMMA HistoryUpTo ==
    ASSUME NEW rates, IsHistory(rates), NEW day \in Int
    PROVE  IsUpTo(RateHistory(CutAt(rates, day)), RateHistory(rates), day)
<1>1. PICK cut : cut = CutAt(rates, day)
  OBVIOUS
<1>2. /\ IsHistory(cut) /\ DOMAIN cut = UpTo(DOMAIN rates, day)
      /\ \A d \in DOMAIN cut : cut[d] = rates[d]
  BY <1>1, CutIsHistory
<1>3. PICK D \in SUBSET Int : D = DOMAIN rates /\ IsFiniteSet(D)
  BY DEF IsHistory
<1>4. PICK T \in SUBSET Int : T = UpTo(D, day) /\ IsFiniteSet(T)
  <2>1. UpTo(D, day) \in SUBSET D /\ IsFiniteSet(UpTo(D, day))
    BY <1>3, UpToFinite
  <2>2. QED
    BY <2>1
<1>5. PICK n \in Nat : n = Cardinality(D)
  BY <1>3, FS_CardinalityType
<1>6. PICK m \in Nat : m = Cardinality(T)
  BY <1>4, FS_CardinalityType
<1>7. PICK days : days = InOrder(D)
  OBVIOUS
<1>8. PICK then : then = InOrder(T)
  OBVIOUS
<1>9. /\ m <= n
      /\ \A k \in 1..m : then[k] = days[k]
      /\ \A k \in 1..n : days[k] <= day <=> k <= m
  <2>1. /\ Cardinality(T) \in 0..Cardinality(D)
        /\ \A k \in 1..Cardinality(T) : InOrder(T)[k] = InOrder(D)[k]
        /\ \A k \in 1..Cardinality(D) : InOrder(D)[k] <= day <=> k <= Cardinality(T)
    BY <1>3, <1>4, InOrderPrefix
  <2>2. QED
    BY <1>5, <1>6, <1>7, <1>8, <2>1
<1>10. PICK levels : levels = Levels(rates)
  OBVIOUS
<1>11. PICK known : known = Levels(cut)
  OBVIOUS
<1>12. PICK changes : changes = Changes(levels, n)
  OBVIOUS
<1>13. PICK moved : moved = Changes(known, m)
  OBVIOUS
<1>14. PICK history : history = RateHistory(rates)
  OBVIOUS
<1>15. PICK past : past = RateHistory(cut)
  OBVIOUS
<1>16. /\ levels \in Seq(Int) /\ Len(levels) = n
       /\ changes \in Seq(Int) /\ Len(changes) = (IF n > Change THEN n - Change ELSE 0)
       /\ Len(history) = n
       /\ \A k \in 1..n : /\ history[k] = RateAt(days[k], levels, changes, RobustZs(changes), k)
                          /\ history[k].day = days[k] /\ levels[k] = rates[days[k]]
  <2>1. n = Cardinality(DOMAIN rates) /\ days = InOrder(DOMAIN rates)
    BY <1>3, <1>5, <1>7
  <2>2. QED
    BY <1>10, <1>12, <1>14, <2>1, RateHistoryOf
<1>17. /\ known \in Seq(Int) /\ Len(known) = m
       /\ moved \in Seq(Int) /\ Len(moved) = (IF m > Change THEN m - Change ELSE 0)
       /\ Len(past) = m
       /\ \A k \in 1..m : /\ past[k] = RateAt(then[k], known, moved, RobustZs(moved), k)
                          /\ known[k] = cut[then[k]]
  <2>1. IsHistory(cut) /\ m = Cardinality(DOMAIN cut) /\ then = InOrder(DOMAIN cut)
    BY <1>2, <1>3, <1>4, <1>6, <1>8
  <2>2. QED
    BY <1>11, <1>13, <1>15, <2>1, RateHistoryOf
<1>18. \A k \in 1..m : known[k] = levels[k]
  <2>1. \A k \in 1..m : then[k] \in T
    BY <1>4, <1>6, <1>8, InOrderPlaces
  <2>2. \A k \in 1..m : cut[then[k]] = rates[then[k]]
    BY <1>2, <1>3, <1>4, <2>1
  <2>3. \A k \in 1..m : k \in 1..n /\ then[k] = days[k]
    BY <1>9
  <2>4. \A k \in 1..m : known[k] = cut[then[k]] /\ levels[k] = rates[days[k]]
    BY <1>16, <1>17, <2>3
  <2>5. QED
    BY <2>2, <2>3, <2>4
<1>19. \A k \in 1..m : SubSeq(known, 1, k) = SubSeq(levels, 1, k)
  BY <1>9, <1>16, <1>17, <1>18, SubSeqPrefix
<1>20. Len(moved) <= Len(changes) /\ \A k \in 1..Len(moved) : moved[k] = changes[k]
  <2>1. /\ Len(moved) <= Len(changes)
        /\ \A k \in 1..Len(moved) : k \in 1..m /\ k + Change \in 1..m /\ k \in 1..m - Change /\ k \in 1..n - Change
    BY <1>9, <1>16, <1>17, RegimeAssumption
  <2>2. \A k \in 1..m - Change : moved[k] = known[k + Change] - known[k]
    BY <1>13 DEF Changes
  <2>3. \A k \in 1..n - Change : changes[k] = levels[k + Change] - levels[k]
    BY <1>12 DEF Changes
  <2>4. QED
    BY <1>18, <2>1, <2>2, <2>3
<1>21. \A k \in 1..Len(moved) : RobustZs(moved)[k] = RobustZs(changes)[k]
  BY <1>16, <1>17, <1>20, RobustZsPrefix
<1>22. ASSUME NEW k \in 1..m PROVE past[k] = history[k]
  <2>1. k > Change => k - Change \in 1..Len(moved)
    BY <1>17, RegimeAssumption
  <2>2. k \in 1..n /\ then[k] = days[k] /\ known[k] = levels[k] /\ SubSeq(known, 1, k) = SubSeq(levels, 1, k)
    BY <1>9, <1>18, <1>19
  <2>3. k > Change => /\ moved[k - Change] = changes[k - Change]
                      /\ RobustZs(moved)[k - Change] = RobustZs(changes)[k - Change]
    BY <1>20, <1>21, <2>1
  <2>4. RateAt(then[k], known, moved, RobustZs(moved), k) = RateAt(days[k], levels, changes, RobustZs(changes), k)
    BY <2>2, <2>3 DEF RateAt
  <2>5. QED
    BY <1>16, <1>17, <2>2, <2>4
<1>23. \A k \in 1..n : history[k].day <= day <=> k <= m
  BY <1>9, <1>16
<1>24. QED
  BY <1>1, <1>9, <1>14, <1>15, <1>16, <1>17, <1>22, <1>23 DEF IsUpTo

-----------------------------------------------------------------------------
(* The regime sees no later day.                                            *)

\* The four histories end on one day, which the last point is of.
LEMMA RawLast ==
    ASSUME NEW input, MacroInput(input), ~RiskRaises(input)
    PROVE  /\ RawPoints(input) \in Seq(RawPoint) /\ RawPoints(input) # <<>>
           /\ Last(RawPoints(input)) = RawPoints(input)[Len(RawPoints(input))]
           /\ Len(RawPoints(input)) \in Nat \ {0} /\ Last(RawPoints(input)).day \in Nat
           /\ \A x \in RiskInputs : \A d \in DOMAIN input[x] : d <= Last(RawPoints(input)).day
<1> DEFINE Ends == {Max(DOMAIN input[x]) : x \in RiskInputs}
<1>1. \A x \in RiskInputs : /\ Max(DOMAIN input[x]) \in DOMAIN input[x] /\ Max(DOMAIN input[x]) \in Int
                            /\ \A d \in DOMAIN input[x] : d <= Max(DOMAIN input[x])
  <2>1. SUFFICES ASSUME NEW x \in RiskInputs
                 PROVE  /\ Max(DOMAIN input[x]) \in DOMAIN input[x] /\ Max(DOMAIN input[x]) \in Int
                        /\ \A d \in DOMAIN input[x] : d <= Max(DOMAIN input[x])
    OBVIOUS
  <2>2. DOMAIN input[x] \in SUBSET Int /\ IsFiniteSet(DOMAIN input[x]) /\ DOMAIN input[x] # {}
    BY DEF MacroInput, IsHistory, RiskRaises
  <2>3. QED
    BY <2>2, MaxOf
<1>2. IsFiniteSet(Ends)
  <2> PICK a : a = Max(DOMAIN input["hyg"])
    OBVIOUS
  <2> PICK b : b = Max(DOMAIN input["lqd"])
    OBVIOUS
  <2> PICK c : c = Max(DOMAIN input["vix"])
    OBVIOUS
  <2> PICK d : d = Max(DOMAIN input["vix3m"])
    OBVIOUS
  <2>1. Ends = (({a} \cup {b}) \cup {c}) \cup {d}
    BY DEF RiskInputs
  <2>2. IsFiniteSet({a})
    BY FS_Singleton
  <2>3. IsFiniteSet({a} \cup {b})
    BY <2>2, FS_AddElement
  <2>4. IsFiniteSet(({a} \cup {b}) \cup {c})
    BY <2>3, FS_AddElement
  <2>5. IsFiniteSet((({a} \cup {b}) \cup {c}) \cup {d})
    BY <2>4, FS_AddElement
  <2>6. QED
    BY <2>1, <2>5
<1>3. ASSUME NEW a \in Ends, NEW b \in Ends PROVE a = b
  <2>1. SUFFICES ASSUME a # b PROVE FALSE
    OBVIOUS
  <2>2. IsFiniteSet({b}) /\ Cardinality({b}) = 1
    BY FS_Singleton
  <2>3. Cardinality({b} \cup {a}) = 2
    <3>1. a \notin {b}
      BY <2>1
    <3>2. Cardinality({b} \cup {a}) = Cardinality({b}) + 1
      BY <2>2, <3>1, FS_AddElement
    <3>3. QED
      BY <2>2, <3>2
  <2>4. {b} \cup {a} \in SUBSET Ends
    OBVIOUS
  <2> HIDE DEF Ends
  <2>5. Cardinality({b} \cup {a}) <= Cardinality(Ends) /\ Cardinality(Ends) \in Nat
    BY <1>2, <2>4, FS_Subset, FS_CardinalityType
  <2>6. ~(Cardinality(Ends) > 1)
    BY DEF RiskRaises, Ends
  <2>7. QED
    BY <2>3, <2>5, <2>6
<1>4. PICK end \in Int : \A x \in RiskInputs : end = Max(DOMAIN input[x])
  <2>1. "hyg" \in RiskInputs
    BY DEF RiskInputs
  <2>2. \A x \in RiskInputs : Max(DOMAIN input["hyg"]) = Max(DOMAIN input[x])
    BY <1>3, <2>1
  <2>3. QED
    BY <1>1, <2>1, <2>2
<1>5. PICK C \in SUBSET Int : C = CommonDays(input) /\ IsFiniteSet(C)
  BY CommonDaysAre
<1>6. end \in C /\ \A d \in C : d <= end
  <2>1. "hyg" \in RiskInputs
    BY DEF RiskInputs
  <2>2. QED
    BY <1>1, <1>4, <1>5, <2>1 DEF CommonDays
<1>7. Max(C) = end /\ C # {}
  BY <1>6, MaxIs
<1>8. PICK n \in Nat : n = Cardinality(C) /\ n > Change
  BY <1>5, CommonDaysAre, RegimeAssumption DEF RiskRaises
<1>9. InOrder(C)[n] = end
  BY <1>5, <1>7, <1>8, InOrderLast
<1>10. PICK raw : raw = RawPoints(input)
  OBVIOUS
<1>11. /\ raw \in Seq(RawPoint) /\ Len(raw) = n - Change
       /\ \A k \in 1..Len(raw) : raw[k].day = InOrder(C)[k + Change]
  BY <1>5, <1>8, <1>10, RawPointsAre
<1>12. n - Change \in Nat \ {0} /\ n - Change + Change = n /\ n - Change \in 1..(n - Change)
  BY <1>8, RegimeAssumption
<1>13. raw[Len(raw)].day = end
  BY <1>9, <1>11, <1>12
<1>14. raw # <<>> /\ Last(raw) = raw[Len(raw)]
  BY <1>11, <1>12, EmptySeq DEF Last
<1>15. end \in Nat
  BY <1>5, <1>6, CommonDaysAre
<1>16. QED
  BY <1>1, <1>4, <1>10, <1>11, <1>12, <1>13, <1>14, <1>15

\* What a risk snapshot is made of.
LEMMA RiskIs ==
    ASSUME NEW input
    PROVE  /\ RiskSnapshot(input).asOf = Last(RawPoints(input)).day
           /\ RiskSnapshot(input).trajectory \in {<<>>, LastOf(ScoredPoints(RawPoints(input)), TrajectoryLength)}
BY DEF RiskSnapshot, RiskOf

\* The aligned points are those of increasing places of the trajectory.
AlignedBy(places, n, risk, history) ==
    /\ n \in Nat /\ n <= Len(risk.trajectory) /\ places \in [1..n -> 1..Len(risk.trajectory)]
    /\ AlignedPoints(risk, history) \in Seq(Range(AlignedPoints(risk, history)))
    /\ Len(AlignedPoints(risk, history)) = n
    /\ \A k \in 1..n :
           /\ Aligned(history, risk.trajectory[places[k]].day)
           /\ AlignedPoints(risk, history)[k] = AlignPoint(risk.trajectory[places[k]], history)
    /\ \A i, j \in 1..n : i < j => places[i] < places[j]

\* The aligned points of any trajectory are such points.
LEMMA AlignedPointsAre ==
    ASSUME NEW risk, NEW S, risk.trajectory \in Seq(S), NEW history
    PROVE  \E n, places : AlignedBy(places, n, risk, history)
<1>1. PICK points \in Seq(S) : points = risk.trajectory
  OBVIOUS
<1>2. PICK l \in Nat : l = Len(points) /\ DOMAIN points = 1..l
  BY LenProperties
<1>3. PICK P : P = {k \in DOMAIN points : Aligned(history, points[k].day)}
  OBVIOUS
<1>4. P \in SUBSET Int /\ P \in SUBSET (1..l)
  BY <1>2, <1>3
<1>5. IsFiniteSet(P) /\ Cardinality(P) \in Nat /\ Cardinality(P) <= l
  <2>1. IsFiniteSet(1..l) /\ Cardinality(1..l) = l
    BY FS_Interval
  <2>2. QED
    BY <1>4, <2>1, FS_Subset, FS_CardinalityType
<1>6. PICK n \in Nat : n = Cardinality(P)
  BY <1>5
<1>7. PICK places : places = InOrder(P)
  OBVIOUS
<1>8. /\ places \in [1..n -> P] /\ DOMAIN places = 1..n
      /\ \A i, j \in 1..n : i < j => places[i] < places[j]
  BY <1>4, <1>5, <1>6, <1>7, InOrderPlaces, InOrderIncreases
<1>9. PICK aligned : aligned = AlignedPoints(risk, history)
  OBVIOUS
<1>10. aligned = [k \in 1..n |-> AlignPoint(points[places[k]], history)]
  BY <1>1, <1>3, <1>7, <1>8, <1>9 DEF AlignedPoints
<1>11. aligned \in [1..n -> Range(aligned)]
  BY <1>10 DEF Range
<1>12. aligned \in Seq(Range(aligned)) /\ Len(aligned) = n
  BY <1>11
<1>13. \A k \in 1..n : Aligned(history, points[places[k]].day)
  BY <1>3, <1>8
<1>14. places \in [1..n -> 1..l]
  BY <1>4, <1>8
<1>15. \A k \in 1..n : aligned[k] = AlignPoint(points[places[k]], history)
  BY <1>10
<1>16. AlignedBy(places, n, risk, history)
  BY <1>1, <1>2, <1>5, <1>6, <1>8, <1>9, <1>12, <1>13, <1>14, <1>15 DEF AlignedBy
<1>17. QED
  BY <1>16

\* There is a newest rate known on a day.
LEMMA KnownIs ==
    ASSUME NEW history \in Seq(RatePoint), NEW day, Known(history, day) # {}
    PROVE  /\ Max(Known(history, day)) \in Known(history, day) /\ Known(history, day) \in SUBSET Int
           /\ Known(history, day) \in SUBSET (1..Len(history))
           /\ \A k \in Known(history, day) : k <= Max(Known(history, day))
<1>1. Len(history) \in Nat /\ DOMAIN history = 1..Len(history)
  BY LenProperties
<1>2. Known(history, day) \in SUBSET (1..Len(history))
  BY <1>1 DEF Known
<1>3. IsFiniteSet(Known(history, day)) /\ Known(history, day) \in SUBSET Int
  <2>1. IsFiniteSet(1..Len(history))
    BY <1>1, FS_Interval
  <2>2. QED
    BY <1>2, <2>1, FS_Subset
<1>4. QED
  BY <1>2, <1>3, MaxOf

\* A point is aligned to what was known on its day.
LEMMA AlignedAsKnown ==
    ASSUME NEW history \in Seq(RatePoint), NEW past \in Seq(RatePoint), NEW risk, IsUpTo(past, history, risk.day),
           Aligned(history, risk.day)
    PROVE  AlignPoint(risk, past) = AlignPoint(risk, history)
<1>1. PICK day : day = risk.day
  OBVIOUS
<1>2. /\ Len(history) \in Nat /\ DOMAIN history = 1..Len(history)
      /\ Len(past) \in Nat /\ DOMAIN past = 1..Len(past)
  BY LenProperties
<1>3. Known(past, day) = Known(history, day)
  <2>1. \A k \in 1..Len(past) : k \in 1..Len(history) /\ past[k] = history[k]
    BY <1>2 DEF IsUpTo
  <2>2. \A k \in 1..Len(history) : history[k].day <= day <=> k \in 1..Len(past)
    BY <1>1, <1>2 DEF IsUpTo
  <2>3. \A k : k \in Known(past, day) <=> k \in Known(history, day)
    BY <1>2, <2>1, <2>2 DEF Known
  <2>4. QED
    BY <2>3
<1>4. PICK k : k = Max(Known(history, day)) /\ k \in Known(history, day)
  BY <1>1, KnownIs DEF Aligned
<1>5. past[k] = history[k]
  BY <1>2, <1>3, <1>4 DEF Known, IsUpTo
<1>6. QED
  BY <1>1, <1>3, <1>4, <1>5 DEF AlignPoint

\* Neither changes when what is later than the snapshot is cut.
LEMMA MacroOfItsDay ==
    ASSUME NEW input, MacroInput(input), ~RiskRaises(input)
    PROVE  LET s == RegimeSnapshot(input) IN s = RegimeSnapshot(Cut(input, s.asOf))
<1>1. PICK asOf \in Int : asOf = Last(RawPoints(input)).day
  BY RawLast
<1>2. RiskSnapshot(input).asOf = asOf /\ RegimeSnapshot(input).asOf = asOf
  <2>1. RiskSnapshot(input).asOf = asOf
    BY <1>1, RiskIs
  <2>2. RegimeSnapshot(input).asOf = RiskSnapshot(input).asOf
    BY DEF RegimeSnapshot, RegimeFrom, RegimeOf
  <2>3. QED
    BY <2>1, <2>2
<1>3. PICK cut : cut = Cut(input, asOf)
  OBVIOUS
<1>4. \A x \in RiskInputs \cup {"rates"} : x \in DOMAIN input /\ IsHistory(input[x]) /\ cut[x] = CutAt(input[x], asOf)
  BY <1>3, CutInput DEF MacroInput
<1>5. \A x \in RiskInputs : cut[x] = input[x]
  BY <1>1, <1>4, RawLast, CutNothing
<1>6. RawPoints(cut) = RawPoints(input)
  <2>1. cut["hyg"] = input["hyg"] /\ cut["lqd"] = input["lqd"] /\ cut["vix"] = input["vix"] /\ cut["vix3m"] = input["vix3m"]
    BY <1>5 DEF RiskInputs
  <2>2. CommonDays(cut) = CommonDays(input)
    BY <1>5, <2>1 DEF CommonDays
  <2>3. QED
    BY <2>1, <2>2 DEF RawPoints
<1>7. RiskSnapshot(cut) = RiskSnapshot(input)
  BY <1>6 DEF RiskSnapshot
<1>8. CutAt(cut["rates"], asOf) = CutAt(input["rates"], asOf)
  <2>1. asOf <= asOf
    OBVIOUS
  <2>2. QED
    BY <1>4, <2>1, CutTwice
<1>9. RegimeSnapshot(cut) = RegimeFrom(RiskSnapshot(cut), CutAt(cut["rates"], RiskSnapshot(cut).asOf))
  BY DEF RegimeSnapshot
<1>10. RegimeSnapshot(input) = RegimeFrom(RiskSnapshot(input), CutAt(input["rates"], RiskSnapshot(input).asOf))
  BY DEF RegimeSnapshot
<1>11. QED
  BY <1>2, <1>3, <1>7, <1>8, <1>9, <1>10

\* What was computed on the day of a point is that point.
LEMMA PointOfItsDay ==
    ASSUME NEW input, MacroInput(input), ~RiskRaises(input),
           NEW k \in DOMAIN RegimeSnapshot(input).trajectory
    PROVE  RegimeSnapshot(Cut(input, RegimeSnapshot(input).trajectory[k].day)).current
               \in {Absent, RegimeSnapshot(input).trajectory[k]}
<1>1. PICK raw \in Seq(RawPoint) : raw = RawPoints(input)
  BY RawLast
<1>2. PICK asOf \in Int : asOf = Last(raw).day
  BY <1>1, RawLast
<1>3. PICK scored \in Seq(RiskPoint) : scored = ScoredPoints(raw)
  BY <1>1, RawPointsAre, ScoredPointsAre
<1>4. PICK risk : risk = RiskSnapshot(input)
  OBVIOUS
<1>5. PICK history : history = RateHistory(CutAt(input["rates"], asOf))
  OBVIOUS
<1>6. PICK aligned : aligned = AlignedPoints(risk, history)
  OBVIOUS
<1>7. PICK points : points = RegimeSnapshot(input).trajectory
  OBVIOUS
<1>8. /\ risk.asOf = asOf /\ risk.trajectory \in {<<>>, LastOf(scored, TrajectoryLength)}
      /\ points \in {<<>>, aligned} /\ k \in DOMAIN points
  <2>1. risk.asOf = asOf /\ risk.trajectory \in {<<>>, LastOf(scored, TrajectoryLength)}
    BY <1>1, <1>2, <1>3, <1>4, RiskIs
  <2>2. RegimeSnapshot(input) = RegimeFrom(risk, CutAt(input["rates"], asOf))
    BY <1>4, <2>1 DEF RegimeSnapshot
  <2>3. RegimeSnapshot(input) = RegimeOf(risk, RateState(CutAt(input["rates"], asOf)), aligned)
    BY <1>5, <1>6, <2>2 DEF RegimeFrom
  <2>4. points \in {<<>>, aligned}
    BY <1>7, <2>3 DEF RegimeOf
  <2>5. QED
    BY <1>7, <2>1, <2>4
<1>9. points = aligned
  BY <1>8
<1>10. risk.trajectory \in Seq(RiskPoint)
  <2>1. LastOf(scored, TrajectoryLength) \in Seq(RiskPoint)
    BY LastOfIs, RegimeAssumption
  <2>2. <<>> \in Seq(RiskPoint)
    BY EmptySeq
  <2>3. QED
    BY <1>8, <2>1, <2>2
<1>11. PICK n, places : AlignedBy(places, n, risk, history)
  BY <1>10, AlignedPointsAre
<1>12. k \in 1..n
  <2>1. aligned \in Seq(Range(aligned)) /\ Len(aligned) = n
    BY <1>6, <1>11 DEF AlignedBy
  <2>2. DOMAIN aligned = 1..n
    BY <2>1, LenProperties
  <2>3. QED
    BY <1>8, <1>9, <2>2
<1>13. PICK i \in 1..Len(risk.trajectory) : /\ Aligned(history, risk.trajectory[i].day)
                                            /\ aligned[k] = AlignPoint(risk.trajectory[i], history)
  BY <1>6, <1>11, <1>12 DEF AlignedBy
\* It is that of the q-th scored point.
<1>14. PICK q \in 1..Len(scored) : scored[q] = risk.trajectory[i]
  <2>1. CASE risk.trajectory = <<>>
    BY <2>1, <1>13, EmptySeq
  <2>2. CASE risk.trajectory = LastOf(scored, TrajectoryLength)
    <3>1. PICK t : t = risk.trajectory
      OBVIOUS
    <3>2. /\ Len(t) <= Len(scored) /\ t \in Seq(RiskPoint)
          /\ \A j \in 1..Len(t) : t[j] = scored[Len(scored) - Len(t) + j]
      <4>1. TrajectoryLength \in Nat
        BY RegimeAssumption
      <4>2. t = LastOf(scored, TrajectoryLength)
        BY <2>2, <3>1
      <4>3. QED
        BY <4>1, <4>2, LastOfIs
    <3>3. Len(t) \in Nat /\ Len(scored) \in Nat
      BY <3>2, LenProperties
    <3>4. Len(scored) - Len(t) + i \in 1..Len(scored)
      BY <3>1, <3>2, <3>3
    <3>5. t[i] = scored[Len(scored) - Len(t) + i]
      BY <3>1, <3>2
    <3>6. QED
      BY <3>1, <3>4, <3>5
  <2>3. QED
    BY <1>8, <2>1, <2>2
<1>15. PICK p \in RiskPoint : p = scored[q]
  BY <1>3, ElementOfSeq
<1>16. PICK day \in Nat : day = p.day
  BY <1>15 DEF RiskPoint
<1>17. /\ points[k] = AlignPoint(p, history) /\ Aligned(history, day) /\ points[k].day = day
  BY <1>9, <1>13, <1>14, <1>15, <1>16 DEF AlignPoint
\* What was known on its day.
<1>18. PICK cut : cut = Cut(input, day)
  OBVIOUS
<1>19. PICK known \in Seq(RawPoint) : known = RawPoints(cut) /\ InDays(known) /\ IsUpTo(known, raw, day)
  <2>1. day \in Int
    OBVIOUS
  <2>2. MacroInput(cut) /\ IsUpTo(RawPoints(cut), raw, day)
    BY <1>1, <1>18, <2>1, RawUpTo
  <2>3. RawPoints(cut) \in Seq(RawPoint) /\ InDays(RawPoints(cut))
    BY <2>2, RawPointsAre
  <2>4. QED
    BY <2>2, <2>3
<1>20. InDays(raw) /\ Len(raw) \in Nat \ {0} /\ Last(raw) = raw[Len(raw)]
  BY <1>1, RawPointsAre, RawLast
<1>21. PICK then \in Seq(RiskPoint) : then = ScoredPoints(known) /\ IsUpTo(then, scored, day)
  <2>1. ScoredPoints(known) \in Seq(RiskPoint)
    BY <1>19, ScoredPointsAre
  <2>2. IsUpTo(ScoredPoints(known), scored, day)
    BY <1>3, <1>19, <1>20, ScoredUpTo
  <2>3. QED
    BY <2>1, <2>2
<1>22. InDays(scored) /\ Len(scored) \in Nat
  BY <1>1, <1>3, <1>20, ScoredPointsAre, LenProperties
<1>23. PICK r \in 1..Len(raw) : raw[r].day = day
  <2>1. /\ Scorable(raw) \in SUBSET (1..Len(raw))
        /\ InOrder(Scorable(raw))[q] \in Scorable(raw) /\ scored[q].day = raw[InOrder(Scorable(raw))[q]].day
    BY <1>1, <1>3, <1>20, ScoredPointsAre
  <2>2. QED
    BY <1>15, <1>16, <2>1
<1>24. day <= asOf
  <2>1. r \in Nat /\ Len(raw) \in 1..Len(raw) /\ (r = Len(raw) \/ r < Len(raw))
    BY <1>20
  <2>2. raw[r].day \in Nat /\ raw[Len(raw)].day \in Nat
    BY <1>20, <2>1 DEF InDays
  <2>3. r < Len(raw) => raw[r].day < raw[Len(raw)].day
    BY <1>20, <2>1 DEF InDays
  <2>4. QED
    BY <1>2, <1>20, <1>23, <2>1, <2>2, <2>3
<1>25. Last(known).day = day
  <2>1. r <= Len(known) /\ Len(known) \in Nat /\ Len(known) <= Len(raw) /\ r \in Nat
    BY <1>19, <1>20, <1>23 DEF IsUpTo
  <2>2. PICK l \in 1..Len(raw) : l = Len(known)
    BY <2>1
  <2>3. l \in 1..Len(known)
    BY <2>1, <2>2
  <2>4. known[l] = raw[l] /\ raw[l].day <= day
    BY <1>19, <2>2, <2>3 DEF IsUpTo
  <2>5. raw[l].day \in Nat /\ (r < l => day < raw[l].day)
    BY <1>20, <1>23 DEF InDays
  <2>6. r = l
    BY <1>20, <2>1, <2>2, <2>4, <2>5
  <2>7. QED
    BY <1>23, <2>2, <2>4, <2>6 DEF Last
<1>26. \A j \in 1..Len(then) : then[j].day = day => then[j] = p
  <2>1. SUFFICES ASSUME NEW j \in 1..Len(then), then[j].day = day PROVE then[j] = p
    OBVIOUS
  <2>2. j \in 1..Len(scored) /\ then[j] = scored[j]
    BY <1>21, <1>22 DEF IsUpTo
  <2>3. (j < q => scored[j].day < scored[q].day) /\ (q < j => scored[q].day < scored[j].day)
    BY <1>22, <2>2 DEF InDays
  <2>4. scored[j].day = day /\ scored[q].day = day
    BY <1>15, <1>16, <2>1, <2>2
  <2>5. j \in Nat /\ q \in Nat
    BY <1>22, <2>2
  <2>6. j = q
    BY <2>3, <2>4, <2>5
  <2>7. QED
    BY <1>15, <2>2, <2>6
<1>27. PICK rates : rates = CutAt(input["rates"], asOf)
  OBVIOUS
<1>28. IsHistory(input["rates"]) /\ IsHistory(rates) /\ "rates" \in DOMAIN input
  BY <1>27, CutIsHistory DEF MacroInput
<1>29. CutAt(cut["rates"], day) = CutAt(rates, day)
  <2>1. cut["rates"] = CutAt(input["rates"], day)
    BY <1>18, <1>28, CutInput
  <2>2. day \in Int /\ day <= day
    OBVIOUS
  <2>3. CutAt(CutAt(input["rates"], day), day) = CutAt(input["rates"], day)
    BY <1>28, <2>2, CutTwice
  <2>4. CutAt(rates, day) = CutAt(input["rates"], day)
    BY <1>24, <1>27, <1>28, <2>2, CutTwice
  <2>5. QED
    BY <2>1, <2>3, <2>4
<1>30. PICK past \in Seq(RatePoint) : past = RateHistory(CutAt(rates, day)) /\ IsUpTo(past, history, day)
  <2>1. day \in Int
    OBVIOUS
  <2>2. IsUpTo(RateHistory(CutAt(rates, day)), history, day)
    BY <1>5, <1>27, <1>28, <2>1, HistoryUpTo
  <2>3. IsHistory(CutAt(rates, day))
    BY <1>28, <2>1, CutIsHistory
  <2>4. RateHistory(CutAt(rates, day)) \in Seq(RatePoint)
    BY <2>3, RateHistoryIs
  <2>5. QED
    BY <2>2, <2>4
<1>31. history \in Seq(RatePoint)
  BY <1>5, <1>27, <1>28, RateHistoryIs
\* What was computed on it.
<1>32. PICK seen : seen = RiskSnapshot(cut)
  OBVIOUS
<1>33. seen.asOf = day /\ seen.trajectory \in {<<>>, LastOf(then, TrajectoryLength)}
  BY <1>19, <1>21, <1>25, <1>32, RiskIs
<1>34. PICK now : now = AlignedPoints(seen, past)
  OBVIOUS
<1>35. PICK current : current = RegimeSnapshot(cut).current
  OBVIOUS
<1>36. current = Absent \/ (current = Last(now) /\ now # <<>> /\ Last(now).day = day)
  <2>1. RegimeSnapshot(cut) = RegimeFrom(seen, CutAt(cut["rates"], day))
    BY <1>32, <1>33 DEF RegimeSnapshot
  <2>2. RegimeSnapshot(cut) = RegimeOf(seen, RateState(CutAt(cut["rates"], day)), now)
    BY <1>29, <1>30, <1>34, <2>1 DEF RegimeFrom
  <2>3. ASSUME NEW rate, current = RegimeOf(seen, rate, now).current
        PROVE  current = Absent \/ (current = Last(now) /\ now # <<>> /\ Last(now).day = seen.asOf)
    BY <2>3 DEF RegimeOf
  <2>4. QED
    BY <1>33, <1>35, <2>2, <2>3
<1>37. ASSUME now # <<>>, Last(now).day = day PROVE Last(now) = points[k]
  <2>1. seen.trajectory \in Seq(RiskPoint)
    <3>1. LastOf(then, TrajectoryLength) \in Seq(RiskPoint)
      BY LastOfIs, RegimeAssumption
    <3>2. <<>> \in Seq(RiskPoint)
      BY EmptySeq
    <3>3. QED
      BY <1>33, <3>1, <3>2
  <2>2. PICK m, spots : AlignedBy(spots, m, seen, past)
    BY <2>1, AlignedPointsAre
  <2>3. now \in Seq(Range(now)) /\ Len(now) = m
    BY <1>34, <2>2 DEF AlignedBy
  <2>4. m \in Nat \ {0} /\ m \in 1..m /\ Last(now) = now[m]
    <3>1. m \in Nat \ {0}
      BY <1>37, <2>3, EmptySeq
    <3>2. QED
      BY <2>3, <3>1 DEF Last
  <2>5. PICK j \in 1..Len(seen.trajectory) : now[m] = AlignPoint(seen.trajectory[j], past)
    BY <1>34, <2>2, <2>4 DEF AlignedBy
  <2>6. seen.trajectory[j].day = day
    BY <1>37, <2>4, <2>5 DEF AlignPoint
  <2>7. seen.trajectory[j] = p
    <3>1. CASE seen.trajectory = <<>>
      BY <3>1, <2>5, EmptySeq
    <3>2. CASE seen.trajectory = LastOf(then, TrajectoryLength)
      <4>1. PICK t : t = seen.trajectory
        OBVIOUS
      <4>2. /\ Len(t) <= Len(then) /\ t \in Seq(RiskPoint)
            /\ \A x \in 1..Len(t) : t[x] = then[Len(then) - Len(t) + x]
        <5>1. TrajectoryLength \in Nat
          BY RegimeAssumption
        <5>2. t = LastOf(then, TrajectoryLength)
          BY <3>2, <4>1
        <5>3. QED
          BY <5>1, <5>2, LastOfIs
      <4>3. Len(t) \in Nat /\ Len(then) \in Nat
        BY <4>2, LenProperties
      <4>4. Len(then) - Len(t) + j \in 1..Len(then)
        BY <4>1, <4>2, <4>3
      <4>5. t[j] = then[Len(then) - Len(t) + j]
        BY <4>1, <4>2
      <4>6. QED
        BY <1>26, <2>6, <4>1, <4>4, <4>5
    <3>3. QED
      BY <1>33, <3>1, <3>2
  <2>8. AlignPoint(p, past) = AlignPoint(p, history)
    BY <1>16, <1>17, <1>30, <1>31, AlignedAsKnown
  <2>9. QED
    BY <1>17, <2>4, <2>5, <2>7, <2>8
<1>38. current \in {Absent, points[k]}
  BY <1>36, <1>37
<1>39. QED
  BY <1>7, <1>17, <1>18, <1>35, <1>38

\* The price, breadth and macro snapshots of every input have seen no later day.
LEMMA NothingAhead == ASSUME case # Absent => IsCase(case) PROVE NoLookAhead
<1>1. SUFFICES ASSUME case # Absent, ~CaseRaises
               PROVE  /\ case.kind = "prices" => LET s == PriceSnapshot(case.input)
                                                 IN  s = PriceSnapshot(Cut(case.input, s.asOf))
                      /\ case.kind = "breadth" => LET s == BreadthSnapshot(case.input)
                                                  IN  s = BreadthSnapshot(CutBreadth(case.input, s.asOf))
                      /\ case.kind = "macro" => /\ LET s == RegimeSnapshot(case.input)
                                                   IN  s = RegimeSnapshot(Cut(case.input, s.asOf))
                                                /\ TrajectoryIsHistory(case.input)
  BY DEF NoLookAhead
<1>2. IsCase(case)
  BY <1>1
<1>3. ASSUME case.kind = "prices"
      PROVE  LET s == PriceSnapshot(case.input) IN s = PriceSnapshot(Cut(case.input, s.asOf))
  <2>1. PriceInput(case.input) /\ ~PriceRaises(case.input)
    BY <1>1, <1>2, <1>3 DEF IsCase, CaseRaises
  <2>2. QED
    BY <2>1, PricesOfTheirDay
<1>4. ASSUME case.kind = "breadth"
      PROVE  LET s == BreadthSnapshot(case.input) IN s = BreadthSnapshot(CutBreadth(case.input, s.asOf))
  <2>1. BreadthInput(case.input) /\ ~BreadthRaises(case.input)
    BY <1>1, <1>2, <1>4 DEF IsCase, CaseRaises
  <2>2. QED
    BY <2>1, BreadthOfTheirDay
<1>5. ASSUME case.kind = "macro"
      PROVE  /\ LET s == RegimeSnapshot(case.input) IN s = RegimeSnapshot(Cut(case.input, s.asOf))
             /\ TrajectoryIsHistory(case.input)
  <2>1. MacroInput(case.input) /\ ~RiskRaises(case.input)
    BY <1>1, <1>2, <1>5 DEF IsCase, CaseRaises, RegimeRaises
  <2>2. TrajectoryIsHistory(case.input)
    BY <2>1, PointOfItsDay DEF TrajectoryIsHistory
  <2>3. QED
    BY <2>1, <2>2, MacroOfItsDay
<1>6. QED
  BY <1>3, <1>4, <1>5

-----------------------------------------------------------------------------
(* The macro snapshots are readable.                                        *)

\* Days in order increase over any distance.
LEMMA InDaysIncreases ==
    ASSUME NEW S, NEW s \in Seq(S), InDays(s)
    PROVE  Increasing(s)
<1>1. Len(s) \in Nat
  BY LenProperties
<1>2. ASSUME NEW k \in 1..Len(s) - 1 PROVE s[k].day < s[k + 1].day
  <2>1. k \in 1..Len(s) /\ k + 1 \in 1..Len(s) /\ k < k + 1
    BY <1>1
  <2>2. QED
    BY <2>1 DEF InDays
<1>3. QED
  BY <1>2 DEF Increasing

\* So do those of the last points.
LEMMA LastOfInDays ==
    ASSUME NEW S, NEW s \in Seq(S), InDays(s), NEW n \in Nat
    PROVE  InDays(LastOf(s, n)) /\ \A k \in 1..Len(LastOf(s, n)) : \E j \in 1..Len(s) : LastOf(s, n)[k] = s[j]
<1>1. PICK t \in Seq(S) : t = LastOf(s, n)
  BY LastOfIs
<1>2. Len(t) <= Len(s) /\ \A k \in 1..Len(t) : t[k] = s[Len(s) - Len(t) + k]
  BY <1>1, LastOfIs
<1>3. Len(s) \in Nat /\ Len(t) \in Nat
  BY LenProperties
<1>4. \A k \in 1..Len(t) : Len(s) - Len(t) + k \in 1..Len(s)
  BY <1>2, <1>3
<1>5. \A i, j \in 1..Len(t) : i < j => Len(s) - Len(t) + i < Len(s) - Len(t) + j
  BY <1>3
<1>6. \A k \in 1..Len(t) : t[k].day \in Nat
  BY <1>2, <1>4 DEF InDays
<1>7. \A i, j \in 1..Len(t) : i < j => t[i].day < t[j].day
  BY <1>2, <1>4, <1>5 DEF InDays
<1>8. QED
  BY <1>1, <1>2, <1>4, <1>6, <1>7 DEF InDays

\* A risk snapshot is one its record accepts, and its trajectory is of scored points.
LEMMA RiskReadable ==
    ASSUME NEW input, MacroInput(input), ~RiskRaises(input)
    PROVE  LET s == RiskSnapshot(input)
           IN  /\ WellFormedRisk(s) /\ s.trajectory \in Seq(RiskPoint) /\ InDays(s.trajectory)
               /\ \A k \in 1..Len(s.trajectory) : WellFormedRiskPoint(s.trajectory[k])
               /\ s.validity \in {"insufficient_history", "unavailable", "complete"}
<1>1. PICK raw \in Seq(RawPoint) : raw = RawPoints(input)
  BY RawLast
<1>2. /\ raw # <<>> /\ InDays(raw) /\ Len(raw) \in Nat \ {0}
      /\ Last(raw) = raw[Len(raw)]
  BY <1>1, RawLast, RawPointsAre
<1>3. PICK scored \in Seq(RiskPoint) : scored = ScoredPoints(raw)
  BY <1>1, <1>2, ScoredPointsAre
<1>4. InDays(scored) /\ \A q \in 1..Len(scored) : WellFormedRiskPoint(scored[q])
  BY <1>2, <1>3, ScoredPointsAre
<1>5. Len(scored) \in Nat
  BY LenProperties
<1>6. PICK observations \in Int : observations = Min({Len(raw), RobustWindow})
  <2>1. Min({Len(raw), RobustWindow}) \in Int
    BY <1>2, MinOfTwo, RegimeAssumption
  <2>2. QED
    BY <2>1
<1>7. /\ observations >= 0 /\ MinRobust \in Nat
      /\ observations < MinRobust <=> Len(raw) < MinRobust
  BY <1>2, <1>6, MinOfTwo, RegimeAssumption
<1>8. observations < MinRobust => scored = <<>>
  <2>1. SUFFICES ASSUME observations < MinRobust PROVE scored = <<>>
    OBVIOUS
  <2>2. Scorable(raw) = {}
    <3>1. SUFFICES ASSUME NEW k \in Scorable(raw) PROVE FALSE
      OBVIOUS
    <3>2. k \in 1..Len(raw) /\ RobustZs(Credits(raw))[k] # Absent
      BY ColumnsAre DEF Scorable
    <3>3. Credits(raw) \in Seq(Int) /\ Len(Credits(raw)) = Len(raw)
      BY ColumnsAre
    <3>4. k >= MinRobust
      BY <3>2, <3>3, RobustZsAre
    <3>5. QED
      BY <1>2, <1>7, <2>1, <3>2, <3>4
  <2>3. Len(scored) = 0
    BY <1>2, <1>3, <2>2, ScoredPointsAre, FS_EmptySet
  <2>4. QED
    BY <2>3, EmptySeq
<1>9. TrajectoryLength \in Nat /\ TrajectoryLength \in Nat \ {0}
  BY RegimeAssumption
<1>10. PICK last \in Seq(RiskPoint) : last = LastOf(scored, TrajectoryLength)
  BY <1>9, LastOfIs
<1>11. /\ Len(last) <= TrajectoryLength /\ InDays(last)
       /\ \A k \in 1..Len(last) : WellFormedRiskPoint(last[k])
  <2>1. Len(last) <= TrajectoryLength
    BY <1>9, <1>10, LastOfIs
  <2>2. InDays(last) /\ \A k \in 1..Len(last) : \E j \in 1..Len(scored) : last[k] = scored[j]
    BY <1>4, <1>9, <1>10, LastOfInDays
  <2>3. QED
    BY <1>4, <2>1, <2>2
<1>12. scored # <<>> => /\ last # <<>> /\ Last(last) = Last(scored)
                        /\ Last(scored) \in RiskPoint /\ Last(scored) # Absent
  <2>1. scored # <<>> => last # <<>> /\ Last(last) = Last(scored) /\ Last(scored) \in RiskPoint
    BY <1>9, <1>10, LastOfLast
  <2>2. Absent \notin RiskPoint
    BY RegimeAssumption DEF RiskPoint
  <2>3. QED
    BY <2>1, <2>2
<1> DEFINE now == scored # <<>> /\ Last(scored).day = Last(raw).day
           current == IF now THEN Last(scored) ELSE Absent
           validity == IF observations < MinRobust THEN "insufficient_history"
                       ELSE IF current = Absent THEN "unavailable" ELSE "complete"
           trajectory == IF validity = "complete" THEN last ELSE <<>>
<1>13. RiskSnapshot(input) =
           [asOf |-> Last(raw).day, validity |-> validity, observations |-> observations,
            components |-> Last(raw), current |-> current, trajectory |-> trajectory]
  BY <1>1, <1>3, <1>6, <1>10 DEF RiskSnapshot, RiskOf
<1>14. validity = "complete" <=> now /\ ~(observations < MinRobust)
  BY <1>12
<1>15. validity # "complete" => current = Absent
  BY <1>8, <1>14
<1>16. validity = "insufficient_history" <=> observations < MinRobust
  OBVIOUS
<1>17. validity = "complete" => /\ observations >= MinRobust /\ current # Absent /\ trajectory # <<>>
                                /\ Last(trajectory) = current /\ current.day = Last(raw).day
  BY <1>6, <1>7, <1>12, <1>14
<1>18. /\ trajectory \in Seq(RiskPoint) /\ InDays(trajectory) /\ Len(trajectory) <= TrajectoryLength
       /\ \A k \in 1..Len(trajectory) : WellFormedRiskPoint(trajectory[k])
  <2>1. CASE validity = "complete"
    BY <1>11, <2>1
  <2>2. CASE validity # "complete"
    <3>1. trajectory = <<>>
      BY <2>2
    <3>2. <<>> \in Seq(RiskPoint) /\ Len(<<>>) = 0
      BY EmptySeq
    <3> HIDE DEF trajectory
    <3>3. \A k \in 1..Len(trajectory) : FALSE
      BY <3>1, <3>2
    <3>4. QED
      BY <1>9, <3>1, <3>2, <3>3 DEF InDays
  <2>3. QED
    BY <2>1, <2>2
<1>19. validity \in {"insufficient_history", "unavailable", "complete"} /\ (validity # "complete" => trajectory = <<>>)
  OBVIOUS
<1> HIDE DEF validity, current, trajectory
<1>20. Increasing(trajectory)
  BY <1>18, InDaysIncreases
<1>21. \A p \in Range(trajectory) : WellFormedRiskPoint(p)
  <2>1. DOMAIN trajectory = 1..Len(trajectory)
    BY <1>18, LenProperties
  <2>2. QED
    BY <1>18, <2>1 DEF Range
<1>22. PICK s : s = RiskSnapshot(input)
  OBVIOUS
<1>23. /\ s.asOf = Last(raw).day /\ s.validity = validity /\ s.observations = observations
       /\ s.components = Last(raw) /\ s.current = current /\ s.trajectory = trajectory
  BY <1>13, <1>22
<1>24. WellFormedRisk(s)
  BY <1>7, <1>15, <1>16, <1>17, <1>18, <1>19, <1>20, <1>21, <1>23 DEF WellFormedRisk
<1>25. QED
  BY <1>18, <1>19, <1>22, <1>23, <1>24

\* The state of the rates is one its record accepts, and of a day no later.
LEMMA RatesReadable ==
    ASSUME NEW rates, IsHistory(rates), DOMAIN rates # {}, NEW day \in Int, \A d \in DOMAIN rates : d <= day
    PROVE  LET history == RateHistory(rates)
               s == RateState(rates)
           IN  /\ WellFormedRate(s) /\ s.latest.day <= day
               /\ history \in Seq(RatePoint) /\ Len(history) \in Nat \ {0} /\ InDays(history)
               /\ \A k \in 1..Len(history) : RateHolds(history[k]) /\ history[k].day <= day
               /\ s.latest = history[Len(history)]
               /\ s.validity \in {"insufficient_history", "unavailable", "complete"}
<1>1. PICK history \in Seq(RatePoint) : history = RateHistory(rates)
  BY RateHistoryIs
<1>2. PICK n \in Nat \ {0} : n = Len(history) /\ n = Cardinality(DOMAIN rates)
  <2>1. Len(history) = Cardinality(DOMAIN rates)
    BY <1>1, RateHistoryIs
  <2>2. Cardinality(DOMAIN rates) \in Nat /\ Cardinality(DOMAIN rates) # 0
    BY FS_CardinalityType, FS_EmptySet DEF IsHistory
  <2>3. QED
    BY <2>1, <2>2
<1>3. InDays(history) /\ \A k \in 1..n : RateHolds(history[k])
  BY <1>1, <1>2, RateHistoryIs
<1>4. \A k \in 1..n : history[k].day <= day
  <2>1. DOMAIN rates \in SUBSET Int /\ IsFiniteSet(DOMAIN rates)
    BY DEF IsHistory
  <2>2. InOrder(DOMAIN rates) \in [1..n -> DOMAIN rates]
    BY <1>2, <2>1, InOrderPlaces
  <2>3. \A k \in 1..n : history[k].day = InOrder(DOMAIN rates)[k]
    BY <1>1, <1>2, RateHistoryIs
  <2>4. QED
    BY <2>2, <2>3
<1>5. n \in 1..n
  OBVIOUS
<1>6. PICK latest \in RatePoint : latest = history[n] /\ latest = Last(history)
  BY <1>2, <1>5, ElementOfSeq DEF Last
<1>7. PICK count : count = Min({Max({0, n - Change}), RobustWindow})
  OBVIOUS
<1>8. /\ count \in Nat /\ Change \in Nat /\ MinRobust \in Nat
      /\ n - Change >= MinRobust => count >= MinRobust
  <2>1. Max({0, n - Change}) = IF 0 <= n - Change THEN n - Change ELSE 0
    BY MaxOfTwo, RegimeAssumption
  <2>2. PICK m \in Nat : m = Max({0, n - Change}) /\ (n - Change >= MinRobust => m >= MinRobust)
    BY <2>1, RegimeAssumption
  <2>3. count = IF m <= RobustWindow THEN m ELSE RobustWindow
    <3>1. count = Min({m, RobustWindow})
      BY <1>7, <2>2
    <3>2. m \in Int /\ RobustWindow \in Int
      BY RegimeAssumption
    <3>3. QED
      BY <3>1, <3>2, MinOfTwo
  <2>4. QED
    BY <2>2, <2>3, RegimeAssumption
<1>9. latest.pressure # Absent => n - Change >= MinRobust
  <2>1. SUFFICES ASSUME latest.pressure # Absent PROVE n - Change >= MinRobust
    OBVIOUS
  <2>2. PICK changes \in Seq(Int) : /\ Len(changes) = (IF n > Change THEN n - Change ELSE 0)
                                    /\ latest.pressure = IF n > Change THEN RobustZs(changes)[n - Change] ELSE Absent
    <3>1. PICK changes : changes = Changes(Levels(rates), n)
      OBVIOUS
    <3>2. Len(InOrder(DOMAIN rates)) = n
      BY <1>2, RateHistoryIs
    <3>3. changes \in Seq(Int) /\ Len(changes) = IF n > Change THEN n - Change ELSE 0
      BY <3>1, <3>2, RateHistoryIs
    <3>4. history[n] = RateAt(InOrder(DOMAIN rates)[n], Levels(rates), changes, RobustZs(changes), n)
      BY <1>1, <1>2, <1>5, <3>1, <3>2, RateHistoryIs
    <3>5. latest.pressure = IF n > Change THEN RobustZs(changes)[n - Change] ELSE Absent
      <4>1. PICK d, levels, pressure : d = InOrder(DOMAIN rates)[n] /\ levels = Levels(rates) /\ pressure = RobustZs(changes)
        OBVIOUS
      <4>2. latest = RateAt(d, levels, changes, pressure, n)
        BY <1>6, <3>4, <4>1
      <4>3. RateAt(d, levels, changes, pressure, n).pressure = IF n > Change THEN pressure[n - Change] ELSE Absent
        BY DEF RateAt
      <4>4. latest.pressure = IF n > Change THEN pressure[n - Change] ELSE Absent
        BY <4>2, <4>3
      <4>5. QED
        BY <4>1, <4>4
    <3>6. QED
      BY <3>3, <3>5
  <2>3. n > Change /\ n - Change \in 1..Len(changes) /\ RobustZs(changes)[n - Change] # Absent
    BY <1>8, <2>1, <2>2
  <2>4. QED
    BY <2>3, RobustZsAre
<1> DEFINE validity == IF count < MinRobust THEN "insufficient_history"
                       ELSE IF latest.pressure = Absent THEN "unavailable" ELSE "complete"
<1>10. RateState(rates) = [latest |-> latest, observations |-> count, validity |-> validity]
  BY <1>1, <1>2, <1>6, <1>7 DEF RateState
<1>11. count < MinRobust => latest.pressure = Absent
  BY <1>8, <1>9
<1>12. /\ validity = "insufficient_history" <=> count < MinRobust
       /\ validity = "complete" <=> latest.pressure # Absent
       /\ validity \in {"insufficient_history", "unavailable", "complete"}
  BY <1>11
<1>13. RateHolds(latest)
  BY <1>3, <1>5, <1>6
<1> HIDE DEF validity
<1>14. PICK s : s = RateState(rates)
  OBVIOUS
<1>15. s.latest = latest /\ s.observations = count /\ s.validity = validity
  BY <1>10, <1>14
<1>16. WellFormedRate(s)
  BY <1>12, <1>13, <1>15 DEF WellFormedRate, RateHolds
<1>17. latest.day <= day
  BY <1>4, <1>5, <1>6
<1>18. QED
  BY <1>1, <1>2, <1>3, <1>4, <1>6, <1>12, <1>14, <1>15, <1>16, <1>17

\* A point that is aligned is one its record accepts.
LEMMA PointReadable ==
    ASSUME NEW history \in Seq(RatePoint), \A k \in 1..Len(history) : RateHolds(history[k]),
           NEW risk \in RiskPoint, WellFormedRiskPoint(risk), Aligned(history, risk.day)
    PROVE  WellFormedRegimePoint(AlignPoint(risk, history))
<1>1. PICK k \in 1..Len(history) : k = Max(Known(history, risk.day)) /\ k \in Known(history, risk.day)
  BY KnownIs DEF Aligned
<1>2. PICK rate \in RatePoint : rate = history[k]
  BY ElementOfSeq
<1>3. rate.pressure # Absent /\ rate.day <= risk.day /\ risk.day - rate.day <= AlignmentMaxAge
  BY <1>1, <1>2 DEF Aligned, Known
<1>4. ZScore(rate.pressure) /\ rate.percentile[1] \in 0..rate.percentile[2]
  BY <1>2, <1>3 DEF RateHolds
<1>5. PICK p : p = AlignPoint(risk, history)
  OBVIOUS
<1>6. p.day = risk.day /\ p.rate = rate /\ p.risk = risk /\ p.regime = Classify(rate.pressure, risk.score)
  BY <1>1, <1>2, <1>5 DEF AlignPoint
<1>7. p.day - rate.day \in 0..AlignmentMaxAge
  <2>1. risk.day \in Nat /\ rate.day \in Nat /\ AlignmentMaxAge \in Nat
    BY RegimeAssumption DEF RiskPoint, RatePoint
  <2>2. QED
    BY <1>3, <1>6, <2>1
<1>8. QED
  BY <1>4, <1>5, <1>6, <1>7 DEF WellFormedRegimePoint

\* The last regime has lasted for one point at least.
LEMMA DurationIs ==
    ASSUME NEW S, NEW points \in Seq(S)
    PROVE  Duration(points) \in 0..Len(points) /\ (points # <<>> => Duration(points) \in 1..Len(points))
<1> DEFINE Same == {k \in DOMAIN points : \A n \in k..Len(points) : points[n].regime = Last(points).regime}
<1>1. Len(points) \in Nat /\ DOMAIN points = 1..Len(points)
  BY LenProperties
<1>2. IsFiniteSet(1..Len(points)) /\ Cardinality(1..Len(points)) = Len(points)
  BY <1>1, FS_Interval
<1>3. IsFiniteSet(Same) /\ Cardinality(Same) \in 0..Len(points)
  <2>1. Same \in SUBSET (1..Len(points))
    BY <1>1
  <2> HIDE DEF Same
  <2>2. IsFiniteSet(Same) /\ Cardinality(Same) <= Cardinality(1..Len(points))
    BY <1>2, <2>1, FS_Subset
  <2>3. Cardinality(Same) \in Nat
    BY <2>2, FS_CardinalityType
  <2>4. QED
    BY <1>1, <1>2, <2>2, <2>3
<1>4. points # <<>> => Same # {}
  <2>1. SUFFICES ASSUME points # <<>> PROVE Same # {}
    OBVIOUS
  <2>2. Len(points) \in 1..Len(points)
    BY <1>1, <2>1, EmptySeq
  <2>3. \A n \in Len(points)..Len(points) : n = Len(points)
    <3>1. \A l \in Nat : \A n \in l..l : n = l
      OBVIOUS
    <3>2. QED
      BY <1>1, <3>1
  <2>4. Len(points) \in Same
    BY <1>1, <2>2, <2>3 DEF Last
  <2>5. QED
    BY <2>4
<1>5. Duration(points) = Cardinality(Same)
  BY DEF Duration
<1> HIDE DEF Same
<1>6. Same # {} => Cardinality(Same) # 0
  BY <1>3, FS_EmptySet
<1>7. QED
  BY <1>1, <1>3, <1>4, <1>5, <1>6

\* A regime snapshot is one its record accepts.
LEMMA RegimeReadable ==
    ASSUME NEW input, MacroInput(input), ~RegimeRaises(input)
    PROVE  WellFormedRisk(RiskSnapshot(input)) /\ WellFormedRegime(RegimeSnapshot(input))
<1>1. PICK risk : risk = RiskSnapshot(input)
  OBVIOUS
<1>2. ~RiskRaises(input) /\ DOMAIN CutAt(input["rates"], risk.asOf) # {}
  BY <1>1 DEF RegimeRaises, RatesRaise
<1>3. PICK asOf \in Int : asOf = risk.asOf
  <2>1. Last(RawPoints(input)).day \in Nat
    BY <1>2, RawLast
  <2>2. risk.asOf = Last(RawPoints(input)).day
    BY <1>1, RiskIs
  <2>3. QED
    BY <2>1, <2>2
<1>4. PICK points \in Seq(RiskPoint) : points = risk.trajectory
  BY <1>1, <1>2, RiskReadable
<1>5. /\ WellFormedRisk(risk) /\ InDays(points) /\ Len(points) <= TrajectoryLength
      /\ \A k \in 1..Len(points) : WellFormedRiskPoint(points[k])
      /\ risk.validity \in {"insufficient_history", "unavailable", "complete"}
  <2>1. /\ WellFormedRisk(risk) /\ InDays(points)
        /\ \A k \in 1..Len(points) : WellFormedRiskPoint(points[k])
        /\ risk.validity \in {"insufficient_history", "unavailable", "complete"}
    BY <1>1, <1>2, <1>4, RiskReadable
  <2>2. QED
    BY <1>4, <2>1 DEF WellFormedRisk
<1>6. PICK rates : rates = CutAt(input["rates"], asOf)
  OBVIOUS
<1>7. IsHistory(rates) /\ DOMAIN rates # {} /\ \A d \in DOMAIN rates : d <= asOf
  <2>1. IsHistory(input["rates"])
    BY DEF MacroInput
  <2>2. IsHistory(rates) /\ DOMAIN rates = UpTo(DOMAIN input["rates"], asOf)
    BY <1>6, <2>1, CutIsHistory
  <2>3. QED
    BY <1>2, <1>3, <1>6, <2>2 DEF UpTo
<1>8. PICK history \in Seq(RatePoint) : history = RateHistory(rates)
  BY <1>7, RatesReadable
<1>9. PICK rate : rate = RateState(rates)
  OBVIOUS
<1>10. /\ WellFormedRate(rate) /\ rate.latest.day <= asOf
       /\ Len(history) \in Nat \ {0} /\ InDays(history)
       /\ \A k \in 1..Len(history) : RateHolds(history[k]) /\ history[k].day <= asOf
       /\ rate.latest = history[Len(history)]
       /\ rate.validity \in {"insufficient_history", "unavailable", "complete"}
  BY <1>7, <1>8, <1>9, RatesReadable
<1>11. PICK aligned : aligned = AlignedPoints(risk, history)
  OBVIOUS
<1>12. PICK n, places : AlignedBy(places, n, risk, history)
  BY <1>4, AlignedPointsAre
<1>13. /\ n \in Nat /\ n <= Len(points) /\ places \in [1..n -> 1..Len(points)]
       /\ aligned \in Seq(Range(aligned)) /\ Len(aligned) = n /\ DOMAIN aligned = 1..n
       /\ \A k \in 1..n : /\ Aligned(history, points[places[k]].day)
                          /\ aligned[k] = AlignPoint(points[places[k]], history)
       /\ \A i, j \in 1..n : i < j => places[i] < places[j]
  <2>1. /\ n \in Nat /\ n <= Len(points) /\ places \in [1..n -> 1..Len(points)]
        /\ aligned \in Seq(Range(aligned)) /\ Len(aligned) = n
        /\ \A k \in 1..n : /\ Aligned(history, points[places[k]].day)
                           /\ aligned[k] = AlignPoint(points[places[k]], history)
        /\ \A i, j \in 1..n : i < j => places[i] < places[j]
    BY <1>4, <1>11, <1>12 DEF AlignedBy
  <2>2. QED
    BY <2>1, LenProperties
<1>14. \A k \in 1..n : WellFormedRegimePoint(aligned[k]) /\ aligned[k].day = points[places[k]].day
  <2>1. SUFFICES ASSUME NEW k \in 1..n
                 PROVE  WellFormedRegimePoint(aligned[k]) /\ aligned[k].day = points[places[k]].day
    OBVIOUS
  <2>2. PICK p \in RiskPoint : p = points[places[k]] /\ WellFormedRiskPoint(p)
    BY <1>4, <1>5, <1>13, ElementOfSeq
  <2>3. aligned[k] = AlignPoint(p, history) /\ Aligned(history, p.day)
    BY <1>13, <2>2
  <2>4. WellFormedRegimePoint(aligned[k])
    BY <1>10, <2>2, <2>3, PointReadable
  <2>5. QED
    BY <2>2, <2>3, <2>4 DEF AlignPoint
<1>15. \A k \in 1..n - 1 : aligned[k].day < aligned[k + 1].day
  <2>1. SUFFICES ASSUME NEW k \in 1..n - 1 PROVE aligned[k].day < aligned[k + 1].day
    OBVIOUS
  <2>2. k \in 1..n /\ k + 1 \in 1..n /\ k < k + 1
    BY <1>13
  <2>3. places[k] \in 1..Len(points) /\ places[k + 1] \in 1..Len(points) /\ places[k] < places[k + 1]
    BY <1>13, <2>2
  <2>4. points[places[k]].day < points[places[k + 1]].day
    BY <1>5, <2>3 DEF InDays
  <2>5. QED
    BY <1>14, <2>2, <2>4
\* The newest point is aligned to the newest rate.
<1>16. ASSUME aligned # <<>>, Last(aligned).day = asOf, rate.validity = "complete"
       PROVE  Last(aligned).rate = rate.latest
  <2>1. n \in 1..n /\ Last(aligned) = aligned[n]
    BY <1>13, <1>16, EmptySeq DEF Last
  <2>2. PICK p : p = points[places[n]]
    OBVIOUS
  <2>3. p.day = asOf /\ aligned[n] = AlignPoint(p, history) /\ Aligned(history, p.day)
    BY <1>13, <1>14, <1>16, <2>1, <2>2
  <2>4. PICK l \in 1..Len(history) : l = Len(history)
    BY <1>10
  <2>5. DOMAIN history = 1..Len(history)
    BY LenProperties
  <2>6. history[l].pressure # Absent
    BY <1>10, <1>16, <2>4 DEF WellFormedRate
  <2>7. l \in Known(history, asOf)
    BY <1>10, <2>4, <2>5, <2>6 DEF Known
  <2>8. PICK k \in 1..Len(history) : k = Max(Known(history, asOf)) /\ l <= k
    BY <2>7, KnownIs
  <2>9. k = l
    BY <1>10, <2>4, <2>8
  <2>10. QED
    BY <1>10, <2>1, <2>3, <2>4, <2>8, <2>9 DEF AlignPoint
<1> DEFINE both == {risk.validity, rate.validity}
           whole == both = {"complete"} /\ aligned # <<>> /\ Last(aligned).day = asOf
           trajectory == IF whole THEN aligned ELSE <<>>
           validity == IF "insufficient_history" \in both THEN "insufficient_history"
                       ELSE IF whole THEN "complete" ELSE "unavailable"
           current == IF whole THEN Last(aligned) ELSE Absent
<1>17. RegimeSnapshot(input) =
           [asOf |-> asOf, rate |-> rate, validity |-> validity, current |-> current,
            trajectory |-> trajectory, duration |-> Duration(trajectory)]
  <2>1. RegimeSnapshot(input) = RegimeOf(risk, rate, aligned)
    BY <1>1, <1>3, <1>6, <1>8, <1>9, <1>11 DEF RegimeSnapshot, RegimeFrom
  <2>2. QED
    BY <1>3, <2>1 DEF RegimeOf
<1>18. validity = "complete" <=> whole
  OBVIOUS
<1>19. whole => rate.validity = "complete"
  OBVIOUS
<1>20. /\ trajectory \in Seq(Range(aligned)) /\ Len(trajectory) <= TrajectoryLength
       /\ \A k \in 1..Len(trajectory) - 1 : trajectory[k].day < trajectory[k + 1].day
       /\ \A k \in 1..Len(trajectory) : WellFormedRegimePoint(trajectory[k])
       /\ whole => trajectory = aligned
       /\ ~whole => trajectory = <<>> /\ Len(trajectory) = 0
  <2>1. CASE whole
    <3>1. TrajectoryLength \in Nat /\ Len(points) \in Nat
      BY RegimeAssumption, LenProperties
    <3>2. n <= TrajectoryLength
      BY <1>5, <1>13, <3>1
    <3>3. trajectory = aligned
      BY <2>1
    <3> HIDE DEF whole, trajectory
    <3>4. QED
      BY <1>13, <1>14, <1>15, <2>1, <3>2, <3>3
  <2>2. CASE ~whole
    <3>1. trajectory = <<>>
      BY <2>2
    <3>2. <<>> \in Seq(Range(aligned)) /\ Len(<<>>) = 0
      BY EmptySeq
    <3> HIDE DEF whole, trajectory
    <3>3. Len(trajectory) = 0 /\ trajectory \in Seq(Range(aligned))
      BY <3>1, <3>2
    <3>4. 1..Len(trajectory) = {} /\ 1..Len(trajectory) - 1 = {}
      BY <3>3
    <3>5. QED
      BY <2>2, <3>1, <3>3, <3>4, RegimeAssumption
  <2>3. QED
    BY <2>1, <2>2
<1> HIDE DEF trajectory
<1>21. /\ Duration(trajectory) \in 0..Len(trajectory)
       /\ trajectory # <<>> => Duration(trajectory) \in 1..Len(trajectory)
  BY <1>20, DurationIs
<1>22. ~whole => Duration(trajectory) = 0
  <2>1. SUFFICES ASSUME ~whole PROVE Duration(trajectory) = 0
    OBVIOUS
  <2>2. Duration(trajectory) \in 0..0
    BY <1>20, <1>21, <2>1
  <2>3. QED
    BY <2>2
<1>23. whole => /\ trajectory # <<>> /\ current = Last(trajectory) /\ current.day = asOf
                /\ current.rate = rate.latest
  BY <1>16, <1>19, <1>20
<1>24. ~whole => current = Absent
  OBVIOUS
<1> HIDE DEF validity, current, whole
<1>25. PICK s : s = RegimeSnapshot(input)
  OBVIOUS
<1>26. /\ s.asOf = asOf /\ s.rate = rate /\ s.validity = validity /\ s.current = current
       /\ s.trajectory = trajectory /\ s.duration = Duration(trajectory)
  BY <1>17, <1>25
<1>27. \A p \in Range(trajectory) : WellFormedRegimePoint(p)
  <2>1. DOMAIN trajectory = 1..Len(trajectory)
    BY <1>20, LenProperties
  <2>2. QED
    BY <1>20, <2>1 DEF Range
<1>28. Increasing(trajectory)
  BY <1>20 DEF Increasing
<1>29. WellFormedRegime(s)
  BY <1>10, <1>18, <1>19, <1>20, <1>21, <1>22, <1>23, <1>24, <1>26, <1>27, <1>28 DEF WellFormedRegime
<1>30. QED
  BY <1>1, <1>5, <1>25, <1>29

-----------------------------------------------------------------------------
(* Economic events.                                                         *)

\* A page holds no more rows than it has places, and none only when it has none.
LEMMA PageRows ==
    ASSUME NEW page, page \in Seq(ToSet(page))
    PROVE  /\ Len(page) \in Nat /\ IsFiniteSet(ToSet(page))
           /\ Cardinality(ToSet(page)) \in Nat /\ Cardinality(ToSet(page)) <= Len(page)
           /\ ToSet(page) = {} <=> Len(page) = 0
<1>1. Len(page) \in Nat /\ DOMAIN page = 1..Len(page)
  OBVIOUS
<1>2. ToSet(page) = {page[i] : i \in 1..Len(page)}
  BY <1>1 DEF ToSet
<1>3. IsFiniteSet(1..Len(page)) /\ Cardinality(1..Len(page)) = Len(page)
  BY <1>1, FS_Interval
<1> DEFINE f == [i \in 1..Len(page) |-> page[i]]
<1>4. f \in Surjection(1..Len(page), ToSet(page))
  BY <1>2 DEF Surjection
<1>5. IsFiniteSet(ToSet(page)) /\ Cardinality(ToSet(page)) <= Cardinality(1..Len(page))
  BY <1>3, <1>4, FS_Surjection
<1>6. Cardinality(ToSet(page)) \in Nat
  BY <1>5, FS_CardinalityType
<1>7. ToSet(page) = {} <=> Len(page) = 0
  <2>1. Len(page) = 0 => ToSet(page) = {}
    BY <1>2
  <2>2. Len(page) # 0 => page[1] \in ToSet(page)
    BY <1>1, <1>2
  <2>3. QED
    BY <2>1, <2>2
<1>8. QED
  BY <1>1, <1>3, <1>5, <1>6, <1>7

\* Rows that differ have identities that differ: there are as many of both.
LEMMA IdentitiesCount ==
    ASSUME NEW b, IsFiniteSet(b.events), \A r, s \in b.events : r.id = s.id => r = s
    PROVE  Cardinality(Identities(b)) = Cardinality(b.events)
<1> DEFINE f == [r \in b.events |-> r.id]
<1>1. Identities(b) = {r.id : r \in b.events}
  BY DEF Identities
<1>2. f \in Surjection(b.events, Identities(b))
  BY <1>1 DEF Surjection
<1>3. \A r, s \in b.events : f[r] = f[s] => r = s
  OBVIOUS
<1>4. f \in Injection(b.events, Identities(b))
  BY <1>1, <1>3 DEF Injection, IsInjective
<1>5. QED
  BY <1>2, <1>4, FS_Surjection

\* The counts, the window and the identities of a capture that does not raise agree.
LEMMA EventsReadable ==
    ASSUME NEW input, EventInput(input), ~EventsRaise(input)
    PROVE  WellFormedEvents(EventSnapshot(input))
<1> DEFINE p == input.pages[1]
           q == input.pages[2]
           W == Window(input.captured)
<1>1. input.pages = <<p, q>> /\ PageSize \in Nat /\ PageSize # 0
  BY EventsAssumption DEF EventInput
<1>2. p \in Seq(ToSet(p)) /\ q \in Seq(ToSet(q))
  BY DEF EventInput
<1>3. /\ Len(p) \in Nat /\ IsFiniteSet(ToSet(p))
      /\ Cardinality(ToSet(p)) \in Nat /\ Cardinality(ToSet(p)) <= Len(p)
      /\ ToSet(p) = {} <=> Len(p) = 0
  BY <1>2, PageRows
<1>4. /\ Len(q) \in Nat /\ IsFiniteSet(ToSet(q))
      /\ Cardinality(ToSet(q)) \in Nat /\ Cardinality(ToSet(q)) <= Len(q)
      /\ ToSet(q) = {} <=> Len(q) = 0
  BY <1>2, PageRows
<1> DEFINE batch == EventBatch(input)
<1>5. SUFFICES /\ WellFormedBatch(batch)
               /\ ~(batch.requests = 1 /\ batch.raw = PageSize)
               /\ \A r \in batch.events : r.day \in W
  BY DEF WellFormedEvents, EventSnapshot
<1> DEFINE Sound(page) == /\ ~(Len(page) > PageSize)
                          /\ \A r \in ToSet(page) : r.day \in W
                          /\ \A r, s \in ToSet(page) : r.id = s.id => r = s
<1>6. \A page : ~PageRaises(page, W) => Sound(page)
  BY DEF PageRaises
<1>7. CASE Len(p) < PageSize
  <2>1. Pages(input) = <<p>>
    BY <1>7 DEF Pages
  <2>2. Sound(p)
    <3>1. ~PageRaises(Pages(input)[1], W)
      BY <2>1 DEF EventsRaise
    <3>2. QED
      BY <1>6, <2>1, <3>1
  <2>3. batch = Batch(ToSet(p), 1, Len(p))
    BY <2>1 DEF EventBatch, ParsePage
  <2>4. batch = [events |-> ToSet(p), requests |-> 1, raw |-> Len(p),
                 duplicates |-> Len(p) - Cardinality(ToSet(p))]
    BY <2>3 DEF Batch
  <2> HIDE DEF batch, p, W
  <2>5. Cardinality(Identities(batch)) = Cardinality(batch.events)
    BY <1>3, <2>2, <2>4, IdentitiesCount
  <2>6. ToSet(p) = {} => Cardinality(ToSet(p)) = 0
    BY FS_EmptySet
  <2>7. batch.raw \in 0..(2 * PageSize - 1)
    BY <1>1, <1>3, <1>7, <2>4
  <2>8. batch.duplicates >= 0 /\ batch.raw = Cardinality(batch.events) + batch.duplicates
    BY <1>3, <2>4
  <2>9. WellFormedBatch(batch)
    BY <1>1, <1>3, <1>7, <2>4, <2>5, <2>6, <2>7, <2>8 DEF WellFormedBatch
  <2>10. QED
    BY <1>1, <1>3, <1>7, <2>2, <2>4, <2>9
<1>8. CASE ~(Len(p) < PageSize)
  <2>1. Pages(input) = <<p, q>>
    BY <1>1, <1>8 DEF Pages
  <2>2. Sound(p) /\ Sound(q)
    <3>1. ~PageRaises(Pages(input)[1], W) /\ ~PageRaises(Pages(input)[2], W)
      BY <2>1 DEF EventsRaise
    <3>2. QED
      BY <1>6, <2>1, <3>1
  <2>3. ~(Len(q) >= PageSize) /\ Identities(ParsePage(p)) \cap Identities(ParsePage(q)) = {}
    BY <2>1 DEF EventsRaise
  <2>4. \A r \in ToSet(p), s \in ToSet(q) : r.id # s.id
    BY <2>3 DEF Identities, ParsePage, Batch
  <2> DEFINE batches == [k \in DOMAIN Pages(input) |-> ParsePage(Pages(input)[k])]
             both == ToSet(p) \cup ToSet(q)
  <2>5. batch = Batch(both, 2, Len(p) + Len(q))
    <3>1. batch = IF Len(batches) = 1 THEN batches[1]
                  ELSE Batch(batches[1].events \cup batches[2].events, 2, batches[1].raw + batches[2].raw)
      BY DEF EventBatch
    <3> HIDE DEF batch, p, q
    <3>2. Len(batches) = 2 /\ batches[1] = ParsePage(p) /\ batches[2] = ParsePage(q)
      BY <2>1
    <3> HIDE DEF batches
    <3>3. /\ ParsePage(p).events = ToSet(p) /\ ParsePage(p).raw = Len(p)
          /\ ParsePage(q).events = ToSet(q) /\ ParsePage(q).raw = Len(q)
      BY DEF ParsePage, Batch
    <3>4. QED
      BY <3>1, <3>2, <3>3
  <2> HIDE DEF batches, batch
  <2>6. PICK raw : /\ raw = Len(p) + Len(q)
                   /\ batch = [events |-> both, requests |-> 2, raw |-> raw, duplicates |-> raw - Cardinality(both)]
    <3>1. PICK raw : raw = Len(p) + Len(q)
      OBVIOUS
    <3>2. batch = Batch(both, 2, raw)
      BY <2>5, <3>1
    <3> HIDE DEF both, p, q
    <3>3. batch = [events |-> both, requests |-> 2, raw |-> raw, duplicates |-> raw - Cardinality(both)]
      BY <3>2 DEF Batch
    <3>4. QED
      BY <3>1, <3>3
  <2>7. /\ IsFiniteSet(both) /\ Cardinality(both) \in Nat
        /\ Cardinality(both) <= Cardinality(ToSet(p)) + Cardinality(ToSet(q))
    <3>1. IsFiniteSet(both)
          /\ Cardinality(both) = Cardinality(ToSet(p)) + Cardinality(ToSet(q)) - Cardinality(ToSet(p) \cap ToSet(q))
      BY <1>3, <1>4, FS_Union
    <3>2. IsFiniteSet(ToSet(p) \cap ToSet(q))
      BY <1>3, FS_Subset
    <3>3. Cardinality(ToSet(p) \cap ToSet(q)) \in Nat /\ Cardinality(both) \in Nat
      BY <3>1, <3>2, FS_CardinalityType
    <3> HIDE DEF both, p, q
    <3>4. QED
      BY <1>3, <1>4, <3>1, <3>3
  <2>8. Len(p) = PageSize /\ both # {}
    BY <1>1, <1>3, <1>8, <2>2
  <2>9. \A r, s \in both : r.id = s.id => r = s
    BY <2>2, <2>4
  <2>10. \A r \in both : r.day \in W
    BY <2>2
  <2> HIDE DEF batch, p, q, W, both
  <2>11. Cardinality(Identities(batch)) = Cardinality(batch.events)
    BY <2>6, <2>7, <2>9, IdentitiesCount
  <2>12. batch.raw \in 0..(2 * PageSize - 1) /\ batch.raw >= PageSize
    BY <1>1, <1>4, <2>3, <2>6, <2>8
  <2>13. batch.duplicates >= 0 /\ batch.raw = Cardinality(batch.events) + batch.duplicates
    BY <1>3, <1>4, <2>6, <2>7
  <2>14. WellFormedBatch(batch)
    BY <2>6, <2>8, <2>11, <2>12, <2>13 DEF WellFormedBatch
  <2>15. QED
    BY <2>6, <2>10, <2>14
<1>9. QED
  BY <1>7, <1>8

-----------------------------------------------------------------------------
(* Fundamentals.                                                            *)

\* The reasons of a metric that applies to a stock that is classified.
Why == (Reasons \ {"not_applicable", "unknown_classification"}) \cup {Absent}

\* A value or a reason, and no date after the capture.
Shown(m, captured) ==
    /\ m.reason \in Why
    /\ m.value = Absent <=> m.reason # Absent
    /\ m.end # Absent => m.end <= captured

\* A statement gives a reason of those, or none.
LEMMA StatementReasons ==
    ASSUME NEW statement
    PROVE  TtmReason(statement) \in Why /\ CurrencyReason(statement) \in Why
<1> DEFINE ends == SetToSortSeq(DOMAIN statement, >)
           gap(k, n) == ends[k] - ends[n]
           short == Len(ends) < 4
           uneven == (\E k \in 1..3 : gap(k, k + 1) \notin 70..110) \/ gap(1, 4) \notin 250..300
           currencies == {statement[end].currency : end \in DOMAIN statement}
<1>1. TtmReason(statement) = IF short THEN "insufficient_history"
                             ELSE IF uneven THEN "non_contiguous_periods" ELSE Absent
  BY DEF TtmReason
<1>2. CurrencyReason(statement) = IF Absent \in currencies THEN "missing_currency"
                                  ELSE IF currencies \subseteq {"USD"} THEN Absent ELSE "currency_mismatch"
  BY DEF CurrencyReason
<1> HIDE DEF short, uneven, currencies
<1>3. TtmReason(statement) \in {"insufficient_history", "non_contiguous_periods", Absent}
  BY <1>1
<1>4. CurrencyReason(statement) \in {"missing_currency", "currency_mismatch", Absent}
  BY <1>2
<1>5. QED
  BY <1>3, <1>4 DEF Why, Reasons

\* The first of several reasons is one of them.
LEMMA FirstReasonIn ==
    ASSUME NEW reasons \in Seq(Why)
    PROVE  FirstReason(reasons) \in Why
<1> DEFINE given == {k \in DOMAIN reasons : reasons[k] # Absent}
<1>1. FirstReason(reasons) = IF given = {} THEN Absent ELSE reasons[Min(given)]
  BY DEF FirstReason
<1>2. CASE given = {}
  BY <1>1, <1>2 DEF Why
<1>3. CASE given # {}
  <2>1. DOMAIN reasons = 1..Len(reasons) /\ Len(reasons) \in Nat
    OBVIOUS
  <2>2. IsFiniteSet(1..Len(reasons))
    BY <2>1, FS_Interval
  <2>3. given \in SUBSET (1..Len(reasons))
    BY <2>1
  <2>4. IsFiniteSet(given) /\ given \in SUBSET Int
    BY <2>2, <2>3, FS_Subset
  <2>5. Min(given) \in given
    BY <1>3, <2>4, MinOf
  <2>6. QED
    BY <1>1, <1>3, <2>5
<1>4. QED
  BY <1>2, <1>3

\* A sum of quarters is a number, or missing because one of them is.
LEMMA TotalIs ==
    ASSUME NEW statement, IsStatement(statement), NEW field \in {"revenue", "ebitda", "flow", "debt"}
    PROVE  Total(statement, field) \in Amount
<1> DEFINE ends == DOMAIN statement
           part(n) == IF Cardinality(ends) < n THEN 0 ELSE statement[FromEnd(ends, n)][field]
           lacks == \E end \in ends : statement[end][field] = Absent
<1>1. Total(statement, field) = IF lacks THEN Absent ELSE part(1) + part(2) + part(3) + part(4)
  BY DEF Total
<1>2. CASE lacks
  BY <1>1, <1>2 DEF Amount
<1>3. CASE ~lacks
  <2>1. IsFiniteSet(ends) /\ ends \in SUBSET Int /\ Cardinality(ends) \in Nat
    BY FS_CardinalityType DEF IsStatement
  <2>2. \A end \in ends : statement[end][field] \in Int
    BY <1>3 DEF IsStatement, Amount
  <2>3. ASSUME NEW n \in 1..4 PROVE part(n) \in Int
    <3>1. CASE Cardinality(ends) < n
      BY <3>1
    <3>2. CASE ~(Cardinality(ends) < n)
      <4>1. n \in 1..Cardinality(ends)
        BY <2>1, <3>2
      <4>2. FromEnd(ends, n) \in ends
        BY <2>1, <4>1, FromEndIn
      <4>3. QED
        BY <2>2, <3>2, <4>2
    <3>3. QED
      BY <3>1, <3>2
  <2>4. part(1) \in Int /\ part(2) \in Int /\ part(3) \in Int /\ part(4) \in Int
    <3>1. 1 \in 1..4 /\ 2 \in 1..4 /\ 3 \in 1..4 /\ 4 \in 1..4
      OBVIOUS
    <3> HIDE DEF part
    <3>2. QED
      BY <2>3, <3>1
  <2> HIDE DEF part, lacks
  <2>5. Total(statement, field) \in Int
    BY <1>1, <1>3, <2>4
  <2>6. QED
    BY <2>5 DEF Amount
<1>4. QED
  BY <1>2, <1>3

\* A ratio has a value or a reason.
LEMMA RatioShown ==
    ASSUME NEW numerator \in Amount, NEW denominator \in Amount, NEW why \in Why,
           NEW end, NEW captured, end # Absent => end <= captured
    PROVE  Shown(Ratio(numerator, denominator, why, end), captured)
<1> DEFINE missing == Absent \in {numerator, denominator}
           reason == IF why # Absent THEN why
                     ELSE IF missing THEN "missing_field"
                     ELSE IF denominator <= 0 THEN "invalid_denominator" ELSE Absent
           value == IF reason = Absent THEN <<numerator, denominator>> ELSE Absent
<1>1. Ratio(numerator, denominator, why, end) = [value |-> value, reason |-> reason, end |-> end]
  BY DEF Ratio, Metric
<1>2. reason \in Why
  BY DEF Why, Reasons
<1>3. reason = Absent => <<numerator, denominator>> \in Int \X Int
  <2>1. reason = Absent => ~missing
    BY FundamentalsAssumption DEF Reasons
  <2>2. QED
    BY <2>1 DEF Amount
<1>4. value = Absent <=> reason # Absent
  <2>1. Absent \notin Int \X Int
    BY MetricsAssumption
  <2> HIDE DEF reason
  <2>2. QED
    BY <1>3, <2>1
<1> HIDE DEF value, reason
<1>5. QED
  BY <1>1, <1>2, <1>4 DEF Shown

\* So has a ratio of the provider's own.
LEMMA VendorShown ==
    ASSUME NEW o, NEW name \in Vendor, o.vendor[name] \in Amount, NEW captured,
           o.recent # Absent => o.recent <= captured
    PROVE  Shown(VendorMetric(o, name), captured)
<1> DEFINE value == o.vendor[name]
           bad == name # "return_on_equity_ttm" /\ value <= 0
           reason == IF value = Absent THEN "missing_field"
                     ELSE IF bad THEN "non_positive_multiple" ELSE Absent
           end == IF name = "return_on_equity_ttm" THEN o.recent ELSE Absent
           shown == IF reason = Absent THEN value ELSE Absent
<1>1. VendorMetric(o, name) = [value |-> shown, reason |-> reason, end |-> end]
  BY DEF VendorMetric, Metric, Reason
<1>2. reason \in Why
  BY DEF Why, Reasons
<1>3. reason = Absent => value # Absent
  BY FundamentalsAssumption DEF Reasons
<1>4. shown = Absent <=> reason # Absent
  <2> HIDE DEF reason, value
  <2>1. QED
    BY <1>3
<1>5. end # Absent => end <= captured
  OBVIOUS
<1> HIDE DEF shown, reason, end
<1>6. QED
  BY <1>1, <1>2, <1>4, <1>5 DEF Shown

\* The newest quarters of a statement are a statement.
LEMMA QuartersAre ==
    ASSUME NEW statement, IsStatement(statement), NEW limit
    PROVE  IsStatement(Quarters(statement, limit))
<1> DEFINE days == LastDays(DOMAIN statement, limit)
<1>1. days \in SUBSET (DOMAIN statement)
  BY DEF LastDays
<1>2. Quarters(statement, limit) = [end \in days |-> statement[end]]
  BY DEF Quarters, Restrict
<1>3. IsFiniteSet(days) /\ days \subseteq Nat
  BY <1>1, FS_Subset DEF IsStatement
<1> HIDE DEF days
<1>4. QED
  BY <1>1, <1>2, <1>3 DEF IsStatement

\* The end of a statement is one of its ends.
LEMMA LastEndKnown ==
    ASSUME NEW statement, IsStatement(statement), NEW captured,
           \A end \in DOMAIN statement : end <= captured
    PROVE  LastEnd(statement) # Absent => LastEnd(statement) <= captured
<1>1. CASE DOMAIN statement = {}
  BY <1>1 DEF LastEnd
<1>2. CASE DOMAIN statement # {}
  <2>1. Max(DOMAIN statement) \in DOMAIN statement
    BY <1>2, MaxOf DEF IsStatement
  <2>2. QED
    BY <1>2, <2>1 DEF LastEnd
<1>3. QED
  BY <1>1, <1>2

\* The observation of an answer that does not raise knows nothing later than it.
LEMMA ObservationIs ==
    ASSUME NEW answer, IsAnswer(answer), NEW captured \in Nat,
           NEW o, o = Observation(answer, captured), ~ObservationRaises(o)
    PROVE  /\ IsStatement(o.income) /\ IsStatement(o.cash) /\ IsStatement(o.balance)
           /\ o.capitalization \in Amount /\ \A name \in Vendor : o.vendor[name] \in Amount
           /\ \A end \in {o.updated, o.recent, LastEnd(o.income), LastEnd(o.cash)} :
                  end # Absent => end <= captured
<1>1. /\ o.captured = captured /\ o.updated = answer.updated /\ o.recent = answer.recent
      /\ o.vendor = answer.vendor /\ o.capitalization = answer.capitalization
      /\ o.income = Quarters(answer.income, 4) /\ o.cash = Quarters(answer.cash, 4)
      /\ o.balance = Quarters(answer.balance, 1)
  BY DEF Observation
<1>2. IsStatement(o.income) /\ IsStatement(o.cash) /\ IsStatement(o.balance)
  BY <1>1, QuartersAre DEF IsAnswer
<1>3. o.capitalization \in Amount /\ \A name \in Vendor : o.vendor[name] \in Amount
  BY <1>1 DEF IsAnswer
<1>4. (o.updated # Absent => o.updated <= captured) /\ (o.recent # Absent => o.recent <= captured)
  <2>1. o.updated \in Amount /\ o.recent \in Amount
    BY <1>1 DEF IsAnswer
  <2>2. ~(o.updated # Absent /\ o.updated > captured) /\ ~(o.recent # Absent /\ o.recent > captured)
    BY <1>1 DEF ObservationRaises
  <2>3. QED
    BY <2>1, <2>2 DEF Amount
<1>5. /\ \A end \in DOMAIN o.income : end <= captured
      /\ \A end \in DOMAIN o.cash : end <= captured
  <2>1. \A statement \in {o.income, o.cash, o.balance} : \A end \in DOMAIN statement : ~(end > captured)
    BY <1>1 DEF ObservationRaises
  <2>2. \A end \in DOMAIN o.income \cup DOMAIN o.cash : end \in Nat
    BY <1>2 DEF IsStatement
  <2>3. \A end \in DOMAIN o.income \cup DOMAIN o.cash : ~(end > captured)
    BY <2>1
  <2>4. QED
    BY <2>2, <2>3
<1>6. /\ LastEnd(o.income) # Absent => LastEnd(o.income) <= captured
      /\ LastEnd(o.cash) # Absent => LastEnd(o.cash) <= captured
  BY <1>2, <1>5, LastEndKnown
<1>7. QED
  BY <1>2, <1>3, <1>4, <1>6

\* A stock has a value or a reason for each metric, and the reasons its kind gives it.
LEMMA StockReadable ==
    ASSUME NEW answer, IsAnswer(answer), NEW captured \in Nat,
           NEW o, o = Observation(answer, captured), ~ObservationRaises(o)
    PROVE  /\ WellFormedStock(Stock(o)) /\ Stock(o).updated = o.updated
           /\ \A name \in MetricNames : Stock(o).metrics[name].end # Absent
                                            => Stock(o).metrics[name].end <= captured
<1>1. /\ IsStatement(o.income) /\ IsStatement(o.cash) /\ IsStatement(o.balance)
      /\ o.capitalization \in Amount /\ \A name \in Vendor : o.vendor[name] \in Amount
      /\ \A end \in {o.updated, o.recent, LastEnd(o.income), LastEnd(o.cash)} :
             end # Absent => end <= captured
  BY ObservationIs
<1> DEFINE incomeReason == FirstReason(<<TtmReason(o.income), CurrencyReason(o.income)>>)
           cashReason == FirstReason(<<TtmReason(o.cash), CurrencyReason(o.cash)>>)
           marginReason == FirstReason(<<incomeReason, cashReason,
                               Reason(DOMAIN o.income # DOMAIN o.cash, "period_mismatch")>>)
           debtReason == FirstReason(<<incomeReason,
                             Reason(DOMAIN o.balance = {}, "missing_field"),
                             Reason(LastEnd(o.balance) # LastEnd(o.income), "period_mismatch"),
                             CurrencyReason(o.balance)>>)
           flow == Total(o.cash, "flow")
           debt == IF DOMAIN o.balance = {} THEN Absent ELSE Total(o.balance, "debt")
           metric(name) ==
               CASE name = "fcf_margin" -> Ratio(flow, Total(o.income, "revenue"), marginReason, LastEnd(o.cash))
                 [] name = "net_debt_to_ebitda" -> Ratio(debt, Total(o.income, "ebitda"), debtReason, LastEnd(o.income))
                 [] name = "fcf_yield" -> Ratio(flow, o.capitalization, cashReason, LastEnd(o.cash))
                 [] OTHER -> VendorMetric(o, name)
           entry(name) ==
               IF o.kind = "unknown" THEN Metric(Absent, "unknown_classification", Absent)
               ELSE IF Excluded(o.kind, name) THEN Metric(Absent, "not_applicable", Absent)
               ELSE metric(name)
<1>2. Stock(o) = [kind |-> o.kind, updated |-> o.updated, metrics |-> [name \in MetricNames |-> entry(name)]]
  BY DEF Stock
<1>3. incomeReason \in Why /\ cashReason \in Why
  <2>1. <<TtmReason(o.income), CurrencyReason(o.income)>> \in Seq(Why)
    BY StatementReasons
  <2>2. <<TtmReason(o.cash), CurrencyReason(o.cash)>> \in Seq(Why)
    BY StatementReasons
  <2>3. QED
    BY <2>1, <2>2, FirstReasonIn
<1>4. marginReason \in Why /\ debtReason \in Why
  <2>1. \A holds : Reason(holds, "period_mismatch") \in Why /\ Reason(holds, "missing_field") \in Why
    BY DEF Reason, Why, Reasons
  <2> HIDE DEF incomeReason, cashReason
  <2>2. <<incomeReason, cashReason, Reason(DOMAIN o.income # DOMAIN o.cash, "period_mismatch")>> \in Seq(Why)
    BY <1>3, <2>1
  <2>3. CurrencyReason(o.balance) \in Why
    BY StatementReasons
  <2>4. <<incomeReason, Reason(DOMAIN o.balance = {}, "missing_field"),
          Reason(LastEnd(o.balance) # LastEnd(o.income), "period_mismatch"),
          CurrencyReason(o.balance)>> \in Seq(Why)
    BY <1>3, <2>1, <2>3
  <2>5. QED
    BY <2>2, <2>4, FirstReasonIn
<1>5. /\ flow \in Amount /\ debt \in Amount
      /\ Total(o.income, "revenue") \in Amount /\ Total(o.income, "ebitda") \in Amount
  <2>1. Total(o.balance, "debt") \in Amount /\ Absent \in Amount
    BY <1>1, TotalIs DEF Amount
  <2>2. QED
    BY <1>1, <2>1, TotalIs
<1>6. ASSUME NEW name \in MetricNames PROVE Shown(metric(name), captured)
  <2> HIDE DEF incomeReason, cashReason, marginReason, debtReason, flow, debt
  <2>1. Shown(Ratio(flow, Total(o.income, "revenue"), marginReason, LastEnd(o.cash)), captured)
    BY <1>1, <1>4, <1>5, RatioShown
  <2>2. Shown(Ratio(debt, Total(o.income, "ebitda"), debtReason, LastEnd(o.income)), captured)
    BY <1>1, <1>4, <1>5, RatioShown
  <2>3. Shown(Ratio(flow, o.capitalization, cashReason, LastEnd(o.cash)), captured)
    BY <1>1, <1>3, <1>5, RatioShown
  <2>4. name \in Vendor => Shown(VendorMetric(o, name), captured)
    BY <1>1, VendorShown
  <2>5. CASE name = "fcf_margin"
    BY <2>1, <2>5
  <2>6. CASE name = "net_debt_to_ebitda"
    BY <2>2, <2>6
  <2>7. CASE name = "fcf_yield"
    BY <2>3, <2>7
  <2>8. CASE name \in Vendor
    BY <2>4, <2>8 DEF Vendor
  <2>9. QED
    BY <2>5, <2>6, <2>7, <2>8 DEF MetricNames
<1> HIDE DEF metric
<1>7. ASSUME NEW name \in MetricNames
      PROVE  /\ WellFormedFundamental(entry(name))
             /\ Excluded(o.kind, name) <=> entry(name).reason = "not_applicable"
             /\ (o.kind = "unknown") <=> (entry(name).reason = "unknown_classification")
             /\ entry(name).end # Absent => entry(name).end <= captured
  <2>1. Absent # "not_applicable" /\ Absent # "unknown_classification"
    BY FundamentalsAssumption DEF Reasons
  <2>2. CASE o.kind = "unknown"
    <3>1. entry(name) = [value |-> Absent, reason |-> "unknown_classification", end |-> Absent]
      BY <2>2 DEF Metric
    <3>2. ~Excluded(o.kind, name)
      BY <2>2 DEF Excluded
    <3> HIDE DEF entry
    <3>3. QED
      BY <2>1, <2>2, <3>1, <3>2 DEF WellFormedFundamental
  <2>3. CASE o.kind # "unknown" /\ Excluded(o.kind, name)
    <3>1. entry(name) = [value |-> Absent, reason |-> "not_applicable", end |-> Absent]
      BY <2>3 DEF Metric
    <3> HIDE DEF entry
    <3>2. QED
      BY <2>1, <2>3, <3>1 DEF WellFormedFundamental
  <2>4. CASE o.kind # "unknown" /\ ~Excluded(o.kind, name)
    <3>1. entry(name) = metric(name)
      BY <2>4
    <3>2. Shown(entry(name), captured)
      BY <1>6, <3>1
    <3> HIDE DEF entry
    <3>3. entry(name).reason # "not_applicable" /\ entry(name).reason # "unknown_classification"
      BY <2>1, <3>2 DEF Shown, Why
    <3>4. QED
      BY <2>4, <3>2, <3>3 DEF Shown, WellFormedFundamental
  <2>5. QED
    BY <2>2, <2>3, <2>4
<1> HIDE DEF entry
<1>8. /\ Stock(o).kind = o.kind /\ Stock(o).updated = o.updated
      /\ \A name \in MetricNames : Stock(o).metrics[name] = entry(name)
  BY <1>2
<1>9. WellFormedStock(Stock(o))
  BY <1>7, <1>8 DEF WellFormedStock
<1>10. QED
  BY <1>7, <1>8, <1>9

\* The same for every stock of the watchlist.
LEMMA FundamentalsReadable ==
    ASSUME NEW input, FundamentalInput(input), ~FundamentalsRaise(input)
    PROVE  WellFormedFundamentals(FundamentalSnapshot(input))
<1> DEFINE observation(i) == Observation(input.answers[i], input.captured)
           items == [i \in DOMAIN input.answers |-> Stock(observation(i))]
<1>1. FundamentalSnapshot(input) = [asOf |-> input.captured, validity |-> Validity(items), items |-> items]
  BY DEF FundamentalSnapshot
<1>2. input.captured \in Nat /\ DOMAIN items # {} /\ DOMAIN items = DOMAIN input.answers
  BY DEF FundamentalInput
<1>3. ASSUME NEW i \in DOMAIN items
      PROVE  /\ WellFormedStock(items[i])
             /\ \A d \in {items[i].updated} \cup {items[i].metrics[n].end : n \in MetricNames} :
                    d # Absent => d <= input.captured
  <2>1. IsAnswer(input.answers[i]) /\ ~ObservationRaises(observation(i))
    BY DEF FundamentalInput, FundamentalsRaise
  <2>2. PICK o : o = observation(i)
    OBVIOUS
  <2>3. items[i] = Stock(o)
    BY <2>2
  <2> HIDE DEF items
  <2>4. /\ WellFormedStock(Stock(o)) /\ Stock(o).updated = o.updated
        /\ \A name \in MetricNames : Stock(o).metrics[name].end # Absent
                                         => Stock(o).metrics[name].end <= input.captured
    BY <1>2, <2>1, <2>2, StockReadable
  <2>5. o.updated # Absent => o.updated <= input.captured
    BY <1>2, <2>1, <2>2, ObservationIs
  <2>6. QED
    BY <2>3, <2>4, <2>5
<1> HIDE DEF items
<1>4. QED
  BY <1>1, <1>2, <1>3 DEF WellFormedFundamentals

-----------------------------------------------------------------------------
(* Earnings revisions.                                                      *)

\* The newest row of the next fiscal year is one of the rows.
LEMMA LatestIs ==
    ASSUME NEW rows, IsFiniteSet(rows), rows \subseteq Trends
    PROVE  LatestFy1(rows) \in Trends \cup {Absent}
<1> DEFINE next == NextYear(rows)
           ends == {r.end : r \in next}
<1>1. CASE next = {}
  BY <1>1 DEF LatestFy1
<1>2. CASE next # {}
  <2>1. next \in SUBSET rows /\ IsFiniteSet(next)
    BY FS_Subset DEF NextYear
  <2>2. \A r \in next : r.end \in Int
    BY <2>1 DEF Trends
  <2> DEFINE f == [r \in next |-> r.end]
  <2>3. f \in Surjection(next, ends)
    BY DEF Surjection
  <2>4. IsFiniteSet(ends) /\ ends # {} /\ ends \in SUBSET Int
    BY <1>2, <2>1, <2>2, <2>3, FS_Surjection
  <2>5. PICK m \in ends : \A k \in ends : k <= m
    BY <2>4, Greatest
  <2>6. \E r \in next : \A s \in next : s.end <= r.end
    BY <2>5
  <2>7. LatestFy1(rows) = CHOOSE r \in next : \A s \in next : s.end <= r.end
    BY <1>2 DEF LatestFy1
  <2> HIDE DEF next
  <2>8. LatestFy1(rows) \in next
    BY <2>6, <2>7
  <2>9. QED
    BY <2>1, <2>8
<1>3. QED
  BY <1>1, <1>2

\* A part and what it leaves are together as many as the whole.
LEMMA PartCount ==
    ASSUME NEW S, IsFiniteSet(S), NEW T \in SUBSET S
    PROVE  /\ Cardinality(S) \in Nat /\ Cardinality(T) \in Nat /\ Cardinality(S \ T) \in Nat
           /\ Cardinality(T) + Cardinality(S \ T) = Cardinality(S)
<1>1. IsFiniteSet(T) /\ IsFiniteSet(S \ T) /\ Cardinality(S \ T) = Cardinality(S) - Cardinality(S \cap T)
  BY FS_Subset, FS_Difference
<1>2. S \cap T = T
  OBVIOUS
<1>3. Cardinality(S) \in Nat /\ Cardinality(T) \in Nat /\ Cardinality(S \ T) \in Nat
  BY <1>1, FS_CardinalityType
<1>4. Cardinality(S \ T) = Cardinality(S) - Cardinality(T)
  BY <1>1, <1>2
<1>5. QED
  BY <1>3, <1>4

\* The counts, the validity and the values of an aggregate agree.
LEMMA AggregateReadable ==
    ASSUME NEW instruments, IsFiniteSet(instruments), instruments \subseteq STRING,
           NEW trend, \A i \in instruments : trend[i] \in Trends \cup {Absent}
    PROVE  /\ WellFormedAggregate(Aggregate(instruments, trend))
           /\ Aggregate(instruments, trend).coverage.eligible = Cardinality(instruments)
<1> DEFINE seen == {i \in instruments : Observed(trend[i])}
           delta(i) == trend[i].current - trend[i].before
           upward == {i \in seen : delta(i) > 0}
           downward == {i \in seen : delta(i) < 0}
           magnitude == {i \in seen : trend[i].current > 1 /\ trend[i].before > 1}
           observed == Cardinality(seen)
           pairs == {<<i, trend[i].current, trend[i].before>> : i \in magnitude}
           validity == IF observed = 0 THEN "unavailable"
                       ELSE IF seen = instruments THEN "complete" ELSE "partial"
           breadth == IF observed = 0 THEN Absent
                      ELSE <<Cardinality(upward) - Cardinality(downward), observed>>
           median == IF magnitude = {} THEN Absent ELSE [of |-> pairs]
<1>1. Aggregate(instruments, trend) =
        [validity |-> validity,
         coverage |-> [eligible |-> Cardinality(instruments), observed |-> observed],
         upward |-> Cardinality(upward), downward |-> Cardinality(downward),
         unchanged |-> Cardinality(seen \ (upward \cup downward)),
         breadth |-> breadth, magnitudes |-> Cardinality(magnitude),
         excluded |-> Cardinality(seen \ magnitude), median |-> median]
  BY DEF Aggregate
<1>2. \A i \in seen : trend[i].current \in Int /\ trend[i].before \in Int
  BY DEF Observed, Trends
<1>3. /\ seen \in SUBSET instruments /\ magnitude \in SUBSET seen
      /\ upward \cup downward \in SUBSET seen
  OBVIOUS
<1>4. upward \cap downward = {}
  <2>1. \A i \in seen : ~(delta(i) > 0 /\ delta(i) < 0)
    BY <1>2
  <2> HIDE DEF delta, seen
  <2>2. QED
    BY <2>1
<1>5. median = Absent <=> magnitude = {}
  <2>1. pairs \in SUBSET (STRING \X Int \X Int)
    <3>1. \A i \in magnitude : i \in STRING /\ trend[i].current \in Int /\ trend[i].before \in Int
      BY <1>2, <1>3
    <3> HIDE DEF magnitude
    <3>2. QED
      BY <3>1
  <2> HIDE DEF pairs, magnitude
  <2>2. [of |-> pairs] \in Medians
    BY <2>1 DEF Medians
  <2>3. QED
    BY <2>2, EarningsAssumption
<1> HIDE DEF seen, upward, downward, magnitude, pairs, median
<1>6. IsFiniteSet(seen) /\ Cardinality(instruments) \in Nat /\ observed \in Nat
      /\ observed <= Cardinality(instruments)
      /\ (observed = Cardinality(instruments) => seen = instruments)
  BY <1>3, FS_Subset, FS_CardinalityType
<1>7. /\ Cardinality(magnitude) \in Nat /\ Cardinality(seen \ magnitude) \in Nat
      /\ Cardinality(magnitude) + Cardinality(seen \ magnitude) = observed
  BY <1>3, <1>6, PartCount
<1>8. /\ Cardinality(upward \cup downward) \in Nat /\ Cardinality(seen \ (upward \cup downward)) \in Nat
      /\ Cardinality(upward \cup downward) + Cardinality(seen \ (upward \cup downward)) = observed
  BY <1>3, <1>6, PartCount
<1>9. /\ Cardinality(upward) \in Nat /\ Cardinality(downward) \in Nat
      /\ Cardinality(upward \cup downward) = Cardinality(upward) + Cardinality(downward)
  <2>1. IsFiniteSet(upward) /\ IsFiniteSet(downward)
    BY <1>3, <1>6, FS_Subset
  <2>2. Cardinality(upward \cap downward) = 0
    BY <1>4, FS_EmptySet
  <2>3. Cardinality(upward) \in Nat /\ Cardinality(downward) \in Nat
    BY <2>1, FS_CardinalityType
  <2>4. Cardinality(upward \cup downward) = Cardinality(upward) + Cardinality(downward) - Cardinality(upward \cap downward)
    BY <2>1, FS_Union
  <2>5. QED
    BY <2>2, <2>3, <2>4
<1>10. Cardinality(magnitude) = 0 <=> magnitude = {}
  BY <1>3, <1>6, FS_Subset, FS_EmptySet
<1> DEFINE a == Aggregate(instruments, trend)
<1>11. /\ a.coverage.eligible = Cardinality(instruments) /\ a.coverage.observed = observed
       /\ a.upward = Cardinality(upward) /\ a.downward = Cardinality(downward)
       /\ a.unchanged = Cardinality(seen \ (upward \cup downward))
       /\ a.magnitudes = Cardinality(magnitude) /\ a.excluded = Cardinality(seen \ magnitude)
       /\ a.validity = validity /\ a.breadth = breadth /\ a.median = median
  BY <1>1
<1> HIDE DEF a
<1>12. a.coverage.observed \in 0..a.coverage.eligible
  BY <1>6, <1>11
<1>13. a.upward + a.downward + a.unchanged = a.coverage.observed
  BY <1>8, <1>9, <1>11
<1>14. a.magnitudes + a.excluded = a.coverage.observed
  BY <1>7, <1>11
<1>15. (CASE a.validity = "complete" -> a.coverage.eligible > 0 /\ a.coverage.observed = a.coverage.eligible
         [] a.validity = "partial" -> a.coverage.observed \in 1..a.coverage.eligible - 1
         [] OTHER -> a.validity = "unavailable" /\ a.coverage.observed = 0)
  <2>1. CASE observed = 0
    BY <1>11, <2>1
  <2>2. CASE observed # 0 /\ seen = instruments
    BY <1>6, <1>11, <2>2
  <2>3. CASE observed # 0 /\ seen # instruments
    <3>1. observed \in 1..Cardinality(instruments) - 1
      BY <1>6, <2>3
    <3>2. QED
      BY <1>11, <2>3, <3>1
  <2>4. QED
    BY <2>1, <2>2, <2>3
<1>16. a.breadth = IF a.coverage.observed = 0 THEN Absent
                   ELSE <<a.upward - a.downward, a.coverage.observed>>
  BY <1>11
<1>17. (a.magnitudes = 0) <=> (a.median = Absent)
  BY <1>5, <1>10, <1>11
<1>18. WellFormedAggregate(a)
  BY <1>12, <1>13, <1>14, <1>15, <1>16, <1>17 DEF WellFormedAggregate
<1>19. QED
  BY <1>11, <1>18 DEF a

\* The parts of a set by what its elements are mapped to, and places for each of them.
PartOf(A, a, x) == {i \in A : a[i] = x}
Places(D, n) == UNION {{x} \X (1..n[x]) : x \in D}

\* The parts are together as many as the set.
LEMMA PartsCount ==
    ASSUME NEW A, IsFiniteSet(A), NEW D, NEW a \in [A -> D],
           NEW n, \A x \in D : n[x] = Cardinality(PartOf(A, a, x))
    PROVE  Cardinality(Places(D, n)) = Cardinality(A)
<1> DEFINE part(x) == {i \in A : a[i] = x}
           U == UNION {{x} \X (1..n[x]) : x \in D}
           place(x) == CHOOSE f : f \in Bijection(part(x), 1..n[x])
           h == [i \in A |-> <<a[i], place(a[i])[i]>>]
<1>1. ASSUME NEW x \in D PROVE place(x) \in Bijection(part(x), 1..n[x])
  <2>1. IsFiniteSet(part(x)) /\ n[x] = Cardinality(part(x))
    BY FS_Subset DEF PartOf
  <2>2. n[x] \in Nat
    BY <2>1, FS_CardinalityType
  <2>3. IsFiniteSet(1..n[x]) /\ Cardinality(1..n[x]) = Cardinality(part(x))
    BY <2>1, <2>2, FS_Interval
  <2> HIDE DEF part
  <2>4. ExistsBijection(part(x), 1..n[x])
    BY <2>1, <2>3, FS_SameCardinalityBij
  <2>5. \E f : f \in Bijection(part(x), 1..n[x])
    BY <2>4 DEF ExistsBijection
  <2>6. QED
    BY <2>5
<1> HIDE DEF place
<1>2. ASSUME NEW x \in D
      PROVE  /\ place(x) \in [part(x) -> 1..n[x]]
             /\ \A i, j \in part(x) : place(x)[i] = place(x)[j] => i = j
             /\ \A k \in 1..n[x] : \E i \in part(x) : place(x)[i] = k
  BY <1>1 DEF Bijection, Injection, Surjection, IsInjective
<1>3. \A p : p \in U <=> \E x \in D : p \in {x} \X (1..n[x])
  OBVIOUS
<1>4. ASSUME NEW i \in A PROVE i \in part(a[i]) /\ a[i] \in D /\ h[i] = <<a[i], place(a[i])[i]>>
  OBVIOUS
<1>5. h \in [A -> U]
  <2>1. ASSUME NEW i \in A PROVE h[i] \in U
    <3>1. PICK x \in D : x = a[i]
      OBVIOUS
    <3>2. i \in part(x) /\ h[i] = <<x, place(x)[i]>>
      BY <1>4, <3>1
    <3> HIDE DEF h, U, part
    <3>3. place(x)[i] \in 1..n[x]
      BY <1>2, <3>2
    <3>4. h[i] \in {x} \X (1..n[x])
      BY <3>2, <3>3
    <3>5. QED
      BY <1>3, <3>4
  <2>2. QED
    BY <2>1
<1>6. \A i, j \in A : h[i] = h[j] => i = j
  <2>1. SUFFICES ASSUME NEW i \in A, NEW j \in A, h[i] = h[j] PROVE i = j
    OBVIOUS
  <2>2. a[i] = a[j] /\ place(a[i])[i] = place(a[j])[j]
    BY <1>4, <2>1
  <2>3. PICK x \in D : x = a[i] /\ x = a[j]
    BY <2>2
  <2>4. place(x)[i] = place(x)[j] /\ i \in part(x) /\ j \in part(x)
    BY <2>2, <2>3
  <2> HIDE DEF h, part
  <2>5. QED
    BY <1>2, <2>4
<1>7. \A p \in U : \E i \in A : h[i] = p
  <2>1. SUFFICES ASSUME NEW p \in U PROVE \E i \in A : h[i] = p
    OBVIOUS
  <2>2. PICK x \in D : p \in {x} \X (1..n[x])
    BY <1>3
  <2>3. PICK k \in 1..n[x] : p = <<x, k>>
    BY <2>2
  <2>4. PICK i \in part(x) : place(x)[i] = k
    BY <1>2
  <2>5. i \in A /\ a[i] = x
    OBVIOUS
  <2>6. h[i] = p
    BY <1>4, <2>3, <2>4, <2>5
  <2>7. QED
    BY <2>5, <2>6
<1> HIDE DEF h, U
<1>8. h \in Bijection(A, U)
  BY <1>5, <1>6, <1>7 DEF Bijection, Injection, Surjection, IsInjective
<1>9. Cardinality(U) = Cardinality(A)
  BY <1>8, FS_Bijection DEF ExistsBijection
<1>10. QED
  BY <1>9 DEF U, Places

\* The members and the listing are each counted in full.
LEMMA MembershipReadable ==
    ASSUME NEW input, EarningsInput(input)
    PROVE  /\ WellFormedMembership(MembershipCoverage(input))
           /\ IsFiniteSet(DOMAIN Assigned(input)) /\ DOMAIN Assigned(input) = input.members \cap DOMAIN input.listing
<1> DEFINE both == input.members \cap DOMAIN input.listing
           classified == Cardinality(both)
           members == Cardinality(input.members)
           records == Cardinality(DOMAIN input.listing)
           validity == IF classified = members THEN "complete"
                       ELSE IF classified > 0 THEN "partial" ELSE "unavailable"
           c == MembershipCoverage(input)
<1>1. DOMAIN Assigned(input) = both
  BY DEF Assigned, Restrict
<1>2. c = [date |-> input.membersDate, members |-> members, records |-> records,
           classified |-> classified, unclassified |-> members - classified,
           unused |-> records - classified, validity |-> validity]
  BY <1>1 DEF MembershipCoverage
<1>3. /\ IsFiniteSet(both) /\ classified \in Nat /\ members \in Nat /\ records \in Nat
      /\ classified <= members /\ classified <= records
  <2>1. IsFiniteSet(input.members) /\ IsFiniteSet(DOMAIN input.listing)
    BY DEF EarningsInput
  <2>2. both \in SUBSET input.members /\ both \in SUBSET (DOMAIN input.listing)
    OBVIOUS
  <2>3. IsFiniteSet(both) /\ classified <= members /\ classified <= records
    BY <2>1, <2>2, FS_Subset
  <2>4. QED
    BY <2>1, <2>3, FS_CardinalityType
<1>4. members >= 1
  <2>1. IsFiniteSet(input.members) /\ input.members # {}
    BY DEF EarningsInput
  <2>2. members # 0
    BY <2>1, FS_EmptySet
  <2>3. QED
    BY <1>3, <2>2
<1> HIDE DEF both, classified, members, records, c
<1>5. /\ c.members = members /\ c.records = records /\ c.classified = classified
      /\ c.unclassified = members - classified /\ c.unused = records - classified /\ c.validity = validity
  BY <1>2
<1>6. /\ c.members >= 1 /\ c.classified + c.unclassified = c.members
      /\ c.unclassified >= 0 /\ c.unused >= 0 /\ c.classified + c.unused = c.records
  BY <1>3, <1>4, <1>5
<1>7. (CASE c.validity = "complete" -> c.classified = c.members
         [] c.validity = "partial" -> c.classified \in 1..c.members - 1
         [] OTHER -> c.validity = "unavailable" /\ c.classified = 0)
  <2>1. CASE classified = members
    BY <1>5, <2>1
  <2>2. CASE classified # members /\ classified > 0
    <3>1. classified \in 1..members - 1
      BY <1>3, <2>2
    <3>2. QED
      BY <1>5, <2>2, <3>1
  <2>3. CASE classified # members /\ ~(classified > 0)
    BY <1>3, <1>5, <2>3
  <2>4. QED
    BY <2>1, <2>2, <2>3
<1>8. WellFormedMembership(c)
  BY <1>6, <1>7 DEF WellFormedMembership
<1>9. QED
  BY <1>1, <1>3, <1>8 DEF both, c

\* The three kinds of aggregates agree, and the sectors hold the classified members.
LEMMA EarningsReadable ==
    ASSUME NEW input, EarningsInput(input), ~EarningsRaises(input)
    PROVE  WellFormedEarnings(EarningsSnapshot(input))
<1> DEFINE trend == [i \in Requested(input) |-> LatestFy1(input.trends[i])]
           assigned == Assigned(input)
           A == DOMAIN assigned
           of(x) == {i \in A : assigned[i] = x}
           sectors == [x \in DOMAIN SectorEtf |-> Aggregate(of(x), trend)]
           s == EarningsSnapshot(input)
<1>1. s = [asOf |-> input.captured, membership |-> MembershipCoverage(input),
           watchlist |-> Aggregate(input.watchlist, trend),
           market |-> Aggregate(input.members, trend), sectors |-> sectors]
  BY DEF EarningsSnapshot
<1>2. \A i \in Requested(input) : trend[i] \in Trends \cup {Absent}
  <2>1. SUFFICES ASSUME NEW i \in Requested(input) PROVE trend[i] \in Trends \cup {Absent}
    OBVIOUS
  <2>2. IsFiniteSet(input.trends[i]) /\ input.trends[i] \subseteq Trends
    BY DEF EarningsInput
  <2>3. QED
    BY <2>2, LatestIs
<1>3. /\ IsFiniteSet(input.members) /\ IsFiniteSet(input.watchlist)
      /\ input.members \subseteq Requested(input) /\ input.watchlist \subseteq Requested(input)
      /\ Requested(input) \subseteq STRING
  BY DEF EarningsInput, Requested
<1>4. /\ WellFormedMembership(s.membership) /\ s.membership.members = Cardinality(input.members)
      /\ s.membership.classified = Cardinality(A) /\ s.membership.date = input.membersDate
      /\ IsFiniteSet(A) /\ A = input.members \cap DOMAIN input.listing
  <2>1. /\ WellFormedMembership(MembershipCoverage(input))
        /\ IsFiniteSet(A) /\ A = input.members \cap DOMAIN input.listing
    BY MembershipReadable
  <2>2. /\ MembershipCoverage(input).members = Cardinality(input.members)
        /\ MembershipCoverage(input).classified = Cardinality(A)
        /\ MembershipCoverage(input).date = input.membersDate
    BY DEF MembershipCoverage
  <2> HIDE DEF s, A
  <2>3. QED
    BY <1>1, <2>1, <2>2
<1>5. s.membership.date <= s.asOf
  <2>1. input.membersDate \in Nat /\ input.captured \in Nat /\ ~(input.membersDate > input.captured)
    BY DEF EarningsInput, EarningsRaises
  <2> HIDE DEF s
  <2>2. QED
    BY <1>1, <1>4, <2>1
<1> HIDE DEF trend
<1>6. ASSUME NEW instruments, IsFiniteSet(instruments), instruments \subseteq Requested(input)
      PROVE  /\ WellFormedAggregate(Aggregate(instruments, trend))
             /\ Aggregate(instruments, trend).coverage.eligible = Cardinality(instruments)
  <2>1. instruments \subseteq STRING /\ \A i \in instruments : trend[i] \in Trends \cup {Absent}
    BY <1>2, <1>3, <1>6
  <2>2. QED
    BY <1>6, <2>1, AggregateReadable
<1>7. ASSUME NEW x
      PROVE  IsFiniteSet(of(x)) /\ of(x) \subseteq Requested(input)
  <2>1. of(x) \in SUBSET A
    OBVIOUS
  <2>2. of(x) \subseteq Requested(input)
    BY <1>3, <1>4, <2>1
  <2>3. QED
    BY <1>4, <2>1, <2>2, FS_Subset
<1>8. assigned \in [A -> DOMAIN SectorEtf]
  <2>1. \A i \in A : assigned[i] = input.listing[i] /\ i \in DOMAIN input.listing
    BY <1>4 DEF Assigned, Restrict
  <2>2. \A i \in DOMAIN input.listing : input.listing[i] \in DOMAIN SectorEtf
    BY DEF EarningsRaises
  <2>3. assigned = [i \in A |-> assigned[i]]
    BY <1>4 DEF Assigned, Restrict
  <2> HIDE DEF A, assigned
  <2>4. \A i \in A : assigned[i] \in DOMAIN SectorEtf
    BY <2>1, <2>2
  <2>5. QED
    BY <2>3, <2>4
<1> DEFINE n == [x \in DOMAIN SectorEtf |-> Cardinality(of(x))]
<1>9. Cardinality(UNION {{x} \X (1..n[x]) : x \in DOMAIN SectorEtf}) = Cardinality(A)
  <2>1. \A x \in DOMAIN SectorEtf : n[x] = Cardinality(PartOf(A, assigned, x))
    BY DEF PartOf
  <2>2. PICK B, b, m : B = A /\ b = assigned /\ m = n
    OBVIOUS
  <2> HIDE DEF n, A, assigned
  <2>3. IsFiniteSet(B) /\ b \in [B -> DOMAIN SectorEtf]
    BY <1>4, <1>8, <2>2
  <2>4. \A x \in DOMAIN SectorEtf : m[x] = Cardinality(PartOf(B, b, x))
    BY <2>1, <2>2
  <2>5. Cardinality(Places(DOMAIN SectorEtf, m)) = Cardinality(B)
    BY <2>3, <2>4, PartsCount
  <2>6. QED
    BY <2>2, <2>5 DEF Places
<1> HIDE DEF s, assigned, A, of
<1>10. ASSUME NEW x \in DOMAIN SectorEtf
       PROVE  WellFormedAggregate(sectors[x]) /\ sectors[x].coverage.eligible = n[x]
  <2>1. sectors[x] = Aggregate(of(x), trend) /\ n[x] = Cardinality(of(x))
    OBVIOUS
  <2> HIDE DEF sectors, n
  <2>2. QED
    BY <1>6, <1>7, <2>1
<1>11. DOMAIN sectors = DOMAIN SectorEtf /\ s.sectors = sectors
  BY <1>1
<1> HIDE DEF sectors, n
<1>12. \A a \in {s.watchlist, s.market} \cup Range(s.sectors) : WellFormedAggregate(a)
  <2>1. WellFormedAggregate(s.watchlist) /\ WellFormedAggregate(s.market)
    BY <1>1, <1>3, <1>6
  <2>2. \A a \in Range(s.sectors) : \E x \in DOMAIN SectorEtf : a = sectors[x]
    BY <1>11 DEF Range
  <2>3. QED
    BY <1>10, <2>1, <2>2
<1>13. s.market.coverage.eligible = s.membership.members
  BY <1>1, <1>3, <1>4, <1>6
<1>14. {{x} \X (1..s.sectors[x].coverage.eligible) : x \in DOMAIN s.sectors}
         = {{x} \X (1..n[x]) : x \in DOMAIN SectorEtf}
  BY <1>10, <1>11
<1>15. Cardinality(UNION {{x} \X (1..s.sectors[x].coverage.eligible) : x \in DOMAIN s.sectors})
           = s.membership.classified
  BY <1>4, <1>9, <1>14
<1>16. WellFormedEarnings(s)
  BY <1>4, <1>5, <1>12, <1>13, <1>15 DEF WellFormedEarnings
<1>17. QED
  BY <1>16 DEF s

-----------------------------------------------------------------------------
(* The theorems.                                                            *)

\* The snapshots of every input that does not raise are accepted by their records.
LEMMA EverySnapshotReadable == ASSUME case # Absent => IsCase(case) PROVE ComputedIsReadable
<1>1. SUFFICES ASSUME case # Absent, ~CaseRaises
               PROVE  /\ case.kind = "prices" => WellFormedPrices(PriceSnapshot(case.input))
                      /\ case.kind = "breadth" => WellFormedBreadth(BreadthSnapshot(case.input))
                      /\ case.kind = "macro" => /\ WellFormedRisk(RiskSnapshot(case.input))
                                                /\ WellFormedRegime(RegimeSnapshot(case.input))
                      /\ case.kind = "earnings" => WellFormedEarnings(EarningsSnapshot(case.input))
                      /\ case.kind = "fundamentals" => WellFormedFundamentals(FundamentalSnapshot(case.input))
                      /\ case.kind = "economic_events" => WellFormedEvents(EventSnapshot(case.input))
  <2>1. case # Absent => case.kind \in {"prices", "breadth", "macro", "earnings", "fundamentals", "economic_events"}
    BY DEF IsCase
  <2>2. QED
    BY <1>1, <2>1 DEF ComputedIsReadable
<1>2. IsCase(case)
  BY <1>1
<1>3. ASSUME case.kind = "prices" PROVE WellFormedPrices(PriceSnapshot(case.input))
  <2>1. PriceInput(case.input) /\ ~PriceRaises(case.input)
    BY <1>1, <1>2, <1>3 DEF IsCase, CaseRaises
  <2>2. QED
    BY <2>1, PricesReadable
<1>4. ASSUME case.kind = "breadth" PROVE WellFormedBreadth(BreadthSnapshot(case.input))
  <2>1. BreadthInput(case.input) /\ ~BreadthRaises(case.input)
    BY <1>1, <1>2, <1>4 DEF IsCase, CaseRaises
  <2>2. QED
    BY <2>1, BreadthReadable
<1>5. ASSUME case.kind = "macro"
      PROVE  WellFormedRisk(RiskSnapshot(case.input)) /\ WellFormedRegime(RegimeSnapshot(case.input))
  <2>1. MacroInput(case.input) /\ ~RegimeRaises(case.input)
    BY <1>1, <1>2, <1>5 DEF IsCase, CaseRaises
  <2>2. QED
    BY <2>1, RegimeReadable
<1>6. ASSUME case.kind = "earnings" PROVE WellFormedEarnings(EarningsSnapshot(case.input))
  <2>1. EarningsInput(case.input) /\ ~EarningsRaises(case.input)
    BY <1>1, <1>2, <1>6 DEF IsCase, CaseRaises
  <2>2. QED
    BY <2>1, EarningsReadable
<1>7. ASSUME case.kind = "fundamentals" PROVE WellFormedFundamentals(FundamentalSnapshot(case.input))
  <2>1. FundamentalInput(case.input) /\ ~FundamentalsRaise(case.input)
    BY <1>1, <1>2, <1>7 DEF IsCase, CaseRaises
  <2>2. QED
    BY <2>1, FundamentalsReadable
<1>8. ASSUME case.kind = "economic_events" PROVE WellFormedEvents(EventSnapshot(case.input))
  <2>1. EventInput(case.input) /\ ~EventsRaise(case.input)
    BY <1>1, <1>2, <1>8 DEF IsCase, CaseRaises
  <2>2. QED
    BY <2>1, EventsReadable
<1>9. QED
  BY <1>3, <1>4, <1>5, <1>6, <1>7, <1>8

\* What a sync starts from is an input that may arrive, and stays so.
Arrived == case # Absent => IsCase(case)

\* It holds at first.
LEMMA ArrivedInit == CaseInit => Arrived
BY DEF CaseInit, Arrived

\* Nothing changes it.
LEMMA ArrivedStep == Arrived /\ [UNCHANGED case]_case => Arrived'
BY DEF Arrived

\* Whatever gaps, repetitions and late or missing values the sources deliver, and whatever the
\* windows, a sync that does not raise leaves a snapshot that its record accepts: counts,
\* validity and values agree (the calculate_* functions of market_radar/ against the
\* __post_init__ and model_validator checks of metrics.py, macro.py, regime.py, earnings.py,
\* fundamentals.py and economic_events.py).
THEOREM SnapshotsAreReadable == CaseSpec => []ComputedIsReadable
<1>1. Arrived => ComputedIsReadable
  BY EverySnapshotReadable DEF Arrived
<1>2. QED
  BY ArrivedInit, ArrivedStep, <1>1, PTL DEF CaseSpec

\* No price, breadth or regime snapshot depends on what is dated after it, and a regime point of
\* an earlier day is what was computed on that day, if anything was (market_radar/metrics.py
\* _validated_bars, _current_series; regime.py _validate_observations, _align_point).
THEOREM SnapshotsSeeNoLaterDay == CaseSpec => []NoLookAhead
<1>1. Arrived => NoLookAhead
  BY NothingAhead DEF Arrived
<1>2. QED
  BY ArrivedInit, ArrivedStep, <1>1, PTL DEF CaseSpec
================================================================================
