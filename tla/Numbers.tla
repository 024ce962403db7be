------------------------------- MODULE Numbers -------------------------------
(***************************************************************************)
(* Facts about sets of numbers that the proofs of the schedules and of the *)
(* board share: their least and greatest elements, the place of an element *)
(* among the others, and sums of counts.                                   *)
(***************************************************************************)
EXTENDS Integers, FiniteSetTheorems, WellFoundedInduction, TLAPS

Less == {ss \in Nat \X Nat : ss[1] < ss[2]}

\* A set of naturals that is not empty has a least element.
LEMMA LeastNatural ==
  ASSUME NEW T \in SUBSET Nat, T # {}
  PROVE  \E n \in T : \A k \in T : n <= k
<1>1. IsWellFoundedOn(Less, Nat)
  BY NatLessThanWellFounded DEF OpToRel, Less
<1>2. PICK n \in T : \A k \in T : ~ (<<k, n>> \in Less)
  BY <1>1, WFMin
<1>3. ASSUME NEW k \in T PROVE n <= k
  <2>1. n \in Nat /\ k \in Nat
    OBVIOUS
  <2>2. ~ (<<k, n>> \in Less)
    BY <1>2
  <2>3. <<k, n>> \in Nat \X Nat => ~ (k < n)
    BY <2>2 DEF Less
  <2> QED
    BY <2>1, <2>3
<1> QED
  BY <1>3

\* A bounded set of naturals that is not empty has a greatest element: the least
\* of its bounds.
LEMMA GreatestNatural ==
  ASSUME NEW S \in SUBSET Nat, S # {}, NEW B \in Nat, \A x \in S : x <= B
  PROVE  \E m \in S : \A x \in S : x <= m
<1> DEFINE T == {k \in Nat : \A x \in S : x <= k}
<1>1. T \in SUBSET Nat /\ T # {}
  OBVIOUS
<1>2. PICK m \in T : \A k \in T : m <= k
  BY <1>1, LeastNatural
<1>3. m \in S
  <2> SUFFICES ASSUME m \notin S PROVE FALSE
    OBVIOUS
  <2>1. \A x \in S : x \in Nat /\ x <= m - 1
    BY <1>2
  <2>2. PICK x \in S : TRUE
    OBVIOUS
  <2>3. x \in Nat /\ x <= m - 1 /\ m \in Nat
    BY <2>1
  <2>4. m - 1 \in T
    BY <2>1, <2>3
  <2> QED
    BY <1>2, <2>4
<1> QED
  BY <1>2, <1>3

\* The place of a date among the dates up to it: positive, at most their number,
\* and higher for a later date.
LEMMA Places ==
  ASSUME NEW S \in SUBSET Int, IsFiniteSet(S),
         NEW d \in S
  PROVE  /\ Cardinality({e \in S : e <= d}) \in Nat \ {0}
         /\ Cardinality({e \in S : e <= d}) <= Cardinality(S)
         /\ \A f \in S : d < f =>
              Cardinality({e \in S : e <= d}) < Cardinality({e \in S : e <= f})
<1> DEFINE upTo(x) == {e \in S : e <= x}
<1>1. ASSUME NEW x \in S
      PROVE  /\ IsFiniteSet(upTo(x))
             /\ Cardinality(upTo(x)) \in Nat
             /\ Cardinality(upTo(x)) <= Cardinality(S)
  BY FS_Subset, FS_CardinalityType
<1>2. Cardinality(upTo(d)) # 0
  <2>1. d \in upTo(d)
    OBVIOUS
  <2> QED
    BY <1>1, <2>1, FS_EmptySet
<1>3. ASSUME NEW f \in S, d < f
      PROVE  Cardinality(upTo(d)) < Cardinality(upTo(f))
  <2>1. upTo(d) \in SUBSET upTo(f)
    <3> SUFFICES ASSUME NEW e \in S, e <= d PROVE e <= f
      OBVIOUS
    <3>1. e \in Int /\ d \in Int /\ f \in Int
      OBVIOUS
    <3> QED
      BY <1>3, <3>1
  <2>2. f \in upTo(f) /\ f \notin upTo(d)
    BY <1>3
  <2>3. upTo(d) # upTo(f)
    BY <2>2
  <2>4. /\ Cardinality(upTo(d)) <= Cardinality(upTo(f))
        /\ Cardinality(upTo(f)) = Cardinality(upTo(d)) => upTo(f) = upTo(d)
    BY <1>1, <2>1, FS_Subset
  <2> QED
    BY <1>1, <2>3, <2>4
<1> QED
  BY <1>1, <1>2, <1>3

\* Every place below the size of a finite set is some element's.
LEMMA PlaceTaken ==
  ASSUME NEW S \in SUBSET Nat, IsFiniteSet(S), NEW n \in 0..(Cardinality(S) - 1)
  PROVE  \E d \in S : Cardinality({e \in S : e < d}) = n
<1> DEFINE below(d) == {e \in S : e < d}
           Free == {k \in 0..(Cardinality(S) - 1) : \A d \in S : Cardinality(below(d)) # k}
<1> SUFFICES ASSUME Free # {} PROVE FALSE
  OBVIOUS
<1>1. Cardinality(S) \in Nat
  BY FS_CardinalityType
<1>2. Free \in SUBSET Nat
  BY <1>1
<1>3. PICK m \in Free : \A k \in Free : m <= k
  BY <1>2, LeastNatural
<1>4. m \in Nat /\ m < Cardinality(S) /\ \A d \in S : Cardinality(below(d)) # m
  BY <1>1, <1>3
<1>5. CASE m = 0
  <2>1. S # {}
    BY <1>4, FS_EmptySet
  <2>2. PICK d \in S : \A k \in S : d <= k
    BY <2>1, LeastNatural
  <2>3. below(d) = {}
    <3>1. \A e \in S : ~(e < d)
      BY <2>2
    <3> QED
      BY <3>1
  <2> QED
    BY <1>4, <1>5, <2>2, <2>3, FS_EmptySet
<1>6. CASE m # 0
  <2>1. m - 1 \in 0..(Cardinality(S) - 1) /\ m - 1 \notin Free
    BY <1>1, <1>3, <1>4, <1>6
  <2>2. PICK d \in S : Cardinality(below(d)) = m - 1
    BY <2>1
  <2>3. IsFiniteSet(below(d))
    BY FS_Subset
  <2> DEFINE upTo == below(d) \cup {d}
             above == S \ upTo
  <2>4. Cardinality(upTo) = m
    <3>1. d \notin below(d)
      OBVIOUS
    <3>2. Cardinality(upTo) = Cardinality(below(d)) + 1
      BY <2>3, <3>1, FS_AddElement
    <3> QED
      BY <1>4, <2>2, <3>2
  <2>5. above # {}
    <3>1. upTo # S
      BY <1>4, <2>4
    <3> QED
      BY <3>1
  <2>6. PICK f \in above : \A k \in above : f <= k
    BY <2>5, LeastNatural
  <2>7. f \in S /\ f \in Nat /\ d \in Nat /\ d < f
    BY <2>6
  <2>8. below(f) = upTo
    <3>1. ASSUME NEW x \in S, x < f PROVE x \in upTo
      BY <2>6, <2>7, <3>1
    <3>2. ASSUME NEW x \in S, x < d PROVE x < f
      BY <2>7, <3>2
    <3> QED
      BY <2>7, <3>1, <3>2
  <2> QED
    BY <1>4, <2>4, <2>7, <2>8
<1> QED
  BY <1>5, <1>6

\* A finite set has finitely many images.
LEMMA FiniteImage ==
  ASSUME NEW S, IsFiniteSet(S), NEW f, DOMAIN f = S
  PROVE  IsFiniteSet({f[x] : x \in S})
<1> DEFINE T == {f[x] : x \in S}
           g == [x \in S |-> f[x]]
<1>1. g \in Surjection(S, T)
  BY DEF Surjection
<1> QED
  BY <1>1, FS_Surjection

\* The function behind a sum over a set, which takes its elements away one by one.
SumsUp(g, e, S) ==
  g = [s \in SUBSET S |->
         IF s = {} THEN 0
         ELSE e[CHOOSE x \in s : TRUE] + g[s \ {CHOOSE x \in s : TRUE}]]

\* What belongs to the elements of a set, and how many that is for each subset.
Owned(T, of, s) == {t \in T : of[t] \in s}

Counts(T, of, S) == [s \in SUBSET S |-> Cardinality(Owned(T, of, s))]

\* Numbers that count what belongs to each element add up to what belongs to any of them.
LEMMA CountsAddUp ==
  ASSUME NEW S, IsFiniteSet(S), NEW T, IsFiniteSet(T), NEW of, NEW e,
         \A x \in S : e[x] = Cardinality(Owned(T, of, {x}))
  PROVE  /\ SumsUp(Counts(T, of, S), e, S)
         /\ \A g : SumsUp(g, e, S) => g[S] = Cardinality(Owned(T, of, S))
<1> DEFINE count == Counts(T, of, S)
           pick(s) == CHOOSE x \in s : TRUE
<1>1. \A s \in SUBSET S : count[s] \in Nat
  <2>1. \A s \in SUBSET S : Owned(T, of, s) \in SUBSET T /\ IsFiniteSet(Owned(T, of, s))
    BY FS_Subset DEF Owned
  <2> QED
    BY <2>1, FS_CardinalityType DEF Counts
<1>2. ASSUME NEW s \in SUBSET S, NEW x \in s
      PROVE  count[s] = e[x] + count[s \ {x}]
  <2> DEFINE mine == Owned(T, of, {x})
             others == Owned(T, of, s \ {x})
  <2>1. IsFiniteSet(mine) /\ IsFiniteSet(others)
    BY FS_Subset DEF Owned
  <2>2. mine \cap others = {}
    BY DEF Owned
  <2>3. Owned(T, of, s) = mine \cup others
    BY DEF Owned
  <2>4. Cardinality(mine \cup others) = Cardinality(mine) + Cardinality(others)
    <3> HIDE DEF mine, others
    <3>1. /\ Cardinality(mine) \in Nat /\ Cardinality(others) \in Nat
          /\ Cardinality(mine \cap others) = 0
      BY <2>1, <2>2, FS_EmptySet, FS_CardinalityType
    <3>2. Cardinality(mine \cup others)
            = Cardinality(mine) + Cardinality(others) - Cardinality(mine \cap others)
      BY <2>1, FS_Union, Zenon
    <3> QED
      BY <3>1, <3>2
  <2> QED
    BY <2>3, <2>4 DEF Counts
<1>3. count[{}] = 0
  BY FS_EmptySet DEF Counts, Owned
<1>4. \A s \in SUBSET S : s # {} => pick(s) \in s
  OBVIOUS
<1>5. SumsUp(count, e, S)
  <2>1. \A s \in SUBSET S :
          count[s] = IF s = {} THEN 0 ELSE e[pick(s)] + count[s \ {pick(s)}]
    BY <1>2, <1>3, <1>4
  <2> QED
    <3> DEFINE body(s) == IF s = {} THEN 0 ELSE e[pick(s)] + count[s \ {pick(s)}]
    <3>1. count = [s \in SUBSET S |-> count[s]]
      BY DEF Counts
    <3>2. count = [s \in SUBSET S |-> body(s)]
      BY <2>1, <3>1
    <3> QED
      BY <3>2 DEF SumsUp
<1>6. ASSUME NEW g, SumsUp(g, e, S)
      PROVE  g[S] = count[S]
  <2> DEFINE Wrong == {s \in SUBSET S : g[s] # count[s]}
             Sizes == {n \in Nat : \E s \in Wrong : Cardinality(s) = n}
  <2> SUFFICES ASSUME Wrong # {} PROVE FALSE
    OBVIOUS
  <2>1. \A s \in SUBSET S : IsFiniteSet(s) /\ Cardinality(s) \in Nat
    BY FS_Subset, FS_CardinalityType
  <2>2. Sizes # {} /\ Sizes \in SUBSET Nat
    BY <2>1
  <2>3. PICK n \in Sizes : \A k \in Sizes : n <= k
    BY <2>2, LeastNatural
  <2>4. PICK s \in Wrong : Cardinality(s) = n
    BY <2>3
  <2>5. g[s] = IF s = {} THEN 0 ELSE e[pick(s)] + g[s \ {pick(s)}]
    BY <1>6 DEF SumsUp
  <2>6. s # {}
    BY <1>3, <2>5
  <2> DEFINE rest == s \ {pick(s)}
  <2>7. pick(s) \in s /\ rest \in SUBSET S
    BY <1>4, <2>6
  <2>8. Cardinality(rest) = n - 1 /\ n \in Nat
    BY <2>1, <2>4, <2>7, FS_RemoveElement
  <2>9. rest \notin Wrong
    <3>1. Cardinality(rest) \in Nat /\ ~ (n <= Cardinality(rest))
      BY <2>1, <2>7, <2>8
    <3> QED
      BY <2>3, <3>1
  <2>10. g[rest] = count[rest]
    BY <2>7, <2>9
  <2>11. count[s] = e[pick(s)] + count[rest]
    BY <1>2, <2>7
  <2> QED
    BY <2>4, <2>5, <2>6, <2>10, <2>11
<1>7. count[S] = Cardinality(Owned(T, of, S))
  BY DEF Counts
<1> QED
  BY <1>5, <1>6, <1>7
=============================================================================
