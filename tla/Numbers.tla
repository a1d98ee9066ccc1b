-------------------------------- MODULE Numbers --------------------------------
(***************************************************************************)
(* Lemmas about numbers and finite sets that the proofs of several modules *)
(* rest on. Induction is by a least counterexample: the theorem of the     *)
(* library that takes a formula cannot be used, the well-founded order can.*)
(***************************************************************************)
EXTENDS Integers, FiniteSets, FiniteSetTheorems, NaturalsInduction, TLAPS

\* A set of numbers that is not empty has a least one.
LEMMA LeastNumber ==
  ASSUME NEW T, T \subseteq Nat, T # {}
  PROVE  \E m \in T : \A k \in T : m <= k
<1> DEFINE R == OpToRel(<, Nat)
<1>1. IsWellFoundedOn(R, Nat)
  BY NatLessThanWellFounded
<1>2. \A i, j \in Nat : i < j => <<i, j>> \in R
  BY DEF OpToRel
<1> HIDE DEF R
<1>3. PICK x \in T : \A y \in T : ~(<<y, x>> \in R)
  BY <1>1, WFMin
<1>4. ASSUME NEW k \in T PROVE x <= k
  <2>1. k \in Nat /\ x \in Nat /\ ~(<<k, x>> \in R)
    BY <1>3
  <2> QED BY <2>1, <1>2
<1> QED BY <1>4

\* Induction, said of a set.
LEMMA AllNumbers ==
  ASSUME NEW S, 0 \in S, \A n \in Nat : n \in S => n + 1 \in S
  PROVE  Nat \subseteq S
<1> DEFINE T == Nat \ S
<1> SUFFICES ASSUME T # {} PROVE FALSE
  OBVIOUS
<1>1. PICK m \in T : \A k \in T : m <= k
  BY LeastNumber
<1>2. m # 0 /\ m - 1 \in Nat
  OBVIOUS
<1>3. m - 1 \notin T
  BY <1>1, <1>2
<1>4. m - 1 \in S
  BY <1>2, <1>3
<1> QED BY <1>2, <1>4

\* How many numbers an interval has.
LEMMA IntervalSize ==
  ASSUME NEW u \in Nat \ {0}, NEW v \in Nat, u <= v + 1
  PROVE  IsFiniteSet(u..v) /\ Cardinality(u..v) = v - u + 1
<1>1. IsFiniteSet(u..v) /\ Cardinality(u..v) = IF u > v THEN 0 ELSE v - u + 1
  BY FS_Interval
<1>2. (IF u > v THEN 0 ELSE v - u + 1) = v - u + 1
  OBVIOUS
<1> QED BY <1>1, <1>2, Zenon

LEMMA FirstNumbers ==
  ASSUME NEW k \in Nat
  PROVE  IsFiniteSet(1..k) /\ Cardinality(1..k) = k
<1>1. IsFiniteSet(1..k) /\ Cardinality(1..k) = k - 1 + 1
  BY IntervalSize
<1>2. k - 1 + 1 = k
  OBVIOUS
<1> QED BY <1>1, <1>2, Zenon

\* Numbers below a bound have a greatest one.
LEMMA GreatestNumber ==
  ASSUME NEW T, T \subseteq Nat, T # {}, NEW b \in Nat, \A k \in T : k <= b
  PROVE  \E m \in T : \A k \in T : k <= m
<1> DEFINE U == {u \in Nat : \A k \in T : k <= u}
<1>1. U \subseteq Nat /\ U # {}
  OBVIOUS
<1>2. PICK m \in U : \A u \in U : m <= u
  BY <1>1, LeastNumber
<1>3. m \in Nat /\ \A k \in T : k \in Nat /\ k <= m
  BY <1>2
<1>4. ASSUME m \notin T PROVE FALSE
  <2>1. \A k \in T : k < m
    BY <1>3, <1>4
  <2>2. PICK k \in T : k \in Nat
    OBVIOUS
  <2>3. m - 1 \in Nat /\ \A i \in T : i <= m - 1
    BY <1>3, <2>1, <2>2
  <2>4. m <= m - 1
    BY <1>2, <2>3
  <2> QED
    BY <1>3, <2>4
<1> QED
  BY <1>3, <1>4

\* Records of different dates can be counted off in the order of their dates.
LEMMA RecordsInOrder ==
  ASSUME NEW S, IsFiniteSet(S),
         \A r \in S : r.date \in Nat, \A r, s \in S : r.date = s.date => r = s,
         NEW b \in Nat, \A r \in S : r.date <= b
  PROVE  \A n \in 1..Cardinality(S) : \E r \in S : Cardinality({s \in S : s.date < r.date}) = n - 1
PROOF
<1> DEFINE Ranked(T) == \A n \in 1..Cardinality(T) :
                          \E r \in T : Cardinality({s \in T : s.date < r.date}) = n - 1
           Sizes == {k \in Nat : \A T \in SUBSET S : Cardinality(T) = k => Ranked(T)}
<1>1. 0 \in Sizes
  OBVIOUS
<1>2. ASSUME NEW k \in Nat, k \in Sizes PROVE k + 1 \in Sizes
  <2> SUFFICES ASSUME NEW T \in SUBSET S, Cardinality(T) = k + 1 PROVE Ranked(T)
    <3> HIDE DEF Ranked
    <3> QED
      OBVIOUS
  <2>1. \A U \in SUBSET S : Cardinality(U) = k => Ranked(U)
    BY <1>2
  <2> HIDE DEF Ranked, Sizes
  <2>2. IsFiniteSet(T)
    BY FS_Subset
  <2>3. T # {}
    <3>1. k + 1 # 0
      OBVIOUS
    <3>2. Cardinality({}) = 0
      BY FS_EmptySet
    <3> QED
      BY <3>1, <3>2, Zenon
  <2>4. PICK last \in T : \A r \in T : r.date <= last.date
    <3> DEFINE D == {r.date : r \in T}
    <3>1. D \subseteq Nat /\ D # {} /\ \A e \in D : e <= b
      BY <2>3
    <3>2. PICK m \in D : \A e \in D : e <= m
      <4> HIDE DEF D
      <4> QED
        BY <3>1, GreatestNumber
    <3>3. PICK r \in T : r.date = m
      OBVIOUS
    <3>4. \A q \in T : q.date <= r.date
      BY <3>2, <3>3
    <3> QED
      BY <3>4
  <2>5. PICK Rest \in SUBSET S : Rest = T \ {last}
    OBVIOUS
  <2>6. IsFiniteSet(Rest) /\ Cardinality(Rest) = Cardinality(T) - 1
    BY <2>2, <2>5, FS_RemoveElement
  <2>7. Cardinality(Rest) = k
    BY <2>6
  <2>8. Ranked(Rest)
    BY <2>1, <2>7
  <2>9. ASSUME NEW r \in Rest PROVE r.date < last.date
    <3>1. r \in S /\ last \in S /\ r # last /\ r.date <= last.date
      BY <2>4, <2>5
    <3>2. r.date \in Nat /\ last.date \in Nat /\ r.date # last.date
      BY <3>1
    <3> QED
      BY <3>1, <3>2
  <2>10. last.date \in Nat /\ \A r \in Rest : r.date \in Nat
    OBVIOUS
  <2>11. {s \in T : s.date < last.date} = Rest
    BY <2>5, <2>9, <2>10
  <2>12. \A r \in Rest : {s \in T : s.date < r.date} = {s \in Rest : s.date < r.date}
    BY <2>5, <2>9, <2>10
  <2>13. ASSUME NEW n \in 1..(k + 1)
         PROVE  \E r \in T : Cardinality({s \in T : s.date < r.date}) = n - 1
    <3>1. CASE n = k + 1
      <4>1. n - 1 = k
        BY <3>1
      <4>2. Cardinality({s \in T : s.date < last.date}) = n - 1
        BY <2>7, <2>11, <4>1, Zenon
      <4> QED
        BY <4>2, Zenon
    <3>2. CASE n \in 1..k
      <4>1. PICK r \in Rest : Cardinality({s \in Rest : s.date < r.date}) = n - 1
        BY <2>7, <2>8, <3>2 DEF Ranked
      <4>2. Cardinality({s \in T : s.date < r.date}) = n - 1
        BY <4>1, <2>12, Zenon
      <4> QED
        BY <2>5, <4>2
    <3> QED
      BY <3>1, <3>2
  <2> QED
    BY <2>13 DEF Ranked
<1> HIDE DEF Ranked
<1>3. Nat \subseteq Sizes
  <2> HIDE DEF Sizes
  <2> QED
    BY <1>1, <1>2, AllNumbers
<1>4. Cardinality(S) \in Nat
  BY FS_CardinalityType
<1>5. Ranked(S)
  BY <1>3, <1>4
<1> QED
  BY <1>5 DEF Ranked

-----------------------------------------------------------------------------
(* Sums over a finite set, as the community modules define them            *)

Some(s) == CHOOSE x \in s : TRUE

\* it sums up every subset of D, one element after the other.
Adds(F, D, it) ==
  it = [s \in SUBSET D |-> IF s = {} THEN 0 ELSE F[Some(s)] + it[s \ {Some(s)}]]

Total(F, D) == (CHOOSE it : Adds(F, D, it))[D]

\* What is left when one is taken away.
LEMMA TakeOne ==
  ASSUME NEW D, IsFiniteSet(D), NEW s \in SUBSET D, s # {}
  PROVE  /\ Some(s) \in s /\ Some(s) \in D /\ s \ {Some(s)} \in SUBSET D
         /\ IsFiniteSet(s) /\ Cardinality(s) \in Nat \ {0}
         /\ Cardinality(s \ {Some(s)}) = Cardinality(s) - 1
PROOF
<1>1. Some(s) \in s
  BY DEF Some
<1>2. IsFiniteSet(s)
  BY FS_Subset
<1>3. Cardinality(s) \in Nat /\ Cardinality(s) # 0
  BY <1>2, FS_CardinalityType, FS_EmptySet
<1>4. Cardinality(s \ {Some(s)}) = Cardinality(s) - 1
  BY <1>1, <1>2, FS_RemoveElement
<1> QED
  BY <1>1, <1>2, <1>3, <1>4

LEMMA SumsExist ==
  ASSUME NEW D, IsFiniteSet(D), NEW F \in [D -> Int]
  PROVE  \E it \in [SUBSET D -> Int] : Adds(F, D, it)
PROOF
<1> DEFINE Upto(n) == {s \in SUBSET D : Cardinality(s) <= n}
           Next(g, s) == IF s = {} THEN 0 ELSE F[Some(s)] + g[s \ {Some(s)}]
           Good == {n \in Nat : \E g \in [Upto(n) -> Int] : \A s \in Upto(n) : g[s] = Next(g, s)}
<1>1. \A s \in SUBSET D : IsFiniteSet(s) /\ Cardinality(s) \in Nat
  BY FS_Subset, FS_CardinalityType
<1>2. 0 \in Good
  <2>1. \A s \in Upto(0) : s = {}
    BY <1>1, FS_EmptySet
  <2> PICK g : g = [s \in Upto(0) |-> 0]
    OBVIOUS
  <2>2. g \in [Upto(0) -> Int]
    OBVIOUS
  <2>3. \A s \in Upto(0) : g[s] = Next(g, s)
    BY <2>1
  <2> HIDE DEF Upto, Next
  <2> QED
    BY <2>2, <2>3
<1>3. ASSUME NEW n \in Nat, n \in Good PROVE n + 1 \in Good
  <2>1. PICK g \in [Upto(n) -> Int] : \A s \in Upto(n) : g[s] = Next(g, s)
    BY <1>3
  <2> DEFINE h == [s \in Upto(n + 1) |-> IF s \in Upto(n) THEN g[s] ELSE Next(g, s)]
  <2>2. ASSUME NEW s \in Upto(n + 1), s # {}
        PROVE  Some(s) \in D /\ s \ {Some(s)} \in Upto(n)
    BY <1>1, <1>3, <2>2, TakeOne
  <2>3. ASSUME NEW s \in Upto(n + 1) PROVE Next(g, s) \in Int
    <3>1. CASE s = {}
      BY <3>1
    <3>2. CASE s # {}
      <4>1. Some(s) \in D /\ s \ {Some(s)} \in Upto(n)
        BY <2>2, <3>2
      <4>2. F[Some(s)] \in Int /\ g[s \ {Some(s)}] \in Int
        <5> HIDE DEF Upto
        <5> QED
          BY <4>1
      <4> QED
        BY <4>2, <3>2
    <3> QED
      BY <3>1, <3>2
  <2>4. h \in [Upto(n + 1) -> Int]
    <3> HIDE DEF Upto, Next
    <3> QED
      BY <2>1, <2>3
  <2>5. \A s \in Upto(n) : s \in Upto(n + 1)
    BY <1>1
  <2>6. ASSUME NEW s \in Upto(n + 1) PROVE h[s] = Next(h, s)
    <3>1. h[s] = Next(g, s)
      <4> HIDE DEF Upto, Next
      <4> QED
        BY <2>1
    <3>2. CASE s = {}
      BY <3>1, <3>2
    <3>3. CASE s # {}
      <4>1. s \ {Some(s)} \in Upto(n) /\ s \ {Some(s)} \in Upto(n + 1)
        BY <2>2, <2>5, <3>3
      <4>2. h[s \ {Some(s)}] = g[s \ {Some(s)}]
        <5> HIDE DEF Upto, Next
        <5> QED
          BY <4>1
      <4> HIDE DEF h, Upto
      <4> QED
        BY <3>1, <3>3, <4>2
    <3> QED
      BY <3>2, <3>3
  <2> HIDE DEF h, Upto, Next
  <2> QED
    BY <2>4, <2>6
<1>4. Nat \subseteq Good
  <2> HIDE DEF Good
  <2> QED
    BY <1>2, <1>3, AllNumbers
<1>5. Cardinality(D) \in Nat
  BY <1>1
<1>6. \A s \in SUBSET D : Cardinality(s) <= Cardinality(D)
  BY FS_Subset
<1>7. Upto(Cardinality(D)) = SUBSET D
  BY <1>6
<1>8. PICK g \in [Upto(Cardinality(D)) -> Int] : \A s \in Upto(Cardinality(D)) : g[s] = Next(g, s)
  BY <1>4, <1>5
<1> HIDE DEF Upto
<1> QED
  BY <1>7, <1>8 DEF Adds

\* Sums over a set depend on what is summed up in it alone.
LEMMA SumsAgree ==
  ASSUME NEW D, NEW E, NEW F, NEW G, NEW i, NEW j, Adds(F, D, i), Adds(G, E, j),
         NEW S, IsFiniteSet(S), S \subseteq D, S \subseteq E, \A x \in S : F[x] = G[x]
  PROVE  i[S] = j[S]
PROOF
<1> DEFINE Same == {n \in Nat : \A s \in SUBSET S : Cardinality(s) = n => i[s] = j[s]}
<1>1. /\ \A s \in SUBSET D : i[s] = IF s = {} THEN 0 ELSE F[Some(s)] + i[s \ {Some(s)}]
      /\ \A s \in SUBSET E : j[s] = IF s = {} THEN 0 ELSE G[Some(s)] + j[s \ {Some(s)}]
  BY DEF Adds
<1>2. ASSUME NEW s \in SUBSET S, s = {} \/ i[s \ {Some(s)}] = j[s \ {Some(s)}]
      PROVE  i[s] = j[s]
  <2>1. s \in SUBSET D /\ s \in SUBSET E
    OBVIOUS
  <2>2. s # {} => F[Some(s)] = G[Some(s)]
    BY TakeOne
  <2> QED
    BY <1>1, <1>2, <2>1, <2>2
<1>3. 0 \in Same
  <2>1. \A s \in SUBSET S : Cardinality(s) = 0 => s = {}
    BY FS_Subset, FS_EmptySet
  <2> QED
    BY <1>2, <2>1
<1>4. ASSUME NEW n \in Nat, n \in Same PROVE n + 1 \in Same
  <2> SUFFICES ASSUME NEW s \in SUBSET S, Cardinality(s) = n + 1 PROVE i[s] = j[s]
    OBVIOUS
  <2>1. ASSUME s # {} PROVE i[s \ {Some(s)}] = j[s \ {Some(s)}]
    <3>1. s \ {Some(s)} \in SUBSET S /\ Cardinality(s \ {Some(s)}) = Cardinality(s) - 1
      BY <2>1, TakeOne
    <3>2. Cardinality(s \ {Some(s)}) = n
      BY <3>1
    <3> QED
      BY <1>4, <3>1, <3>2
  <2> HIDE DEF Same
  <2> QED
    BY <1>2, <2>1
<1>5. Nat \subseteq Same
  <2> HIDE DEF Same
  <2> QED
    BY <1>3, <1>4, AllNumbers
<1>6. Cardinality(S) \in Nat
  BY FS_CardinalityType
<1> QED
  BY <1>5, <1>6

LEMMA TotalAdds ==
  ASSUME NEW D, IsFiniteSet(D), NEW F \in [D -> Int]
  PROVE  \E it \in [SUBSET D -> Int] : Adds(F, D, it) /\ Total(F, D) = it[D]
PROOF
<1>1. PICK it \in [SUBSET D -> Int] : Adds(F, D, it)
  BY SumsExist
<1>2. Adds(F, D, CHOOSE i : Adds(F, D, i))
  BY <1>1, Zenon
<1>3. (CHOOSE i : Adds(F, D, i))[D] = it[D]
  BY <1>1, <1>2, SumsAgree
<1> QED
  BY <1>1, <1>3 DEF Total

LEMMA TotalOfSame ==
  ASSUME NEW D, IsFiniteSet(D), NEW F \in [D -> Int], NEW T \in SUBSET D
  PROVE  /\ Total(F, D) \in Int
         /\ Total([x \in T |-> F[x]], T) \in Int
         /\ \A it : Adds(F, D, it) => it[T] = Total([x \in T |-> F[x]], T)
PROOF
<1>1. IsFiniteSet(T)
  BY FS_Subset
<1> DEFINE G == [x \in T |-> F[x]]
<1>2. G \in [T -> Int] /\ \A x \in T : G[x] = F[x]
  OBVIOUS
<1> HIDE DEF G
<1>3. PICK j \in [SUBSET T -> Int] : Adds(G, T, j) /\ Total(G, T) = j[T]
  BY <1>1, <1>2, TotalAdds
<1>4. ASSUME NEW it, Adds(F, D, it) PROVE it[T] = j[T]
  BY <1>1, <1>2, <1>3, <1>4, SumsAgree
<1>5. Total(F, D) \in Int
  <2>1. PICK it \in [SUBSET D -> Int] : Total(F, D) = it[D]
    BY TotalAdds
  <2>2. it[D] \in Int
    OBVIOUS
  <2> QED
    BY <2>1, <2>2, Zenon
<1>6. Total(G, T) \in Int
  <2>1. j[T] \in Int
    BY <1>3
  <2> QED
    BY <1>3, <2>1, Zenon
<1> QED
  BY <1>3, <1>4, <1>5, <1>6, Zenon DEF G

\* The sum over nothing, and what one element adds to the sum over the others,
\* in whatever order they are added.
LEMMA TotalOfNone ==
  ASSUME NEW F PROVE Total(F, {}) = 0
PROOF
<1> DEFINE it == [s \in SUBSET {} |-> 0]
<1>1. Adds(F, {}, it) /\ it[{}] = 0
  BY DEF Adds
<1> HIDE DEF it
<1>2. Adds(F, {}, CHOOSE i : Adds(F, {}, i))
  BY <1>1, Zenon
<1> QED
  BY <1>1, <1>2, SumsAgree, FS_EmptySet DEF Total

LEMMA TotalSplits ==
  ASSUME NEW D, IsFiniteSet(D), NEW F \in [D -> Int], NEW x \in D
  PROVE  Total(F, D) = F[x] + Total([y \in D \ {x} |-> F[y]], D \ {x})
PROOF
<1>1. PICK it \in [SUBSET D -> Int] : Adds(F, D, it) /\ Total(F, D) = it[D]
  BY TotalAdds
<1>2. \A s \in SUBSET D : s # {} => it[s] = F[Some(s)] + it[s \ {Some(s)}]
  BY <1>1 DEF Adds
<1> DEFINE Splits == {n \in Nat : \A s \in SUBSET D : Cardinality(s) = n =>
                        \A e \in s : it[s] = F[e] + it[s \ {e}]}
<1>3. 0 \in Splits
  <2>1. \A s \in SUBSET D : Cardinality(s) = 0 => s = {}
    BY FS_Subset, FS_EmptySet
  <2> QED
    BY <2>1
<1>4. ASSUME NEW n \in Nat, n \in Splits PROVE n + 1 \in Splits
  <2> SUFFICES ASSUME NEW s \in SUBSET D, Cardinality(s) = n + 1, NEW e \in s
               PROVE  it[s] = F[e] + it[s \ {e}]
    OBVIOUS
  <2>1. \A t \in SUBSET D : Cardinality(t) = n => \A a \in t : it[t] = F[a] + it[t \ {a}]
    BY <1>4
  <2> PICK c : c = Some(s)
    OBVIOUS
  <2>2. c \in s /\ it[s] = F[c] + it[s \ {c}] /\ Cardinality(s \ {c}) = Cardinality(s) - 1
    BY <1>2, TakeOne
  <2>3. CASE e = c
    BY <2>2, <2>3
  <2>4. CASE e # c
    <3>1. IsFiniteSet(s)
      BY FS_Subset
    <3>2. Cardinality(s \ {e}) = Cardinality(s) - 1
      BY <3>1, FS_RemoveElement
    <3>3. Cardinality(s \ {c}) = n /\ Cardinality(s \ {e}) = n
      BY <2>2, <3>2
    <3>4. it[s \ {c}] = F[e] + it[(s \ {c}) \ {e}]
      BY <2>1, <2>4, <3>3
    <3>5. it[s \ {e}] = F[c] + it[(s \ {e}) \ {c}]
      BY <2>1, <2>2, <2>4, <3>3
    <3>6. (s \ {e}) \ {c} = (s \ {c}) \ {e}
      OBVIOUS
    <3>7. F[e] \in Int /\ F[c] \in Int /\ it[(s \ {c}) \ {e}] \in Int
      BY <2>2
    <3>8. \A i, j, k \in Int : i + (j + k) = j + (i + k)
      OBVIOUS
    <3>9. F[c] + (F[e] + it[(s \ {c}) \ {e}]) = F[e] + (F[c] + it[(s \ {c}) \ {e}])
      BY <3>7, <3>8, Zenon
    <3> QED
      BY <2>2, <3>4, <3>5, <3>6, <3>9, Zenon
  <2> QED
    BY <2>3, <2>4
<1>5. Nat \subseteq Splits
  <2> HIDE DEF Splits
  <2> QED
    BY <1>3, <1>4, AllNumbers
<1>6. Cardinality(D) \in Nat
  BY FS_CardinalityType
<1>7. it[D] = F[x] + it[D \ {x}]
  BY <1>5, <1>6
<1>8. it[D \ {x}] = Total([y \in D \ {x} |-> F[y]], D \ {x})
  <2>1. D \ {x} \in SUBSET D
    OBVIOUS
  <2>2. \A T \in SUBSET D : it[T] = Total([y \in T |-> F[y]], T)
    BY <1>1, TotalOfSame
  <2> QED
    BY <2>1, <2>2, Zenon
<1> QED
  BY <1>1, <1>7, <1>8, Zenon

\* A sum of numbers is one.
LEMMA TotalOfNumbers ==
  ASSUME NEW D, IsFiniteSet(D), NEW F \in [D -> Nat]
  PROVE  Total(F, D) \in Nat /\ \A x \in D : F[x] <= Total(F, D)
PROOF
<1>1. PICK it \in [SUBSET D -> Int] : Adds(F, D, it) /\ Total(F, D) = it[D]
  BY TotalAdds
<1>2. \A s \in SUBSET D : it[s] = IF s = {} THEN 0 ELSE F[Some(s)] + it[s \ {Some(s)}]
  BY <1>1 DEF Adds
<1> DEFINE Natural == {n \in Nat : \A s \in SUBSET D : Cardinality(s) = n => it[s] \in Nat}
<1>3. 0 \in Natural
  <2>1. \A s \in SUBSET D : Cardinality(s) = 0 => s = {}
    BY FS_Subset, FS_EmptySet
  <2>2. it[{}] = 0
    BY <1>2, Zenon
  <2>3. 0 \in Nat
    OBVIOUS
  <2> QED
    BY <2>1, <2>2, <2>3
<1>4. ASSUME NEW n \in Nat, n \in Natural PROVE n + 1 \in Natural
  <2> SUFFICES ASSUME NEW s \in SUBSET D, Cardinality(s) = n + 1 PROVE it[s] \in Nat
    OBVIOUS
  <2>1. \A t \in SUBSET D : Cardinality(t) = n => it[t] \in Nat
    BY <1>4
  <2>2. CASE s = {}
    <3>1. it[{}] = 0
      BY <1>2, Zenon
    <3> QED
      BY <2>2, <3>1
  <2>3. CASE s # {}
    <3>1. Some(s) \in D /\ s \ {Some(s)} \in SUBSET D /\ Cardinality(s \ {Some(s)}) = Cardinality(s) - 1
      BY <2>3, TakeOne
    <3>2. Cardinality(s \ {Some(s)}) = n
      BY <3>1
    <3>3. it[s \ {Some(s)}] \in Nat /\ F[Some(s)] \in Nat
      BY <2>1, <3>1, <3>2
    <3> QED
      BY <1>2, <2>3, <3>3
  <2> QED
    BY <2>2, <2>3
<1>5. Nat \subseteq Natural
  <2> HIDE DEF Natural
  <2> QED
    BY <1>3, <1>4, AllNumbers
<1>6. \A s \in SUBSET D : it[s] \in Nat
  <2>1. \A s \in SUBSET D : Cardinality(s) \in Nat
    BY FS_Subset, FS_CardinalityType
  <2> QED
    BY <1>5, <2>1
<1>7. ASSUME NEW x \in D PROVE F[x] <= Total(F, D)
  <2>1. Total(F, D) = F[x] + Total([y \in D \ {x} |-> F[y]], D \ {x})
    BY TotalSplits
  <2>2. it[D \ {x}] = Total([y \in D \ {x} |-> F[y]], D \ {x})
    <3>1. F \in [D -> Int] /\ D \ {x} \in SUBSET D
      OBVIOUS
    <3>2. \A T \in SUBSET D : it[T] = Total([y \in T |-> F[y]], T)
      BY <1>1, <3>1, TotalOfSame
    <3> QED
      BY <3>1, <3>2, Zenon
  <2>3. it[D \ {x}] \in Nat /\ F[x] \in Nat
    BY <1>6
  <2> QED
    BY <2>1, <2>2, <2>3
<1> QED
  BY <1>1, <1>6, <1>7

\* Gains and losses of one size.
LEMMA TotalOfEqual ==
  ASSUME NEW D, IsFiniteSet(D), NEW F \in [D -> Int], NEW a \in Int, NEW P \in SUBSET D,
         \A x \in P : F[x] = a, \A x \in D \ P : F[x] = -a
  PROVE  Total(F, D) = a * Cardinality(P) - a * Cardinality(D \ P)
PROOF
<1>1. PICK it \in [SUBSET D -> Int] : Adds(F, D, it) /\ Total(F, D) = it[D]
  BY TotalAdds
<1>2. \A s \in SUBSET D : it[s] = IF s = {} THEN 0 ELSE F[Some(s)] + it[s \ {Some(s)}]
  BY <1>1 DEF Adds
<1> DEFINE Sum(s) == a * Cardinality(s \cap P) - a * Cardinality(s \ P)
           Right == {n \in Nat : \A s \in SUBSET D : Cardinality(s) = n => it[s] = Sum(s)}
<1>3. 0 \in Right
  <2>1. \A s \in SUBSET D : Cardinality(s) = 0 => s = {}
    BY FS_Subset, FS_EmptySet
  <2>2. Sum({}) = 0
    <3>1. {} \cap P = {} /\ {} \ P = {} /\ Cardinality({}) = 0
      BY FS_EmptySet
    <3>2. a * 0 - a * 0 = 0
      OBVIOUS
    <3> QED
      BY <3>1, <3>2
  <2> HIDE DEF Sum
  <2> QED
    BY <1>2, <2>1, <2>2
<1>4. ASSUME NEW n \in Nat, n \in Right PROVE n + 1 \in Right
  <2> SUFFICES ASSUME NEW s \in SUBSET D, Cardinality(s) = n + 1 PROVE it[s] = Sum(s)
    OBVIOUS
  <2>1. \A t \in SUBSET D : Cardinality(t) = n => it[t] = Sum(t)
    BY <1>4
  <2>2. s # {}
    <3>1. n + 1 # 0 /\ Cardinality({}) = 0
      BY FS_EmptySet
    <3> QED
      BY <3>1, Zenon
  <2> PICK c : c = Some(s)
    OBVIOUS
  <2>3. c \in s /\ c \in D /\ Cardinality(s \ {c}) = Cardinality(s) - 1 /\ IsFiniteSet(s)
    BY <2>2, TakeOne
  <2>4. it[s] = F[c] + it[s \ {c}]
    BY <1>2, <2>2
  <2>5. it[s \ {c}] = Sum(s \ {c})
    <3>1. Cardinality(s \ {c}) = n
      BY <2>3
    <3> QED
      BY <2>1, <3>1
  <2> DEFINE p == Cardinality(s \cap P)
             q == Cardinality(s \ P)
             r == Cardinality((s \ {c}) \cap P)
             t == Cardinality((s \ {c}) \ P)
  <2>6. p \in Nat /\ q \in Nat /\ r \in Nat /\ t \in Nat
    BY <2>3, FS_Subset, FS_CardinalityType
  <2>7. IsFiniteSet(s \cap P) /\ IsFiniteSet(s \ P)
    BY <2>3, FS_Subset
  <2>8. it[s] = F[c] + a * r - a * t
    <3>1. Sum(s \ {c}) = a * r - a * t
      OBVIOUS
    <3>2. F[c] \in Int
      BY <2>3
    <3> HIDE DEF p, q, r, t, Sum
    <3> QED
      BY <2>4, <2>5, <2>6, <3>1, <3>2
  <2>9. CASE c \in P
    <3>1. (s \ {c}) \cap P = (s \cap P) \ {c} /\ (s \ {c}) \ P = s \ P /\ c \in s \cap P
      BY <2>3, <2>9
    <3>2. r = p - 1 /\ t = q
      <4>1. \A S : IsFiniteSet(S) /\ c \in S => Cardinality(S \ {c}) = Cardinality(S) - 1
        BY FS_RemoveElement
      <4>2. Cardinality((s \cap P) \ {c}) = Cardinality(s \cap P) - 1
        BY <2>7, <3>1, <4>1, Zenon
      <4> QED
        BY <3>1, <4>2, Zenon
    <3>3. F[c] = a
      BY <2>9
    <3> HIDE DEF p, q, r, t
    <3>4. a * (p - 1) = a * p - a
      BY <2>6
    <3>5. it[s] = a * p - a * q
      BY <2>6, <2>8, <3>2, <3>3, <3>4
    <3> QED
      BY <3>5 DEF p, q
  <2>10. CASE c \notin P
    <3>1. (s \ {c}) \ P = (s \ P) \ {c} /\ (s \ {c}) \cap P = s \cap P /\ c \in s \ P
      BY <2>3, <2>10
    <3>2. t = q - 1 /\ r = p
      <4>1. \A S : IsFiniteSet(S) /\ c \in S => Cardinality(S \ {c}) = Cardinality(S) - 1
        BY FS_RemoveElement
      <4>2. Cardinality((s \ P) \ {c}) = Cardinality(s \ P) - 1
        BY <2>7, <3>1, <4>1, Zenon
      <4> QED
        BY <3>1, <4>2, Zenon
    <3>3. F[c] = -a
      BY <2>3, <2>10
    <3> HIDE DEF p, q, r, t
    <3>4. a * (q - 1) = a * q - a
      BY <2>6
    <3>5. it[s] = a * p - a * q
      BY <2>6, <2>8, <3>2, <3>3, <3>4
    <3> QED
      BY <3>5 DEF p, q
  <2> QED
    BY <2>9, <2>10
<1>5. Nat \subseteq Right
  <2> HIDE DEF Right
  <2> QED
    BY <1>3, <1>4, AllNumbers
<1>6. Cardinality(D) \in Nat /\ D \cap P = P
  BY FS_CardinalityType
<1>7. it[D] = Sum(D)
  <2> HIDE DEF Sum
  <2> QED
    BY <1>5, <1>6
<1> QED
  BY <1>1, <1>6, <1>7

=============================================================================
