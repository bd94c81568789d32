------------------------------- MODULE SumProofs -------------------------------
(***************************************************************************)
(* Finite sums, for the proofs about totals over the rows of a report and  *)
(* over windows.  A sum is a recursive function, so that what it adds up   *)
(* to is proved from the smallest set for which it would not.              *)
(***************************************************************************)
EXTENDS Integers, FiniteSets, Functions, FiniteSetTheorems, WellFoundedInduction, TLAPS

----------------------------------------------------------------------------
(* Smallest counterexamples *)

\* Among the finite sets of a family one has no strict subset in it.
LEMMA SmallestSet ==
  ASSUME NEW family, family # {}, \A S \in family : IsFiniteSet(S)
  PROVE  \E S \in family : \A T \in family : T \subseteq S => T = S
<1> DEFINE all == UNION family
           R == StrictSubsetOrdering(all)
<1>1. family \subseteq FiniteSubsetsOf(all)
  BY DEF FiniteSubsetsOf
<1>2. IsWellFoundedOn(R, FiniteSubsetsOf(all))
  BY FS_StrictSubsetOrderingWellFounded
<1>3. PICK S \in family : \A T \in family : ~(<<T, S>> \in R)
  <2> HIDE DEF R, all
  <2> QED  BY <1>1, <1>2, WFMin, Zenon
<1>4. ASSUME NEW T \in family, T \subseteq S, T # S  PROVE  FALSE
  <2>1. <<T, S>> \in R
    BY <1>4 DEF StrictSubsetOrdering
  <2> QED  BY <2>1, <1>3
<1> QED  BY <1>4

\* A set of naturals that is not empty has a least element.
LEMMA LeastExists ==
  ASSUME NEW S \in SUBSET Nat, S # {}
  PROVE  \E x \in S : \A y \in S : x <= y
<1> DEFINE Below == {1 .. n : n \in S}
<1>1. Below # {} /\ \A T \in Below : IsFiniteSet(T)
  <2>1. \A n \in S : IsFiniteSet(1 .. n)
    BY FS_Interval
  <2> QED  BY <2>1
<1>2. PICK b \in Below : \A T \in Below : T \subseteq b => T = b
  <2> HIDE DEF Below
  <2> QED  BY <1>1, SmallestSet
<1>3. PICK x \in S : b = 1 .. x
  OBVIOUS
<1>4. ASSUME NEW y \in S, ~(x <= y)  PROVE  FALSE
  <2>1. 1 .. y \subseteq 1 .. x /\ x \in 1 .. x /\ x \notin 1 .. y
    BY <1>4
  <2> QED  BY <2>1, <1>2, <1>3
<1> QED  BY <1>4

----------------------------------------------------------------------------
(* The recursive function behind a sum *)

\* One step of the recursion: of a set, with the sums of the smaller ones.
Pick(s) == CHOOSE x \in s : TRUE
Unrolled(f, sum, s) == IF s = {} THEN 0 ELSE f[Pick(s)] + sum[s \ {Pick(s)}]
IsSum(f, sum, S) == sum = [s \in SUBSET S |-> Unrolled(f, sum, s)]

LEMMA PickIn == ASSUME NEW s, s # {}  PROVE  Pick(s) \in s
BY DEF Pick

\* What is a sum on a set is one on its subsets.
LEMMA SumRestricts ==
  ASSUME NEW f, NEW S, NEW T \in SUBSET S, NEW sum, IsSum(f, sum, S)
  PROVE  IsSum(f, [s \in SUBSET T |-> sum[s]], T)
<1> DEFINE part == [s \in SUBSET T |-> sum[s]]
<1>1. ASSUME NEW s \in SUBSET T  PROVE  sum[s] = Unrolled(f, part, s)
  <2>1. s \in SUBSET S /\ sum[s] = Unrolled(f, sum, s)
    BY DEF IsSum
  <2>2. s # {} => part[s \ {Pick(s)}] = sum[s \ {Pick(s)}]
    OBVIOUS
  <2> HIDE DEF part
  <2> QED  BY <2>1, <2>2 DEF Unrolled
<1>2. part = [s \in SUBSET T |-> Unrolled(f, part, s)]
  <2>1. part = [s \in SUBSET T |-> sum[s]]
    OBVIOUS
  <2> HIDE DEF part
  <2> QED  BY <1>1, <2>1
<1>3. IsSum(f, part, T)
  <2> HIDE DEF part
  <2> QED  BY <1>2 DEF IsSum
<1> QED  BY <1>3

HasSum(f, S) ==
  /\ \E sum : IsSum(f, sum, S)
  /\ \A left, right : IsSum(f, left, S) /\ IsSum(f, right, S) => left = right

SumOn(f, S) == CHOOSE sum : IsSum(f, sum, S)

LEMMA SumsAgreeBelow ==
  ASSUME NEW f, NEW S, \A T \in (SUBSET S) \ {S} : HasSum(f, T),
         NEW left, NEW right, IsSum(f, left, S), IsSum(f, right, S)
  PROVE  left = right
<1>1. ASSUME NEW s \in (SUBSET S) \ {S}  PROVE  left[s] = right[s]
  <2>1. IsSum(f, [t \in SUBSET s |-> left[t]], s) /\ IsSum(f, [t \in SUBSET s |-> right[t]], s)
    BY SumRestricts
  <2>2. [t \in SUBSET s |-> left[t]] = [t \in SUBSET s |-> right[t]]
    BY <2>1 DEF HasSum
  <2>3. s \in SUBSET s
    OBVIOUS
  <2> QED  BY <2>2, <2>3
<1>2. left[S] = right[S]
  <2>1. left[S] = Unrolled(f, left, S) /\ right[S] = Unrolled(f, right, S)
    BY DEF IsSum
  <2>2. S # {} => S \ {Pick(S)} \in (SUBSET S) \ {S}
    BY PickIn
  <2> QED  BY <1>1, <2>1, <2>2 DEF Unrolled
<1>3. \A s \in SUBSET S : left[s] = right[s]
  BY <1>1, <1>2
<1>4. left = [s \in SUBSET S |-> left[s]] /\ right = [s \in SUBSET S |-> right[s]]
  BY DEF IsSum
<1> QED  BY <1>3, <1>4

LEMMA SumFromBelow ==
  ASSUME NEW f, NEW S, \A T \in (SUBSET S) \ {S} : HasSum(f, T)
  PROVE  \E sum : IsSum(f, sum, S)
<1> DEFINE rest == S \ {Pick(S)}
           sum == [s \in SUBSET S |->
                     IF s = S THEN IF S = {} THEN 0 ELSE f[Pick(S)] + SumOn(f, rest)[rest]
                     ELSE SumOn(f, s)[s]]
<1>1. \A T \in (SUBSET S) \ {S} : IsSum(f, SumOn(f, T), T)
  BY DEF HasSum, SumOn
<1>2. ASSUME NEW s \in (SUBSET S) \ {S}, s # {}
      PROVE  SumOn(f, s)[s \ {Pick(s)}] = SumOn(f, s \ {Pick(s)})[s \ {Pick(s)}]
  <2> DEFINE t == s \ {Pick(s)}
             part == [u \in SUBSET t |-> SumOn(f, s)[u]]
  <2>1. t \in SUBSET s /\ t \in (SUBSET S) \ {S}
    BY <1>2, PickIn
  <2>2. IsSum(f, part, t) /\ IsSum(f, SumOn(f, t), t)
    <3>1. IsSum(f, SumOn(f, s), s) /\ IsSum(f, SumOn(f, t), t)
      BY <1>1, <2>1
    <3>2. \A g : IsSum(f, g, s) => IsSum(f, [u \in SUBSET t |-> g[u]], t)
      <4> HIDE DEF t
      <4> QED  BY <2>1, SumRestricts
    <3> HIDE DEF t
    <3> QED  BY <3>1, <3>2, Zenon
  <2>3. part = SumOn(f, t)
    <3> HIDE DEF t, part
    <3> QED  BY <2>1, <2>2 DEF HasSum
  <2>4. part[t] = SumOn(f, s)[t]
    <3> HIDE DEF t
    <3> QED  OBVIOUS
  <2> QED  BY <2>3, <2>4
<1>3. ASSUME NEW s \in SUBSET S  PROVE  sum[s] = Unrolled(f, sum, s)
  <2>1. CASE s = S
    <3>1. S # {} => rest \in (SUBSET S) \ {S}
      BY PickIn
    <3>2. S # {} => sum[rest] = SumOn(f, rest)[rest]
      BY <3>1
    <3>3. sum[S] = IF S = {} THEN 0 ELSE f[Pick(S)] + SumOn(f, rest)[rest]
      OBVIOUS
    <3> HIDE DEF sum
    <3> QED  BY <2>1, <3>2, <3>3 DEF Unrolled
  <2>2. CASE s # S
    <3>1. sum[s] = SumOn(f, s)[s]
      BY <2>2
    <3>2. SumOn(f, s)[s] = Unrolled(f, SumOn(f, s), s)
      <4>1. s \in SUBSET s /\ IsSum(f, SumOn(f, s), s)
        BY <1>1, <2>2
      <4> QED  BY <4>1 DEF IsSum
    <3>3. s # {} => s \ {Pick(s)} \in (SUBSET S) \ {S}
      BY <2>2, PickIn
    <3>4. s # {} => sum[s \ {Pick(s)}] = SumOn(f, s \ {Pick(s)})[s \ {Pick(s)}]
      BY <3>3
    <3> HIDE DEF sum
    <3> QED  BY <1>2, <2>2, <3>1, <3>2, <3>4 DEF Unrolled
  <2> QED  BY <2>1, <2>2
<1>4. IsSum(f, sum, S)
  <2>1. sum = [s \in SUBSET S |-> sum[s]]
    OBVIOUS
  <2> HIDE DEF sum
  <2> QED  BY <1>3, <2>1 DEF IsSum
<1> HIDE DEF sum
<1> QED  BY <1>4

LEMMA SumExists ==
  ASSUME NEW f, NEW S, IsFiniteSet(S)
  PROVE  HasSum(f, S)
<1> SUFFICES ASSUME ~HasSum(f, S)  PROVE  FALSE
  OBVIOUS
<1> DEFINE bad == {T \in SUBSET S : ~HasSum(f, T)}
<1>1. bad # {} /\ \A T \in bad : IsFiniteSet(T)
  <2>1. S \in bad
    OBVIOUS
  <2> QED  BY <2>1, FS_Subset
<1>2. PICK T \in bad : \A U \in bad : U \subseteq T => U = T
  <2> HIDE DEF bad
  <2> QED  BY <1>1, SmallestSet
<1>3. \A U \in (SUBSET T) \ {T} : HasSum(f, U)
  BY <1>2
<1>4. HasSum(f, T)
  BY <1>3, SumFromBelow, SumsAgreeBelow, Zenon DEF HasSum
<1> QED  BY <1>2, <1>4

----------------------------------------------------------------------------
(* What a sum adds up to *)

LEMMA SumIsSum ==
  ASSUME NEW f, NEW S
  PROVE  SumFunctionOnSet(f, S) = SumOn(f, S)[S]
BY DEF SumFunctionOnSet, FoldFunctionOnSet, MapThenFoldSet, SumOn, IsSum, Unrolled, Pick

LEMMA SumUnfolds ==
  ASSUME NEW f, NEW S, IsFiniteSet(S)
  PROVE  SumFunctionOnSet(f, S) =
           IF S = {} THEN 0 ELSE f[Pick(S)] + SumFunctionOnSet(f, S \ {Pick(S)})
<1> DEFINE rest == S \ {Pick(S)}
<1>1. HasSum(f, S) /\ HasSum(f, rest) /\ rest \subseteq S
  BY SumExists, FS_Subset
<1>2. IsSum(f, SumOn(f, S), S) /\ IsSum(f, SumOn(f, rest), rest)
  BY <1>1 DEF HasSum, SumOn
<1>3. SumOn(f, S)[S] = Unrolled(f, SumOn(f, S), S)
  <2>1. S \in SUBSET S
    OBVIOUS
  <2> QED  BY <1>2, <2>1 DEF IsSum
<1>4. SumOn(f, S)[rest] = SumOn(f, rest)[rest]
  <2> DEFINE part == [s \in SUBSET rest |-> SumOn(f, S)[s]]
  <2>1. IsSum(f, part, rest)
    <3>1. \A g : IsSum(f, g, S) => IsSum(f, [s \in SUBSET rest |-> g[s]], rest)
      <4> HIDE DEF rest
      <4> QED  BY <1>1, SumRestricts
    <3> HIDE DEF rest
    <3> QED  BY <1>2, <3>1, Zenon
  <2>2. part = SumOn(f, rest)
    <3> HIDE DEF rest, part
    <3> QED  BY <1>1, <1>2, <2>1 DEF HasSum
  <2>3. part[rest] = SumOn(f, S)[rest]
    <3> HIDE DEF rest
    <3> QED  OBVIOUS
  <2> QED  BY <2>2, <2>3
<1> QED  BY <1>3, <1>4, SumIsSum DEF Unrolled

\* The sum of no numbers is 0.
LEMMA SumOfNone == ASSUME NEW f  PROVE  SumFunctionOnSet(f, {}) = 0
BY SumUnfolds, FS_EmptySet

LEMMA SumInt ==
  ASSUME NEW f, NEW S, IsFiniteSet(S), \A x \in S : f[x] \in Int
  PROVE  SumFunctionOnSet(f, S) \in Int
<1> SUFFICES ASSUME SumFunctionOnSet(f, S) \notin Int  PROVE  FALSE
  OBVIOUS
<1> DEFINE bad == {T \in SUBSET S : SumFunctionOnSet(f, T) \notin Int}
<1>1. bad # {} /\ \A T \in bad : IsFiniteSet(T)
  <2>1. S \in bad
    OBVIOUS
  <2> QED  BY <2>1, FS_Subset
<1>2. PICK T \in bad : \A U \in bad : U \subseteq T => U = T
  <2> HIDE DEF bad
  <2> QED  BY <1>1, SmallestSet
<1>3. T # {}
  <2>1. SumFunctionOnSet(f, {}) = 0
    BY SumOfNone
  <2>2. SumFunctionOnSet(f, T) \notin Int
    BY <1>2
  <2> HIDE DEF bad
  <2> QED  BY <2>1, <2>2
<1>4. SumFunctionOnSet(f, T \ {Pick(T)}) \in Int
  BY <1>2, <1>3, PickIn
<1>5. f[Pick(T)] \in Int /\ IsFiniteSet(T)
  BY <1>1, <1>3, PickIn
<1>6. SumFunctionOnSet(f, T) = f[Pick(T)] + SumFunctionOnSet(f, T \ {Pick(T)})
  BY <1>3, <1>5, SumUnfolds
<1> QED  BY <1>2, <1>4, <1>5, <1>6

\* Any one of the numbers can be taken out of the sum.
LEMMA SumTakesOut ==
  ASSUME NEW f, NEW S, IsFiniteSet(S), \A x \in S : f[x] \in Int, NEW x \in S
  PROVE  SumFunctionOnSet(f, S) = f[x] + SumFunctionOnSet(f, S \ {x})
<1> DEFINE Out(T, y) == SumFunctionOnSet(f, T) = f[y] + SumFunctionOnSet(f, T \ {y})
           bad == {T \in SUBSET S : \E y \in T : ~Out(T, y)}
<1> SUFFICES ASSUME bad # {}  PROVE  FALSE
  OBVIOUS
<1>1. \A T \in SUBSET S : IsFiniteSet(T)
  BY FS_Subset
<1>2. PICK T \in bad : \A U \in bad : U \subseteq T => U = T
  <2>1. \A U \in bad : IsFiniteSet(U)
    BY <1>1
  <2> HIDE DEF bad
  <2> QED  BY <2>1, SmallestSet
<1>3. PICK y \in T : ~Out(T, y)
  BY <1>2
<1> DEFINE p == Pick(T)
           rest == T \ {p, y}
<1>4. p \in T /\ p \in S /\ y \in S
  BY <1>2, PickIn
<1>5. Out(T, p)
  <2>1. IsFiniteSet(T) /\ T # {}
    BY <1>1, <1>2
  <2> QED  BY <2>1, SumUnfolds
<1>6. p # y
  BY <1>3, <1>5
<1>7. Out(T \ {p}, y) /\ Out(T \ {y}, p)
  <2>1. T \ {p} \notin bad /\ T \ {y} \notin bad
    BY <1>2, <1>4
  <2>2. y \in T \ {p} /\ p \in T \ {y} /\ T \ {p} \in SUBSET S /\ T \ {y} \in SUBSET S
    BY <1>2, <1>4, <1>6
  <2> QED  BY <2>1, <2>2
<1>8. (T \ {p}) \ {y} = rest /\ (T \ {y}) \ {p} = rest
  OBVIOUS
<1>9. SumFunctionOnSet(f, rest) \in Int /\ f[p] \in Int /\ f[y] \in Int
  <2>1. rest \in SUBSET S
    BY <1>2
  <2>2. IsFiniteSet(rest) /\ \A z \in rest : f[z] \in Int
    BY <1>1, <2>1
  <2> HIDE DEF rest
  <2> QED  BY <1>4, <2>2, SumInt
<1> HIDE DEF p, rest
<1>10. f[p] + (f[y] + SumFunctionOnSet(f, rest)) = f[y] + (f[p] + SumFunctionOnSet(f, rest))
  BY <1>9
<1> QED  BY <1>3, <1>5, <1>7, <1>8, <1>10

\* ... and one more number can be added.
LEMMA SumAdds ==
  ASSUME NEW f, NEW S, IsFiniteSet(S), \A y \in S : f[y] \in Int, NEW x, x \notin S, f[x] \in Int
  PROVE  SumFunctionOnSet(f, S \cup {x}) = f[x] + SumFunctionOnSet(f, S)
<1> DEFINE all == S \cup {x}
<1>1. IsFiniteSet(all) /\ x \in all /\ all \ {x} = S /\ \A y \in all : f[y] \in Int
  BY FS_AddElement
<1> HIDE DEF all
<1>2. SumFunctionOnSet(f, all) = f[x] + SumFunctionOnSet(f, all \ {x})
  BY <1>1, SumTakesOut
<1> QED  BY <1>1, <1>2 DEF all

\* Sums compare like the numbers.
LEMMA SumMonotone ==
  ASSUME NEW f, NEW g, NEW S, IsFiniteSet(S),
         \A x \in S : f[x] \in Int /\ g[x] \in Int /\ f[x] <= g[x]
  PROVE  SumFunctionOnSet(f, S) <= SumFunctionOnSet(g, S)
<1> DEFINE Below(T) == SumFunctionOnSet(f, T) <= SumFunctionOnSet(g, T)
           bad == {T \in SUBSET S : ~Below(T)}
<1> SUFFICES ASSUME bad # {}  PROVE  FALSE
  OBVIOUS
<1>1. \A T \in SUBSET S : IsFiniteSet(T)
  BY FS_Subset
<1>2. PICK T \in bad : \A U \in bad : U \subseteq T => U = T
  <2>1. \A U \in bad : IsFiniteSet(U)
    BY <1>1
  <2> HIDE DEF bad
  <2> QED  BY <2>1, SmallestSet
<1>3. T # {}
  <2>1. SumFunctionOnSet(f, {}) = 0 /\ SumFunctionOnSet(g, {}) = 0
    BY SumOfNone
  <2>2. ~Below(T)
    BY <1>2
  <2> HIDE DEF bad
  <2> QED  BY <2>1, <2>2
<1> DEFINE p == Pick(T)
           rest == T \ {p}
<1>4. p \in T /\ p \in S /\ rest \in SUBSET S /\ rest # T
  BY <1>2, <1>3, PickIn
<1>5. Below(rest)
  BY <1>2, <1>4
<1>6. /\ SumFunctionOnSet(f, T) = f[p] + SumFunctionOnSet(f, rest)
      /\ SumFunctionOnSet(g, T) = g[p] + SumFunctionOnSet(g, rest)
  BY <1>1, <1>2, <1>3, SumUnfolds
<1>7. SumFunctionOnSet(f, rest) \in Int /\ SumFunctionOnSet(g, rest) \in Int
  <2> HIDE DEF rest
  <2> QED  BY <1>1, <1>4, SumInt
<1>8. f[p] \in Int /\ g[p] \in Int /\ f[p] <= g[p]
  BY <1>4
<1>9. ~Below(T)
  BY <1>2
<1> HIDE DEF p, rest, bad
<1> QED  BY <1>5, <1>6, <1>7, <1>8, <1>9

LEMMA SumSame ==
  ASSUME NEW f, NEW g, NEW S, IsFiniteSet(S), \A x \in S : f[x] \in Int /\ f[x] = g[x]
  PROVE  SumFunctionOnSet(f, S) = SumFunctionOnSet(g, S)
<1>1. SumFunctionOnSet(f, S) \in Int /\ SumFunctionOnSet(g, S) \in Int
  <2>1. \A x \in S : g[x] \in Int
    OBVIOUS
  <2> QED  BY <2>1, SumInt
<1>2. SumFunctionOnSet(f, S) <= SumFunctionOnSet(g, S)
  BY SumMonotone
<1>3. SumFunctionOnSet(g, S) <= SumFunctionOnSet(f, S)
  BY SumMonotone
<1> QED  BY <1>1, <1>2, <1>3

\* The sum of the sums of two families of numbers.
LEMMA SumOfSums ==
  ASSUME NEW f, NEW g, NEW h, NEW S, IsFiniteSet(S),
         \A x \in S : f[x] \in Int /\ g[x] \in Int /\ h[x] = f[x] + g[x]
  PROVE  SumFunctionOnSet(h, S) = SumFunctionOnSet(f, S) + SumFunctionOnSet(g, S)
<1> DEFINE Adds(T) == SumFunctionOnSet(h, T) = SumFunctionOnSet(f, T) + SumFunctionOnSet(g, T)
           bad == {T \in SUBSET S : ~Adds(T)}
<1> SUFFICES ASSUME bad # {}  PROVE  FALSE
  OBVIOUS
<1>1. \A T \in SUBSET S : IsFiniteSet(T)
  BY FS_Subset
<1>2. PICK T \in bad : \A U \in bad : U \subseteq T => U = T
  <2>1. \A U \in bad : IsFiniteSet(U)
    BY <1>1
  <2> HIDE DEF bad
  <2> QED  BY <2>1, SmallestSet
<1>3. T # {}
  <2>1. SumFunctionOnSet(f, {}) = 0 /\ SumFunctionOnSet(g, {}) = 0 /\ SumFunctionOnSet(h, {}) = 0
    BY SumOfNone
  <2>2. ~Adds(T)
    BY <1>2
  <2> HIDE DEF bad
  <2> QED  BY <2>1, <2>2
<1> DEFINE p == Pick(T)
           rest == T \ {p}
<1>4. p \in T /\ p \in S /\ rest \in SUBSET S /\ rest # T
  BY <1>2, <1>3, PickIn
<1>5. Adds(rest)
  BY <1>2, <1>4
<1>6. /\ SumFunctionOnSet(f, T) = f[p] + SumFunctionOnSet(f, rest)
      /\ SumFunctionOnSet(g, T) = g[p] + SumFunctionOnSet(g, rest)
      /\ SumFunctionOnSet(h, T) = h[p] + SumFunctionOnSet(h, rest)
  BY <1>1, <1>2, <1>3, SumUnfolds
<1>7. SumFunctionOnSet(f, rest) \in Int /\ SumFunctionOnSet(g, rest) \in Int
  <2> HIDE DEF rest
  <2> QED  BY <1>1, <1>4, SumInt
<1>8. f[p] \in Int /\ g[p] \in Int /\ h[p] = f[p] + g[p]
  BY <1>4
<1>9. ~Adds(T)
  BY <1>2
<1> HIDE DEF p, rest, bad
<1> QED  BY <1>5, <1>6, <1>7, <1>8, <1>9

LEMMA SumOfZeros ==
  ASSUME NEW f, NEW S, IsFiniteSet(S), \A x \in S : f[x] = 0
  PROVE  SumFunctionOnSet(f, S) = 0
<1>1. SumFunctionOnSet(f, S) = SumFunctionOnSet(f, S) + SumFunctionOnSet(f, S)
  BY SumOfSums
<1>2. SumFunctionOnSet(f, S) \in Int
  BY SumInt
<1>3. \A n \in Int : n = n + n => n = 0
  OBVIOUS
<1> QED  BY <1>1, <1>2, <1>3

LEMMA SumNat ==
  ASSUME NEW f, NEW S, IsFiniteSet(S), \A x \in S : f[x] \in Nat
  PROVE  SumFunctionOnSet(f, S) \in Nat
<1> DEFINE none == [x \in S |-> 0]
<1>1. SumFunctionOnSet(none, S) = 0
  BY SumOfZeros
<1>2. SumFunctionOnSet(none, S) <= SumFunctionOnSet(f, S)
  BY SumMonotone
<1>3. SumFunctionOnSet(f, S) \in Int
  BY SumInt
<1> HIDE DEF none
<1> QED  BY <1>1, <1>2, <1>3

\* Numbers that are 0 can be left out.
LEMMA SumOfSupport ==
  ASSUME NEW f, NEW S, IsFiniteSet(S), NEW T \in SUBSET S, \A x \in S : f[x] \in Int,
         \A x \in S \ T : f[x] = 0
  PROVE  SumFunctionOnSet(f, S) = SumFunctionOnSet(f, T)
<1> DEFINE Same(U) == SumFunctionOnSet(f, U) = SumFunctionOnSet(f, T)
           bad == {U \in SUBSET S : T \subseteq U /\ ~Same(U)}
<1> SUFFICES ASSUME bad # {}  PROVE  FALSE
  OBVIOUS
<1>1. \A U \in SUBSET S : IsFiniteSet(U)
  BY FS_Subset
<1>2. PICK U \in bad : \A V \in bad : V \subseteq U => V = U
  <2>1. \A V \in bad : IsFiniteSet(V)
    BY <1>1
  <2> HIDE DEF bad
  <2> QED  BY <2>1, SmallestSet
<1>3. PICK x \in U : x \notin T
  <2>1. T \subseteq U /\ ~Same(U) /\ Same(T)
    BY <1>2
  <2> HIDE DEF Same, bad
  <2> QED  BY <2>1
<1>4. U \ {x} \in SUBSET S /\ T \subseteq U \ {x} /\ U \ {x} # U /\ x \in S
  BY <1>2, <1>3
<1>5. Same(U \ {x})
  BY <1>2, <1>4
<1>6. SumFunctionOnSet(f, U) = f[x] + SumFunctionOnSet(f, U \ {x})
  BY <1>1, <1>2, SumTakesOut
<1>7. f[x] = 0 /\ SumFunctionOnSet(f, U \ {x}) \in Int
  BY <1>1, <1>3, <1>4, SumInt
<1> QED  BY <1>2, <1>5, <1>6, <1>7

\* A sum changes by what one of its terms changes.
LEMMA OneTermChanges ==
  ASSUME NEW f, NEW g, NEW S, IsFiniteSet(S), NEW x \in S,
         \A y \in S : f[y] \in Int /\ g[y] \in Int,
         \A y \in S \ {x} : g[y] = f[y]
  PROVE  SumFunctionOnSet(g, S) = SumFunctionOnSet(f, S) + (g[x] - f[x])
<1> DEFINE rest == S \ {x}
<1>1. SumFunctionOnSet(f, S) = f[x] + SumFunctionOnSet(f, rest)
  BY SumTakesOut
<1>2. SumFunctionOnSet(g, S) = g[x] + SumFunctionOnSet(g, rest)
  BY SumTakesOut
<1>3. IsFiniteSet(rest)
  BY FS_RemoveElement
<1> HIDE DEF rest
<1>4. \A y \in rest : y \in S /\ f[y] \in Int /\ g[y] = f[y]
  BY DEF rest
<1>5. SumFunctionOnSet(g, rest) = SumFunctionOnSet(f, rest)
  BY <1>3, <1>4, SumSame
<1>6. SumFunctionOnSet(f, rest) \in Int
  BY <1>3, <1>4, SumInt
<1> QED  BY <1>1, <1>2, <1>5, <1>6

\* Numbers that are the differences between successive cuts.
Telescopes(f, cut, n, m) ==
  /\ \A i \in n .. n + m : cut[i] \in Int
  /\ \A i \in n .. n + m - 1 : f[i] = cut[i + 1] - cut[i]

\* They add up to the one between the ends.
LEMMA SumTelescopes ==
  ASSUME NEW n \in Int, NEW m \in Nat, NEW f, NEW cut, Telescopes(f, cut, n, m)
  PROVE  SumFunctionOnSet(f, n .. n + m - 1) = cut[n + m] - cut[n]
<1> DEFINE Adds(j) == SumFunctionOnSet(f, n .. n + j - 1) = cut[n + j] - cut[n]
           bad == {j \in 0 .. m : ~Adds(j)}
<1> SUFFICES ASSUME bad # {}  PROVE  FALSE
  <2>1. m \in 0 .. m
    OBVIOUS
  <2> QED  BY <2>1
<1>0. /\ \A i \in n .. n + m : cut[i] \in Int
      /\ \A i \in n .. n + m - 1 : f[i] = cut[i + 1] - cut[i]
  BY DEF Telescopes
<1>1. bad \in SUBSET Nat
  OBVIOUS
<1> HIDE DEF bad
<1>2. PICK j \in bad : \A l \in bad : j <= l
  BY <1>1, LeastExists
<1>3. j \in 0 .. m /\ ~Adds(j)
  BY <1>2 DEF bad
<1>4. CASE j = 0
  <2>1. n .. n + j - 1 = {} /\ n + j = n /\ cut[n] \in Int
    BY <1>0, <1>4
  <2>2. SumFunctionOnSet(f, n .. n + j - 1) = 0
    BY <2>1, SumOfNone
  <2> QED  BY <1>3, <2>1, <2>2
<1>5. CASE j # 0
  <2>1. PICK l \in Nat : l = j - 1
    BY <1>3, <1>5
  <2>2. l \in 0 .. m /\ j = l + 1 /\ l \notin bad
    BY <1>2, <1>3, <2>1
  <2>3. Adds(l)
    BY <2>2 DEF bad
  <2> DEFINE S == n .. n + l - 1
  <2>4. /\ n .. n + j - 1 = S \cup {n + l} /\ n + l \notin S
        /\ \A i \in S \cup {n + l} : i \in n .. n + m - 1 /\ i \in n .. n + m /\ i + 1 \in n .. n + m
        /\ n + j = (n + l) + 1
    <3>1. j \in Nat /\ j <= m /\ j = l + 1
      BY <1>3, <2>2
    <3>2. n .. n + j - 1 = S \cup {n + l} /\ n + l \notin S /\ n + j = (n + l) + 1
      BY <2>1, <3>1
    <3>3. \A i \in n .. n + j - 1 : i \in n .. n + m - 1 /\ i \in n .. n + m /\ i + 1 \in n .. n + m
      BY <3>1
    <3> HIDE DEF S
    <3> QED  BY <3>2, <3>3
  <2>5. IsFiniteSet(S)
    BY <2>1, FS_Interval
  <2>6. \A i \in S \cup {n + l} : f[i] = cut[i + 1] - cut[i] /\ f[i] \in Int
    BY <1>0, <2>4
  <2>7. cut[n] \in Int /\ cut[n + l] \in Int /\ cut[n + j] \in Int
    BY <1>0, <1>3, <2>1
  <2> HIDE DEF S
  <2>8. SumFunctionOnSet(f, S \cup {n + l}) = f[n + l] + SumFunctionOnSet(f, S)
    BY <2>4, <2>5, <2>6, SumAdds
  <2>9. SumFunctionOnSet(f, S) = cut[n + l] - cut[n] /\ f[n + l] = cut[n + j] - cut[n + l]
    BY <2>3, <2>4, <2>6 DEF S
  <2>10. SumFunctionOnSet(f, S \cup {n + l}) = cut[n + j] - cut[n]
    BY <2>7, <2>8, <2>9
  <2>11. n .. n + j - 1 = S \cup {n + l}
    BY <2>4
  <2> QED  BY <1>3, <2>10, <2>11
<1> QED  BY <1>4, <1>5
=============================================================================
