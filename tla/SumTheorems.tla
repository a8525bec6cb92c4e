----------------------------- MODULE SumTheorems -----------------------------
(***************************************************************************)
(* Sums of integers over finite sets, as SumFunctionOnSet of the community *)
(* modules defines them, and the two facts about least elements that stand *)
(* in for induction here: none of it is about the SDK.                     *)
(***************************************************************************)
EXTENDS Integers, Functions, FiniteSetTheorems, TLAPS

(* Some set of a non-empty family of subsets of a finite set has no proper *)
(* subset in the family.                                                   *)
LEMMA HasMinimal ==
  ASSUME NEW S, IsFiniteSet(S), NEW family \in SUBSET (SUBSET S), family # {}
  PROVE  \E x \in family : \A y \in family : y \subseteq x => y = x
<1>1. IsWellFoundedOn(StrictSubsetOrdering(S), SUBSET S)
  BY FS_StrictSubsetOrderingWellFounded, FS_FiniteSubsetsOfFinite
<1>2. PICK x \in family : \A y \in family : ~ (<<y, x>> \in StrictSubsetOrdering(S))
  BY <1>1, WFMin
<1>3. ASSUME NEW y \in family, y \subseteq x, y # x PROVE FALSE
  <2>1. <<y, x>> \in (SUBSET S) \X (SUBSET S)
    OBVIOUS
  <2>2. <<y, x>> \in StrictSubsetOrdering(S)
    BY <1>3, <2>1 DEF StrictSubsetOrdering
  <2> QED BY <2>2, <1>2
<1> QED BY <1>3

(* A non-empty set of numbers has a least element.                         *)
LEMMA HasLeast ==
  ASSUME NEW S \in SUBSET Nat, S # {}
  PROVE  \E m \in S : \A k \in S : m <= k
<1>1. PICK n \in S : TRUE
  OBVIOUS
<1> DEFINE below == {k \in S : k <= n}
           family == {0 .. k : k \in below}
<1>2. IsFiniteSet(0 .. n) /\ n \in Nat
  BY <1>1, FS_Interval
<1>3. family \in SUBSET (SUBSET (0 .. n)) /\ family # {}
  <2>1. n \in below /\ \A k \in below : k \in Nat /\ 0 .. k \subseteq 0 .. n
    BY <1>1
  <2> QED BY <2>1
<1> HIDE DEF family
<1>4. PICK x \in family : \A y \in family : y \subseteq x => y = x
  <2> DEFINE all == 0 .. n
  <2>1. IsFiniteSet(all) /\ family \in SUBSET (SUBSET all) /\ family # {}
    BY <1>2, <1>3
  <2> HIDE DEF all, below
  <2> QED BY ONLY <2>1, HasMinimal
<1>5. PICK m \in below : x = 0 .. m
  BY <1>4 DEF family
<1>6. ASSUME NEW k \in below, k < m PROVE FALSE
  <2>1. m \in Nat /\ k \in Nat
    BY <1>5
  <2>2. 0 .. k \in family /\ 0 .. k \subseteq x /\ m \in x /\ m \notin 0 .. k
    BY <1>5, <1>6, <2>1 DEF family
  <2> QED BY <1>4, <2>2
<1>7. ASSUME NEW k \in S PROVE m <= k
  <2>1. k \in Nat /\ n \in Nat /\ m \in Nat /\ m <= n
    BY <1>1, <1>5
  <2> QED BY <1>6, <2>1
<1> QED BY <1>5, <1>7

-----------------------------------------------------------------------------
(* The recursive function that a fold is. *)

Chosen(s) == CHOOSE x \in s : TRUE

IsSum(f, S, sum) ==
  sum = [s \in SUBSET S |-> IF s = {} THEN 0 ELSE f[Chosen(s)] + sum[s \ {Chosen(s)}]]

(* SumFunctionOnSet, written with it. *)
LEMMA SumIs ==
  ASSUME NEW f, NEW S
  PROVE  SumFunctionOnSet(f, S) = (CHOOSE sum : IsSum(f, S, sum))[S]
BY DEF SumFunctionOnSet, FoldFunctionOnSet, MapThenFoldSet, IsSum, Chosen

(* The chosen element is one, and the rest is smaller. *)
LEMMA ChosenIn ==
  ASSUME NEW S, IsFiniteSet(S), NEW s \in SUBSET S, s # {}
  PROVE  /\ Chosen(s) \in s /\ s \ {Chosen(s)} \in SUBSET S /\ IsFiniteSet(s)
         /\ Cardinality(s) \in Nat /\ Cardinality(s) > 0
         /\ Cardinality(s \ {Chosen(s)}) = Cardinality(s) - 1
<1>1. Chosen(s) \in s
  BY DEF Chosen
<1>2. IsFiniteSet(s)
  BY FS_Subset
<1>3. Cardinality(s \ {Chosen(s)}) = Cardinality(s) - 1
  BY <1>1, <1>2, FS_RemoveElement
<1>4. Cardinality(s) \in Nat /\ Cardinality(s) # 0
  BY <1>2, FS_CardinalityType, FS_EmptySet
<1> QED BY <1>1, <1>2, <1>3, <1>4

(* There is such a function: it is built for larger and larger subsets.    *)
LEMMA SumExists ==
  ASSUME NEW f, NEW S, IsFiniteSet(S)
  PROVE  \E sum : IsSum(f, S, sum)
<1> DEFINE Upto(n) == {s \in SUBSET S : Cardinality(s) <= n}
           Extends(g, h, n) ==
             g = [s \in Upto(n) |-> IF s = {} THEN 0 ELSE f[Chosen(s)] + h[s \ {Chosen(s)}]]
           bad == {n \in Nat : \A h : ~Extends(h, h, n)}
<1>1. Cardinality({}) = 0 /\ \A s \in SUBSET S : Cardinality(s) \in Nat
  BY FS_EmptySet, FS_Subset, FS_CardinalityType
<1>2. ASSUME NEW m \in bad, \A k \in bad : m <= k PROVE FALSE
  <2>1. m \in Nat
    OBVIOUS
  <2>2. CASE m = 0
    <3> DEFINE g == [s \in Upto(0) |-> 0]
    <3>1. \A s \in Upto(0) : s = {}
      <4>1. \A s \in SUBSET S : s # {} => Cardinality(s) > 0
        BY ChosenIn
      <4> QED BY <4>1, <1>1
    <3>2. g = [s \in Upto(0) |-> IF s = {} THEN 0 ELSE f[Chosen(s)] + g[s \ {Chosen(s)}]]
      BY <3>1
    <3>3. Extends(g, g, 0)
      BY <3>2
    <3> QED BY <2>2, <3>3
  <2>3. CASE m # 0
    <3>1. m - 1 \in Nat /\ ~(m <= m - 1)
      BY <2>1, <2>3
    <3>2. m - 1 \notin bad
      BY <3>1, <1>2
    <3>3. PICK h : Extends(h, h, m - 1)
      BY <3>1, <3>2
    <3> DEFINE g == [s \in Upto(m) |-> IF s = {} THEN 0 ELSE f[Chosen(s)] + h[s \ {Chosen(s)}]]
    <3>4. ASSUME NEW s \in Upto(m), s # {} PROVE h[s \ {Chosen(s)}] = g[s \ {Chosen(s)}]
      <4> DEFINE t == s \ {Chosen(s)}
      <4>1. t \in SUBSET S /\ Cardinality(t) = Cardinality(s) - 1 /\ Cardinality(s) \in Nat
        BY <3>4, ChosenIn
      <4>2. t \in Upto(m - 1) /\ t \in Upto(m)
        BY <4>1, <2>1
      <4> HIDE DEF t
      <4>3. h[t] = IF t = {} THEN 0 ELSE f[Chosen(t)] + h[t \ {Chosen(t)}]
        BY <3>3, <4>2
      <4>4. g[t] = IF t = {} THEN 0 ELSE f[Chosen(t)] + h[t \ {Chosen(t)}]
        BY <4>2
      <4>5. h[t] = g[t]
        BY <4>3, <4>4
      <4> QED BY <4>5 DEF t
    <3>5. g = [s \in Upto(m) |-> IF s = {} THEN 0 ELSE f[Chosen(s)] + g[s \ {Chosen(s)}]]
      BY <3>4
    <3>6. Extends(g, g, m)
      BY <3>5
    <3> HIDE DEF g, Extends
    <3> QED BY <3>6
  <2> QED BY <2>2, <2>3
<1>3. bad = {}
  BY <1>2, HasLeast
<1>4. Cardinality(S) \in Nat /\ Upto(Cardinality(S)) = SUBSET S
  <2>1. \A s \in SUBSET S : Cardinality(s) <= Cardinality(S)
    BY FS_Subset
  <2> QED BY <1>1, <2>1
<1> HIDE DEF Upto
<1>5. PICK h : Extends(h, h, Cardinality(S))
  BY <1>3, <1>4
<1>6. IsSum(f, S, h)
  BY <1>4, <1>5 DEF IsSum
<1> QED BY <1>6

(* And only one, up to what lies outside the set: the sum of a part is the *)
(* same as a part of either.                                               *)
LEMMA SumUnique ==
  ASSUME NEW f, NEW S, IsFiniteSet(S), NEW T \in SUBSET S,
         NEW g, IsSum(f, S, g), NEW h, IsSum(f, T, h), NEW s \in SUBSET T
  PROVE  g[s] = h[s]
<1> DEFINE family == {t \in SUBSET T : g[t] # h[t]}
<1>1. ASSUME NEW t \in family, \A u \in family : u \subseteq t => u = t PROVE FALSE
  <2>1. t \in SUBSET T /\ t \in SUBSET S /\ g[t] # h[t]
    OBVIOUS
  <2>2. /\ g[t] = IF t = {} THEN 0 ELSE f[Chosen(t)] + g[t \ {Chosen(t)}]
        /\ h[t] = IF t = {} THEN 0 ELSE f[Chosen(t)] + h[t \ {Chosen(t)}]
    BY <2>1 DEF IsSum
  <2>3. t # {}
    BY <2>1, <2>2
  <2>4. Chosen(t) \in t /\ t \ {Chosen(t)} \in SUBSET T
    BY <2>1, <2>3, ChosenIn
  <2>5. g[t \ {Chosen(t)}] = h[t \ {Chosen(t)}]
    BY <1>1, <2>4
  <2> QED BY <2>1, <2>2, <2>3, <2>5
<1>2. IsFiniteSet(T) /\ family \in SUBSET (SUBSET T)
  BY FS_Subset
<1> HIDE DEF family
<1>3. family = {}
  BY <1>1, <1>2, HasMinimal
<1> QED BY <1>3 DEF family

(* A sum is that of the rest and one element. *)
LEMMA SumRec ==
  ASSUME NEW f, NEW S, IsFiniteSet(S)
  PROVE  /\ SumFunctionOnSet(f, {}) = 0
         /\ S # {} => SumFunctionOnSet(f, S)
                        = f[Chosen(S)] + SumFunctionOnSet(f, S \ {Chosen(S)})
<1>1. ASSUME NEW U, IsFiniteSet(U)
      PROVE  IsSum(f, U, CHOOSE sum : IsSum(f, U, sum))
  BY <1>1, SumExists
<1>2. SumFunctionOnSet(f, {}) = 0
  <2> DEFINE g == CHOOSE sum : IsSum(f, {}, sum)
  <2>1. IsSum(f, {}, g)
    BY <1>1, FS_EmptySet
  <2>2. SumFunctionOnSet(f, {}) = g[{}]
    BY SumIs
  <2> HIDE DEF g
  <2>3. g[{}] = 0
    BY <2>1 DEF IsSum
  <2> QED BY <2>2, <2>3
<1>3. ASSUME S # {}
      PROVE  SumFunctionOnSet(f, S) = f[Chosen(S)] + SumFunctionOnSet(f, S \ {Chosen(S)})
  <2> DEFINE T == S \ {Chosen(S)}
             g == CHOOSE sum : IsSum(f, S, sum)
             h == CHOOSE sum : IsSum(f, T, sum)
  <2>1. IsFiniteSet(T) /\ T \in SUBSET S
    BY FS_RemoveElement
  <2>2. IsSum(f, S, g) /\ IsSum(f, T, h)
    BY <1>1, <2>1
  <2>3. SumFunctionOnSet(f, S) = g[S] /\ SumFunctionOnSet(f, T) = h[T]
    BY SumIs
  <2> HIDE DEF g, h
  <2>4. g[S] = f[Chosen(S)] + g[T]
    BY <1>3, <2>2 DEF IsSum
  <2> HIDE DEF T
  <2>5. g[T] = h[T]
    BY <2>1, <2>2, SumUnique
  <2>6. SumFunctionOnSet(f, S) = f[Chosen(S)] + SumFunctionOnSet(f, T)
    BY <2>3, <2>4, <2>5
  <2> QED BY <2>6 DEF T
<1> QED BY <1>2, <1>3

(* A sum of integers is one. *)
LEMMA SumInt ==
  ASSUME NEW f, NEW S, IsFiniteSet(S), \A x \in S : f[x] \in Int
  PROVE  SumFunctionOnSet(f, S) \in Int
<1> DEFINE family == {s \in SUBSET S : SumFunctionOnSet(f, s) \notin Int}
<1>1. ASSUME NEW s \in family, \A t \in family : t \subseteq s => t = s PROVE FALSE
  <2>1. s \in SUBSET S /\ SumFunctionOnSet(f, s) \notin Int /\ IsFiniteSet(s)
    BY FS_Subset
  <2>2. s # {}
    BY <2>1, SumRec
  <2>3. Chosen(s) \in s /\ s \ {Chosen(s)} \in SUBSET S
    BY <2>1, <2>2, ChosenIn
  <2>4. SumFunctionOnSet(f, s \ {Chosen(s)}) \in Int
    BY <1>1, <2>3
  <2>5. SumFunctionOnSet(f, s) = f[Chosen(s)] + SumFunctionOnSet(f, s \ {Chosen(s)})
    BY <2>1, <2>2, SumRec
  <2>6. f[Chosen(s)] \in Int
    BY <2>1, <2>3
  <2> QED BY <2>1, <2>4, <2>5, <2>6
<1>2. family \in SUBSET (SUBSET S)
  OBVIOUS
<1> HIDE DEF family
<1>3. family = {}
  BY <1>1, <1>2, HasMinimal
<1> QED BY <1>3 DEF family

(* And one of natural numbers is not negative. *)
LEMMA SumNat ==
  ASSUME NEW f, NEW S, IsFiniteSet(S), \A x \in S : f[x] \in Nat
  PROVE  SumFunctionOnSet(f, S) \in Nat
<1> DEFINE family == {s \in SUBSET S : SumFunctionOnSet(f, s) \notin Nat}
<1>1. ASSUME NEW s \in family, \A t \in family : t \subseteq s => t = s PROVE FALSE
  <2>1. s \in SUBSET S /\ SumFunctionOnSet(f, s) \notin Nat /\ IsFiniteSet(s)
    BY FS_Subset
  <2>2. s # {}
    <3>1. SumFunctionOnSet(f, {}) = 0 /\ 0 \in Nat
      BY SumRec, FS_EmptySet
    <3> QED BY <2>1, <3>1
  <2>3. Chosen(s) \in s /\ s \ {Chosen(s)} \in SUBSET S
    BY <2>1, <2>2, ChosenIn
  <2>4. SumFunctionOnSet(f, s \ {Chosen(s)}) \in Nat
    BY <1>1, <2>3
  <2>5. SumFunctionOnSet(f, s) = f[Chosen(s)] + SumFunctionOnSet(f, s \ {Chosen(s)})
    BY <2>1, <2>2, SumRec
  <2>6. f[Chosen(s)] \in Nat
    BY <2>1, <2>3
  <2> QED BY <2>1, <2>4, <2>5, <2>6
<1>2. family \in SUBSET (SUBSET S)
  OBVIOUS
<1> HIDE DEF family
<1>3. family = {}
  BY <1>1, <1>2, HasMinimal
<1> QED BY <1>3 DEF family

(* Any element may be taken out, not only the chosen one. *)
LEMMA SumTake ==
  ASSUME NEW f, NEW S, IsFiniteSet(S), \A x \in S : f[x] \in Int, NEW e \in S
  PROVE  SumFunctionOnSet(f, S) = f[e] + SumFunctionOnSet(f, S \ {e})
<1> DEFINE Takes(s, x) == SumFunctionOnSet(f, s) = f[x] + SumFunctionOnSet(f, s \ {x})
           family == {s \in SUBSET S : \E x \in s : ~Takes(s, x)}
<1>1. ASSUME NEW s \in family, \A t \in family : t \subseteq s => t = s PROVE FALSE
  <2>1. PICK x \in s : ~Takes(s, x)
    OBVIOUS
  <2>2. s \in SUBSET S /\ s # {} /\ IsFiniteSet(s)
    BY FS_Subset
  <2> DEFINE c == Chosen(s)
  <2>3. c \in s /\ Takes(s, c)
    BY <2>2, ChosenIn, SumRec
  <2>4. c # x
    BY <2>1, <2>3
  <2> HIDE DEF c
  <2>5. ASSUME NEW y \in s, NEW t \in s, y # t PROVE Takes(s \ {y}, t)
    <3>1. s \ {y} \in SUBSET S /\ s \ {y} \subseteq s /\ s \ {y} # s /\ t \in s \ {y}
      BY <2>2, <2>5
    <3>2. s \ {y} \notin family
      BY <1>1, <3>1
    <3> QED BY <3>1, <3>2
  <2>6. Takes(s \ {c}, x) /\ Takes(s \ {x}, c)
    BY <2>3, <2>4, <2>5
  <2> DEFINE rest == (s \ {c}) \ {x}
  <2>7. (s \ {x}) \ {c} = rest /\ rest \in SUBSET S
    BY <2>2
  <2>8. IsFiniteSet(rest) /\ \A y \in rest : f[y] \in Int
    BY <2>2, <2>7, FS_Subset
  <2>9. SumFunctionOnSet(f, rest) \in Int /\ f[c] \in Int /\ f[x] \in Int
    BY <2>2, <2>3, <2>8, SumInt
  <2>10. /\ SumFunctionOnSet(f, s) = f[c] + SumFunctionOnSet(f, s \ {c})
         /\ SumFunctionOnSet(f, s \ {c}) = f[x] + SumFunctionOnSet(f, rest)
         /\ SumFunctionOnSet(f, s \ {x}) = f[c] + SumFunctionOnSet(f, rest)
    BY <2>3, <2>6, <2>7
  <2> HIDE DEF rest
  <2>11. SumFunctionOnSet(f, s) = f[x] + SumFunctionOnSet(f, s \ {x})
    BY <2>9, <2>10
  <2> QED BY <2>1, <2>11
<1>2. family \in SUBSET (SUBSET S)
  OBVIOUS
<1> HIDE DEF family, Takes
<1>3. family = {}
  BY <1>1, <1>2, HasMinimal
<1>4. S \in SUBSET S
  OBVIOUS
<1>5. Takes(S, e)
  BY <1>3, <1>4 DEF family
<1> QED BY <1>5 DEF Takes

(* Equal terms make equal sums, whatever they are numbered by. *)
LEMMA SumRenamed ==
  ASSUME NEW f, NEW S, IsFiniteSet(S), \A x \in S : f[x] \in Int,
         NEW T, NEW g, NEW j \in [S -> T],
         \A x, y \in S : j[x] = j[y] => x = y,
         \A y \in T : \E x \in S : j[x] = y,
         \A x \in S : g[j[x]] = f[x]
  PROVE  SumFunctionOnSet(g, T) = SumFunctionOnSet(f, S)
<1> DEFINE Image(s) == {j[x] : x \in s}
           family == {s \in SUBSET S : SumFunctionOnSet(g, Image(s)) # SumFunctionOnSet(f, s)}
<1>1. ASSUME NEW s \in family, \A t \in family : t \subseteq s => t = s PROVE FALSE
  <2>1. s \in SUBSET S /\ SumFunctionOnSet(g, Image(s)) # SumFunctionOnSet(f, s) /\ IsFiniteSet(s)
    BY FS_Subset
  <2>2. IsFiniteSet(Image(s))
    <3>1. [x \in s |-> j[x]] \in Surjection(s, Image(s))
      BY DEF Surjection
    <3> HIDE DEF Image
    <3> QED BY <2>1, <3>1, FS_Surjection
  <2>3. s # {}
    <3>1. SumFunctionOnSet(f, {}) = 0 /\ SumFunctionOnSet(g, {}) = 0
      BY SumRec, FS_EmptySet
    <3>2. Image({}) = {}
      OBVIOUS
    <3> QED BY <2>1, <3>1, <3>2
  <2>4. PICK x \in s : TRUE
    BY <2>3
  <2>5. Image(s \ {x}) = Image(s) \ {j[x]} /\ j[x] \in Image(s)
    BY <2>1
  <2>6. s \ {x} \in SUBSET S /\ s \ {x} \subseteq s /\ s \ {x} # s
    BY <2>1
  <2>7. SumFunctionOnSet(g, Image(s \ {x})) = SumFunctionOnSet(f, s \ {x})
    BY <1>1, <2>6
  <2>8. SumFunctionOnSet(f, s) = f[x] + SumFunctionOnSet(f, s \ {x})
    BY <2>1, SumTake
  <2>9. \A y \in Image(s) : g[y] \in Int
    BY <2>1
  <2> HIDE DEF Image
  <2>10. SumFunctionOnSet(g, Image(s)) = g[j[x]] + SumFunctionOnSet(g, Image(s) \ {j[x]})
    BY <2>2, <2>5, <2>9, SumTake
  <2>11. g[j[x]] = f[x]
    BY <2>1
  <2> QED BY <2>1, <2>5, <2>7, <2>8, <2>10, <2>11
<1>2. family \in SUBSET (SUBSET S)
  OBVIOUS
<1>3. Image(S) = T
  OBVIOUS
<1> HIDE DEF family
<1>4. family = {}
  BY <1>1, <1>2, HasMinimal
<1>5. S \notin family /\ S \in SUBSET S
  BY <1>4
<1> QED BY <1>3, <1>5 DEF family

(* In particular of the same set. *)
LEMMA SumSame ==
  ASSUME NEW f, NEW g, NEW S, IsFiniteSet(S), \A x \in S : f[x] \in Int /\ g[x] = f[x]
  PROVE  SumFunctionOnSet(g, S) = SumFunctionOnSet(f, S)
<1> DEFINE j == [x \in S |-> x]
<1>1. /\ j \in [S -> S] /\ \A x, y \in S : j[x] = j[y] => x = y
      /\ (\A y \in S : \E x \in S : j[x] = y) /\ \A x \in S : g[j[x]] = f[x]
  OBVIOUS
<1> HIDE DEF j
<1> QED BY <1>1, SumRenamed

(* One term is another, the rest is the same. *)
LEMMA SumChanges ==
  ASSUME NEW f, NEW g, NEW S, IsFiniteSet(S), NEW e \in S,
         \A x \in S : f[x] \in Int /\ g[x] \in Int, \A x \in S : x # e => g[x] = f[x]
  PROVE  SumFunctionOnSet(g, S) = SumFunctionOnSet(f, S) - f[e] + g[e]
<1>1. IsFiniteSet(S \ {e}) /\ \A x \in S \ {e} : f[x] \in Int /\ g[x] = f[x]
  BY FS_RemoveElement
<1>2. SumFunctionOnSet(g, S \ {e}) = SumFunctionOnSet(f, S \ {e})
  BY <1>1, SumSame
<1>3. SumFunctionOnSet(f, S \ {e}) \in Int
  BY <1>1, SumInt
<1>4. /\ SumFunctionOnSet(f, S) = f[e] + SumFunctionOnSet(f, S \ {e})
      /\ SumFunctionOnSet(g, S) = g[e] + SumFunctionOnSet(g, S \ {e})
  BY SumTake
<1>5. f[e] \in Int /\ g[e] \in Int
  OBVIOUS
<1> QED BY <1>2, <1>3, <1>4, <1>5
==============================================================================
