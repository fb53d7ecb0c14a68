------------------------------ MODULE Data_proofs -----------------------------
(***************************************************************************)
(* Facts about the data the models are made of: numbers, finite sets,      *)
(* sums, lists and fractions.  Induction is over a set of numbers: a set   *)
(* that holds 0 and the successor of each of its members holds every       *)
(* natural number. It gives what a fold and a recursive function compute,  *)
(* and what Euclid's algorithm does to a fraction.  An equation between    *)
(* fractions is proved by giving all of them one denominator (Common),     *)
(* over which sums, differences and comparisons are those of the           *)
(* numerators (Linearly, Compared).                                        *)
(***************************************************************************)
EXTENDS Fractions, Sequences, FiniteSets, Functions, FiniteSetTheorems, WellFoundedInduction, TLAPS

LEMMA SmallestNat ==
  ASSUME NEW T \in SUBSET Nat, T # {}
  PROVE  \E n \in T : \A m \in T : n <= m
<1> DEFINE Before == {pair \in Nat \X Nat : pair[1] < pair[2]}
<1>1. IsWellFoundedOn(Before, Nat)
  BY NatLessThanWellFounded DEF OpToRel
<1>2. PICK n \in T : \A m \in T : ~(<<m, n>> \in Before)
  BY <1>1, WFMin
<1>3. ASSUME NEW m \in T  PROVE n <= m
  <2>1. m \in Nat /\ n \in Nat /\ ~(m < n)
    BY <1>2
  <2> QED  BY <2>1
<1> QED  BY <1>3

LEMMA InductionOnNat ==
  ASSUME NEW T, 0 \in T, \A n \in Nat : n \in T => n + 1 \in T
  PROVE  \A n \in Nat : n \in T
<1> DEFINE U == {n \in Nat : n \notin T}
<1>1. SUFFICES ASSUME U # {}  PROVE FALSE
  OBVIOUS
<1>2. PICK n \in U : \A m \in U : n <= m
  BY <1>1, SmallestNat
<1>3. n \in Nat /\ n # 0
  BY <1>2
<1>4. n - 1 \in Nat /\ n - 1 \notin U
  BY <1>2, <1>3
<1>5. (n - 1) + 1 \in T /\ (n - 1) + 1 = n
  BY <1>3, <1>4
<1> QED  BY <1>2, <1>5

(* A finite set of numbers that is not empty has a greatest element. *)
LEMMA GreatestNat ==
  ASSUME NEW S \in SUBSET Nat, IsFiniteSet(S), S # {}
  PROVE  \E m \in S : \A n \in S : n <= m
<1> DEFINE HasGreatest(U) == \E m \in U : \A n \in U : n <= m
           T == {k \in Nat : \A U \in SUBSET Nat :
                   IsFiniteSet(U) /\ Cardinality(U) = k /\ U # {} => HasGreatest(U)}
<1>1. 0 \in T
  BY FS_EmptySet
<1>2. ASSUME NEW k \in Nat, k \in T  PROVE k + 1 \in T
  <2> SUFFICES ASSUME NEW U \in SUBSET Nat, IsFiniteSet(U), Cardinality(U) = k + 1, U # {}
               PROVE  HasGreatest(U)
    OBVIOUS
  <2>1. PICK x \in U : TRUE
    OBVIOUS
  <2>2. IsFiniteSet(U \ {x}) /\ Cardinality(U \ {x}) = k
    <3>1. IsFiniteSet(U \ {x}) /\ Cardinality(U \ {x}) = (k + 1) - 1
      BY <2>1, FS_RemoveElement
    <3> QED  BY <3>1
  <2>3. CASE U \ {x} = {}
    BY <2>1, <2>3
  <2>4. CASE U \ {x} # {}
    <3>1. PICK m \in U \ {x} : \A n \in U \ {x} : n <= m
      BY <1>2, <2>2, <2>4
    <3>2. CASE x <= m
      BY <2>1, <3>1, <3>2
    <3>3. CASE ~(x <= m)
      <4>1. \A n \in U : n <= x
        BY <2>1, <3>1, <3>3
      <4> QED  BY <2>1, <4>1
    <3> QED  BY <3>2, <3>3
  <2> QED  BY <2>3, <2>4
<1> HIDE DEF T
<1>3. \A k \in Nat : k \in T
  BY <1>1, <1>2, InductionOnNat
<1>4. Cardinality(S) \in T
  BY <1>3, FS_CardinalityType
<1> QED  BY <1>4 DEF T

LEMMA FiniteImage ==
  ASSUME NEW S, IsFiniteSet(S), NEW T, NEW f \in [S -> T]
  PROVE  IsFiniteSet({f[x] : x \in S})
<1> DEFINE U == {f[x] : x \in S}
           g == [x \in S |-> f[x]]
<1>1. g \in Surjection(S, U)
  BY DEF Surjection
<1> QED  BY <1>1, FS_Surjection
-----------------------------------------------------------------------------
(* Sums.  SumFunctionOnSet takes the elements of a set one by one, in an     *)
(* order of its own; its value depends on no order.                         *)

SomeOf(s) == CHOOSE x \in s : TRUE

(* The recursive function that SumFunctionOnSet evaluates. *)
Sums(f, S, sum) ==
    sum = [s \in SUBSET S |-> IF s = {} THEN 0 ELSE f[SomeOf(s)] + sum[s \ {SomeOf(s)}]]

LEMMA SumsExpanded ==
  ASSUME NEW f, NEW S
  PROVE  SumFunctionOnSet(f, S) = (CHOOSE sum : Sums(f, S, sum))[S]
BY DEF SumFunctionOnSet, FoldFunctionOnSet, MapThenFoldSet, Sums, SomeOf

(* A finite set less one of its elements. *)
LEMMA Smaller1 ==
  ASSUME NEW S, IsFiniteSet(S), NEW x \in S
  PROVE  /\ IsFiniteSet(S \ {x}) /\ Cardinality(S) \in Nat \ {0}
         /\ Cardinality(S \ {x}) \in Nat /\ Cardinality(S \ {x}) = Cardinality(S) - 1
<1>1. /\ IsFiniteSet(S \ {x}) /\ Cardinality(S \ {x}) = Cardinality(S) - 1
      /\ Cardinality(S) \in Nat
  BY FS_RemoveElement, FS_CardinalityType
<1>2. Cardinality(S \ {x}) \in Nat
  BY <1>1, FS_CardinalityType
<1> QED  BY <1>1, <1>2

LEMMA AnyMember ==
  ASSUME NEW S, S # {}
  PROVE  SomeOf(S) \in S
BY DEF SomeOf

(* The recursion has a solution: one for the subsets of each size. *)
LEMMA SumsExist ==
  ASSUME NEW f, NEW S, IsFiniteSet(S)
  PROVE  \E sum : Sums(f, S, sum)
<1> DEFINE Dom(k) == {s \in SUBSET S : Cardinality(s) <= k}
           Solves(g, k) ==
             g = [s \in Dom(k) |-> IF s = {} THEN 0 ELSE f[SomeOf(s)] + g[s \ {SomeOf(s)}]]
           T == {k \in Nat : \E g : Solves(g, k)}
<1>1. ASSUME NEW s \in SUBSET S
      PROVE  /\ IsFiniteSet(s) /\ Cardinality(s) \in Nat
             /\ Cardinality(s) = 0 <=> s = {}
             /\ s # {} => /\ SomeOf(s) \in s /\ s \ {SomeOf(s)} \in SUBSET S
                          /\ Cardinality(s \ {SomeOf(s)}) \in Nat
                          /\ Cardinality(s \ {SomeOf(s)}) = Cardinality(s) - 1
  <2>1. IsFiniteSet(s)
    BY FS_Subset
  <2> QED  BY <2>1, FS_CardinalityType, FS_EmptySet, AnyMember, Smaller1
<1>2. 0 \in T
  <2> DEFINE g == [s \in Dom(0) |-> 0]
  <2>1. ASSUME NEW s \in Dom(0)  PROVE s = {}
    <3>1. s \in SUBSET S /\ Cardinality(s) <= 0
      OBVIOUS
    <3>2. Cardinality(s) \in Nat /\ (Cardinality(s) = 0 <=> s = {})
      BY <1>1, <3>1
    <3> QED  BY <3>1, <3>2
  <2>2. Solves(g, 0)
    BY <2>1
  <2> QED  BY <2>2
<1>3. ASSUME NEW k \in Nat, k \in T  PROVE k + 1 \in T
  <2>1. PICK g : Solves(g, k)
    BY <1>3
  <2> DEFINE h == [s \in Dom(k + 1) |->
                     IF Cardinality(s) <= k THEN g[s] ELSE f[SomeOf(s)] + g[s \ {SomeOf(s)}]]
  <2>2. ASSUME NEW s \in Dom(k + 1)
        PROVE  h[s] = IF s = {} THEN 0 ELSE f[SomeOf(s)] + h[s \ {SomeOf(s)}]
    <3>1. CASE s = {}
      <4>1. s \in SUBSET S /\ Cardinality(s) = 0 /\ s \in Dom(k)
        BY <3>1, FS_EmptySet
      <4> QED  BY <2>1, <3>1, <4>1
    <3>2. CASE s # {}
      <4> DEFINE r == s \ {SomeOf(s)}
      <4>1. r \in Dom(k) /\ r \in Dom(k + 1) /\ Cardinality(r) <= k
        BY <1>1, <3>2
      <4>2. h[r] = g[r]
        BY <4>1
      <4>3. CASE Cardinality(s) <= k
        <5>1. s \in Dom(k)
          BY <4>3
        <5>2. g[s] = f[SomeOf(s)] + g[r]
          BY <2>1, <3>2, <5>1
        <5> QED  BY <3>2, <4>2, <4>3, <5>2
      <4>4. CASE ~(Cardinality(s) <= k)
        BY <3>2, <4>2, <4>4
      <4> QED  BY <4>3, <4>4
    <3> QED  BY <3>1, <3>2
  <2> HIDE DEF h
  <2>3. h = [s \in Dom(k + 1) |-> h[s]]
    BY DEF h
  <2>4. Solves(h, k + 1)
    BY <2>2, <2>3
  <2>5. k + 1 \in Nat /\ \E sol : Solves(sol, k + 1)
    <3> HIDE DEF Solves
    <3> QED  BY <2>4
  <2> HIDE DEF Solves
  <2> QED  BY <2>5
<1> HIDE DEF T
<1>4. Cardinality(S) \in T
  BY <1>1, <1>2, <1>3, InductionOnNat
<1>5. \A s \in SUBSET S : Cardinality(s) <= Cardinality(S)
  BY FS_Subset
<1>6. PICK g : Solves(g, Cardinality(S))
  BY <1>4 DEF T
<1>7. Dom(Cardinality(S)) = SUBSET S
  BY <1>5
<1> QED  BY <1>6, <1>7 DEF Sums

(* And only one, on the subsets of two sets alike. *)
LEMMA SumsUnique ==
  ASSUME NEW f, NEW S, IsFiniteSet(S), NEW U \in SUBSET S,
         NEW g, Sums(f, S, g), NEW h, Sums(f, U, h)
  PROVE  g[U] = h[U]
<1> DEFINE T == {k \in Nat : \A s \in SUBSET U : Cardinality(s) = k => g[s] = h[s]}
<1>1. \A s \in SUBSET U : s \in SUBSET S /\ IsFiniteSet(s)
  BY FS_Subset
<1>2. 0 \in T
  <2>1. ASSUME NEW s \in SUBSET U, Cardinality(s) = 0  PROVE g[s] = h[s]
    <3>1. s = {}
      BY <1>1, <2>1, FS_EmptySet
    <3> QED  BY <1>1, <3>1 DEF Sums
  <2> QED  BY <2>1
<1>3. ASSUME NEW k \in Nat, k \in T  PROVE k + 1 \in T
  <2>1. ASSUME NEW s \in SUBSET U, Cardinality(s) = k + 1  PROVE g[s] = h[s]
    <3>1. s # {}
      BY <2>1, FS_EmptySet
    <3>2. SomeOf(s) \in s /\ s \ {SomeOf(s)} \in SUBSET U
      BY <3>1, AnyMember
    <3>3. Cardinality(s \ {SomeOf(s)}) = k
      <4>1. Cardinality(s \ {SomeOf(s)}) = (k + 1) - 1
        BY <1>1, <2>1, <3>2, Smaller1
      <4> QED  BY <4>1
    <3>4. g[s \ {SomeOf(s)}] = h[s \ {SomeOf(s)}]
      BY <1>3, <3>2, <3>3
    <3> QED  BY <1>1, <3>1, <3>4 DEF Sums
  <2> QED  BY <2>1
<1> HIDE DEF T
<1>4. Cardinality(U) \in T
  BY <1>1, <1>2, <1>3, InductionOnNat, FS_CardinalityType
<1> QED  BY <1>4 DEF T

(* The two equations of the sum. *)
LEMMA SumOfNone ==
  ASSUME NEW f
  PROVE  SumFunctionOnSet(f, {}) = 0
<1> DEFINE sum == CHOOSE g : Sums(f, {}, g)
<1>1. Sums(f, {}, sum)
  BY SumsExist, FS_EmptySet
<1> HIDE DEF sum
<1>2. sum[{}] = 0
  BY <1>1 DEF Sums
<1> QED  BY <1>2, SumsExpanded DEF sum

LEMMA SumOfAny ==
  ASSUME NEW f, NEW S, IsFiniteSet(S), S # {}
  PROVE  SumFunctionOnSet(f, S) = f[SomeOf(S)] + SumFunctionOnSet(f, S \ {SomeOf(S)})
<1> DEFINE U == S \ {SomeOf(S)}
           g == CHOOSE sum : Sums(f, S, sum)
           h == CHOOSE sum : Sums(f, U, sum)
<1>1. IsFiniteSet(U) /\ U \in SUBSET S
  BY FS_Subset
<1>2. Sums(f, S, g) /\ Sums(f, U, h)
  BY <1>1, SumsExist
<1>3. SumFunctionOnSet(f, S) = g[S] /\ SumFunctionOnSet(f, U) = h[U]
  BY SumsExpanded
<1> HIDE DEF g, h
<1>4. g[S] = f[SomeOf(S)] + g[U]
  BY <1>2 DEF Sums
<1>5. g[U] = h[U]
  <2> HIDE DEF U
  <2> QED  BY <1>1, <1>2, SumsUnique
<1> QED  BY <1>3, <1>4, <1>5
LEMMA SumInt ==
  ASSUME NEW f, NEW S, IsFiniteSet(S), \A x \in S : f[x] \in Int
  PROVE  SumFunctionOnSet(f, S) \in Int
<1> DEFINE T == {k \in Nat : \A s \in SUBSET S :
                   Cardinality(s) = k => SumFunctionOnSet(f, s) \in Int}
<1>1. \A s \in SUBSET S : IsFiniteSet(s)
  BY FS_Subset
<1>2. 0 \in T
  BY <1>1, SumOfNone, FS_EmptySet
<1>3. ASSUME NEW k \in Nat, k \in T  PROVE k + 1 \in T
  <2>1. ASSUME NEW s \in SUBSET S, Cardinality(s) = k + 1
        PROVE  SumFunctionOnSet(f, s) \in Int
    <3>1. s # {}
      BY <2>1, FS_EmptySet
    <3>2. SomeOf(s) \in s /\ s \ {SomeOf(s)} \in SUBSET S
      BY <3>1, AnyMember
    <3>3. Cardinality(s \ {SomeOf(s)}) = k
      <4>1. Cardinality(s \ {SomeOf(s)}) = (k + 1) - 1
        BY <1>1, <2>1, <3>2, Smaller1
      <4> QED  BY <4>1
    <3>4. SumFunctionOnSet(f, s) = f[SomeOf(s)] + SumFunctionOnSet(f, s \ {SomeOf(s)})
      BY <1>1, <3>1, SumOfAny
    <3> QED  BY <1>3, <3>2, <3>3, <3>4
  <2> QED  BY <2>1
<1> HIDE DEF T
<1>4. Cardinality(S) \in T
  BY <1>2, <1>3, InductionOnNat, FS_CardinalityType
<1> QED  BY <1>4 DEF T

(* Any element may be taken first. *)
LEMMA SumTake ==
  ASSUME NEW f, NEW S, IsFiniteSet(S), \A x \in S : f[x] \in Int, NEW x \in S
  PROVE  SumFunctionOnSet(f, S) = f[x] + SumFunctionOnSet(f, S \ {x})
<1> DEFINE Total(s) == SumFunctionOnSet(f, s)
           T == {k \in Nat : \A s \in SUBSET S : Cardinality(s) = k =>
                   \A y \in s : Total(s) = f[y] + Total(s \ {y})}
<1> HIDE DEF Total
<1>1. \A s \in SUBSET S : IsFiniteSet(s) /\ Total(s) \in Int
  BY FS_Subset, SumInt DEF Total
<1>2. \A s \in SUBSET S :
        s # {} => SomeOf(s) \in s /\ Total(s) = f[SomeOf(s)] + Total(s \ {SomeOf(s)})
  BY <1>1, SumOfAny, AnyMember DEF Total
<1>3. 0 \in T
  BY <1>1, FS_EmptySet
<1>4. ASSUME NEW k \in Nat, k \in T  PROVE k + 1 \in T
  <2>1. ASSUME NEW s \in SUBSET S, Cardinality(s) = k + 1, NEW y \in s
        PROVE  Total(s) = f[y] + Total(s \ {y})
    <3> DEFINE c == SomeOf(s)
               r == (s \ {c}) \ {y}
    <3>1. c \in s /\ Total(s) = f[c] + Total(s \ {c})
      BY <1>2
    <3> HIDE DEF c
    <3>2. CASE y = c
      BY <3>1, <3>2
    <3>3. CASE y # c
      <4>1. Cardinality(s \ {c}) = k /\ Cardinality(s \ {y}) = k
        <5>1. /\ Cardinality(s \ {c}) = (k + 1) - 1
              /\ Cardinality(s \ {y}) = (k + 1) - 1
          BY <1>1, <2>1, <3>1, Smaller1
        <5> QED  BY <5>1
      <4>2. Total(s \ {c}) = f[y] + Total(r)
        BY <1>4, <3>3, <4>1
      <4>3. Total(s \ {y}) = f[c] + Total(r)
        <5>1. (s \ {y}) \ {c} = r /\ c \in s \ {y}
          BY <3>1, <3>3
        <5> HIDE DEF r
        <5> QED  BY <1>4, <4>1, <5>1
      <4>4. f[c] \in Int /\ f[y] \in Int /\ Total(r) \in Int
        BY <1>1, <3>1
      <4> HIDE DEF r
      <4> QED  BY <3>1, <4>2, <4>3, <4>4
    <3> QED  BY <3>2, <3>3
  <2> QED  BY <2>1
<1> HIDE DEF T
<1>5. Cardinality(S) \in T
  BY <1>3, <1>4, InductionOnNat, FS_CardinalityType
<1> QED  BY <1>5 DEF T, Total

LEMMA SumAdd ==
  ASSUME NEW f, NEW S, IsFiniteSet(S), NEW x, x \notin S, f[x] \in Int,
         \A y \in S : f[y] \in Int
  PROVE  SumFunctionOnSet(f, S \cup {x}) = f[x] + SumFunctionOnSet(f, S)
<1> DEFINE U == S \cup {x}
<1>1. IsFiniteSet(U) /\ U \ {x} = S /\ x \in U /\ \A y \in U : f[y] \in Int
  BY FS_AddElement
<1> HIDE DEF U
<1>2. SumFunctionOnSet(f, U) = f[x] + SumFunctionOnSet(f, S)
  BY <1>1, SumTake
<1> QED  BY <1>2 DEF U

LEMMA SumOfOne ==
  ASSUME NEW f, NEW x, f[x] \in Int
  PROVE  SumFunctionOnSet(f, {x}) = f[x]
<1>1. SumFunctionOnSet(f, {} \cup {x}) = f[x] + SumFunctionOnSet(f, {})
  BY SumAdd, FS_EmptySet
<1>2. {} \cup {x} = {x}
  OBVIOUS
<1> QED  BY <1>1, <1>2, SumOfNone

(* Sums over two sets whose elements correspond. *)
LEMMA SumReindexed ==
  ASSUME NEW f, NEW S, IsFiniteSet(S), NEW g, NEW U, NEW b \in [U -> S],
         \A x \in S : f[x] \in Int,
         \A u \in U : g[u] = f[b[u]],
         \A u, v \in U : b[u] = b[v] => u = v,
         \A x \in S : \E u \in U : b[u] = x
  PROVE  IsFiniteSet(U) /\ SumFunctionOnSet(g, U) = SumFunctionOnSet(f, S)
<1> DEFINE Same(s) ==
             LET u == {v \in U : b[v] \in s}
             IN  IsFiniteSet(u) /\ SumFunctionOnSet(g, u) = SumFunctionOnSet(f, s)
           T == {k \in Nat : \A s \in SUBSET S : Cardinality(s) = k => Same(s)}
<1>1. 0 \in T
  <2>1. ASSUME NEW s \in SUBSET S, Cardinality(s) = 0  PROVE Same(s)
    <3>1. s = {}
      BY <2>1, FS_Subset, FS_EmptySet
    <3>2. {v \in U : b[v] \in s} = {}
      BY <3>1
    <3> QED  BY <3>1, <3>2, SumOfNone, FS_EmptySet
  <2> QED  BY <2>1
<1>2. ASSUME NEW k \in Nat, k \in T  PROVE k + 1 \in T
  <2>1. ASSUME NEW s \in SUBSET S, Cardinality(s) = k + 1  PROVE Same(s)
    <3>1. PICK x \in s : TRUE
      BY <2>1, FS_EmptySet
    <3>2. IsFiniteSet(s) /\ Cardinality(s \ {x}) = k
      <4>1. IsFiniteSet(s)
        BY FS_Subset
      <4>2. Cardinality(s \ {x}) = (k + 1) - 1
        BY <2>1, <3>1, <4>1, Smaller1
      <4> QED  BY <4>1, <4>2
    <3>3. PICK w \in U : b[w] = x
      BY <3>1
    <3> DEFINE u == {v \in U : b[v] \in s \ {x}}
    <3>4. IsFiniteSet(u) /\ SumFunctionOnSet(g, u) = SumFunctionOnSet(f, s \ {x})
      BY <1>2, <3>2
    <3>5. {v \in U : b[v] \in s} = u \cup {w} /\ w \notin u
      BY <3>1, <3>3
    <3>6. g[w] = f[x] /\ f[x] \in Int /\ \A v \in u : g[v] \in Int
      BY <3>1, <3>3
    <3> HIDE DEF u
    <3>7. SumFunctionOnSet(g, u \cup {w}) = g[w] + SumFunctionOnSet(g, u)
      BY <3>4, <3>5, <3>6, SumAdd
    <3>8. SumFunctionOnSet(f, s) = f[x] + SumFunctionOnSet(f, s \ {x})
      BY <3>1, <3>2, SumTake
    <3>9. IsFiniteSet(u \cup {w})
      BY <3>4, FS_AddElement
    <3> QED  BY <3>4, <3>5, <3>6, <3>7, <3>8, <3>9
  <2> QED  BY <2>1
<1> HIDE DEF T
<1>3. Cardinality(S) \in T
  BY <1>1, <1>2, InductionOnNat, FS_CardinalityType
<1>4. Same(S)
  BY <1>3 DEF T
<1>5. {v \in U : b[v] \in S} = U
  OBVIOUS
<1> QED  BY <1>4, <1>5

LEMMA SumEqual ==
  ASSUME NEW f, NEW g, NEW S, IsFiniteSet(S), \A x \in S : f[x] \in Int /\ g[x] = f[x]
  PROVE  SumFunctionOnSet(g, S) = SumFunctionOnSet(f, S)
<1> DEFINE b == [x \in S |-> x]
<1>1. b \in [S -> S] /\ \A x \in S : b[x] = x
  OBVIOUS
<1> HIDE DEF b
<1> QED  BY <1>1, SumReindexed

(* One value changes. *)
LEMMA SumChanged ==
  ASSUME NEW f, NEW g, NEW S, IsFiniteSet(S), NEW x \in S, g[x] \in Int,
         \A y \in S : f[y] \in Int /\ (y # x => g[y] = f[y])
  PROVE  SumFunctionOnSet(g, S) = SumFunctionOnSet(f, S) - f[x] + g[x]
<1>1. IsFiniteSet(S \ {x})
  BY Smaller1
<1>2. SumFunctionOnSet(g, S \ {x}) = SumFunctionOnSet(f, S \ {x})
  BY <1>1, SumEqual
<1>3. SumFunctionOnSet(f, S) = f[x] + SumFunctionOnSet(f, S \ {x})
  BY SumTake
<1>4. SumFunctionOnSet(g, S) = g[x] + SumFunctionOnSet(g, S \ {x})
  <2>1. \A y \in S : g[y] \in Int
    OBVIOUS
  <2> QED  BY <2>1, SumTake
<1>5. SumFunctionOnSet(f, S \ {x}) \in Int /\ f[x] \in Int
  BY <1>1, SumInt
<1> QED  BY <1>2, <1>3, <1>4, <1>5

LEMMA SumNat ==
  ASSUME NEW f, NEW S, IsFiniteSet(S), \A x \in S : f[x] \in Nat
  PROVE  SumFunctionOnSet(f, S) \in Nat
<1> DEFINE T == {k \in Nat : \A s \in SUBSET S :
                   Cardinality(s) = k => SumFunctionOnSet(f, s) \in Nat}
<1>1. \A s \in SUBSET S : IsFiniteSet(s)
  BY FS_Subset
<1>2. 0 \in T
  BY <1>1, SumOfNone, FS_EmptySet
<1>3. ASSUME NEW k \in Nat, k \in T  PROVE k + 1 \in T
  <2>1. ASSUME NEW s \in SUBSET S, Cardinality(s) = k + 1
        PROVE  SumFunctionOnSet(f, s) \in Nat
    <3>1. PICK x \in s : TRUE
      BY <2>1, FS_EmptySet
    <3>2. Cardinality(s \ {x}) = k
      <4>1. Cardinality(s \ {x}) = (k + 1) - 1
        BY <1>1, <2>1, <3>1, Smaller1
      <4> QED  BY <4>1
    <3>3. SumFunctionOnSet(f, s) = f[x] + SumFunctionOnSet(f, s \ {x})
      BY <1>1, <3>1, SumTake
    <3>4. SumFunctionOnSet(f, s \ {x}) \in Nat /\ f[x] \in Nat
      BY <1>3, <3>1, <3>2
    <3> QED  BY <3>3, <3>4
  <2> QED  BY <2>1
<1> HIDE DEF T
<1>4. Cardinality(S) \in T
  BY <1>2, <1>3, InductionOnNat, FS_CardinalityType
<1> QED  BY <1>4 DEF T
-----------------------------------------------------------------------------
(* The number of places of a list that hold a value. *)

LEMMA SameSize ==
  ASSUME NEW T, IsFiniteSet(T), NEW S, NEW b \in [S -> T],
         \A x, y \in S : b[x] = b[y] => x = y,
         \A t \in T : \E x \in S : b[x] = t
  PROVE  IsFiniteSet(S) /\ Cardinality(S) = Cardinality(T)
<1>1. b \in Injection(S, T) /\ b \in Surjection(S, T)
  BY DEF Injection, IsInjective, Surjection
<1> QED  BY <1>1, FS_Injection

Places(s, e) == {i \in DOMAIN s : s[i] = e}

LEMMA PlacesFinite ==
  ASSUME NEW S, NEW s \in Seq(S), NEW e
  PROVE  /\ IsFiniteSet(Places(s, e)) /\ Cardinality(Places(s, e)) \in Nat
         /\ s = <<>> => Cardinality(Places(s, e)) = 0
<1>1. IsFiniteSet(1..Len(s)) /\ DOMAIN s = 1..Len(s)
  BY FS_Interval
<1>2. IsFiniteSet(Places(s, e))
  BY <1>1, FS_Subset DEF Places
<1>3. s = <<>> => Places(s, e) = {}
  BY DEF Places
<1> QED  BY <1>2, <1>3, FS_CardinalityType, FS_EmptySet

LEMMA PlacesTail ==
  ASSUME NEW S, NEW s \in Seq(S), s # <<>>, NEW e
  PROVE  Cardinality(Places(s, e))
           = Cardinality(Places(Tail(s), e)) + (IF Head(s) = e THEN 1 ELSE 0)
<1> DEFINE A == Places(s, e) \ {1}
           B == Places(Tail(s), e)
           b == [i \in B |-> i + 1]
<1>1. /\ Len(s) \in Nat \ {0} /\ DOMAIN s = 1..Len(s) /\ Head(s) = s[1]
      /\ DOMAIN Tail(s) = 1..(Len(s) - 1)
      /\ \A i \in 1..(Len(s) - 1) : Tail(s)[i] = s[i + 1]
  OBVIOUS
<1>2. IsFiniteSet(Places(s, e)) /\ Cardinality(Places(s, e)) \in Nat
  BY PlacesFinite
<1>3. IsFiniteSet(A)
  BY <1>2, FS_RemoveElement
<1>4. \A i \in B : i \in Nat \ {0} /\ i + 1 \in A
  BY <1>1 DEF Places
<1>5. \A j \in A : j - 1 \in B /\ j \in Nat
  BY <1>1 DEF Places
<1>6. Cardinality(B) = Cardinality(A)
  <2>1. b \in [B -> A] /\ \A i \in B : b[i] = i + 1
    BY <1>4
  <2>2. \A x, y \in B : b[x] = b[y] => x = y
    BY <1>4, <2>1
  <2>3. \A t \in A : \E x \in B : b[x] = t
    BY <1>5, <2>1
  <2> HIDE DEF A, B, b
  <2> QED  BY <1>3, <2>1, <2>2, <2>3, SameSize
<1>7. 1 \in Places(s, e) <=> Head(s) = e
  BY <1>1 DEF Places
<1>8. Cardinality(A) = IF Head(s) = e THEN Cardinality(Places(s, e)) - 1
                       ELSE Cardinality(Places(s, e))
  BY <1>2, <1>7, FS_RemoveElement
<1> QED  BY <1>2, <1>6, <1>8

-----------------------------------------------------------------------------
(* Fractions. *)

(* Divisors.  Euclid's algorithm has a result: the largest common divisor,   *)
(* as the common divisors of a and b are those of b and a % b.               *)

Divides(c, a) == \E x \in Nat : a = c * x

CommonDivisors(a, b) == {c \in Nat \ {0} : Divides(c, a) /\ Divides(c, b)}

LEMMA DivisionFacts ==
  ASSUME NEW a \in Int, NEW b \in Nat \ {0}
  PROVE  \E q \in Int, r \in 0..(b - 1) : q = a \div b /\ r = a % b /\ a = b * q + r
  OBVIOUS

LEMMA Quotients ==
  ASSUME NEW a \in Int, NEW b \in Nat \ {0}, NEW q \in Int, NEW r \in 0..(b - 1),
         a = b * q + r
  PROVE  a \div b = q /\ a % b = r
  OBVIOUS

LEMMA DivisionNat ==
  ASSUME NEW a \in Nat, NEW b \in Nat \ {0}
  PROVE  a \div b \in Nat
<1>1. PICK q \in Int, r \in 0..(b - 1) : q = a \div b /\ r = a % b /\ a = b * q + r
  BY DivisionFacts
<1>2. ~(q <= -1)
  <2>1. SUFFICES ASSUME q <= -1  PROVE FALSE
    OBVIOUS
  <2>2. b * q <= -b
    BY <2>1
  <2> QED  BY <1>1, <2>2
<1> QED  BY <1>1, <1>2

LEMMA SameDivisors ==
  ASSUME NEW a \in Nat, NEW b \in Nat \ {0}
  PROVE  a % b \in Nat /\ CommonDivisors(b, a % b) = CommonDivisors(a, b)
<1>1. PICK q \in Int, r \in 0..(b - 1) : q = a \div b /\ r = a % b /\ a = b * q + r
  BY DivisionFacts
<1>2. q \in Nat
  BY <1>1, DivisionNat
<1>3. ASSUME NEW c \in Nat \ {0}, Divides(c, b), Divides(c, r)  PROVE Divides(c, a)
  <2>1. PICK x \in Nat, y \in Nat : b = c * x /\ r = c * y
    BY <1>3 DEF Divides
  <2>2. c * (x * q + y) = (c * x) * q + c * y /\ x * q + y \in Nat
    BY <1>2
  <2>3. a = c * (x * q + y)
    BY <1>1, <2>1, <2>2
  <2> QED  BY <2>2, <2>3 DEF Divides
<1>4. ASSUME NEW c \in Nat \ {0}, Divides(c, b), Divides(c, a)  PROVE Divides(c, r)
  <2>1. PICK x \in Nat, y \in Nat : b = c * x /\ a = c * y
    BY <1>4 DEF Divides
  <2>2. r = c * (y - x * q)
    <3>1. c * (y - x * q) = c * y - (c * x) * q
      BY <1>2
    <3>2. r = a - b * q
      BY <1>2, <1>1
    <3> QED  BY <2>1, <3>1, <3>2
  <2>3. y - x * q \in Nat
    <3>1. PICK z \in Int : z = y - x * q
      BY <1>2
    <3>2. c * z >= 0
      BY <1>1, <2>2, <3>1
    <3>3. z >= 0
      BY <3>2
    <3> QED  BY <3>1, <3>3
  <2> QED  BY <2>2, <2>3 DEF Divides
<1> QED  BY <1>1, <1>3, <1>4 DEF CommonDivisors

Euclid(gcd) ==
    gcd = [b \in Nat |-> [a \in Nat |-> IF b = 0 THEN a ELSE gcd[a % b][b]]]

LEMMA GcdExists == Euclid(Gcd)
<1> DEFINE Largest(S) == CHOOSE g \in S : \A c \in S : c <= g
           gcd == [b \in Nat |->
                     [a \in Nat |-> IF b = 0 THEN a ELSE Largest(CommonDivisors(a, b))]]
<1>1. ASSUME NEW a \in Nat, NEW b \in Nat \ {0}
      PROVE  gcd[b][a] = gcd[a % b][b]
  <2>1. a % b \in Nat /\ CommonDivisors(b, a % b) = CommonDivisors(a, b)
    BY SameDivisors
  <2>2. CASE a % b = 0
    <3>1. \A c \in CommonDivisors(a, b) : c <= b
      <4> SUFFICES ASSUME NEW c \in Nat \ {0}, NEW x \in Nat, b = c * x  PROVE c <= b
        BY DEF CommonDivisors, Divides
      <4>1. x >= 1
        OBVIOUS
      <4>2. c * x >= c
        BY <4>1
      <4> QED  BY <4>2
    <3>2. b \in CommonDivisors(a, b)
      <4>1. Divides(b, b) /\ Divides(b, 0)
        <5>1. b = b * 1 /\ 0 = b * 0
          OBVIOUS
        <5> QED  BY <5>1 DEF Divides
      <4> QED  BY <2>1, <2>2, <4>1 DEF CommonDivisors
    <3>3. CommonDivisors(a, b) \subseteq Nat
      BY DEF CommonDivisors
    <3>4. Largest(CommonDivisors(a, b)) = b
      <4> DEFINE S == CommonDivisors(a, b)
      <4>1. b \in S /\ \A c \in S : c <= b
        BY <3>1, <3>2
      <4>2. S \subseteq Nat
        BY <3>3
      <4> HIDE DEF S
      <4>3. Largest(S) \in S /\ \A c \in S : c <= Largest(S)
        BY <4>1
      <4>4. Largest(S) \in Nat /\ b <= Largest(S) /\ Largest(S) <= b
        BY <4>1, <4>2, <4>3
      <4>5. Largest(S) = b
        BY <4>4
      <4> QED  BY <4>5 DEF S
    <3> QED  BY <2>1, <2>2, <3>4
  <2>3. CASE a % b # 0
    BY <2>1, <2>3
  <2> QED  BY <2>2, <2>3
<1>2. gcd = [b \in Nat |-> [a \in Nat |-> IF b = 0 THEN a ELSE gcd[a % b][b]]]
  <2>1. ASSUME NEW b \in Nat
        PROVE  gcd[b] = [a \in Nat |-> IF b = 0 THEN a ELSE gcd[a % b][b]]
    <3>1. ASSUME NEW a \in Nat  PROVE gcd[b][a] = IF b = 0 THEN a ELSE gcd[a % b][b]
      <4>1. b = 0 => gcd[b][a] = a
        OBVIOUS
      <4> HIDE DEF gcd
      <4> QED  BY <1>1, <4>1
    <3>2. gcd[b] = [a \in Nat |-> gcd[b][a]]
      OBVIOUS
    <3> HIDE DEF gcd
    <3> QED  BY <3>1, <3>2
  <2> HIDE DEF gcd
  <2>2. gcd = [b \in Nat |-> gcd[b]]
    BY DEF gcd
  <2> QED  BY <2>1, <2>2
<1>3. Euclid(gcd)
  BY <1>2 DEF Euclid
<1> HIDE DEF gcd
<1>4. Euclid(CHOOSE g : Euclid(g))
  BY <1>3
<1> QED  BY <1>4 DEF Gcd, Euclid

LEMMA GcdStep ==
  /\ \A a \in Nat : Gcd[0][a] = a
  /\ \A a \in Nat, b \in Nat \ {0} : Gcd[b][a] = Gcd[a % b][b]
<1>1. Gcd = [b \in Nat |-> [a \in Nat |-> IF b = 0 THEN a ELSE Gcd[a % b][b]]]
  BY GcdExists DEF Euclid
<1>2. ASSUME NEW b \in Nat  PROVE Gcd[b] = [a \in Nat |-> IF b = 0 THEN a ELSE Gcd[a % b][b]]
  BY <1>1
<1>3. \A a \in Nat : Gcd[0][a] = a
  <2>1. Gcd[0] = [a \in Nat |-> IF 0 = 0 THEN a ELSE Gcd[a % 0][0]]
    BY <1>2
  <2> QED  BY <2>1
<1>4. ASSUME NEW a \in Nat, NEW b \in Nat \ {0}  PROVE Gcd[b][a] = Gcd[a % b][b]
  <2>1. Gcd[b] = [x \in Nat |-> IF b = 0 THEN x ELSE Gcd[x % b][b]]
    BY <1>2
  <2> QED  BY <2>1
<1> QED  BY <1>3, <1>4

(* The result divides both, and grows with them. *)
GcdOK(b) ==
    \A a \in Nat :
        /\ Gcd[b][a] \in Nat
        /\ (a > 0 \/ b > 0) => Gcd[b][a] > 0
        /\ Divides(Gcd[b][a], a) /\ Divides(Gcd[b][a], b)
        /\ \A k \in Nat \ {0} : Gcd[k * b][k * a] = k * Gcd[b][a]

LEMMA RemainderScaled ==
  ASSUME NEW a \in Nat, NEW b \in Nat \ {0}, NEW k \in Nat \ {0}
  PROVE  (k * a) % (k * b) = k * (a % b)
<1>1. PICK q \in Int, r \in 0..(b - 1) : q = a \div b /\ r = a % b /\ a = b * q + r
  BY DivisionFacts
<1>2. k * b \in Nat \ {0} /\ k * a \in Nat /\ k * r \in 0..(k * b - 1)
  <2>1. k * b > 0 /\ k * a >= 0 /\ k * r >= 0
    OBVIOUS
  <2>2. k * (b - 1 - r) >= 0 /\ k * (b - 1 - r) = k * b - k - k * r
    OBVIOUS
  <2> QED  BY <2>1, <2>2
<1>3. k * a = (k * b) * q + k * r
  <2>1. k * (b * q + r) = (k * b) * q + k * r
    OBVIOUS
  <2> QED  BY <1>1, <2>1
<1>4. (k * a) % (k * b) = k * r
  <2>1. PICK c \in Nat \ {0}, e \in Nat, s \in Nat :
          c = k * b /\ e = k * a /\ s = k * r /\ s \in 0..(c - 1)
    BY <1>2
  <2>2. e = c * q + s
    BY <1>3, <2>1
  <2>3. s \in 0..(c - 1)
    BY <2>1
  <2>4. e % c = s
    BY <2>2, <2>3, Quotients
  <2> QED  BY <2>1, <2>4
<1> QED  BY <1>1, <1>4

LEMMA GcdFacts == \A b \in Nat : GcdOK(b)
<1> DEFINE T == {b \in Nat : ~GcdOK(b)}
<1>1. SUFFICES ASSUME T # {}  PROVE FALSE
  OBVIOUS
<1>2. PICK b \in T : \A m \in T : b <= m
  <2>1. T \subseteq Nat
    OBVIOUS
  <2> HIDE DEF T
  <2> QED  BY <1>1, <2>1, SmallestNat
<1>3. b \in Nat /\ \A r \in Nat : r < b => GcdOK(r)
  <2> SUFFICES ASSUME NEW r \in Nat, r < b, ~GcdOK(r)  PROVE FALSE
    OBVIOUS
  <2> QED  BY <1>2
<1>4. ASSUME NEW a \in Nat
      PROVE  /\ Gcd[b][a] \in Nat
             /\ (a > 0 \/ b > 0) => Gcd[b][a] > 0
             /\ Divides(Gcd[b][a], a) /\ Divides(Gcd[b][a], b)
             /\ \A k \in Nat \ {0} : Gcd[k * b][k * a] = k * Gcd[b][a]
  <2>1. CASE b = 0
    <3>1. Gcd[b][a] = a
      BY <2>1, GcdStep
    <3>2. a = a * 1 /\ b = a * 0
      BY <2>1
    <3>3. Divides(a, a) /\ Divides(a, b)
      BY <3>2 DEF Divides
    <3>4. ASSUME NEW k \in Nat \ {0}  PROVE Gcd[k * b][k * a] = k * a
      <4>1. k * b = 0 /\ k * a \in Nat
        BY <2>1
      <4> QED  BY <4>1, GcdStep
    <3> QED  BY <2>1, <3>1, <3>3, <3>4
  <2>2. CASE b # 0
    <3>1. PICK q \in Int, r \in 0..(b - 1) : q = a \div b /\ r = a % b /\ a = b * q + r
      BY <1>3, <2>2, DivisionFacts
    <3>2. q \in Nat
      BY <1>3, <2>2, <3>1, DivisionNat
    <3>3. PICK g : g = Gcd[b][a] /\ g = Gcd[r][b]
      BY <1>3, <2>2, <3>1, GcdStep
    <3>4. GcdOK(r)
      BY <1>3, <3>1
    <3>5. g \in Nat /\ g > 0 /\ Divides(g, b) /\ Divides(g, r)
      BY <1>3, <2>2, <3>3, <3>4 DEF GcdOK
    <3>6. Divides(g, a)
      <4>1. PICK x \in Nat, y \in Nat : b = g * x /\ r = g * y
        BY <3>5 DEF Divides
      <4>2. g * (x * q + y) = (g * x) * q + g * y /\ x * q + y \in Nat
        BY <3>2, <3>5
      <4>3. a = g * (x * q + y)
        BY <3>1, <4>1, <4>2
      <4> QED  BY <4>2, <4>3 DEF Divides
    <3>7. ASSUME NEW k \in Nat \ {0}  PROVE Gcd[k * b][k * a] = k * g
      <4>1. k * b \in Nat \ {0} /\ k * a \in Nat /\ (k * a) % (k * b) = k * r
        <5>1. k * b > 0 /\ k * a >= 0
          BY <1>3, <2>2
        <5>2. (k * a) % (k * b) = k * (a % b)
          BY <1>3, <2>2, RemainderScaled
        <5> QED  BY <1>3, <3>1, <5>1, <5>2
      <4>2. Gcd[k * b][k * a] = Gcd[k * r][k * b]
        <5>1. PICK x \in Nat, y \in Nat \ {0} : x = k * a /\ y = k * b
          BY <4>1
        <5>2. Gcd[y][x] = Gcd[x % y][y]
          BY GcdStep
        <5> QED  BY <4>1, <5>1, <5>2
      <4>3. Gcd[k * r][k * b] = k * g
        BY <1>3, <3>3, <3>4 DEF GcdOK
      <4> QED  BY <4>2, <4>3
    <3> QED  BY <3>3, <3>5, <3>6, <3>7
  <2> QED  BY <2>1, <2>2
<1>5. GcdOK(b)
  BY <1>4 DEF GcdOK
<1> QED  BY <1>2, <1>5

-----------------------------------------------------------------------------
(* Lowest terms. *)

LEMMA MagnitudeFacts ==
  ASSUME NEW n \in Int
  PROVE  /\ Magnitude(n) \in Nat /\ Magnitude(-n) = Magnitude(n)
         /\ \A k \in Nat : Magnitude(k * n) = k * Magnitude(n)
<1>1. Magnitude(n) \in Nat /\ Magnitude(-n) = Magnitude(n)
  BY DEF Magnitude
<1>2. ASSUME NEW k \in Nat  PROVE Magnitude(k * n) = k * Magnitude(n)
  <2>1. CASE n < 0
    <3>1. k * n <= 0 /\ k * (-n) = -(k * n)
      BY <2>1
    <3> QED  BY <2>1, <3>1 DEF Magnitude
  <2>2. CASE n >= 0
    <3>1. k * n >= 0
      BY <2>2
    <3> QED  BY <2>2, <3>1 DEF Magnitude
  <2> QED  BY <2>1, <2>2
<1> QED  BY <1>1, <1>2

(* What Frac divides by. *)
LEMMA FracFacts ==
  ASSUME NEW n \in Int, NEW d \in Nat \ {0}
  PROVE  /\ Frac(n, d) \in Fraction
         /\ \E g \in Nat \ {0} :
              /\ g = Gcd[d][Magnitude(n)]
              /\ n = g * Frac(n, d).n /\ d = g * Frac(n, d).d
<1>1. PICK g : g = Gcd[d][Magnitude(n)]
  OBVIOUS
<1>2. g \in Nat \ {0} /\ Divides(g, Magnitude(n)) /\ Divides(g, d)
  <2>1. PICK a \in Nat : a = Magnitude(n)
    BY MagnitudeFacts
  <2>2. GcdOK(d)
    BY GcdFacts
  <2> QED  BY <1>1, <2>1, <2>2 DEF GcdOK
<1>3. PICK x \in Nat, y \in Nat : Magnitude(n) = g * x /\ d = g * y
  BY <1>2 DEF Divides
<1>4. PICK z \in Int : n = g * z
  <2>1. CASE n < 0
    <3>1. n = g * (-x)
      BY <1>2, <1>3, <2>1 DEF Magnitude
    <3> QED  BY <3>1
  <2>2. CASE n >= 0
    BY <1>3, <2>2 DEF Magnitude
  <2> QED  BY <2>1, <2>2
<1>5. n \div g = z /\ d \div g = y /\ y \in Nat \ {0}
  <2>1. n = g * z + 0 /\ d = g * y + 0 /\ 0 \in 0..(g - 1)
    BY <1>2, <1>3, <1>4
  <2>2. n \div g = z
    BY <1>2, <2>1, Quotients
  <2>3. d \div g = y
    BY <1>2, <2>1, Quotients
  <2>4. y # 0
    BY <1>2, <1>3
  <2> QED  BY <2>2, <2>3, <2>4
<1>6. Frac(n, d) = [n |-> n \div g, d |-> d \div g]
  <2>1. [n |-> n, d |-> d] \in Fraction
    BY DEF Fraction
  <2> QED  BY <1>1, <2>1 DEF Frac, Lowest
<1>7. Frac(n, d).n = z /\ Frac(n, d).d = y /\ Frac(n, d) \in Fraction
  BY <1>5, <1>6 DEF Fraction
<1> QED  BY <1>1, <1>2, <1>3, <1>4, <1>7

LEMMA SameFields ==
  ASSUME NEW a \in Fraction, NEW b \in Fraction, a.n = b.n, a.d = b.d
  PROVE  a = b
BY DEF Fraction

LEMMA FracScaled ==
  ASSUME NEW n \in Int, NEW d \in Nat \ {0}, NEW k \in Nat \ {0}
  PROVE  Frac(k * n, k * d) = Frac(n, d)
<1>1. PICK g \in Nat \ {0} :
        g = Gcd[d][Magnitude(n)] /\ n = g * Frac(n, d).n /\ d = g * Frac(n, d).d
  BY FracFacts
<1>2. Gcd[k * d][Magnitude(k * n)] = k * g
  <2>1. PICK a \in Nat : a = Magnitude(n) /\ Magnitude(k * n) = k * a
    BY MagnitudeFacts
  <2>2. GcdOK(d)
    BY GcdFacts
  <2> QED  BY <1>1, <2>1, <2>2 DEF GcdOK
<1>3. k * n \in Int /\ k * d \in Nat \ {0} /\ k * g \in Nat \ {0}
  <2>1. k * d > 0 /\ k * g > 0
    OBVIOUS
  <2> QED  BY <2>1
<1>4. PICK N \in Int, D \in Nat \ {0} : N = k * n /\ D = k * d
  BY <1>3
<1>5. PICK h \in Nat \ {0} :
        h = Gcd[D][Magnitude(N)] /\ N = h * Frac(N, D).n /\ D = h * Frac(N, D).d
  BY FracFacts
<1>6. h = k * g
  BY <1>2, <1>4, <1>5
<1>7. Frac(n, d) \in Fraction /\ Frac(N, D) \in Fraction
  BY FracFacts
<1>8. PICK x \in Int, y \in Nat : x = Frac(n, d).n /\ y = Frac(n, d).d
  BY <1>7 DEF Fraction
<1>9. PICK z \in Int, w \in Nat : z = Frac(N, D).n /\ w = Frac(N, D).d
  BY <1>7 DEF Fraction
<1>10. k * n = (k * g) * x /\ k * d = (k * g) * y
  <2>1. k * (g * x) = (k * g) * x /\ k * (g * y) = (k * g) * y
    OBVIOUS
  <2> QED  BY <1>1, <1>8, <2>1
<1>11. h * z = h * x /\ h * w = h * y
  BY <1>4, <1>5, <1>6, <1>9, <1>10
<1>12. z = x /\ w = y
  BY <1>11
<1>13. Frac(N, D) = Frac(n, d)
  <2>1. Frac(N, D).n = Frac(n, d).n /\ Frac(N, D).d = Frac(n, d).d
    BY <1>8, <1>9, <1>12
  <2> QED  BY <1>7, <2>1, SameFields
<1> QED  BY <1>4, <1>13

(* One fraction for each ratio. *)
LEMMA SameRatio ==
  ASSUME NEW n \in Int, NEW d \in Nat \ {0}, NEW m \in Int, NEW e \in Nat \ {0}
  PROVE  n * e = m * d <=> Frac(n, d) = Frac(m, e)
<1>1. ASSUME n * e = m * d  PROVE Frac(n, d) = Frac(m, e)
  <2>1. Frac(e * n, e * d) = Frac(n, d) /\ Frac(d * m, d * e) = Frac(m, e)
    BY FracScaled
  <2>2. e * n = d * m /\ e * d = d * e
    BY <1>1
  <2> QED  BY <2>1, <2>2
<1>2. ASSUME Frac(n, d) = Frac(m, e)  PROVE n * e = m * d
  <2>1. PICK f : f = Frac(n, d) /\ f = Frac(m, e) /\ f \in Fraction
    BY <1>2, FracFacts
  <2>2. PICK x \in Int, y \in Nat : x = f.n /\ y = f.d
    BY <2>1 DEF Fraction
  <2>3. PICK g \in Nat : n = g * x /\ d = g * y
    <3>1. \E g \in Nat \ {0} : n = g * Frac(n, d).n /\ d = g * Frac(n, d).d
      BY FracFacts
    <3> QED  BY <2>1, <2>2, <3>1
  <2>4. PICK h \in Nat : m = h * x /\ e = h * y
    <3>1. \E h \in Nat \ {0} : m = h * Frac(m, e).n /\ e = h * Frac(m, e).d
      BY FracFacts
    <3> QED  BY <2>1, <2>2, <3>1
  <2>5. (g * x) * (h * y) = (h * x) * (g * y)
    OBVIOUS
  <2> QED  BY <2>3, <2>4, <2>5
<1> QED  BY <1>1, <1>2

(* The fractions in lowest terms. *)
Rational == {a \in Fraction : Frac(a.n, a.d) = a}

LEMMA FracRational ==
  ASSUME NEW n \in Int, NEW d \in Nat \ {0}
  PROVE  Frac(n, d) \in Rational
<1>1. PICK f : f = Frac(n, d) /\ f \in Fraction
  BY FracFacts
<1>2. PICK x \in Int, y \in Nat \ {0} : x = f.n /\ y = f.d
  BY <1>1 DEF Fraction
<1>3. PICK g \in Nat \ {0} : n = g * x /\ d = g * y
  BY <1>1, <1>2, FracFacts
<1>4. Frac(x, y) = Frac(n, d)
  BY <1>3, FracScaled
<1> QED  BY <1>1, <1>2, <1>4 DEF Rational

LEMMA RationalFacts ==
  ASSUME NEW a \in Rational
  PROVE  a.n \in Int /\ a.d \in Nat \ {0} /\ a = Frac(a.n, a.d) /\ a \in Fraction
BY DEF Rational, Fraction

LEMMA WholeRational ==
  ASSUME NEW n \in Int
  PROVE  Whole(n) \in Rational /\ Whole(n) = Frac(n, 1)
<1>1. PICK f : f = Frac(n, 1) /\ f \in Fraction
  BY FracFacts
<1>2. PICK x \in Int, y \in Nat \ {0} : x = f.n /\ y = f.d
  BY <1>1 DEF Fraction
<1>3. PICK g \in Nat \ {0} : n = g * x /\ 1 = g * y
  <2>1. PICK one \in Nat \ {0} : one = 1
    OBVIOUS
  <2>2. \E g \in Nat \ {0} : n = g * Frac(n, one).n /\ one = g * Frac(n, one).d
    BY FracFacts
  <2> QED  BY <1>1, <1>2, <2>1, <2>2
<1>4. g = 1 /\ y = 1
  <2>1. g <= g * y /\ y <= g * y
    OBVIOUS
  <2> QED  BY <1>3, <2>1
<1>5. f = [n |-> n, d |-> 1]
  BY <1>1, <1>2, <1>3, <1>4 DEF Fraction
<1>6. Frac(n, 1) \in Rational
  BY FracRational
<1> QED  BY <1>1, <1>5, <1>6 DEF Whole

-----------------------------------------------------------------------------
(* Sums and products. *)

LEMMA PlusIs ==
  ASSUME NEW a \in Fraction, NEW b \in Fraction
  PROVE  Plus(a, b) = Frac(a.n * b.d + b.n * a.d, a.d * b.d)
<1>1. PICK m \in Int, d \in Nat \ {0}, n \in Int, e \in Nat \ {0} :
        m = a.n /\ d = a.d /\ n = b.n /\ e = b.d
  BY DEF Fraction
<1>2. PICK g : g = Gcd[e][d]
  OBVIOUS
<1>3. g \in Nat \ {0} /\ Divides(g, d) /\ Divides(g, e)
  <2>1. GcdOK(e)
    BY GcdFacts
  <2> QED  BY <1>2, <2>1 DEF GcdOK
<1>4. PICK x \in Nat, y \in Nat : d = g * x /\ e = g * y
  BY <1>3 DEF Divides
<1>5. d \div g = x /\ e \div g = y /\ x # 0 /\ y # 0
  <2>1. d = g * x + 0 /\ e = g * y + 0 /\ 0 \in 0..(g - 1)
    BY <1>3, <1>4
  <2>2. d \div g = x
    BY <1>3, <2>1, Quotients
  <2>3. e \div g = y
    BY <1>3, <2>1, Quotients
  <2>4. x # 0 /\ y # 0
    BY <1>3, <1>4
  <2> QED  BY <2>2, <2>3, <2>4
<1>6. Plus(a, b) = Frac(m * y + n * x, x * e)
  <2>1. <<a, b>> \in Fraction \X Fraction
    OBVIOUS
  <2> QED  BY <1>1, <1>2, <1>5, <2>1 DEF Plus, SumOf
<1>7. PICK N \in Int, D \in Nat \ {0} : N = m * y + n * x /\ D = x * e
  <2>1. x * e > 0
    BY <1>5
  <2> QED  BY <2>1
<1>8. g * N = m * e + n * d /\ g * D = d * e
  <2>1. g * (m * y + n * x) = m * (g * y) + n * (g * x) /\ g * (x * e) = (g * x) * e
    BY <1>3
  <2> QED  BY <1>4, <1>7, <2>1
<1>9. Frac(N, D) = Frac(g * N, g * D)
  BY <1>3, FracScaled
<1> QED  BY <1>1, <1>6, <1>7, <1>8, <1>9

LEMMA ProductIs ==
  ASSUME NEW a \in Fraction, NEW b \in Fraction
  PROVE  Product(a, b) = Frac(a.n * b.n, a.d * b.d)
<1>1. PICK m \in Int, d \in Nat \ {0}, n \in Int, e \in Nat \ {0} :
        m = a.n /\ d = a.d /\ n = b.n /\ e = b.d
  BY DEF Fraction
<1>2. PICK f, h : f = Frac(m, e) /\ h = Frac(n, d) /\ f \in Fraction /\ h \in Fraction
  BY FracFacts
<1>3. PICK x \in Int, y \in Nat \ {0} : x = f.n /\ y = f.d
  BY <1>2 DEF Fraction
<1>4. PICK z \in Int, w \in Nat \ {0} : z = h.n /\ w = h.d
  BY <1>2 DEF Fraction
<1>5. Product(a, b) = Frac(x * z, y * w)
  <2>1. <<a, b>> \in Fraction \X Fraction
    OBVIOUS
  <2> QED  BY <1>1, <1>2, <1>3, <1>4, <2>1 DEF Product, ProductOf
<1>6. PICK g \in Nat \ {0} : m = g * x /\ e = g * y
  BY <1>2, <1>3, FracFacts
<1>7. PICK k \in Nat \ {0} : n = k * z /\ d = k * w
  <2>1. \E k \in Nat \ {0} : n = k * Frac(n, d).n /\ d = k * Frac(n, d).d
    BY FracFacts
  <2> QED  BY <1>2, <1>4, <2>1
<1>8. PICK N \in Int, D \in Nat \ {0}, s \in Nat \ {0} : N = x * z /\ D = y * w /\ s = g * k
  <2>1. y * w > 0 /\ g * k > 0
    OBVIOUS
  <2> QED  BY <2>1
<1>9. s * N = m * n /\ s * D = d * e
  <2>1. (g * k) * (x * z) = (g * x) * (k * z) /\ (g * k) * (y * w) = (k * w) * (g * y)
    OBVIOUS
  <2> QED  BY <1>6, <1>7, <1>8, <2>1
<1>10. Frac(N, D) = Frac(s * N, s * D)
  BY FracScaled
<1> QED  BY <1>1, <1>5, <1>8, <1>9, <1>10

(* Both, of any terms. *)
LEMMA RatioOps ==
  ASSUME NEW n \in Int, NEW d \in Nat \ {0}, NEW m \in Int, NEW e \in Nat \ {0}
  PROVE  /\ d * e \in Nat \ {0}
         /\ Plus(Frac(n, d), Frac(m, e)) = Frac(n * e + m * d, d * e)
         /\ Product(Frac(n, d), Frac(m, e)) = Frac(n * m, d * e)
<1>1. PICK f : f = Frac(n, d) /\ f \in Fraction
  BY FracFacts
<1>2. PICK h : h = Frac(m, e) /\ h \in Fraction
  BY FracFacts
<1>3. PICK x \in Int, y \in Nat \ {0} : x = f.n /\ y = f.d
  BY <1>1 DEF Fraction
<1>4. PICK z \in Int, w \in Nat \ {0} : z = h.n /\ w = h.d
  BY <1>2 DEF Fraction
<1>5. PICK g \in Nat \ {0} : n = g * x /\ d = g * y
  <2>1. \E g \in Nat \ {0} : n = g * Frac(n, d).n /\ d = g * Frac(n, d).d
    BY FracFacts
  <2> QED  BY <1>1, <1>3, <2>1
<1>6. PICK k \in Nat \ {0} : m = k * z /\ e = k * w
  <2>1. \E k \in Nat \ {0} : m = k * Frac(m, e).n /\ e = k * Frac(m, e).d
    BY FracFacts
  <2> QED  BY <1>2, <1>4, <2>1
<1>7. PICK N \in Int, P \in Int, D \in Nat \ {0}, s \in Nat \ {0} :
        N = x * w + z * y /\ P = x * z /\ D = y * w /\ s = g * k
  <2>1. y * w > 0 /\ g * k > 0
    OBVIOUS
  <2> QED  BY <2>1
<1>8. s * D = d * e /\ s * D > 0
  <2>1. (g * k) * (y * w) = (g * y) * (k * w)
    OBVIOUS
  <2>2. s * D > 0
    OBVIOUS
  <2> QED  BY <1>5, <1>6, <1>7, <2>1, <2>2
<1>9. s * N = n * e + m * d
  <2>1. (g * k) * (x * w + z * y) = (g * x) * (k * w) + (k * z) * (g * y)
    OBVIOUS
  <2> QED  BY <1>5, <1>6, <1>7, <2>1
<1>10. s * P = n * m
  <2>1. (g * k) * (x * z) = (g * x) * (k * z)
    OBVIOUS
  <2> QED  BY <1>5, <1>6, <1>7, <2>1
<1>11. Plus(f, h) = Frac(N, D) /\ Product(f, h) = Frac(P, D)
  BY <1>1, <1>2, <1>3, <1>4, <1>7, PlusIs, ProductIs
<1>12. Frac(N, D) = Frac(s * N, s * D) /\ Frac(P, D) = Frac(s * P, s * D)
  BY FracScaled
<1> QED  BY <1>1, <1>2, <1>8, <1>9, <1>10, <1>11, <1>12

LEMMA Negated ==
  ASSUME NEW n \in Int, NEW d \in Nat \ {0}
  PROVE  [Frac(n, d) EXCEPT !.n = -@] = Frac(-n, d)
<1>1. PICK f : f = Frac(n, d) /\ f \in Rational /\ f \in Fraction
  BY FracRational, RationalFacts
<1>2. PICK x \in Int, y \in Nat \ {0} : x = f.n /\ y = f.d /\ f = Frac(x, y)
  BY <1>1, RationalFacts
<1>3. PICK g \in Nat \ {0} : n = g * x /\ d = g * y
  <2>1. \E g \in Nat \ {0} : n = g * Frac(n, d).n /\ d = g * Frac(n, d).d
    BY FracFacts
  <2> QED  BY <1>1, <1>2, <2>1
<1>4. PICK h : h = Frac(-x, y) /\ h \in Fraction
  BY FracFacts
<1>5. PICK k \in Nat \ {0} : k = Gcd[y][Magnitude(-x)] /\ -x = k * h.n /\ y = k * h.d
  <2>1. -x \in Int
    OBVIOUS
  <2>2. \E k \in Nat \ {0} : /\ k = Gcd[y][Magnitude(-x)]
                             /\ -x = k * Frac(-x, y).n /\ y = k * Frac(-x, y).d
    BY <2>1, FracFacts
  <2> QED  BY <1>4, <2>2
<1>6. PICK j \in Nat \ {0} : j = Gcd[y][Magnitude(x)] /\ x = j * f.n /\ y = j * f.d
  <2>1. \E j \in Nat \ {0} : /\ j = Gcd[y][Magnitude(x)]
                             /\ x = j * Frac(x, y).n /\ y = j * Frac(x, y).d
    BY FracFacts
  <2> QED  BY <1>2, <2>1
<1>7. k = j /\ j = 1
  <2>1. k = j
    BY <1>5, <1>6, MagnitudeFacts
  <2>2. y = j * y
    BY <1>2, <1>6
  <2>3. j = 1
    BY <2>2
  <2> QED  BY <2>1, <2>3
<1>8. h.n = -x /\ h.d = y
  <2>1. PICK u \in Int, v \in Nat : u = h.n /\ v = h.d
    BY <1>4 DEF Fraction
  <2>2. -x = 1 * u /\ y = 1 * v
    BY <1>5, <1>7, <2>1
  <2> QED  BY <2>1, <2>2
<1>9. h = [f EXCEPT !.n = -@]
  <2>1. f = [n |-> x, d |-> y]
    BY <1>1, <1>2 DEF Fraction
  <2>2. [f EXCEPT !.n = -@] = [n |-> -x, d |-> y]
    BY <2>1
  <2>3. h = [n |-> -x, d |-> y]
    BY <1>4, <1>8 DEF Fraction
  <2> QED  BY <2>2, <2>3
<1>10. g * (-x) = -n /\ g * y = d
  BY <1>3
<1>11. h = Frac(-n, d)
  <2>1. -x \in Int
    OBVIOUS
  <2>2. Frac(g * (-x), g * y) = Frac(-x, y)
    BY <2>1, FracScaled
  <2> QED  BY <1>4, <1>10, <2>2
<1> QED  BY <1>1, <1>9, <1>11

-----------------------------------------------------------------------------
(* Fractions over one denominator: their sums, differences and comparisons   *)
(* are those of the numerators.                                              *)

LEMMA OverPlus ==
  ASSUME NEW D \in Nat \ {0}, NEW A \in Int, NEW B \in Int
  PROVE  Plus(Frac(A, D), Frac(B, D)) = Frac(A + B, D)
<1>1. Plus(Frac(A, D), Frac(B, D)) = Frac(A * D + B * D, D * D)
  BY RatioOps
<1>2. D * (A + B) = A * D + B * D /\ A + B \in Int
  OBVIOUS
<1>3. Frac(D * (A + B), D * D) = Frac(A + B, D)
  BY <1>2, FracScaled
<1> QED  BY <1>1, <1>2, <1>3

LEMMA OverMinus ==
  ASSUME NEW D \in Nat \ {0}, NEW A \in Int, NEW B \in Int
  PROVE  Minus(Frac(A, D), Frac(B, D)) = Frac(A - B, D)
<1>1. Minus(Frac(A, D), Frac(B, D)) = Plus(Frac(A, D), Frac(-B, D))
  BY Negated DEF Minus
<1>2. -B \in Int /\ A + (-B) = A - B
  OBVIOUS
<1> QED  BY <1>1, <1>2, OverPlus

LEMMA SignOf ==
  ASSUME NEW A \in Int, NEW D \in Nat \ {0}
  PROVE  /\ Frac(A, D).n \in Int
         /\ Frac(A, D).n > 0 <=> A > 0
         /\ Frac(A, D).n < 0 <=> A < 0
<1>1. PICK f : f = Frac(A, D) /\ f \in Fraction
  BY FracFacts
<1>2. PICK x \in Int, y \in Nat \ {0} : x = f.n /\ y = f.d
  BY <1>1 DEF Fraction
<1>3. PICK g \in Nat \ {0} : A = g * x
  <2>1. \E g \in Nat \ {0} : A = g * Frac(A, D).n /\ D = g * Frac(A, D).d
    BY FracFacts
  <2> QED  BY <1>1, <1>2, <2>1
<1>4. (x > 0 <=> A > 0) /\ (x < 0 <=> A < 0)
  BY <1>3
<1> QED  BY <1>1, <1>2, <1>4

LEMMA OverLess ==
  ASSUME NEW D \in Nat \ {0}, NEW A \in Int, NEW B \in Int
  PROVE  Less(Frac(A, D), Frac(B, D)) <=> A < B
<1>1. PICK C \in Int : C = A - B
  OBVIOUS
<1>2. Less(Frac(A, D), Frac(B, D)) <=> Frac(C, D).n < 0
  BY <1>1, OverMinus DEF Less
<1>3. Frac(C, D).n < 0 <=> C < 0
  BY SignOf
<1> QED  BY <1>1, <1>2, <1>3

LEMMA OverEqual ==
  ASSUME NEW D \in Nat \ {0}, NEW A \in Int, NEW B \in Int
  PROVE  Frac(A, D) = Frac(B, D) <=> A = B
<1>1. Frac(A, D) = Frac(B, D) <=> A * D = B * D
  BY SameRatio
<1>2. A * D = B * D <=> A = B
  OBVIOUS
<1> QED  BY <1>1, <1>2

LEMMA OverWhole ==
  ASSUME NEW D \in Nat \ {0}, NEW k \in Int
  PROVE  Whole(k) = Frac(k * D, D)
<1>1. Whole(k) = Frac(k, 1)
  BY WholeRational
<1>2. k * D = (k * D) * 1 /\ k * D \in Int
  OBVIOUS
<1>3. Frac(k, 1) = Frac(k * D, D)
  <2>1. PICK K \in Int : K = k * D
    OBVIOUS
  <2>2. k * D = K * 1
    BY <2>1
  <2>3. Frac(k, 1) = Frac(K, D)
    BY <2>2, SameRatio
  <2> QED  BY <2>1, <2>3
<1> QED  BY <1>1, <1>3

LEMMA OverTimes ==
  ASSUME NEW D \in Nat \ {0}, NEW k \in Int, NEW A \in Int
  PROVE  Times(k, Frac(A, D)) = Frac(k * A, D)
<1>1. Times(k, Frac(A, D)) = Product(Frac(k, 1), Frac(A, D))
  BY WholeRational DEF Times
<1>2. Product(Frac(k, 1), Frac(A, D)) = Frac(k * A, 1 * D)
  BY RatioOps
<1> QED  BY <1>1, <1>2

(* F gives the numerators of f over D. *)
OneDenominator(f, S, F, D) == \A u \in S : F[u] \in Int /\ f[u] = Frac(F[u], D)

LEMMA CommonOf ==
  ASSUME NEW S, IsFiniteSet(S), NEW f, \A u \in S : f[u] \in Rational
  PROVE  \E D \in Nat \ {0} : \E F : OneDenominator(f, S, F, D)
<1> DEFINE Serves(s, D) == \A u \in s : \E n \in Int : f[u] = Frac(n, D)
           T == {k \in Nat : \A s \in SUBSET S : Cardinality(s) = k =>
                               \E D \in Nat \ {0} : Serves(s, D)}
<1>1. \A s \in SUBSET S : IsFiniteSet(s)
  BY FS_Subset
<1>2. 0 \in T
  <2>1. ASSUME NEW s \in SUBSET S, Cardinality(s) = 0  PROVE Serves(s, 1)
    BY <1>1, <2>1, FS_EmptySet
  <2> QED  BY <2>1
<1>3. ASSUME NEW k \in Nat, k \in T  PROVE k + 1 \in T
  <2>1. ASSUME NEW s \in SUBSET S, Cardinality(s) = k + 1
        PROVE  \E D \in Nat \ {0} : Serves(s, D)
    <3>1. PICK x \in s : TRUE
      BY <2>1, FS_EmptySet
    <3>2. Cardinality(s \ {x}) = k
      <4>1. Cardinality(s \ {x}) = (k + 1) - 1
        BY <1>1, <2>1, <3>1, Smaller1
      <4> QED  BY <4>1
    <3>3. PICK D \in Nat \ {0} : Serves(s \ {x}, D)
      BY <1>3, <3>2
    <3>4. PICK y \in Int, e \in Nat \ {0} : f[x] = Frac(y, e)
      BY RationalFacts
    <3>5. e * D \in Nat \ {0}
      <4>1. e * D > 0
        OBVIOUS
      <4> QED  BY <4>1
    <3>6. ASSUME NEW u \in s  PROVE \E n \in Int : f[u] = Frac(n, e * D)
      <4>1. CASE u = x
        <5>1. Frac(D * y, D * e) = Frac(y, e)
          BY FracScaled
        <5>2. D * e = e * D /\ D * y \in Int
          OBVIOUS
        <5> QED  BY <3>4, <4>1, <5>1, <5>2
      <4>2. CASE u # x
        <5>1. PICK n \in Int : f[u] = Frac(n, D)
          BY <3>3, <4>2
        <5>2. Frac(e * n, e * D) = Frac(n, D)
          BY FracScaled
        <5>3. e * n \in Int
          OBVIOUS
        <5> QED  BY <5>1, <5>2, <5>3
      <4> QED  BY <4>1, <4>2
    <3> QED  BY <3>5, <3>6
  <2> QED  BY <2>1
<1>4. Cardinality(S) \in T
  <2> HIDE DEF T
  <2> QED  BY <1>2, <1>3, InductionOnNat, FS_CardinalityType
<1>5. PICK D \in Nat \ {0} : Serves(S, D)
  BY <1>4
<1>6. OneDenominator(f, S, [u \in S |-> CHOOSE n \in Int : f[u] = Frac(n, D)], D)
  BY <1>5 DEF OneDenominator
<1> QED  BY <1>6

(* The numerator of a fraction over D, when it has one. *)
HasOver(a, D) == \E n \in Int : a = Frac(n, D)
Over(a, D) == CHOOSE n \in Int : a = Frac(n, D)

LEMMA OverFacts ==
  ASSUME NEW a, NEW D \in Nat \ {0}, HasOver(a, D)
  PROVE  Over(a, D) \in Int /\ a = Frac(Over(a, D), D) /\ a \in Rational
BY FracRational DEF HasOver, Over

LEMMA OverIs ==
  ASSUME NEW D \in Nat \ {0}, NEW n \in Int
  PROVE  HasOver(Frac(n, D), D) /\ Over(Frac(n, D), D) = n
<1>1. HasOver(Frac(n, D), D)
  BY DEF HasOver
<1>2. PICK m \in Int : m = Over(Frac(n, D), D) /\ Frac(n, D) = Frac(m, D)
  BY <1>1, OverFacts
<1>3. m = n
  BY <1>2, OverEqual
<1> QED  BY <1>1, <1>2, <1>3

(* Over one denominator the arithmetic is that of the numerators. *)
LEMMA Linearly ==
  ASSUME NEW D \in Nat \ {0}, NEW a, HasOver(a, D), NEW b, HasOver(b, D)
  PROVE  /\ HasOver(Plus(a, b), D) /\ Over(Plus(a, b), D) = Over(a, D) + Over(b, D)
         /\ HasOver(Minus(a, b), D) /\ Over(Minus(a, b), D) = Over(a, D) - Over(b, D)
<1>1. PICK m \in Int, n \in Int :
        m = Over(a, D) /\ n = Over(b, D) /\ a = Frac(m, D) /\ b = Frac(n, D)
  BY OverFacts
<1>2. m + n \in Int /\ m - n \in Int
  OBVIOUS
<1>3. Plus(a, b) = Frac(m + n, D) /\ Minus(a, b) = Frac(m - n, D)
  <2>1. Plus(Frac(m, D), Frac(n, D)) = Frac(m + n, D)
    BY OverPlus
  <2>2. Minus(Frac(m, D), Frac(n, D)) = Frac(m - n, D)
    BY OverMinus
  <2> QED  BY <1>1, <2>1, <2>2
<1>4. HasOver(Frac(m + n, D), D) /\ Over(Frac(m + n, D), D) = m + n
  BY <1>2, OverIs
<1>5. HasOver(Frac(m - n, D), D) /\ Over(Frac(m - n, D), D) = m - n
  BY <1>2, OverIs
<1> QED  BY <1>1, <1>3, <1>4, <1>5

LEMMA Multiples ==
  ASSUME NEW D \in Nat \ {0}, NEW a, HasOver(a, D), NEW k \in Int
  PROVE  HasOver(Times(k, a), D) /\ Over(Times(k, a), D) = k * Over(a, D)
<1>1. PICK m \in Int : m = Over(a, D) /\ a = Frac(m, D)
  BY OverFacts
<1>2. PICK n \in Int : n = k * m
  OBVIOUS
<1>3. Times(k, a) = Frac(n, D)
  <2>1. Times(k, Frac(m, D)) = Frac(k * m, D)
    BY OverTimes
  <2> QED  BY <1>1, <1>2, <2>1
<1> QED  BY <1>1, <1>2, <1>3, OverIs

LEMMA Wholes ==
  ASSUME NEW D \in Nat \ {0}, NEW k \in Int
  PROVE  HasOver(Whole(k), D) /\ Over(Whole(k), D) = k * D
<1>1. PICK n \in Int : n = k * D /\ Whole(k) = Frac(n, D)
  <2>1. k * D \in Int
    OBVIOUS
  <2> QED  BY <2>1, OverWhole
<1> QED  BY <1>1, OverIs

LEMMA Compared ==
  ASSUME NEW D \in Nat \ {0}, NEW a, HasOver(a, D), NEW b, HasOver(b, D)
  PROVE  /\ a = b <=> Over(a, D) = Over(b, D)
         /\ Less(a, b) <=> Over(a, D) < Over(b, D)
<1>1. PICK m \in Int, n \in Int :
        m = Over(a, D) /\ n = Over(b, D) /\ a = Frac(m, D) /\ b = Frac(n, D)
  BY OverFacts
<1> QED  BY <1>1, OverEqual, OverLess

LEMMA Signs ==
  ASSUME NEW D \in Nat \ {0}, NEW a, HasOver(a, D)
  PROVE  /\ a.n \in Int
         /\ a.n > 0 <=> Over(a, D) > 0
         /\ a.n < 0 <=> Over(a, D) < 0
<1>1. PICK m \in Int : m = Over(a, D) /\ a = Frac(m, D)
  BY OverFacts
<1> QED  BY <1>1, SignOf

(* Any eight fractions have one denominator. *)
Shared(a, b, c, d, e, f, g, h) ==
    \E D \in Nat \ {0} : /\ HasOver(a, D) /\ HasOver(b, D) /\ HasOver(c, D) /\ HasOver(d, D)
                         /\ HasOver(e, D) /\ HasOver(f, D) /\ HasOver(g, D) /\ HasOver(h, D)

LEMMA Common ==
  ASSUME NEW a \in Rational, NEW b \in Rational, NEW c \in Rational, NEW d \in Rational,
         NEW e \in Rational, NEW f \in Rational, NEW g \in Rational, NEW h \in Rational
  PROVE  Shared(a, b, c, d, e, f, g, h)
<1> DEFINE t == [i \in 1..8 |-> CASE i = 1 -> a [] i = 2 -> b [] i = 3 -> c [] i = 4 -> d
                                  [] i = 5 -> e [] i = 6 -> f [] i = 7 -> g [] OTHER -> h]
<1>1. \A i \in 1..8 : t[i] \in Rational
  OBVIOUS
<1>2. /\ t[1] = a /\ t[2] = b /\ t[3] = c /\ t[4] = d
      /\ t[5] = e /\ t[6] = f /\ t[7] = g /\ t[8] = h
  OBVIOUS
<1>3. IsFiniteSet(1..8)
  <2>1. 1 \in Int /\ 8 \in Int
    OBVIOUS
  <2> QED  BY <2>1, FS_Interval
<1> HIDE DEF t
<1>4. PICK D \in Nat \ {0} : \E F : OneDenominator(t, 1..8, F, D)
  BY <1>1, <1>3, CommonOf
<1>5. \A i \in 1..8 : HasOver(t[i], D)
  BY <1>4 DEF OneDenominator, HasOver
<1>6. /\ HasOver(t[1], D) /\ HasOver(t[2], D) /\ HasOver(t[3], D) /\ HasOver(t[4], D)
      /\ HasOver(t[5], D) /\ HasOver(t[6], D) /\ HasOver(t[7], D) /\ HasOver(t[8], D)
  BY <1>5
<1> QED  BY <1>2, <1>6 DEF Shared

-----------------------------------------------------------------------------
(* The laws of arithmetic. *)

LEMMA Closed ==
  ASSUME NEW a \in Rational, NEW b \in Rational
  PROVE  /\ Plus(a, b) \in Rational /\ Minus(a, b) \in Rational /\ Product(a, b) \in Rational
         /\ b.n > 0 => Quotient(a, b) \in Rational
         /\ \A k \in Int : Times(k, a) \in Rational
<1>1. PICK x \in Int, y \in Nat \ {0}, z \in Int, w \in Nat \ {0} :
        a = Frac(x, y) /\ b = Frac(z, w) /\ x = a.n /\ y = a.d /\ z = b.n /\ w = b.d
  BY RationalFacts
<1>2. y * w \in Nat \ {0} /\ x * w + z * y \in Int /\ x * z \in Int /\ -z \in Int
      /\ x * w + (-z) * y \in Int
  <2>1. y * w > 0
    OBVIOUS
  <2> QED  BY <2>1
<1>3. Plus(a, b) \in Rational /\ Product(a, b) \in Rational
  <2>1. /\ Plus(a, b) = Frac(x * w + z * y, y * w)
        /\ Product(a, b) = Frac(x * z, y * w)
    <3>1. /\ Plus(Frac(x, y), Frac(z, w)) = Frac(x * w + z * y, y * w)
          /\ Product(Frac(x, y), Frac(z, w)) = Frac(x * z, y * w)
      BY RatioOps
    <3> QED  BY <1>1, <3>1
  <2> QED  BY <1>2, <2>1, FracRational
<1>4. Minus(a, b) \in Rational
  <2>1. Minus(a, b) = Plus(Frac(x, y), Frac(-z, w))
    BY <1>1, Negated DEF Minus
  <2>2. Plus(Frac(x, y), Frac(-z, w)) = Frac(x * w + (-z) * y, y * w)
    BY <1>2, RatioOps
  <2> QED  BY <1>2, <2>1, <2>2, FracRational
<1>5. ASSUME b.n > 0  PROVE Quotient(a, b) \in Rational
  <2>1. z \in Nat \ {0} /\ [n |-> w, d |-> z] \in Fraction
    BY <1>1, <1>5 DEF Fraction
  <2>2. Quotient(a, b) = Frac(x * w, y * z)
    <3>1. Product(a, [n |-> w, d |-> z]) = Frac(x * w, y * z)
      BY <1>1, <2>1, RationalFacts, ProductIs
    <3> QED  BY <1>1, <3>1 DEF Quotient
  <2>3. x * w \in Int /\ y * z \in Nat \ {0}
    <3>1. y * z > 0
      BY <2>1
    <3> QED  BY <2>1, <3>1
  <2> QED  BY <2>2, <2>3, FracRational
<1>6. ASSUME NEW k \in Int  PROVE Times(k, a) \in Rational
  <2>1. k * x \in Int
    OBVIOUS
  <2> QED  BY <1>1, <2>1, OverTimes, FracRational
<1> QED  BY <1>3, <1>4, <1>5, <1>6

(* Products and quotients. *)

LEMMA OverProduct ==
  ASSUME NEW D \in Nat \ {0}, NEW E \in Nat \ {0}, NEW A \in Int, NEW B \in Int
  PROVE  D * E \in Nat \ {0} /\ Product(Frac(A, D), Frac(B, E)) = Frac(A * B, D * E)
BY RatioOps

LEMMA ProductLaws ==
  ASSUME NEW a \in Rational, NEW b \in Rational, NEW c \in Rational
  PROVE  /\ Product(a, b) = Product(b, a)
         /\ Product(Product(a, b), c) = Product(a, Product(b, c))
         /\ Product(Plus(a, b), c) = Plus(Product(a, c), Product(b, c))
         /\ Product(Minus(a, b), c) = Minus(Product(a, c), Product(b, c))
<1>1. PICK D \in Nat \ {0}, A \in Int, B \in Int, C \in Int :
        a = Frac(A, D) /\ b = Frac(B, D) /\ c = Frac(C, D)
  <2>1. Shared(a, b, c, c, c, c, c, c)
    BY Common
  <2>2. PICK D \in Nat \ {0} : HasOver(a, D) /\ HasOver(b, D) /\ HasOver(c, D)
    BY <2>1 DEF Shared
  <2> QED  BY <2>2, OverFacts
<1>2. PICK S \in Nat \ {0}, T \in Nat \ {0} : S = D * D /\ T = S * D /\ T = D * S
  <2>1. PICK S \in Nat \ {0} : S = D * D
    <3>1. D * D > 0
      OBVIOUS
    <3> QED  BY <3>1
  <2>2. S * D > 0 /\ S * D = D * S
    OBVIOUS
  <2> QED  BY <2>1, <2>2
<1>3. PICK P \in Int, Q \in Int, R \in Int : P = A * B /\ Q = A * C /\ R = B * C
  OBVIOUS
<1>4. Product(a, b) = Frac(P, S) /\ Product(a, c) = Frac(Q, S) /\ Product(b, c) = Frac(R, S)
  <2>1. /\ Product(Frac(A, D), Frac(B, D)) = Frac(A * B, D * D)
        /\ Product(Frac(A, D), Frac(C, D)) = Frac(A * C, D * D)
        /\ Product(Frac(B, D), Frac(C, D)) = Frac(B * C, D * D)
    BY OverProduct
  <2> QED  BY <1>1, <1>2, <1>3, <2>1
<1>5. Product(a, b) = Product(b, a)
  <2>1. Product(Frac(B, D), Frac(A, D)) = Frac(B * A, D * D)
    BY OverProduct
  <2>2. B * A = P
    BY <1>3
  <2> QED  BY <1>1, <1>2, <1>4, <2>1, <2>2
<1>6. Product(Product(a, b), c) = Product(a, Product(b, c))
  <2>1. /\ Product(Frac(P, S), Frac(C, D)) = Frac(P * C, S * D)
        /\ Product(Frac(A, D), Frac(R, S)) = Frac(A * R, D * S)
    BY OverProduct
  <2>2. P * C = A * R
    <3>1. (A * B) * C = A * (B * C)
      OBVIOUS
    <3> QED  BY <1>3, <3>1
  <2> QED  BY <1>1, <1>2, <1>4, <2>1, <2>2
<1>7. Product(Plus(a, b), c) = Plus(Product(a, c), Product(b, c))
  <2>1. PICK U \in Int : U = A + B
    OBVIOUS
  <2>2. Plus(a, b) = Frac(U, D) /\ Plus(Frac(Q, S), Frac(R, S)) = Frac(Q + R, S)
    BY <1>1, <2>1, OverPlus
  <2>3. Product(Frac(U, D), Frac(C, D)) = Frac(U * C, D * D)
    BY OverProduct
  <2>4. U * C = Q + R
    BY <1>3, <2>1
  <2> QED  BY <1>1, <1>2, <1>4, <2>2, <2>3, <2>4
<1>8. Product(Minus(a, b), c) = Minus(Product(a, c), Product(b, c))
  <2>1. PICK U \in Int : U = A - B
    OBVIOUS
  <2>2. Minus(a, b) = Frac(U, D) /\ Minus(Frac(Q, S), Frac(R, S)) = Frac(Q - R, S)
    BY <1>1, <2>1, OverMinus
  <2>3. Product(Frac(U, D), Frac(C, D)) = Frac(U * C, D * D)
    BY OverProduct
  <2>4. U * C = Q - R
    BY <1>3, <2>1
  <2> QED  BY <1>1, <1>2, <1>4, <2>2, <2>3, <2>4
<1> QED  BY <1>5, <1>6, <1>7, <1>8

LEMMA QuotientLaw ==
  ASSUME NEW a \in Rational, NEW b \in Rational, b.n > 0
  PROVE  Quotient(a, b) \in Rational /\ Product(Quotient(a, b), b) = a
<1>1. PICK x \in Int, y \in Nat \ {0}, z \in Int, w \in Nat \ {0} :
        a = Frac(x, y) /\ b = Frac(z, w) /\ x = a.n /\ y = a.d /\ z = b.n /\ w = b.d
  BY RationalFacts
<1>2. z \in Nat \ {0} /\ [n |-> w, d |-> z] \in Fraction
  BY <1>1 DEF Fraction
<1>3. Quotient(a, b) = Frac(x * w, y * z)
  <2>1. Product(a, [n |-> w, d |-> z]) = Frac(x * w, y * z)
    BY <1>1, <1>2, RationalFacts, ProductIs
  <2> QED  BY <1>1, <2>1 DEF Quotient
<1>4. PICK P \in Int, Q \in Nat \ {0} : P = x * w /\ Q = y * z
  <2>1. y * z > 0
    BY <1>2
  <2> QED  BY <1>2, <2>1
<1>5. Product(Frac(P, Q), Frac(z, w)) = Frac(P * z, Q * w) /\ Q * w \in Nat \ {0}
  BY OverProduct
<1>6. PICK k \in Nat \ {0} : k = w * z
  <2>1. w * z > 0
    BY <1>2
  <2> QED  BY <1>2, <2>1
<1>7. P * z = k * x /\ Q * w = k * y
  <2>1. (x * w) * z = (w * z) * x /\ (y * z) * w = (w * z) * y
    OBVIOUS
  <2> QED  BY <1>4, <1>6, <2>1
<1>8. Frac(k * x, k * y) = Frac(x, y)
  BY FracScaled
<1>9. Quotient(a, b) \in Rational
  BY Closed
<1> QED  BY <1>1, <1>3, <1>4, <1>5, <1>7, <1>8, <1>9

LEMMA ProductSign ==
  ASSUME NEW a \in Rational, NEW b \in Rational
  PROVE  /\ a.n > 0 /\ b.n > 0 => Product(a, b).n > 0
         /\ a.n >= 0 /\ b.n >= 0 => Product(a, b).n >= 0
<1>1. PICK x \in Int, y \in Nat \ {0}, z \in Int, w \in Nat \ {0} :
        a = Frac(x, y) /\ b = Frac(z, w) /\ x = a.n /\ y = a.d /\ z = b.n /\ w = b.d
  BY RationalFacts
<1>2. PICK P \in Int, Q \in Nat \ {0} : P = x * z /\ Q = y * w /\ Product(a, b) = Frac(P, Q)
  <2>1. Product(Frac(x, y), Frac(z, w)) = Frac(x * z, y * w)
    BY OverProduct
  <2>2. y * w > 0
    OBVIOUS
  <2> QED  BY <1>1, <2>1, <2>2
<1>3. /\ Frac(P, Q).n \in Int
      /\ Frac(P, Q).n > 0 <=> P > 0
      /\ Frac(P, Q).n < 0 <=> P < 0
  BY SignOf
<1>4. (x > 0 /\ z > 0 => P > 0) /\ (x >= 0 /\ z >= 0 => P >= 0)
  BY <1>2
<1> QED  BY <1>1, <1>2, <1>3, <1>4

LEMMA QuotientSign ==
  ASSUME NEW a \in Rational, NEW b \in Rational, b.n > 0
  PROVE  /\ a.n > 0 => Quotient(a, b).n > 0
         /\ a.n >= 0 => Quotient(a, b).n >= 0
<1>1. PICK x \in Int, y \in Nat \ {0}, z \in Int, w \in Nat \ {0} :
        a = Frac(x, y) /\ b = Frac(z, w) /\ x = a.n /\ y = a.d /\ z = b.n /\ w = b.d
  BY RationalFacts
<1>2. z \in Nat \ {0} /\ [n |-> w, d |-> z] \in Fraction
  BY <1>1 DEF Fraction
<1>3. Quotient(a, b) = Frac(x * w, y * z)
  <2>1. Product(a, [n |-> w, d |-> z]) = Frac(x * w, y * z)
    BY <1>1, <1>2, RationalFacts, ProductIs
  <2> QED  BY <1>1, <2>1 DEF Quotient
<1>4. PICK P \in Int, Q \in Nat \ {0} : P = x * w /\ Q = y * z
  <2>1. y * z > 0
    BY <1>2
  <2> QED  BY <1>2, <2>1
<1>5. /\ Frac(P, Q).n \in Int
      /\ Frac(P, Q).n > 0 <=> P > 0
      /\ Frac(P, Q).n < 0 <=> P < 0
  BY SignOf
<1>6. (x > 0 => P > 0) /\ (x >= 0 => P >= 0)
  BY <1>4
<1>7. Quotient(a, b) = Frac(P, Q)
  BY <1>3, <1>4
<1> QED  BY <1>1, <1>5, <1>6, <1>7

-----------------------------------------------------------------------------
(* Sums over finite sets that are linear in other sums. *)

Linear(f, g, h, S, k, l, c) ==
    \A x \in S : f[x] \in Int /\ g[x] \in Int /\ h[x] = k * f[x] + l * g[x] + c

LEMMA SumLinear ==
  ASSUME NEW S, IsFiniteSet(S), NEW f, NEW g, NEW h,
         NEW k \in Int, NEW l \in Int, NEW c \in Int, Linear(f, g, h, S, k, l, c)
  PROVE  SumFunctionOnSet(h, S) =
           k * SumFunctionOnSet(f, S) + l * SumFunctionOnSet(g, S) + c * Cardinality(S)
<1> DEFINE Total(s) == SumFunctionOnSet(h, s) =
             k * SumFunctionOnSet(f, s) + l * SumFunctionOnSet(g, s) + c * Cardinality(s)
           T == {n \in Nat : \A s \in SUBSET S : Cardinality(s) = n => Total(s)}
<1>1. \A s \in SUBSET S : IsFiniteSet(s)
  BY FS_Subset
<1> USE DEF Linear
<1>2. 0 \in T
  <2>1. ASSUME NEW s \in SUBSET S, Cardinality(s) = 0  PROVE Total(s)
    <3>1. s = {}
      BY <1>1, <2>1, FS_EmptySet
    <3> QED  BY <2>1, <3>1, SumOfNone
  <2> QED  BY <2>1
<1>3. ASSUME NEW n \in Nat, n \in T  PROVE n + 1 \in T
  <2>1. ASSUME NEW s \in SUBSET S, Cardinality(s) = n + 1
        PROVE  Total(s)
    <3>1. PICK x \in s : TRUE
      BY <2>1, FS_EmptySet
    <3>2. IsFiniteSet(s \ {x}) /\ Cardinality(s \ {x}) = n
      <4>1. Cardinality(s \ {x}) = (n + 1) - 1
        BY <1>1, <2>1, <3>1, Smaller1
      <4> QED  BY <1>1, <4>1
    <3>3. \A y \in S : h[y] \in Int
      OBVIOUS
    <3>4. /\ SumFunctionOnSet(f, s) = f[x] + SumFunctionOnSet(f, s \ {x})
          /\ SumFunctionOnSet(g, s) = g[x] + SumFunctionOnSet(g, s \ {x})
          /\ SumFunctionOnSet(h, s) = h[x] + SumFunctionOnSet(h, s \ {x})
      BY <1>1, <3>1, <3>3, SumTake
    <3>5. PICK F \in Int, G \in Int, H \in Int :
            /\ F = SumFunctionOnSet(f, s \ {x}) /\ G = SumFunctionOnSet(g, s \ {x})
            /\ H = SumFunctionOnSet(h, s \ {x})
      <4>1. /\ SumFunctionOnSet(f, s \ {x}) \in Int /\ SumFunctionOnSet(g, s \ {x}) \in Int
            /\ SumFunctionOnSet(h, s \ {x}) \in Int
        BY <3>2, <3>3, SumInt
      <4> QED  BY <4>1
    <3>6. H = k * F + l * G + c * n
      <4>1. s \ {x} \in SUBSET S
        OBVIOUS
      <4>2. Total(s \ {x})
        BY <1>3, <3>2, <4>1
      <4> QED  BY <3>2, <3>5, <4>2
    <3>7. PICK a \in Int, b \in Int : a = f[x] /\ b = g[x] /\ h[x] = k * a + l * b + c
      BY <3>1
    <3>8. (k * a + l * b + c) + (k * F + l * G + c * n) = k * (a + F) + l * (b + G) + c * (n + 1)
      OBVIOUS
    <3> QED  BY <2>1, <3>4, <3>5, <3>6, <3>7, <3>8
  <2> QED  BY <2>1
<1>4. Cardinality(S) \in T
  <2> HIDE DEF T
  <2> QED  BY <1>2, <1>3, InductionOnNat, FS_CardinalityType
<1> QED  BY <1>4
-----------------------------------------------------------------------------
(* Sums of fractions. *)

(* x is the sum of f over S. *)
Adds(f, S, x) ==
    \E D \in Nat \ {0} : \E F :
        OneDenominator(f, S, F, D) /\ x = Frac(SumFunctionOnSet(F, S), D)

(* The recursive function of SumOver. *)
FracSums(f, S, sum) ==
    sum = [s \in SUBSET S |->
             IF s = {} THEN Whole(0) ELSE Plus(f[SomeOf(s)], sum[s \ {SomeOf(s)}])]

LEMMA FracSumsExist ==
  ASSUME NEW S, IsFiniteSet(S), NEW f, \A u \in S : f[u] \in Rational
  PROVE  \E sum : FracSums(f, S, sum)
<1>1. PICK D \in Nat \ {0} : \E F : OneDenominator(f, S, F, D)
  BY CommonOf
<1>2. PICK F : OneDenominator(f, S, F, D)
  BY <1>1
<1> DEFINE sum == [s \in SUBSET S |-> Frac(SumFunctionOnSet(F, s), D)]
<1>3. ASSUME NEW s \in SUBSET S
      PROVE  sum[s] = IF s = {} THEN Whole(0) ELSE Plus(f[SomeOf(s)], sum[s \ {SomeOf(s)}])
  <2>1. CASE s = {}
    <3>1. sum[s] = Frac(0, D)
      BY <2>1, SumOfNone
    <3>2. Whole(0) = Frac(0 * D, D) /\ 0 * D = 0
      BY OverWhole
    <3> HIDE DEF sum
    <3> QED  BY <2>1, <3>1, <3>2
  <2>2. CASE s # {}
    <3>1. PICK x : x = SomeOf(s) /\ x \in s /\ x \in S /\ IsFiniteSet(s)
      BY <2>2, AnyMember, FS_Subset
    <3>2. SumFunctionOnSet(F, s) = F[x] + SumFunctionOnSet(F, s \ {x})
      BY <2>2, <3>1, SumOfAny
    <3>3. F[x] \in Int /\ f[x] = Frac(F[x], D) /\ SumFunctionOnSet(F, s \ {x}) \in Int
      <4>1. IsFiniteSet(s \ {x}) /\ \A y \in s \ {x} : F[y] \in Int
        BY <1>2, <3>1, FS_Subset DEF OneDenominator
      <4>2. SumFunctionOnSet(F, s \ {x}) \in Int
        BY <4>1, SumInt
      <4> QED  BY <1>2, <3>1, <4>2 DEF OneDenominator
    <3>4. sum[s \ {x}] = Frac(SumFunctionOnSet(F, s \ {x}), D)
      OBVIOUS
    <3>5. sum[s] = Frac(SumFunctionOnSet(F, s), D)
      OBVIOUS
    <3>6. Plus(Frac(F[x], D), Frac(SumFunctionOnSet(F, s \ {x}), D)) =
            Frac(F[x] + SumFunctionOnSet(F, s \ {x}), D)
      BY <3>3, OverPlus
    <3> HIDE DEF sum
    <3> QED  BY <2>2, <3>1, <3>2, <3>3, <3>4, <3>5, <3>6
  <2> QED  BY <2>1, <2>2
<1>4. FracSums(f, S, sum)
  <2>1. sum = [s \in SUBSET S |-> sum[s]]
    OBVIOUS
  <2> HIDE DEF sum
  <2> QED  BY <1>3, <2>1 DEF FracSums
<1> QED  BY <1>4

LEMMA FracSumsAdd ==
  ASSUME NEW S, IsFiniteSet(S), NEW f, NEW sum, FracSums(f, S, sum),
         NEW x, Adds(f, S, x)
  PROVE  sum[S] = x
<1>1. PICK D \in Nat \ {0} : \E F :
        OneDenominator(f, S, F, D) /\ x = Frac(SumFunctionOnSet(F, S), D)
  BY DEF Adds
<1>2. PICK F : OneDenominator(f, S, F, D) /\ x = Frac(SumFunctionOnSet(F, S), D)
  BY <1>1
<1> DEFINE T == {n \in Nat : \A s \in SUBSET S :
                   Cardinality(s) = n => sum[s] = Frac(SumFunctionOnSet(F, s), D)}
<1>3. \A s \in SUBSET S : IsFiniteSet(s)
  BY FS_Subset
<1>4. \A s \in SUBSET S :
        sum[s] = IF s = {} THEN Whole(0) ELSE Plus(f[SomeOf(s)], sum[s \ {SomeOf(s)}])
  BY DEF FracSums
<1>5. 0 \in T
  <2>1. ASSUME NEW s \in SUBSET S, Cardinality(s) = 0
        PROVE  sum[s] = Frac(SumFunctionOnSet(F, s), D)
    <3>1. s = {}
      BY <1>3, <2>1, FS_EmptySet
    <3>2. Whole(0) = Frac(0 * D, D) /\ 0 * D = 0
      BY OverWhole
    <3> QED  BY <1>4, <3>1, <3>2, SumOfNone
  <2> QED  BY <2>1
<1>6. ASSUME NEW n \in Nat, n \in T  PROVE n + 1 \in T
  <2>1. ASSUME NEW s \in SUBSET S, Cardinality(s) = n + 1
        PROVE  sum[s] = Frac(SumFunctionOnSet(F, s), D)
    <3>1. s # {}
      BY <2>1, FS_EmptySet
    <3>2. PICK y : y = SomeOf(s) /\ y \in s /\ y \in S
      BY <3>1, AnyMember
    <3>3. IsFiniteSet(s \ {y}) /\ Cardinality(s \ {y}) = n /\ s \ {y} \in SUBSET S
      <4>1. Cardinality(s \ {y}) = (n + 1) - 1
        BY <1>3, <2>1, <3>2, Smaller1
      <4> QED  BY <1>3, <4>1
    <3>4. sum[s \ {y}] = Frac(SumFunctionOnSet(F, s \ {y}), D)
      BY <1>6, <3>3
    <3>5. F[y] \in Int /\ f[y] = Frac(F[y], D) /\ SumFunctionOnSet(F, s \ {y}) \in Int
      <4>1. \A z \in s \ {y} : F[z] \in Int
        BY <1>2 DEF OneDenominator
      <4>2. SumFunctionOnSet(F, s \ {y}) \in Int
        BY <3>3, <4>1, SumInt
      <4> QED  BY <1>2, <3>2, <4>2 DEF OneDenominator
    <3>6. Plus(Frac(F[y], D), Frac(SumFunctionOnSet(F, s \ {y}), D)) =
            Frac(F[y] + SumFunctionOnSet(F, s \ {y}), D)
      BY <3>5, OverPlus
    <3>7. SumFunctionOnSet(F, s) = F[y] + SumFunctionOnSet(F, s \ {y})
      BY <1>3, <3>1, <3>2, SumOfAny
    <3> QED  BY <1>4, <3>1, <3>2, <3>4, <3>5, <3>6, <3>7
  <2> QED  BY <2>1
<1>7. Cardinality(S) \in T
  <2> HIDE DEF T
  <2> QED  BY <1>5, <1>6, InductionOnNat, FS_CardinalityType
<1> QED  BY <1>2, <1>7

LEMMA SumScaled ==
  ASSUME NEW S, IsFiniteSet(S), NEW f, NEW h, NEW k \in Int,
         \A x \in S : f[x] \in Int /\ h[x] = k * f[x]
  PROVE  SumFunctionOnSet(h, S) = k * SumFunctionOnSet(f, S)
<1>1. Linear(f, f, h, S, k, 0, 0)
  BY DEF Linear
<1>2. SumFunctionOnSet(h, S) =
        k * SumFunctionOnSet(f, S) + 0 * SumFunctionOnSet(f, S) + 0 * Cardinality(S)
  BY <1>1, SumLinear
<1>3. SumFunctionOnSet(f, S) \in Int /\ Cardinality(S) \in Nat
  BY SumInt, FS_CardinalityType
<1> QED  BY <1>2, <1>3

(* A finer denominator does as well. *)
LEMMA AddsFiner ==
  ASSUME NEW S, IsFiniteSet(S), NEW f, NEW F, NEW D \in Nat \ {0},
         OneDenominator(f, S, F, D), NEW k \in Nat \ {0}
  PROVE  /\ k * D \in Nat \ {0}
         /\ OneDenominator(f, S, [u \in S |-> k * F[u]], k * D)
         /\ SumFunctionOnSet(F, S) \in Int
         /\ SumFunctionOnSet([u \in S |-> k * F[u]], S) = k * SumFunctionOnSet(F, S)
         /\ Frac(SumFunctionOnSet(F, S), D) = Frac(k * SumFunctionOnSet(F, S), k * D)
<1> DEFINE G == [u \in S |-> k * F[u]]
<1>1. k * D \in Nat \ {0}
  <2>1. k * D > 0
    OBVIOUS
  <2> QED  BY <2>1
<1>2. ASSUME NEW u \in S  PROVE G[u] = k * F[u] /\ G[u] \in Int /\ f[u] = Frac(G[u], k * D)
  <2>1. PICK n \in Int : n = F[u] /\ f[u] = Frac(n, D)
    BY DEF OneDenominator
  <2>2. Frac(k * n, k * D) = Frac(n, D)
    BY FracScaled
  <2>3. k * n \in Int
    OBVIOUS
  <2> QED  BY <2>1, <2>2, <2>3
<1> HIDE DEF G
<1>3. SumFunctionOnSet(F, S) \in Int
  BY SumInt DEF OneDenominator
<1>4. SumFunctionOnSet(G, S) = k * SumFunctionOnSet(F, S)
  <2>1. \A u \in S : F[u] \in Int /\ G[u] = k * F[u]
    BY <1>2 DEF OneDenominator
  <2> QED  BY <2>1, SumScaled
<1>5. Frac(SumFunctionOnSet(F, S), D) = Frac(k * SumFunctionOnSet(F, S), k * D)
  BY <1>3, FracScaled
<1> QED  BY <1>1, <1>2, <1>3, <1>4, <1>5 DEF G, OneDenominator

LEMMA AddsConstant ==
  ASSUME NEW S, IsFiniteSet(S), NEW f, NEW a \in Rational, \A u \in S : f[u] = a
  PROVE  Adds(f, S, Times(Cardinality(S), a))
<1>1. PICK n \in Int, D \in Nat \ {0} : a = Frac(n, D)
  BY RationalFacts
<1> DEFINE F == [u \in S |-> n]
<1>2. OneDenominator(f, S, F, D)
  BY <1>1 DEF OneDenominator
<1>3. Linear(F, F, F, S, 0, 0, n) /\ \A u \in S : F[u] \in Int
  BY DEF Linear
<1> HIDE DEF F
<1>4. SumFunctionOnSet(F, S) =
        0 * SumFunctionOnSet(F, S) + 0 * SumFunctionOnSet(F, S) + n * Cardinality(S)
  BY <1>3, SumLinear
<1>5. SumFunctionOnSet(F, S) \in Int /\ Cardinality(S) \in Nat
  BY <1>3, SumInt, FS_CardinalityType
<1>6. SumFunctionOnSet(F, S) = Cardinality(S) * n
  BY <1>4, <1>5
<1>7. Times(Cardinality(S), a) = Frac(Cardinality(S) * n, D)
  <2>1. PICK c \in Int : c = Cardinality(S)
    BY <1>5
  <2> QED  BY <1>1, <2>1, OverTimes
<1> QED  BY <1>2, <1>6, <1>7 DEF Adds

LEMMA AddsRational ==
  ASSUME NEW S, IsFiniteSet(S), NEW f, NEW x, Adds(f, S, x)
  PROVE  x \in Rational
<1>1. PICK D \in Nat \ {0} : \E F :
        OneDenominator(f, S, F, D) /\ x = Frac(SumFunctionOnSet(F, S), D)
  BY DEF Adds
<1>2. PICK F : OneDenominator(f, S, F, D) /\ x = Frac(SumFunctionOnSet(F, S), D)
  BY <1>1
<1>3. SumFunctionOnSet(F, S) \in Int
  BY <1>2, SumInt DEF OneDenominator
<1> QED  BY <1>2, <1>3, FracRational

(* One term changes. *)
LEMMA AddsChanged ==
  ASSUME NEW S, IsFiniteSet(S), NEW f, NEW g, NEW x, Adds(f, S, x),
         NEW v \in S, g[v] \in Rational, \A u \in S : u # v => g[u] = f[u]
  PROVE  Adds(g, S, Plus(x, Minus(g[v], f[v])))
<1>1. PICK D \in Nat \ {0} : \E F :
        OneDenominator(f, S, F, D) /\ x = Frac(SumFunctionOnSet(F, S), D)
  BY DEF Adds
<1>2. PICK F : OneDenominator(f, S, F, D) /\ x = Frac(SumFunctionOnSet(F, S), D)
  BY <1>1
<1>3. PICK m \in Int, k \in Nat \ {0} : g[v] = Frac(m, k)
  BY RationalFacts
<1> DEFINE G == [u \in S |-> k * F[u]]
<1>4. PICK E \in Nat \ {0} : E = k * D
  BY <1>2, AddsFiner
<1>5. PICK s \in Int : s = SumFunctionOnSet(G, S) /\ x = Frac(s, E) /\ OneDenominator(f, S, G, E)
  <2>1. /\ OneDenominator(f, S, G, k * D)
        /\ SumFunctionOnSet(F, S) \in Int
        /\ SumFunctionOnSet(G, S) = k * SumFunctionOnSet(F, S)
        /\ Frac(SumFunctionOnSet(F, S), D) = Frac(k * SumFunctionOnSet(F, S), k * D)
    BY <1>2, AddsFiner
  <2>2. k * SumFunctionOnSet(F, S) \in Int
    BY <2>1
  <2> HIDE DEF G
  <2> QED  BY <1>2, <1>4, <2>1, <2>2
<1> HIDE DEF G
<1>6. PICK p \in Int : p = D * m /\ g[v] = Frac(p, E)
  <2>1. Frac(D * m, D * k) = Frac(m, k)
    BY FracScaled
  <2>2. D * k = k * D /\ D * m \in Int
    OBVIOUS
  <2> QED  BY <1>3, <1>4, <2>1, <2>2
<1>7. PICK q \in Int : q = G[v] /\ f[v] = Frac(q, E)
  BY <1>5 DEF OneDenominator
<1> DEFINE H == [u \in S |-> IF u = v THEN p ELSE G[u]]
<1>8. OneDenominator(g, S, H, E)
  BY <1>5, <1>6 DEF OneDenominator
<1>9. H[v] = p /\ \A u \in S : G[u] \in Int /\ (u # v => H[u] = G[u])
  BY <1>5 DEF OneDenominator
<1> HIDE DEF H
<1>10. SumFunctionOnSet(H, S) = s - q + p
  BY <1>5, <1>7, <1>9, SumChanged
<1>11. Plus(x, Minus(g[v], f[v])) = Frac(s - q + p, E)
  <2>1. Minus(Frac(p, E), Frac(q, E)) = Frac(p - q, E)
    BY OverMinus
  <2>2. p - q \in Int /\ s + (p - q) = s - q + p
    OBVIOUS
  <2>3. Plus(Frac(s, E), Frac(p - q, E)) = Frac(s + (p - q), E)
    BY <2>2, OverPlus
  <2> QED  BY <1>5, <1>6, <1>7, <2>1, <2>2, <2>3
<1> QED  BY <1>8, <1>10, <1>11 DEF Adds

(* The sum of multiples, term by term. *)
LEMMA AddsLinear ==
  ASSUME NEW S, IsFiniteSet(S), NEW f, NEW g, NEW h, NEW x, Adds(f, S, x),
         NEW y, Adds(g, S, y), NEW k \in Int, NEW l \in Int,
         \A u \in S : h[u] = Plus(Times(k, f[u]), Times(l, g[u]))
  PROVE  Adds(h, S, Plus(Times(k, x), Times(l, y)))
<1>1. PICK D \in Nat \ {0} : \E F :
        OneDenominator(f, S, F, D) /\ x = Frac(SumFunctionOnSet(F, S), D)
  BY DEF Adds
<1>2. PICK F : OneDenominator(f, S, F, D) /\ x = Frac(SumFunctionOnSet(F, S), D)
  BY <1>1
<1>3. PICK E \in Nat \ {0} : \E G :
        OneDenominator(g, S, G, E) /\ y = Frac(SumFunctionOnSet(G, S), E)
  BY DEF Adds
<1>4. PICK G : OneDenominator(g, S, G, E) /\ y = Frac(SumFunctionOnSet(G, S), E)
  BY <1>3
<1> DEFINE F2 == [u \in S |-> E * F[u]]
           G2 == [u \in S |-> D * G[u]]
<1>5. PICK C \in Nat \ {0} : C = E * D /\ C = D * E
  <2>1. E * D > 0 /\ E * D = D * E
    OBVIOUS
  <2> QED  BY <2>1
<1>6. PICK s \in Int : s = SumFunctionOnSet(F2, S) /\ x = Frac(s, C) /\ OneDenominator(f, S, F2, C)
  <2>1. /\ OneDenominator(f, S, F2, E * D)
        /\ SumFunctionOnSet(F, S) \in Int
        /\ SumFunctionOnSet(F2, S) = E * SumFunctionOnSet(F, S)
        /\ Frac(SumFunctionOnSet(F, S), D) = Frac(E * SumFunctionOnSet(F, S), E * D)
    BY <1>2, AddsFiner
  <2>2. E * SumFunctionOnSet(F, S) \in Int
    BY <2>1
  <2> HIDE DEF F2
  <2> QED  BY <1>2, <1>5, <2>1, <2>2
<1>7. PICK t \in Int : t = SumFunctionOnSet(G2, S) /\ y = Frac(t, C) /\ OneDenominator(g, S, G2, C)
  <2>1. /\ OneDenominator(g, S, G2, D * E)
        /\ SumFunctionOnSet(G, S) \in Int
        /\ SumFunctionOnSet(G2, S) = D * SumFunctionOnSet(G, S)
        /\ Frac(SumFunctionOnSet(G, S), E) = Frac(D * SumFunctionOnSet(G, S), D * E)
    BY <1>4, AddsFiner
  <2>2. D * SumFunctionOnSet(G, S) \in Int
    BY <2>1
  <2> HIDE DEF G2
  <2> QED  BY <1>4, <1>5, <2>1, <2>2
<1> HIDE DEF F2, G2
<1>8. ASSUME NEW m \in Int, NEW n \in Int
      PROVE  Plus(Times(k, Frac(m, C)), Times(l, Frac(n, C))) = Frac(k * m + l * n, C)
  <2>1. PICK p \in Int, q \in Int : p = k * m /\ q = l * n
    OBVIOUS
  <2>2. Times(k, Frac(m, C)) = Frac(p, C) /\ Times(l, Frac(n, C)) = Frac(q, C)
    BY <2>1, OverTimes
  <2>3. Plus(Frac(p, C), Frac(q, C)) = Frac(p + q, C)
    BY OverPlus
  <2> QED  BY <2>1, <2>2, <2>3
<1> DEFINE H == [u \in S |-> k * F2[u] + l * G2[u] + 0]
<1>9. \A u \in S : F2[u] \in Int /\ G2[u] \in Int /\ H[u] = k * F2[u] + l * G2[u] + 0
  BY <1>6, <1>7 DEF OneDenominator
<1>10. OneDenominator(h, S, H, C)
  <2> SUFFICES ASSUME NEW u \in S  PROVE H[u] \in Int /\ h[u] = Frac(H[u], C)
    BY DEF OneDenominator
  <2>1. PICK m \in Int, n \in Int :
          m = F2[u] /\ n = G2[u] /\ f[u] = Frac(m, C) /\ g[u] = Frac(n, C)
    BY <1>6, <1>7 DEF OneDenominator
  <2>2. H[u] = k * m + l * n /\ H[u] \in Int
    BY <1>9, <2>1
  <2>3. h[u] = Plus(Times(k, f[u]), Times(l, g[u]))
    OBVIOUS
  <2>4. Plus(Times(k, Frac(m, C)), Times(l, Frac(n, C))) = Frac(k * m + l * n, C)
    BY <1>8
  <2> HIDE DEF H
  <2> QED  BY <2>1, <2>2, <2>3, <2>4
<1> HIDE DEF H
<1>11. SumFunctionOnSet(H, S) = k * s + l * t
  <2>1. SumFunctionOnSet(H, S) =
          k * SumFunctionOnSet(F2, S) + l * SumFunctionOnSet(G2, S) + 0 * Cardinality(S)
    <3>1. Linear(F2, G2, H, S, k, l, 0)
      BY <1>9 DEF Linear
    <3> QED  BY <3>1, SumLinear
  <2>2. Cardinality(S) \in Nat
    BY FS_CardinalityType
  <2> QED  BY <1>6, <1>7, <2>1, <2>2
<1> QED  BY <1>6, <1>7, <1>8, <1>10, <1>11 DEF Adds
=============================================================================
