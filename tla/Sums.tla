-------------------------------- MODULE Sums --------------------------------
(***************************************************************************)
(* Sums of a function over a finite set, for the books of finance and the  *)
(* bounds of sign-in: what SumFunction of the module Functions is when an  *)
(* element is added, and that a sum is no larger than another into which   *)
(* its terms are mapped one by one.                                        *)
(*                                                                         *)
(* SumFunction is defined by recursion on the subsets of the domain.  That *)
(* the recursion has a solution, and that the order in which elements are  *)
(* chosen does not matter, is proved by induction on sets, taken from the  *)
(* theorem that a well-founded relation has minimal elements: it takes a   *)
(* set where other induction theorems take an operator.                    *)
(***************************************************************************)
EXTENDS Functions, FiniteSetTheorems, WellFoundedInduction, TLAPS

-----------------------------------------------------------------------------
(* Induction, of a set that is closed under it.                            *)

\* A set of subsets of S that has T when it has the strict subsets of T has
\* them all.
LEMMA SubsetInduction ==
  ASSUME NEW S, IsFiniteSet(S), NEW G,
         \A T \in SUBSET S : (\A U \in SUBSET T : U # T => U \in G) => T \in G
  PROVE  \A T \in SUBSET S : T \in G
  <1>. DEFINE Bad == {T \in SUBSET S : T \notin G}
  <1>1. SUFFICES ASSUME Bad # {}  PROVE FALSE
    OBVIOUS
  <1>2. IsWellFoundedOn(StrictSubsetOrdering(S), SUBSET S)
    BY FS_StrictSubsetOrderingWellFounded, FS_FiniteSubsetsOfFinite
  <1>3. Bad \subseteq SUBSET S
    OBVIOUS
  <1>. HIDE DEF Bad
  <1>4. PICK T \in Bad : \A U \in Bad : ~(<<U, T>> \in StrictSubsetOrdering(S))
    BY <1>1, <1>2, <1>3, WFMin
  <1>5. T \in SUBSET S /\ T \notin G
    BY DEF Bad
  <1>6. ASSUME NEW U \in SUBSET T, U # T  PROVE U \in G
    <2>1. U \in SUBSET S /\ <<U, T>> \in StrictSubsetOrdering(S)
      BY <1>5, <1>6 DEF StrictSubsetOrdering
    <2>. QED  BY <1>4, <2>1 DEF Bad
  <1>. QED  BY <1>5, <1>6

\* One that has the empty set and may be given one more element has S.
LEMMA SetInduction ==
  ASSUME NEW S, IsFiniteSet(S), NEW G, {} \in G,
         \A T \in SUBSET S : \A x \in S \ T : T \in G => T \union {x} \in G
  PROVE  S \in G
  <1>1. ASSUME NEW T \in SUBSET S, \A U \in SUBSET T : U # T => U \in G  PROVE T \in G
    <2>1. CASE T = {}
      BY <2>1
    <2>2. CASE T # {}
      <3>1. PICK x : x \in T
        BY <2>2
      <3>2. T \ {x} \in SUBSET T /\ T \ {x} # T
        BY <3>1
      <3>3. T \ {x} \in SUBSET S /\ x \in S \ (T \ {x}) /\ T = (T \ {x}) \union {x}
        BY <3>1
      <3>4. T \ {x} \in G
        BY <1>1, <3>2
      <3>5. (T \ {x}) \union {x} \in G
        BY <3>3, <3>4
      <3>. QED  BY <3>3, <3>5
    <2>. QED  BY <2>1, <2>2
  <1>. QED  BY <1>1, SubsetInduction

Less == OpToRel(<, Nat)

LEMMA LessIsLess == IsWellFoundedOn(Less, Nat) /\ \A m, n \in Nat : <<m, n>> \in Less <=> m < n
  <1>1. Less = {mn \in Nat \X Nat : mn[1] < mn[2]}
    BY DEF Less, OpToRel
  <1>2. IsWellFoundedOn(Less, Nat)
    BY NatLessThanWellFounded DEF Less
  <1>. QED  BY <1>1, <1>2

\* A set that has 0 and the successors of its members has every natural number.
LEMMA NumberInduction ==
  ASSUME NEW G, 0 \in G, \A n \in Nat : n \in G => n + 1 \in G
  PROVE  \A n \in Nat : n \in G
  <1>. DEFINE Bad == {n \in Nat : n \notin G}
  <1>1. SUFFICES ASSUME Bad # {}  PROVE FALSE
    OBVIOUS
  <1>2. Bad \subseteq Nat
    OBVIOUS
  <1>. HIDE DEF Bad
  <1>3. PICK n \in Bad : \A m \in Bad : ~(<<m, n>> \in Less)
    <2>1. IsWellFoundedOn(Less, Nat)
      BY LessIsLess
    <2>. QED  BY <1>1, <1>2, <2>1, WFMin
  <1>4. n \in Nat /\ n \notin G
    BY DEF Bad
  <1>5. n - 1 \in Nat /\ n - 1 < n
    BY <1>4
  <1>6. n - 1 \in G
    BY <1>3, <1>4, <1>5, LessIsLess DEF Bad
  <1>. QED  BY <1>4, <1>5, <1>6

-----------------------------------------------------------------------------
(* The recursion.                                                          *)

First(s) == CHOOSE x \in s : TRUE

\* The recursion's body: the sum over s when g has the sums over smaller sets.
Unrolled(f, g, s) == IF s = {} THEN 0 ELSE f[First(s)] + g[s \ {First(s)}]

\* g has the sums of f over the subsets of S.
HasSums(g, f, S) == g = [s \in SUBSET S |-> Unrolled(f, g, s)]

LEMMA SumIsChosen ==
  ASSUME NEW f, NEW S
  PROVE  SumFunctionOnSet(f, S) = (CHOOSE g : HasSums(g, f, S))[S]
  BY DEF SumFunctionOnSet, FoldFunctionOnSet, MapThenFoldSet, HasSums, Unrolled, First

LEMMA FirstIsMember ==
  ASSUME NEW s, s # {}
  PROVE  First(s) \in s
  BY DEF First

\* There are sums, up to any number of elements.
LEMMA SumsExist ==
  ASSUME NEW S, IsFiniteSet(S), NEW f, \A x \in S : f[x] \in Int
  PROVE  \E g : HasSums(g, f, S)
  <1>. DEFINE Upto(n) == \E g \in [SUBSET S -> Int] :
                \A s \in SUBSET S : Cardinality(s) <= n => g[s] = Unrolled(f, g, s)
              G == {n \in Nat : Upto(n)}
  <1>0. \A s \in SUBSET S : IsFiniteSet(s) /\ Cardinality(s) \in Nat /\ (Cardinality(s) = 0 <=> s = {})
    BY FS_Subset, FS_CardinalityType, FS_EmptySet
  <1>1. 0 \in G
    <2>. DEFINE g == [s \in SUBSET S |-> 0]
    <2>1. g \in [SUBSET S -> Int]
      OBVIOUS
    <2>2. \A s \in SUBSET S : Cardinality(s) <= 0 => g[s] = Unrolled(f, g, s)
      BY <1>0 DEF Unrolled
    <2>. QED  BY <2>1, <2>2
  <1>2. ASSUME NEW n \in Nat, n \in G  PROVE n + 1 \in G
    <2>1. PICK g \in [SUBSET S -> Int] : \A s \in SUBSET S : Cardinality(s) <= n => g[s] = Unrolled(f, g, s)
      BY <1>2
    <2>2. \A s \in SUBSET S : s # {} =>
            /\ First(s) \in s /\ s \ {First(s)} \in SUBSET S
            /\ Cardinality(s \ {First(s)}) = Cardinality(s) - 1
      BY <1>0, FirstIsMember, FS_RemoveElement
    <2>. DEFINE h == [s \in SUBSET S |-> IF Cardinality(s) <= n THEN g[s] ELSE Unrolled(f, g, s)]
    <2>3. \A s \in SUBSET S : Unrolled(f, g, s) \in Int
      <3>. SUFFICES ASSUME NEW s \in SUBSET S, s # {}  PROVE f[First(s)] + g[s \ {First(s)}] \in Int
        BY DEF Unrolled
      <3>1. First(s) \in S /\ s \ {First(s)} \in SUBSET S
        BY <2>2
      <3>. QED  BY <3>1
    <2>4. h \in [SUBSET S -> Int]
      BY <2>3
    <2>5. ASSUME NEW s \in SUBSET S, Cardinality(s) <= n + 1  PROVE h[s] = Unrolled(f, h, s)
      <3>1. h[s] = Unrolled(f, g, s)
        BY <2>1
      <3>2. s # {} => h[s \ {First(s)}] = g[s \ {First(s)}]
        <4>1. s # {} => Cardinality(s \ {First(s)}) <= n
          BY <1>0, <2>2, <2>5
        <4>. QED  BY <4>1, <2>2
      <3>. QED  BY <3>1, <3>2 DEF Unrolled
    <2>6. Upto(n + 1)
      BY <2>4, <2>5
    <2>. QED  BY <2>6
  <1>. HIDE DEF G
  <1>3. Cardinality(S) \in Nat /\ Cardinality(S) \in G
    BY <1>0, <1>1, <1>2, NumberInduction
  <1>4. PICK g \in [SUBSET S -> Int] : \A s \in SUBSET S : Cardinality(s) <= Cardinality(S) => g[s] = Unrolled(f, g, s)
    BY <1>3 DEF G
  <1>5. \A s \in SUBSET S : Cardinality(s) <= Cardinality(S)
    BY FS_Subset
  <1>6. HasSums(g, f, S)
    BY <1>4, <1>5 DEF HasSums
  <1>. QED  BY <1>6

LEMMA SumsAreThere ==
  ASSUME NEW S, IsFiniteSet(S), NEW f, \A x \in S : f[x] \in Int
  PROVE  \E g : HasSums(g, f, S) /\ SumFunctionOnSet(f, S) = g[S]
  <1>. DEFINE g == CHOOSE g : HasSums(g, f, S)
  <1>1. HasSums(g, f, S)
    BY SumsExist
  <1>. HIDE DEF g
  <1>2. SumFunctionOnSet(f, S) = g[S]
    BY SumIsChosen DEF g
  <1>. QED  BY <1>1, <1>2

\* Sums are numbers,
LEMMA SumsAreNumbers ==
  ASSUME NEW S, IsFiniteSet(S), NEW f, \A x \in S : f[x] \in Int, NEW g, HasSums(g, f, S)
  PROVE  \A s \in SUBSET S : g[s] \in Int
  <1>. DEFINE G == {s \in SUBSET S : g[s] \in Int}
  <1>1. ASSUME NEW s \in SUBSET S, \A u \in SUBSET s : u # s => u \in G  PROVE s \in G
    <2>1. g[s] = Unrolled(f, g, s)
      BY DEF HasSums
    <2>2. CASE s = {}
      BY <2>1, <2>2 DEF Unrolled
    <2>3. CASE s # {}
      <3>1. First(s) \in s
        BY <2>3, FirstIsMember
      <3>2. s \ {First(s)} \in SUBSET s /\ s \ {First(s)} # s /\ f[First(s)] \in Int
        BY <3>1
      <3>3. g[s \ {First(s)}] \in Int
        BY <1>1, <3>2
      <3>. QED  BY <2>1, <2>3, <3>2, <3>3 DEF Unrolled
    <2>. QED  BY <2>2, <2>3
  <1>. HIDE DEF G
  <1>2. \A s \in SUBSET S : s \in G
    BY <1>1, SubsetInduction
  <1>. QED  BY <1>2 DEF G

\* depend on nothing but the terms,
LEMMA SumsAgree ==
  ASSUME NEW S, NEW f, NEW g, HasSums(g, f, S),
         NEW T, NEW k, NEW h, HasSums(h, k, T),
         NEW U, IsFiniteSet(U), U \subseteq S, U \subseteq T, \A x \in U : f[x] = k[x]
  PROVE  g[U] = h[U]
  <1>. DEFINE G == {s \in SUBSET U : g[s] = h[s]}
  <1>1. ASSUME NEW s \in SUBSET U, \A u \in SUBSET s : u # s => u \in G  PROVE s \in G
    <2>1. g[s] = Unrolled(f, g, s) /\ h[s] = Unrolled(k, h, s)
      BY DEF HasSums
    <2>2. CASE s = {}
      BY <2>1, <2>2 DEF Unrolled
    <2>3. CASE s # {}
      <3>1. First(s) \in s
        BY <2>3, FirstIsMember
      <3>2. s \ {First(s)} \in SUBSET s /\ s \ {First(s)} # s /\ f[First(s)] = k[First(s)]
        BY <3>1
      <3>3. g[s \ {First(s)}] = h[s \ {First(s)}]
        BY <1>1, <3>2
      <3>. QED  BY <2>1, <2>3, <3>2, <3>3 DEF Unrolled
    <2>. QED  BY <2>2, <2>3
  <1>. HIDE DEF G
  <1>2. \A s \in SUBSET U : s \in G
    BY <1>1, SubsetInduction
  <1>. QED  BY <1>2 DEF G

\* and not on the order in which they are added.
LEMMA SumsInAnyOrder ==
  ASSUME NEW S, IsFiniteSet(S), NEW f, \A x \in S : f[x] \in Int, NEW g, HasSums(g, f, S),
         NEW z \in S
  PROVE  g[S] = f[z] + g[S \ {z}]
  <1>. DEFINE G == {s \in SUBSET S : \A x \in s : g[s] = f[x] + g[s \ {x}]}
  <1>0. \A s \in SUBSET S : g[s] \in Int
    BY SumsAreNumbers
  <1>1. ASSUME NEW s \in SUBSET S, \A u \in SUBSET s : u # s => u \in G  PROVE s \in G
    <2>. SUFFICES ASSUME NEW x \in s  PROVE g[s] = f[x] + g[s \ {x}]
      OBVIOUS
    <2>. DEFINE c == First(s)
    <2>1. c \in s
      BY FirstIsMember
    <2>2. g[s] = f[c] + g[s \ {c}]
      BY DEF HasSums, Unrolled
    <2>. HIDE DEF c
    <2>3. CASE x = c
      BY <2>2, <2>3
    <2>4. CASE x # c
      <3>1. s \ {c} \in G /\ s \ {x} \in G
        <4>1. s \ {c} \in SUBSET s /\ s \ {c} # s /\ s \ {x} \in SUBSET s /\ s \ {x} # s
          BY <2>1
        <4>. QED  BY <1>1, <4>1
      <3>2. x \in s \ {c} /\ c \in s \ {x} /\ (s \ {c}) \ {x} = (s \ {x}) \ {c}
        BY <2>1, <2>4
      <3>3. g[s \ {c}] = f[x] + g[(s \ {c}) \ {x}] /\ g[s \ {x}] = f[c] + g[(s \ {x}) \ {c}]
        BY <3>1, <3>2
      <3>4. /\ f[x] \in Int /\ f[c] \in Int
            /\ g[(s \ {c}) \ {x}] \in Int /\ g[(s \ {x}) \ {c}] \in Int
        BY <1>0, <2>1
      <3>5. g[(s \ {c}) \ {x}] = g[(s \ {x}) \ {c}]
        BY <3>2
      <3>. QED  BY <2>2, <3>3, <3>4, <3>5
    <2>. QED  BY <2>3, <2>4
  <1>. HIDE DEF G
  <1>2. \A s \in SUBSET S : s \in G
    BY <1>1, SubsetInduction
  <1>3. S \in G
    BY <1>2
  <1>. QED  BY <1>3 DEF G

-----------------------------------------------------------------------------
(* Sums over a part of the domain.                                         *)

LEMMA SumOnSet ==
  ASSUME NEW S, IsFiniteSet(S), NEW f, \A x \in S : f[x] \in Int
  PROVE  SumFunctionOnSet(f, S) \in Int
  <1>1. PICK g : HasSums(g, f, S) /\ SumFunctionOnSet(f, S) = g[S]
    BY SumsAreThere
  <1>. QED  BY <1>1, SumsAreNumbers

LEMMA SumOnEmpty ==
  ASSUME NEW f
  PROVE  SumFunctionOnSet(f, {}) = 0
  <1>1. IsFiniteSet({}) /\ \A x \in {} : f[x] \in Int
    BY FS_EmptySet
  <1>2. PICK g : HasSums(g, f, {}) /\ SumFunctionOnSet(f, {}) = g[{}]
    BY <1>1, SumsAreThere
  <1>. QED  BY <1>2 DEF HasSums, Unrolled

LEMMA SumOnSame ==
  ASSUME NEW S, IsFiniteSet(S), NEW f, \A x \in S : f[x] \in Int, NEW k, \A x \in S : f[x] = k[x]
  PROVE  SumFunctionOnSet(f, S) = SumFunctionOnSet(k, S)
  <1>1. PICK g : HasSums(g, f, S) /\ SumFunctionOnSet(f, S) = g[S]
    BY SumsAreThere
  <1>2. PICK h : HasSums(h, k, S) /\ SumFunctionOnSet(k, S) = h[S]
    BY SumsAreThere
  <1>. QED  BY <1>1, <1>2, SumsAgree

LEMMA SumOnMore ==
  ASSUME NEW S, IsFiniteSet(S), NEW y, y \notin S, NEW f, \A x \in S \union {y} : f[x] \in Int
  PROVE  SumFunctionOnSet(f, S \union {y}) = SumFunctionOnSet(f, S) + f[y]
  <1>. DEFINE T == S \union {y}
  <1>1. IsFiniteSet(T)
    BY FS_AddElement
  <1>2. y \in T /\ S = T \ {y} /\ S \in SUBSET T
    OBVIOUS
  <1>3. \A x \in T : f[x] \in Int
    OBVIOUS
  <1>. HIDE DEF T
  <1>4. PICK g : HasSums(g, f, T) /\ SumFunctionOnSet(f, T) = g[T]
    BY <1>1, <1>3, SumsAreThere
  <1>5. PICK h : HasSums(h, f, S) /\ SumFunctionOnSet(f, S) = h[S]
    BY <1>2, <1>3, SumsAreThere
  <1>6. g[T] = f[y] + g[S]
    <2>1. g[T] = f[y] + g[T \ {y}]
      BY <1>1, <1>2, <1>3, <1>4, SumsInAnyOrder
    <2>. QED  BY <1>2, <2>1
  <1>7. g[S] = h[S]
    BY <1>2, <1>4, <1>5, SumsAgree
  <1>8. f[y] \in Int /\ g[S] \in Int
    BY <1>1, <1>2, <1>3, <1>4, SumsAreNumbers
  <1>. QED  BY <1>4, <1>5, <1>6, <1>7, <1>8 DEF T

\* Terms mapped one by one to terms that are no smaller have no larger sum.
LEMMA SumOnImage ==
  ASSUME NEW S, IsFiniteSet(S), NEW f \in [S -> Nat], NEW T, NEW k \in [T -> Nat],
         NEW h \in [S -> T], \A x, y \in S : h[x] = h[y] => x = y, \A x \in S : f[x] <= k[h[x]],
         NEW R, R = {h[x] : x \in S}
  PROVE  IsFiniteSet(R) /\ SumFunctionOnSet(f, S) <= SumFunctionOnSet(k, R)
  <1>. DEFINE Image(U) == {h[x] : x \in U}
              G == {U \in SUBSET S : /\ IsFiniteSet(Image(U))
                                     /\ SumFunctionOnSet(f, U) <= SumFunctionOnSet(k, Image(U))}
  <1>1. {} \in G
    <2>1. Image({}) = {}
      OBVIOUS
    <2>2. IsFiniteSet({}) /\ SumFunctionOnSet(f, {}) <= SumFunctionOnSet(k, {})
      BY SumOnEmpty, FS_EmptySet
    <2>. QED  BY <2>1, <2>2
  <1>2. ASSUME NEW U \in SUBSET S, NEW x \in S \ U, U \in G  PROVE U \union {x} \in G
    <2>. DEFINE A == Image(U)
                B == Image(U \union {x})
    <2>1. IsFiniteSet(U) /\ IsFiniteSet(A)
      BY <1>2, FS_Subset
    <2>2. B = A \union {h[x]}
      OBVIOUS
    <2>3. h[x] \notin A /\ h[x] \in T /\ A \subseteq T
      OBVIOUS
    <2>4. SumFunctionOnSet(f, U) <= SumFunctionOnSet(k, A)
      BY <1>2
    <2>. HIDE DEF A, B
    <2>5. SumFunctionOnSet(f, U \union {x}) = SumFunctionOnSet(f, U) + f[x] /\ SumFunctionOnSet(f, U) \in Int
      <3>1. \A z \in U \union {x} : f[z] \in Int
        OBVIOUS
      <3>. QED  BY <2>1, <3>1, SumOnMore, SumOnSet
    <2>6. /\ SumFunctionOnSet(k, A \union {h[x]}) = SumFunctionOnSet(k, A) + k[h[x]]
          /\ SumFunctionOnSet(k, A) \in Int
      <3>1. \A z \in A \union {h[x]} : k[z] \in Int
        BY <2>3
      <3>. QED  BY <2>1, <2>3, <3>1, SumOnMore, SumOnSet
    <2>7. f[x] \in Nat /\ k[h[x]] \in Nat /\ f[x] <= k[h[x]]
      BY <2>3
    <2>8. SumFunctionOnSet(f, U \union {x}) <= SumFunctionOnSet(k, B)
      BY <2>2, <2>4, <2>5, <2>6, <2>7
    <2>9. IsFiniteSet(B)
      BY <2>1, <2>2, FS_AddElement
    <2>. QED  BY <2>8, <2>9 DEF B
  <1>. HIDE DEF G
  <1>3. S \in G
    BY <1>1, <1>2, SetInduction
  <1>. QED  BY <1>3 DEF G

\* More terms have no smaller sum.
LEMMA SumOnPart ==
  ASSUME NEW S, IsFiniteSet(S), NEW f, \A x \in S : f[x] \in Nat, NEW P \in SUBSET S
  PROVE  0 <= SumFunctionOnSet(f, P) /\ SumFunctionOnSet(f, P) <= SumFunctionOnSet(f, S)
  <1>. DEFINE G == {U \in SUBSET S : /\ 0 <= SumFunctionOnSet(f, U \intersect P)
                                     /\ SumFunctionOnSet(f, U \intersect P) <= SumFunctionOnSet(f, U)}
  <1>1. {} \in G
    <2>1. {} \intersect P = {}
      OBVIOUS
    <2>. QED  BY <2>1, SumOnEmpty
  <1>2. ASSUME NEW U \in SUBSET S, NEW x \in S \ U, U \in G  PROVE U \union {x} \in G
    <2>1. IsFiniteSet(U) /\ IsFiniteSet(U \intersect P)
      BY FS_Subset
    <2>2. \A z \in U \union {x} : f[z] \in Int
      OBVIOUS
    <2>3. SumFunctionOnSet(f, U \union {x}) = SumFunctionOnSet(f, U) + f[x] /\ SumFunctionOnSet(f, U) \in Int
      BY <2>1, <2>2, SumOnMore, SumOnSet
    <2>4. 0 <= SumFunctionOnSet(f, U \intersect P) /\ SumFunctionOnSet(f, U \intersect P) <= SumFunctionOnSet(f, U)
      BY <1>2
    <2>5. SumFunctionOnSet(f, U \intersect P) \in Int
      BY <2>1, <2>2, SumOnSet
    <2>6. f[x] \in Nat
      OBVIOUS
    <2>7. CASE x \in P
      <3>1. (U \union {x}) \intersect P = (U \intersect P) \union {x} /\ x \notin U \intersect P
        BY <2>7
      <3>2. SumFunctionOnSet(f, (U \intersect P) \union {x}) = SumFunctionOnSet(f, U \intersect P) + f[x]
        BY <2>1, <2>2, <3>1, SumOnMore
      <3>. QED  BY <2>3, <2>4, <2>5, <2>6, <3>1, <3>2
    <2>8. CASE x \notin P
      <3>1. (U \union {x}) \intersect P = U \intersect P
        BY <2>8
      <3>. QED  BY <2>3, <2>4, <2>5, <2>6, <3>1
    <2>. QED  BY <2>7, <2>8
  <1>. HIDE DEF G
  <1>3. S \in G
    BY <1>1, <1>2, SetInduction
  <1>4. S \intersect P = P
    OBVIOUS
  <1>. QED  BY <1>3, <1>4 DEF G

-----------------------------------------------------------------------------
(* Sums of functions: the facts to cite.                                   *)

LEMMA SumEmpty ==
  ASSUME NEW f, DOMAIN f = {}
  PROVE  SumFunction(f) = 0
  BY SumOnEmpty DEF SumFunction

LEMMA SumInt ==
  ASSUME NEW S, IsFiniteSet(S), NEW f \in [S -> Int]
  PROVE  SumFunction(f) \in Int
  BY SumOnSet DEF SumFunction

LEMMA SumNat ==
  ASSUME NEW S, IsFiniteSet(S), NEW f \in [S -> Nat]
  PROVE  SumFunction(f) \in Nat
  <1>1. f \in [S -> Int] /\ DOMAIN f = S /\ \A x \in S : f[x] \in Nat
    OBVIOUS
  <1>2. SumFunction(f) \in Int
    BY <1>1, SumInt
  <1>3. 0 <= SumFunctionOnSet(f, S)
    BY <1>1, SumOnPart
  <1>. QED  BY <1>1, <1>2, <1>3 DEF SumFunction

\* One more term.
LEMMA SumAdd ==
  ASSUME NEW S, IsFiniteSet(S), NEW y, y \notin S,
         NEW f \in [S -> Int], NEW g \in [S \union {y} -> Int], \A x \in S : g[x] = f[x]
  PROVE  SumFunction(g) = SumFunction(f) + g[y]
  <1>1. DOMAIN f = S /\ DOMAIN g = S \union {y} /\ \A x \in S \union {y} : g[x] \in Int
    OBVIOUS
  <1>2. SumFunctionOnSet(g, S \union {y}) = SumFunctionOnSet(g, S) + g[y]
    BY <1>1, SumOnMore
  <1>3. SumFunctionOnSet(g, S) = SumFunctionOnSet(f, S)
    BY <1>1, SumOnSame
  <1>. QED  BY <1>1, <1>2, <1>3 DEF SumFunction

\* A sum is no larger than one with a term, no smaller, for each of its terms,
LEMMA SumInjection ==
  ASSUME NEW S, IsFiniteSet(S), NEW T, IsFiniteSet(T), NEW f \in [S -> Nat], NEW g \in [T -> Nat],
         NEW h \in [S -> T], \A x, y \in S : h[x] = h[y] => x = y, \A x \in S : f[x] <= g[h[x]]
  PROVE  SumFunction(f) <= SumFunction(g)
  <1>. DEFINE A == {h[x] : x \in S}
  <1>1. DOMAIN f = S /\ DOMAIN g = T /\ (\A x \in S : f[x] \in Nat) /\ (\A y \in T : g[y] \in Nat)
    OBVIOUS
  <1>2. IsFiniteSet(A) /\ SumFunctionOnSet(f, S) <= SumFunctionOnSet(g, A)
    BY SumOnImage
  <1>3. A \in SUBSET T /\ \A y \in A : g[y] \in Int
    BY <1>1
  <1>. HIDE DEF A
  <1>4. SumFunctionOnSet(g, A) <= SumFunctionOnSet(g, T)
    BY <1>1, <1>3, SumOnPart
  <1>5. /\ SumFunctionOnSet(f, S) \in Int /\ SumFunctionOnSet(g, A) \in Int
        /\ SumFunctionOnSet(g, T) \in Int
    <2>1. (\A x \in S : f[x] \in Int) /\ \A y \in T : g[y] \in Int
      BY <1>1
    <2>. QED  BY <1>2, <1>3, <2>1, SumOnSet
  <1>. QED  BY <1>1, <1>2, <1>4, <1>5 DEF SumFunction

\* and is the same when each is such a term.
LEMMA SumBijection ==
  ASSUME NEW S, IsFiniteSet(S), NEW T, IsFiniteSet(T), NEW f \in [S -> Nat], NEW g \in [T -> Nat],
         NEW h \in [S -> T], \A x, y \in S : h[x] = h[y] => x = y, \A z \in T : \E x \in S : h[x] = z,
         \A x \in S : f[x] = g[h[x]]
  PROVE  SumFunction(f) = SumFunction(g)
  <1>1. SumFunction(f) \in Nat /\ SumFunction(g) \in Nat
    BY SumNat
  <1>2. SumFunction(f) <= SumFunction(g)
    <2>1. \A x \in S : f[x] <= g[h[x]]
      OBVIOUS
    <2>. QED  BY <2>1, SumInjection
  <1>3. SumFunction(g) <= SumFunction(f)
    <2>. DEFINE k == [z \in T |-> CHOOSE x \in S : h[x] = z]
    <2>1. \A z \in T : k[z] \in S /\ h[k[z]] = z
      OBVIOUS
    <2>2. k \in [T -> S]
      BY <2>1
    <2>. HIDE DEF k
    <2>3. \A y, z \in T : k[y] = k[z] => y = z
      BY <2>1
    <2>4. \A z \in T : g[z] <= f[k[z]]
      BY <2>1
    <2>. QED  BY <2>2, <2>3, <2>4, SumInjection
  <1>. QED  BY <1>1, <1>2, <1>3

\* A term is no larger than the sum.
LEMMA SumBound ==
  ASSUME NEW S, IsFiniteSet(S), NEW f \in [S -> Nat], NEW x \in S
  PROVE  f[x] <= SumFunction(f)
  <1>1. DOMAIN f = S /\ (\A y \in S : f[y] \in Nat) /\ (\A y \in {} \union {x} : f[y] \in Int)
    OBVIOUS
  <1>2. SumFunctionOnSet(f, {x}) <= SumFunctionOnSet(f, S)
    BY <1>1, SumOnPart
  <1>3. SumFunctionOnSet(f, {x}) = f[x]
    <2>1. SumFunctionOnSet(f, {} \union {x}) = SumFunctionOnSet(f, {}) + f[x]
      BY <1>1, FS_EmptySet, SumOnMore
    <2>2. {} \union {x} = {x} /\ f[x] \in Int
      OBVIOUS
    <2>. QED  BY <2>1, <2>2, SumOnEmpty
  <1>. QED  BY <1>1, <1>2, <1>3 DEF SumFunction
=============================================================================
