------------------------------ MODULE FiniteSums ------------------------------
(***************************************************************************)
(* What the library's sum over a finite set is: by induction over its      *)
(* subsets, that it does not depend on the order of its terms, changes as  *)
(* they do, and grows with them.  The ledger, the mock's budget and the    *)
(* totals of a policy are such sums.                                       *)
(***************************************************************************)
EXTENDS Integers, Functions, FiniteSetTheorems, WellFoundedInduction, TLAPS

-----------------------------------------------------------------------------
(* Sums over finite sets.  FoldFunctionOnSet is a CHOOSE of the recursive  *)
(* function that takes one element after the other.                        *)

\* One element of a set, and one step of the recursive function the library chooses.
First(s) == CHOOSE x \in s : TRUE
Unfolding(f, S, g) == [s \in SUBSET S |-> IF s = {} THEN 0 ELSE f[First(s)] + g[s \ {First(s)}]]

\* Induction over the subsets of a finite set: what holds of a set when it
\* holds of the set without any one of its elements holds of every subset.
LEMMA SubsetInduction ==
  ASSUME NEW S, IsFiniteSet(S), NEW Q,
         \A T \in SUBSET S : (\A x \in T : T \ {x} \in Q) => T \in Q
  PROVE  SUBSET S \subseteq Q
<1> SUFFICES ASSUME (SUBSET S) \ Q # {} PROVE FALSE
  OBVIOUS
<1> DEFINE Less == StrictSubsetOrdering(S)
<1>1. IsWellFoundedOn(Less, SUBSET S)
  <2>1. IsWellFoundedOn(Less, FiniteSubsetsOf(S))
    BY FS_StrictSubsetOrderingWellFounded
  <2>2. FiniteSubsetsOf(S) = SUBSET S
    BY FS_FiniteSubsetsOfFinite
  <2> QED
    BY <2>1, <2>2, Zenon
<1> HIDE DEF Less
<1>2. PICK T \in (SUBSET S) \ Q : \A U \in (SUBSET S) \ Q : <<U, T>> \notin Less
  <2>1. (SUBSET S) \ Q \subseteq SUBSET S
    OBVIOUS
  <2> QED
    BY <1>1, <2>1, WFMin
<1>3. \A x \in T : <<T \ {x}, T>> \in Less
  BY DEF Less, StrictSubsetOrdering
<1>4. \A x \in T : T \ {x} \in Q
  BY <1>2, <1>3
<1> QED
  BY <1>2, <1>4

LEMMA FirstIsElement == ASSUME NEW s, s # {} PROVE First(s) \in s
BY DEF First

LEMMA UnfoldingIsUnique ==
  ASSUME NEW S, IsFiniteSet(S), NEW f, NEW g, g = Unfolding(f, S, g), NEW h, h = Unfolding(f, S, h)
  PROVE  g = h
<1> DEFINE Q == {T \in SUBSET S : g[T] = h[T]}
<1>1. ASSUME NEW T \in SUBSET S, \A x \in T : T \ {x} \in Q PROVE T \in Q
  <2>1. T = {} => g[T] = 0 /\ h[T] = 0
    BY DEF Unfolding
  <2>2. CASE T # {}
    <3>1. First(T) \in T
      BY <2>2, FirstIsElement
    <3>2. g[T \ {First(T)}] = h[T \ {First(T)}]
      BY <1>1, <3>1
    <3>3. g[T] = f[First(T)] + g[T \ {First(T)}]
      BY <2>2 DEF Unfolding
    <3>4. h[T] = f[First(T)] + h[T \ {First(T)}]
      BY <2>2 DEF Unfolding
    <3> QED
      BY <3>2, <3>3, <3>4
  <2> QED
    BY <2>1, <2>2
<1>2. SUBSET S \subseteq Q
  <2> HIDE DEF Q
  <2> QED
    BY <1>1, SubsetInduction
<1>3. g = [T \in SUBSET S |-> g[T]] /\ h = [T \in SUBSET S |-> h[T]]
  BY DEF Unfolding
<1> QED
  BY <1>2, <1>3

LEMMA SumIsUnfolding ==
  ASSUME NEW f, NEW S
  PROVE  SumFunctionOnSet(f, S) = (CHOOSE g : g = Unfolding(f, S, g))[S]
BY DEF SumFunctionOnSet, FoldFunctionOnSet, MapThenFoldSet, Unfolding, First

LEMMA SumRecursion ==
  ASSUME NEW S, IsFiniteSet(S), NEW f
  PROVE  SumFunctionOnSet(f, S) =
           IF S = {} THEN 0 ELSE f[First(S)] + SumFunctionOnSet(f, S \ {First(S)})
<1> DEFINE Sum(T) == SumFunctionOnSet(f, T)
           Step(T) == IF T = {} THEN 0 ELSE f[First(T)] + Sum(T \ {First(T)})
           Q == {T \in SUBSET S : \A U \in SUBSET T : Sum(U) = Step(U)}
<1> HIDE DEF Sum
<1>1. ASSUME NEW T \in SUBSET S, \A x \in T : T \ {x} \in Q PROVE T \in Q
  <2>1. \A U \in SUBSET T : U # T => Sum(U) = Step(U)
    <3> SUFFICES ASSUME NEW U \in SUBSET T, U # T PROVE Sum(U) = Step(U)
      OBVIOUS
    <3>1. PICK x \in T : x \notin U
      OBVIOUS
    <3>2. U \in SUBSET (T \ {x})
      BY <3>1
    <3> QED
      BY <1>1, <3>2
  <2> DEFINE h == [U \in SUBSET T |-> Step(U)]
             g == CHOOSE e : e = Unfolding(f, T, e)
  <2>2. h = Unfolding(f, T, h)
    <3>1. ASSUME NEW U \in SUBSET T, U # {} PROVE Sum(U \ {First(U)}) = h[U \ {First(U)}]
      <4>1. First(U) \in U /\ U \ {First(U)} # T /\ U \ {First(U)} \in SUBSET T
        BY <3>1, FirstIsElement
      <4> QED
        BY <2>1, <4>1
    <3>2. \A U \in SUBSET T : h[U] = IF U = {} THEN 0 ELSE f[First(U)] + h[U \ {First(U)}]
      BY <3>1
    <3> HIDE DEF h
    <3>3. h = [U \in SUBSET T |-> h[U]]
      BY DEF h
    <3> QED
      BY <3>2, <3>3 DEF Unfolding
  <2>3. g = Unfolding(f, T, g)
    <3> HIDE DEF h
    <3>1. \E e : e = Unfolding(f, T, e)
      BY <2>2
    <3> QED
      BY <3>1
  <2>4. g = h
    <3> HIDE DEF g, h
    <3>1. IsFiniteSet(T)
      BY FS_Subset
    <3> QED
      BY <2>2, <2>3, <3>1, UnfoldingIsUnique
  <2>5. Sum(T) = Step(T)
    <3>1. Sum(T) = g[T]
      BY SumIsUnfolding DEF Sum
    <3>2. h[T] = Step(T)
      OBVIOUS
    <3> HIDE DEF g, h
    <3> QED
      BY <3>1, <3>2, <2>4
  <2> HIDE DEF Step
  <2> QED
    BY <2>1, <2>5
<1>2. SUBSET S \subseteq Q
  <2> HIDE DEF Q
  <2> QED
    BY <1>1, SubsetInduction
<1>3. Sum(S) = Step(S)
  <2>1. S \in Q
    BY <1>2
  <2> HIDE DEF Step
  <2> QED
    BY <2>1
<1> QED
  BY <1>3 DEF Sum

\* The sum of a function over a finite set is an integer, whichever element
\* is taken first.
LEMMA SumType ==
  ASSUME NEW S, IsFiniteSet(S), NEW f, \A x \in S : f[x] \in Int
  PROVE  SumFunctionOnSet(f, S) \in Int
<1> DEFINE Sum(T) == SumFunctionOnSet(f, T)
           Q == {T \in SUBSET S : Sum(T) \in Int}
<1> HIDE DEF Sum
<1>1. ASSUME NEW T \in SUBSET S, \A x \in T : T \ {x} \in Q PROVE T \in Q
  <2>1. Sum(T) = IF T = {} THEN 0 ELSE f[First(T)] + Sum(T \ {First(T)})
    BY FS_Subset, SumRecursion DEF Sum
  <2>2. T # {} => First(T) \in T /\ T \ {First(T)} \in Q
    BY <1>1, FirstIsElement
  <2> QED
    BY <2>1, <2>2
<1>2. SUBSET S \subseteq Q
  <2> HIDE DEF Q
  <2> QED
    BY <1>1, SubsetInduction
<1> QED
  BY <1>2 DEF Sum

LEMMA SumOfAny ==
  ASSUME NEW S, IsFiniteSet(S), NEW f, \A x \in S : f[x] \in Int, NEW x \in S
  PROVE  SumFunctionOnSet(f, S) = f[x] + SumFunctionOnSet(f, S \ {x})
<1> DEFINE Sum(T) == SumFunctionOnSet(f, T)
           Q == {T \in SUBSET S : \A y \in T : Sum(T) = f[y] + Sum(T \ {y})}
<1> HIDE DEF Sum
<1>1. \A T \in SUBSET S : /\ IsFiniteSet(T) /\ Sum(T) \in Int
                          /\ T # {} => Sum(T) = f[First(T)] + Sum(T \ {First(T)}) /\ First(T) \in T
  <2> SUFFICES ASSUME NEW T \in SUBSET S
               PROVE  /\ IsFiniteSet(T) /\ Sum(T) \in Int
                      /\ T # {} => Sum(T) = f[First(T)] + Sum(T \ {First(T)}) /\ First(T) \in T
    OBVIOUS
  <2>1. IsFiniteSet(T)
    BY FS_Subset
  <2>2. Sum(T) \in Int
    BY <2>1, SumType DEF Sum
  <2>3. T # {} => Sum(T) = f[First(T)] + Sum(T \ {First(T)})
    BY <2>1, SumRecursion DEF Sum
  <2> QED
    BY <2>1, <2>2, <2>3, FirstIsElement
<1>2. ASSUME NEW T \in SUBSET S, \A y \in T : T \ {y} \in Q PROVE T \in Q
  <2> SUFFICES ASSUME NEW y \in T PROVE Sum(T) = f[y] + Sum(T \ {y})
    OBVIOUS
  <2> DEFINE z == First(T)
  <2>1. z \in T /\ Sum(T) = f[z] + Sum(T \ {z})
    BY <1>1
  <2> HIDE DEF z
  <2>2. CASE y # z
    <3>1. Sum(T \ {z}) = f[y] + Sum((T \ {z}) \ {y})
      BY <1>2, <2>1, <2>2
    <3>2. Sum(T \ {y}) = f[z] + Sum((T \ {y}) \ {z})
      BY <1>2, <2>1, <2>2
    <3>3. Sum((T \ {z}) \ {y}) = Sum((T \ {y}) \ {z})
      <4>1. (T \ {z}) \ {y} = (T \ {y}) \ {z}
        OBVIOUS
      <4> QED
        BY <4>1, Zenon
    <3>4. f[y] \in Int /\ f[z] \in Int /\ Sum((T \ {z}) \ {y}) \in Int
      BY <1>1, <2>1
    <3> DEFINE rest == Sum((T \ {z}) \ {y})
    <3>5. Sum(T) = f[z] + (f[y] + rest) /\ Sum(T \ {y}) = f[z] + rest
      BY <2>1, <3>1, <3>2, <3>3
    <3>6. f[y] \in Int /\ f[z] \in Int /\ rest \in Int
      BY <3>4
    <3> HIDE DEF rest
    <3> QED
      BY <3>5, <3>6
  <2> QED
    BY <2>1, <2>2
<1>3. SUBSET S \subseteq Q
  <2> HIDE DEF Q
  <2> QED
    BY <1>2, SubsetInduction
<1> QED
  BY <1>3 DEF Sum

\* Functions that agree on a set have one sum over it.
LEMMA SumAgrees ==
  ASSUME NEW S, IsFiniteSet(S), NEW f, NEW g, \A x \in S : f[x] = g[x]
  PROVE  SumFunctionOnSet(f, S) = SumFunctionOnSet(g, S)
<1> DEFINE F(T) == SumFunctionOnSet(f, T)
           G(T) == SumFunctionOnSet(g, T)
           Q == {T \in SUBSET S : F(T) = G(T)}
<1> HIDE DEF F, G
<1>1. ASSUME NEW T \in SUBSET S, \A x \in T : T \ {x} \in Q PROVE T \in Q
  <2>1. /\ F(T) = IF T = {} THEN 0 ELSE f[First(T)] + F(T \ {First(T)})
        /\ G(T) = IF T = {} THEN 0 ELSE g[First(T)] + G(T \ {First(T)})
    BY FS_Subset, SumRecursion DEF F, G
  <2>2. T # {} => First(T) \in T /\ F(T \ {First(T)}) = G(T \ {First(T)})
    BY <1>1, FirstIsElement
  <2> QED
    BY <2>1, <2>2
<1>2. SUBSET S \subseteq Q
  <2> HIDE DEF Q
  <2> QED
    BY <1>1, SubsetInduction
<1> QED
  BY <1>2 DEF F, G

\* A sum in which one term changes changes as much.
LEMMA SumChanges ==
  ASSUME NEW S, IsFiniteSet(S), NEW f \in [S -> Int], NEW g \in [S -> Int],
         NEW x \in S, \A y \in S \ {x} : g[y] = f[y]
  PROVE  /\ SumFunction(g) = SumFunction(f) - f[x] + g[x]
         /\ SumFunction(f) \in Int /\ SumFunction(g) \in Int
<1> DEFINE F(T) == SumFunctionOnSet(f, T)
           G(T) == SumFunctionOnSet(g, T)
<1>1. F(S) = f[x] + F(S \ {x}) /\ G(S) = g[x] + G(S \ {x})
  BY SumOfAny
<1>2. IsFiniteSet(S \ {x})
  BY FS_RemoveElement
<1>3. F(S \ {x}) = G(S \ {x}) /\ F(S \ {x}) \in Int
  BY <1>2, SumAgrees, SumType
<1>4. f[x] \in Int /\ g[x] \in Int
  OBVIOUS
<1>5. SumFunction(f) = F(S) /\ SumFunction(g) = G(S)
  BY DEF SumFunction
<1>6. F(S) \in Int /\ G(S) \in Int
  BY SumType
<1> HIDE DEF F, G
<1> QED
  BY <1>1, <1>3, <1>4, <1>5, <1>6

LEMMA SumIsInteger ==
  ASSUME NEW S, IsFiniteSet(S), NEW f \in [S -> Int]
  PROVE  SumFunction(f) \in Int
BY SumType DEF SumFunction

\* A sum of nothing but zeros.
LEMMA SumOfZeros ==
  ASSUME NEW S, IsFiniteSet(S), NEW f \in [S -> Int], \A x \in S : f[x] = 0
  PROVE  SumFunction(f) = 0
<1> DEFINE Sum(T) == SumFunctionOnSet(f, T)
           Q == {T \in SUBSET S : Sum(T) = 0}
<1> HIDE DEF Sum
<1>1. ASSUME NEW T \in SUBSET S, \A x \in T : T \ {x} \in Q PROVE T \in Q
  <2>1. Sum(T) = IF T = {} THEN 0 ELSE f[First(T)] + Sum(T \ {First(T)})
    BY FS_Subset, SumRecursion DEF Sum
  <2>2. T # {} => First(T) \in T /\ T \ {First(T)} \in Q
    BY <1>1, FirstIsElement
  <2> QED
    BY <2>1, <2>2
<1>2. SUBSET S \subseteq Q
  <2> HIDE DEF Q
  <2> QED
    BY <1>1, SubsetInduction
<1> QED
  BY <1>2 DEF Sum, SumFunction

\* The same, where the term may be missing.
LEMMA SumShifts ==
  ASSUME NEW S, IsFiniteSet(S), NEW f \in [S -> Int], NEW g \in [S -> Int], NEW x, NEW d \in Int,
         x \notin S => d = 0, \A y \in S \ {x} : g[y] = f[y], x \in S => g[x] = f[x] + d
  PROVE  SumFunction(g) = SumFunction(f) + d
<1>1. SumFunction(f) \in Int
  BY SumIsInteger
<1>2. CASE x \in S
  <2>1. SumFunction(g) = SumFunction(f) - f[x] + g[x]
    BY <1>2, SumChanges
  <2> QED
    BY <1>1, <1>2, <2>1
<1>3. CASE x \notin S
  <2>1. g = f
    BY <1>3
  <2> QED
    BY <1>1, <1>3, <2>1
<1> QED
  BY <1>2, <1>3

\* One term more.
LEMMA SumExtends ==
  ASSUME NEW S, IsFiniteSet(S), NEW x, x \notin S, NEW f \in [S \cup {x} -> Int], NEW g \in [S -> Int],
         \A y \in S : f[y] = g[y]
  PROVE  /\ SumFunction(f) = SumFunction(g) + f[x]
         /\ SumFunction(f) \in Int /\ SumFunction(g) \in Int
<1> DEFINE T == S \cup {x}
<1>1. IsFiniteSet(T) /\ T \ {x} = S /\ \A y \in T : f[y] \in Int
  BY FS_AddElement
<1>2. SumFunctionOnSet(f, T) = f[x] + SumFunctionOnSet(f, T \ {x})
  BY <1>1, SumOfAny
<1>3. SumFunctionOnSet(f, S) = SumFunctionOnSet(g, S)
  BY SumAgrees
<1>4. SumFunction(f) = SumFunctionOnSet(f, T) /\ SumFunction(g) = SumFunctionOnSet(g, S)
  BY DEF SumFunction
<1>5. SumFunctionOnSet(g, S) \in Int /\ f[x] \in Int
  BY SumType
<1>6. SumFunctionOnSet(f, T \ {x}) = SumFunctionOnSet(f, S)
  BY <1>1
<1> HIDE DEF T
<1> QED  BY <1>2, <1>3, <1>4, <1>5, <1>6

\* A part of the terms, none of them larger, adds up to no more.
LEMMA SumOfPart ==
  ASSUME NEW S, IsFiniteSet(S), NEW f \in [S -> Nat], NEW T \in SUBSET S, NEW g \in [T -> Nat],
         \A x \in T : g[x] <= f[x]
  PROVE  /\ SumFunction(f) \in Nat /\ SumFunction(g) \in Nat
         /\ SumFunction(g) <= SumFunction(f)
<1> DEFINE F(U) == SumFunctionOnSet(f, U)
           G(U) == SumFunctionOnSet(g, U \cap T)
           Q == {U \in SUBSET S : F(U) \in Nat /\ G(U) \in Nat /\ G(U) <= F(U)}
<1>1. ASSUME NEW U \in SUBSET S, \A x \in U : U \ {x} \in Q PROVE U \in Q
  <2>1. CASE U = {}
    <3>1. F(U) = 0 /\ G(U) = 0
      <4>1. IsFiniteSet({}) /\ U \cap T = {}
        BY <2>1, FS_EmptySet
      <4> QED
        BY <2>1, <4>1, SumRecursion
    <3> QED
      BY <3>1
  <2>2. CASE U # {}
    <3>1. PICK x \in U : TRUE
      BY <2>2
    <3>2. IsFiniteSet(U) /\ IsFiniteSet(U \cap T)
      BY FS_Subset
    <3>3. F(U) = f[x] + F(U \ {x})
      <4>1. \A y \in U : f[y] \in Int
        OBVIOUS
      <4> QED
        BY <3>2, <4>1, SumOfAny
    <3>4. G(U) = (IF x \in T THEN g[x] ELSE 0) + G(U \ {x})
      <4>1. CASE x \in T
        <5>1. (U \cap T) \ {x} = (U \ {x}) \cap T /\ x \in U \cap T
          BY <4>1
        <5>2. \A y \in U \cap T : g[y] \in Int
          OBVIOUS
        <5>3. SumFunctionOnSet(g, U \cap T) = g[x] + SumFunctionOnSet(g, (U \cap T) \ {x})
          BY <3>2, <5>1, <5>2, SumOfAny
        <5> QED
          BY <4>1, <5>1, <5>3
      <4>2. CASE x \notin T
        <5>1. U \cap T = (U \ {x}) \cap T
          BY <4>2
        <5>2. G(U \ {x}) \in Nat
          BY <1>1
        <5> QED
          BY <4>2, <5>1, <5>2
      <4> QED
        BY <4>1, <4>2
    <3>5. F(U \ {x}) \in Nat /\ G(U \ {x}) \in Nat /\ G(U \ {x}) <= F(U \ {x})
      BY <1>1
    <3>6. f[x] \in Nat /\ (x \in T => g[x] \in Nat /\ g[x] <= f[x])
      OBVIOUS
    <3> HIDE DEF F, G
    <3> QED
      BY <3>3, <3>4, <3>5, <3>6
  <2> QED
    BY <2>1, <2>2
<1>2. SUBSET S \subseteq Q
  <2> HIDE DEF Q
  <2> QED
    BY <1>1, SubsetInduction
<1>3. S \cap T = T
  OBVIOUS
<1> QED
  BY <1>2, <1>3 DEF SumFunction

\* What moves from one term to another leaves the sum as it is.
LEMMA SumMoves ==
  ASSUME NEW S, IsFiniteSet(S), NEW f \in [S -> Int], NEW g \in [S -> Int], NEW d \in Int,
         NEW x \in S, NEW y \in S, x # y, g[x] = f[x] - d, g[y] = f[y] + d,
         \A z \in S \ {x, y} : g[z] = f[z]
  PROVE  SumFunction(g) = SumFunction(f)
<1> DEFINE h == [z \in S |-> IF z = x THEN g[x] ELSE f[z]]
<1>1. h \in [S -> Int] /\ h[x] = g[x] /\ h[y] = f[y] /\ \A z \in S \ {x} : h[z] = f[z]
  OBVIOUS
<1>2. \A z \in S \ {y} : g[z] = h[z]
  OBVIOUS
<1> HIDE DEF h
<1>3. SumFunction(h) = SumFunction(f) - f[x] + h[x] /\ SumFunction(f) \in Int
  BY <1>1, SumChanges
<1>4. SumFunction(g) = SumFunction(h) - h[y] + g[y] /\ SumFunction(h) \in Int
  BY <1>1, <1>2, SumChanges
<1>5. f[x] \in Int /\ f[y] \in Int
  OBVIOUS
<1> QED
  BY <1>1, <1>3, <1>4, <1>5

\* The sum of differences is the difference of the sums.
LEMMA SumOfDifferences ==
  ASSUME NEW S, IsFiniteSet(S), NEW f \in [S -> Int], NEW g \in [S -> Int]
  PROVE  SumFunction([x \in S |-> f[x] - g[x]]) = SumFunction(f) - SumFunction(g)
<1> DEFINE h == [x \in S |-> f[x] - g[x]]
           F(T) == SumFunctionOnSet(f, T)
           G(T) == SumFunctionOnSet(g, T)
           H(T) == SumFunctionOnSet(h, T)
           Q == {T \in SUBSET S : H(T) = F(T) - G(T)}
<1>1. \A x \in S : f[x] \in Int /\ g[x] \in Int /\ h[x] = f[x] - g[x]
  OBVIOUS
<1> HIDE DEF h, F, G, H
<1>2. ASSUME NEW T \in SUBSET S, \A x \in T : T \ {x} \in Q PROVE T \in Q
  <2>1. /\ F(T) = IF T = {} THEN 0 ELSE f[First(T)] + F(T \ {First(T)})
        /\ G(T) = IF T = {} THEN 0 ELSE g[First(T)] + G(T \ {First(T)})
        /\ H(T) = IF T = {} THEN 0 ELSE h[First(T)] + H(T \ {First(T)})
    BY FS_Subset, SumRecursion DEF F, G, H
  <2>2. CASE T = {}
    BY <2>1, <2>2
  <2>3. CASE T # {}
    <3> DEFINE z == First(T)
    <3>1. z \in T
      BY <2>3, FirstIsElement
    <3> HIDE DEF z
    <3>2. H(T \ {z}) = F(T \ {z}) - G(T \ {z})
      BY <1>2, <3>1
    <3>3. F(T \ {z}) \in Int /\ G(T \ {z}) \in Int
      BY <1>1, FS_Subset, SumType DEF F, G
    <3>4. f[z] \in Int /\ g[z] \in Int /\ h[z] = f[z] - g[z]
      BY <1>1, <3>1
    <3>5. F(T) = f[z] + F(T \ {z}) /\ G(T) = g[z] + G(T \ {z}) /\ H(T) = h[z] + H(T \ {z})
      BY <2>1, <2>3 DEF z
    <3> QED
      BY <3>2, <3>3, <3>4, <3>5
  <2> QED
    BY <2>2, <2>3
<1>3. SUBSET S \subseteq Q
  <2> HIDE DEF Q
  <2> QED
    BY <1>2, SubsetInduction
<1>4. H(S) = F(S) - G(S)
  BY <1>3
<1>5. DOMAIN h = S
  BY DEF h
<1>6. SumFunction(h) = H(S) /\ SumFunction(f) = F(S) /\ SumFunction(g) = G(S)
  BY <1>5 DEF SumFunction, F, G, H
<1> QED
  BY <1>4, <1>6 DEF h

\* What counts for nothing does not count.
LEMMA SumWithoutZeros ==
  ASSUME NEW S, IsFiniteSet(S), NEW T \in SUBSET S, NEW f \in [S -> Int], NEW g \in [T -> Int],
         \A x \in T : f[x] = g[x], \A x \in S \ T : f[x] = 0
  PROVE  SumFunction(f) = SumFunction(g)
<1> DEFINE F(U) == SumFunctionOnSet(f, U)
           G(U) == SumFunctionOnSet(g, U \cap T)
           Q == {U \in SUBSET S : F(U) = G(U)}
<1> HIDE DEF F, G
<1>1. ASSUME NEW U \in SUBSET S, \A x \in U : U \ {x} \in Q PROVE U \in Q
  <2>1. CASE U = {}
    <3>1. F(U) = 0
      BY <2>1, FS_EmptySet, SumRecursion DEF F
    <3>2. U \cap T = {}
      BY <2>1
    <3>3. G(U) = 0
      BY <3>2, FS_EmptySet, SumRecursion DEF G
    <3> QED  BY <3>1, <3>3
  <2>2. CASE U # {}
    <3>1. PICK x \in U : TRUE
      BY <2>2
    <3>2. F(U \ {x}) = G(U \ {x})
      BY <1>1, <3>1
    <3>3. IsFiniteSet(U) /\ IsFiniteSet(U \cap T) /\ \A y \in U : f[y] \in Int
      BY FS_Subset
    <3>4. F(U) = f[x] + F(U \ {x})
      BY <3>1, <3>3, SumOfAny DEF F
    <3>5. CASE x \in T
      <4>1. (U \ {x}) \cap T = (U \cap T) \ {x} /\ x \in U \cap T /\ \A y \in U \cap T : g[y] \in Int
        BY <3>1, <3>5
      <4> DEFINE V == U \cap T
      <4>2. SumFunctionOnSet(g, V) = g[x] + SumFunctionOnSet(g, V \ {x})
        <5>1. IsFiniteSet(V) /\ x \in V /\ \A y \in V : g[y] \in Int
          BY <3>3, <4>1
        <5> HIDE DEF V
        <5> QED  BY <5>1, SumOfAny
      <4>3. G(U) = g[x] + G(U \ {x})
        BY <4>1, <4>2 DEF G
      <4> QED  BY <3>2, <3>4, <3>5, <4>3
    <3>6. CASE x \notin T
      <4>1. (U \ {x}) \cap T = U \cap T /\ f[x] = 0
        BY <3>1, <3>6
      <4>2. G(U \ {x}) = G(U)
        BY <4>1 DEF G
      <4>3. F(U \ {x}) \in Int
        <5>1. IsFiniteSet(U \ {x}) /\ \A y \in U \ {x} : f[y] \in Int
          BY <3>3, FS_Subset
        <5> QED  BY <5>1, SumType DEF F
      <4> QED  BY <3>2, <3>4, <4>1, <4>2, <4>3
    <3> QED  BY <3>5, <3>6
  <2> QED  BY <2>1, <2>2
<1>2. S \in Q
  <2> HIDE DEF Q
  <2>1. \A U \in SUBSET S : (\A x \in U : U \ {x} \in Q) => U \in Q
    BY <1>1
  <2> QED  BY <2>1, SubsetInduction
<1>3. DOMAIN f = S /\ DOMAIN g = T /\ S \cap T = T
  OBVIOUS
<1> QED  BY <1>2, <1>3 DEF Q, F, G, SumFunction
=============================================================================
