--------------------------- MODULE RecursionTheorems ---------------------------
(***************************************************************************)
(* What the proofs about the credit ledger need to know of the sums        *)
(* SumFunctionOnSet(f, S) and SumFunction(f) of the community modules, for *)
(* finite sets S.  The sum is a recursive function that removes a chosen   *)
(* element of S at each call, so that it does not depend on the choice is  *)
(* itself a theorem (SumRemove).  Induction is by descent: a set of        *)
(* counterexamples would have a smallest member.  And what proofs about    *)
(* captions need to know of functions defined by recursion on a natural    *)
(* number, and of FoldLeft.                                                *)
(***************************************************************************)
EXTENDS Integers, FiniteSets, Functions, FiniteSetTheorems, TLAPS

SumStep(f, g, s) ==
    IF s = {} THEN 0 ELSE LET x == CHOOSE x \in s : TRUE IN f[x] + g[s \ {x}]
\* g follows the recursion for the subsets of up to n elements.
SumsUpTo(g, f, S, n) ==
    /\ DOMAIN g = SUBSET S /\ g = [s \in SUBSET S |-> g[s]]
    /\ \A s \in SUBSET S : Cardinality(s) <= n => g[s] = SumStep(f, g, s)
PartialSums(f, S) == CHOOSE g : g = [s \in SUBSET S |-> SumStep(f, g, s)]

LEMMA SumUnfolded ==
    ASSUME NEW f, NEW S
    PROVE  SumFunctionOnSet(f, S) = PartialSums(f, S)[S]
  BY DEF SumFunctionOnSet, FoldFunctionOnSet, MapThenFoldSet, PartialSums, SumStep

LEMMA Smallest ==
    ASSUME NEW T \in SUBSET Nat, T # {}
    PROVE  \E n \in T : \A m \in T : n <= m
  <1>1. PICK n \in T : \A m \in T : ~(<<m, n>> \in OpToRel(<, Nat))
    BY NatLessThanWellFounded, WFMin
  <1>2. \A m \in T : ~(m < n)
    <2>1. ASSUME NEW m \in T, m < n PROVE <<m, n>> \in OpToRel(<, Nat)
      BY <2>1, Zenon DEF OpToRel
    <2>2. QED
      BY <1>1, <2>1
  <1>3. QED
    BY <1>2

\* A set that every subset of S enters as soon as the subsets with one element
\* less are in it holds S.
LEMMA Descent ==
    ASSUME NEW S, IsFiniteSet(S), NEW T,
           \A U \in SUBSET S : (\A x \in U : U \ {x} \in T) => U \in T
    PROVE  S \in T
  <1> SUFFICES ASSUME S \notin T PROVE FALSE
    OBVIOUS
  <1> DEFINE sizes == {n \in Nat : \E U \in SUBSET S : U \notin T /\ Cardinality(U) = n}
  <1>1. Cardinality(S) \in sizes
    BY FS_CardinalityType
  <1>2. PICK n \in sizes : \A m \in sizes : n <= m
    BY <1>1, Smallest
  <1>3. PICK U \in SUBSET S : U \notin T /\ Cardinality(U) = n
    BY <1>2
  <1>4. ASSUME NEW x \in U PROVE U \ {x} \in T
    <2>1. Cardinality(U \ {x}) = n - 1 /\ IsFiniteSet(U \ {x}) /\ IsFiniteSet(U)
      BY <1>3, FS_Subset, FS_RemoveElement
    <2>2. Cardinality(U \ {x}) \in Nat
      BY <2>1, FS_CardinalityType
    <2>3. QED
      BY <1>2, <2>1, <2>2
  <1>5. QED
    BY <1>3, <1>4

\* The recursion can be followed for sets of up to n elements, for every n ...
LEMMA SumUpTo ==
    ASSUME NEW f, NEW S, IsFiniteSet(S), NEW n \in Nat
    PROVE  \E g : SumsUpTo(g, f, S, n)
  <1> DEFINE Good(m) == \E g : SumsUpTo(g, f, S, m)
             bad == {m \in Nat : ~Good(m)}
  <1> SUFFICES ASSUME ~Good(n) PROVE FALSE
    OBVIOUS
  <1>1. PICK m \in bad : \A k \in bad : m <= k
    <2>1. n \in bad
      OBVIOUS
    <2>2. bad \in SUBSET Nat /\ bad # {}
      BY <2>1
    <2> HIDE DEF bad
    <2>3. QED
      BY <2>2, Smallest
  <1>2. \A s \in SUBSET S : IsFiniteSet(s) /\ Cardinality(s) \in Nat
    BY FS_Subset, FS_CardinalityType
  <1>3. CASE m = 0
    <2> DEFINE g == [s \in SUBSET S |-> 0]
    <2>1. ASSUME NEW s \in SUBSET S, Cardinality(s) <= 0 PROVE g[s] = SumStep(f, g, s)
      <3>1. s = {}
        BY <1>2, <2>1, FS_EmptySet
      <3>2. QED
        BY <3>1 DEF SumStep
    <2>2. Good(m)
      <3>1. DOMAIN g = SUBSET S /\ g = [s \in SUBSET S |-> g[s]]
        OBVIOUS
      <3> HIDE DEF g
      <3>2. QED
        BY <1>3, <2>1, <3>1 DEF SumsUpTo
    <2>3. QED
      BY <2>2
  <1>4. CASE m # 0
    <2>1. m - 1 \in Nat /\ m - 1 \notin bad
      <3>1. m \in Nat /\ \A k \in bad : m <= k
        BY <1>1
      <3> HIDE DEF bad
      <3>2. QED
        BY <1>4, <3>1
    <2>2. Good(m - 1)
      BY <2>1
    <2>3. PICK h : /\ DOMAIN h = SUBSET S
                   /\ \A s \in SUBSET S : Cardinality(s) <= m - 1 => h[s] = SumStep(f, h, s)
      BY <2>2 DEF SumsUpTo
    <2> DEFINE g == [s \in SUBSET S |-> SumStep(f, h, s)]
    <2>4. ASSUME NEW s \in SUBSET S, Cardinality(s) <= m PROVE g[s] = SumStep(f, g, s)
      <3>1. CASE s = {}
        BY <3>1 DEF SumStep
      <3>2. CASE s # {}
        <4> DEFINE x == CHOOSE x \in s : TRUE
        <4>1. x \in s
          BY <3>2
        <4>2. s \ {x} \in SUBSET S /\ Cardinality(s \ {x}) <= m - 1
          <5>1. Cardinality(s \ {x}) = Cardinality(s) - 1
            BY <1>2, <4>1, FS_RemoveElement
          <5>2. m \in Nat /\ Cardinality(s) \in Nat
            BY <1>1, <1>2
          <5>3. QED
            BY <2>4, <5>1, <5>2
        <4>3. h[s \ {x}] = g[s \ {x}]
          BY <2>3, <4>2
        <4>4. g[s] = f[x] + h[s \ {x}]
          BY <3>2 DEF SumStep
        <4>5. SumStep(f, g, s) = f[x] + g[s \ {x}]
          BY <3>2 DEF SumStep
        <4>6. QED
          BY <4>3, <4>4, <4>5
      <3>3. QED
        BY <3>1, <3>2
    <2>5. DOMAIN g = SUBSET S /\ g = [s \in SUBSET S |-> g[s]]
      OBVIOUS
    <2>6. Good(m)
      <3> HIDE DEF g
      <3>1. QED
        BY <2>4, <2>5 DEF SumsUpTo
    <2>7. QED
      BY <2>6
  <1>5. QED
    BY <1>3, <1>4

\* ... hence for S and all its subsets.
LEMMA SumRecursion ==
    ASSUME NEW f, NEW S, IsFiniteSet(S)
    PROVE  \A s \in SUBSET S : PartialSums(f, S)[s] = SumStep(f, PartialSums(f, S), s)
  <1>1. PICK n \in Nat : n = Cardinality(S)
    BY FS_CardinalityType
  <1>2. PICK g : SumsUpTo(g, f, S, n)
    BY SumUpTo
  <1>3. \A s \in SUBSET S : Cardinality(s) <= n
    BY <1>1, FS_Subset
  <1>4. g = [s \in SUBSET S |-> SumStep(f, g, s)]
    <2>1. \A s \in SUBSET S : g[s] = SumStep(f, g, s)
      BY <1>2, <1>3 DEF SumsUpTo
    <2>2. [s \in SUBSET S |-> g[s]] = [s \in SUBSET S |-> SumStep(f, g, s)]
      BY <2>1
    <2>3. QED
      BY <1>2, <2>2 DEF SumsUpTo
  <1>5. PartialSums(f, S) = [s \in SUBSET S |-> SumStep(f, PartialSums(f, S), s)]
    BY <1>4, Zenon DEF PartialSums
  <1>6. QED
    BY <1>5, Zenon

LEMMA SumEmpty ==
    ASSUME NEW f
    PROVE  SumFunctionOnSet(f, {}) = 0
  <1>1. PartialSums(f, {})[{}] = SumStep(f, PartialSums(f, {}), {})
    BY FS_EmptySet, SumRecursion
  <1>2. QED
    BY <1>1, SumUnfolded DEF SumStep

LEMMA SumRestricted ==
    ASSUME NEW f, NEW S, IsFiniteSet(S), NEW W \in SUBSET S, NEW U \in SUBSET W
    PROVE  PartialSums(f, S)[U] = PartialSums(f, W)[U]
  <1> DEFINE T == {V \in SUBSET W : PartialSums(f, S)[V] = PartialSums(f, W)[V]}
  <1>1. IsFiniteSet(W) /\ IsFiniteSet(U)
    BY FS_Subset
  <1>2. ASSUME NEW V \in SUBSET U, \A x \in V : V \ {x} \in T
        PROVE  V \in T
    <2>1. /\ PartialSums(f, S)[V] = SumStep(f, PartialSums(f, S), V)
          /\ PartialSums(f, W)[V] = SumStep(f, PartialSums(f, W), V)
      BY <1>1, SumRecursion
    <2>2. CASE V = {}
      BY <2>1, <2>2 DEF SumStep
    <2>3. CASE V # {}
      <3> DEFINE x == CHOOSE x \in V : TRUE
      <3>1. PartialSums(f, S)[V \ {x}] = PartialSums(f, W)[V \ {x}]
        BY <1>2, <2>3
      <3>2. QED
        BY <2>1, <2>3, <3>1 DEF SumStep
    <2>4. QED
      BY <2>2, <2>3
  <1>3. U \in T
    <2> HIDE DEF T
    <2>1. QED
      BY <1>1, <1>2, Descent
  <1>4. QED
    BY <1>3

LEMMA SumChosen ==
    ASSUME NEW f, NEW S, IsFiniteSet(S), S # {}
    PROVE  \E x \in S : SumFunctionOnSet(f, S) = f[x] + SumFunctionOnSet(f, S \ {x})
  <1> DEFINE x == CHOOSE x \in S : TRUE
  <1>1. x \in S
    OBVIOUS
  <1>2. PartialSums(f, S)[S] = f[x] + PartialSums(f, S)[S \ {x}]
    BY SumRecursion DEF SumStep
  <1>3. PartialSums(f, S)[S \ {x}] = PartialSums(f, S \ {x})[S \ {x}]
    BY SumRestricted
  <1> HIDE DEF x
  <1>4. QED
    BY <1>1, <1>2, <1>3, SumUnfolded

LEMMA SumType ==
    ASSUME NEW f, NEW S, IsFiniteSet(S), \A x \in S : f[x] \in Int
    PROVE  SumFunctionOnSet(f, S) \in Int
  <1> DEFINE T == {U \in SUBSET S : SumFunctionOnSet(f, U) \in Int}
  <1>1. ASSUME NEW U \in SUBSET S, \A x \in U : U \ {x} \in T
        PROVE  U \in T
    <2>1. CASE U = {}
      BY <2>1, SumEmpty
    <2>2. CASE U # {}
      <3>1. PICK x \in U : SumFunctionOnSet(f, U) = f[x] + SumFunctionOnSet(f, U \ {x})
        BY <2>2, FS_Subset, SumChosen
      <3>2. SumFunctionOnSet(f, U \ {x}) \in Int /\ f[x] \in Int
        BY <1>1
      <3>3. QED
        BY <3>1, <3>2
    <2>3. QED
      BY <2>1, <2>2
  <1>2. S \in T
    <2> HIDE DEF T
    <2>1. QED
      BY <1>1, Descent
  <1>3. QED
    BY <1>2

\* A sum does not depend on the order: any element can be taken out first.
THEOREM SumRemove ==
    ASSUME NEW f, NEW S, IsFiniteSet(S), \A x \in S : f[x] \in Int, NEW x \in S
    PROVE  SumFunctionOnSet(f, S) = f[x] + SumFunctionOnSet(f, S \ {x})
  <1> DEFINE T == {U \in SUBSET S : \A y \in U :
                      SumFunctionOnSet(f, U) = f[y] + SumFunctionOnSet(f, U \ {y})}
  <1>1. ASSUME NEW U \in SUBSET S, \A y \in U : U \ {y} \in T
        PROVE  U \in T
    <2> SUFFICES ASSUME NEW y \in U
                 PROVE  SumFunctionOnSet(f, U) = f[y] + SumFunctionOnSet(f, U \ {y})
      OBVIOUS
    <2>1. IsFiniteSet(U) /\ U # {}
      BY FS_Subset
    <2>2. PICK c \in U : SumFunctionOnSet(f, U) = f[c] + SumFunctionOnSet(f, U \ {c})
      BY <2>1, SumChosen
    <2>3. CASE c = y
      BY <2>2, <2>3
    <2>4. CASE c # y
      <3> DEFINE rest == (U \ {c}) \ {y}
      <3>1. SumFunctionOnSet(f, U \ {c}) = f[y] + SumFunctionOnSet(f, rest)
        BY <1>1, <2>4
      <3>2. SumFunctionOnSet(f, U \ {y}) = f[c] + SumFunctionOnSet(f, rest)
        <4>1. rest = (U \ {y}) \ {c}
          OBVIOUS
        <4>2. c \in U \ {y}
          BY <2>4
        <4> HIDE DEF rest
        <4>3. QED
          BY <1>1, <4>1, <4>2
      <3>3. SumFunctionOnSet(f, rest) \in Int
        BY FS_Subset, SumType
      <3>4. f[c] \in Int /\ f[y] \in Int
        OBVIOUS
      <3> HIDE DEF rest
      <3>5. QED
        BY <2>2, <3>1, <3>2, <3>3, <3>4
    <2>5. QED
      BY <2>3, <2>4
  <1>2. S \in T
    <2> HIDE DEF T
    <2>1. QED
      BY <1>1, Descent
  <1>3. QED
    BY <1>2

\* Only the values on S count.
THEOREM SumSame ==
    ASSUME NEW f, NEW g, NEW S, IsFiniteSet(S),
           \A x \in S : f[x] \in Int /\ g[x] = f[x]
    PROVE  SumFunctionOnSet(g, S) = SumFunctionOnSet(f, S)
  <1> DEFINE T == {U \in SUBSET S : SumFunctionOnSet(g, U) = SumFunctionOnSet(f, U)}
  <1>1. ASSUME NEW U \in SUBSET S, \A x \in U : U \ {x} \in T
        PROVE  U \in T
    <2>1. CASE U = {}
      BY <2>1, SumEmpty
    <2>2. CASE U # {}
      <3>1. PICK x \in U : TRUE
        BY <2>2
      <3>2. /\ SumFunctionOnSet(f, U) = f[x] + SumFunctionOnSet(f, U \ {x})
            /\ SumFunctionOnSet(g, U) = g[x] + SumFunctionOnSet(g, U \ {x})
        BY FS_Subset, SumRemove
      <3>3. QED
        BY <1>1, <3>2
    <2>3. QED
      BY <2>1, <2>2
  <1>2. S \in T
    <2> HIDE DEF T
    <2>1. QED
      BY <1>1, Descent
  <1>3. QED
    BY <1>2

\* The sum of pointwise sums.
THEOREM SumPlus ==
    ASSUME NEW f, NEW g, NEW h, NEW S, IsFiniteSet(S),
           \A x \in S : f[x] \in Int /\ g[x] \in Int /\ h[x] = f[x] + g[x]
    PROVE  SumFunctionOnSet(h, S) = SumFunctionOnSet(f, S) + SumFunctionOnSet(g, S)
  <1> DEFINE T == {U \in SUBSET S :
                      SumFunctionOnSet(h, U) = SumFunctionOnSet(f, U) + SumFunctionOnSet(g, U)}
  <1>1. ASSUME NEW U \in SUBSET S, \A x \in U : U \ {x} \in T
        PROVE  U \in T
    <2>1. CASE U = {}
      BY <2>1, SumEmpty
    <2>2. CASE U # {}
      <3>1. PICK x \in U : TRUE
        BY <2>2
      <3>2. /\ SumFunctionOnSet(f, U) = f[x] + SumFunctionOnSet(f, U \ {x})
            /\ SumFunctionOnSet(g, U) = g[x] + SumFunctionOnSet(g, U \ {x})
            /\ SumFunctionOnSet(h, U) = h[x] + SumFunctionOnSet(h, U \ {x})
        <4>1. IsFiniteSet(U) /\ \A y \in U : f[y] \in Int /\ g[y] \in Int /\ h[y] \in Int
          BY FS_Subset
        <4>2. QED
          BY <4>1, SumRemove
      <3>3. SumFunctionOnSet(f, U \ {x}) \in Int /\ SumFunctionOnSet(g, U \ {x}) \in Int
        BY FS_Subset, SumType
      <3>4. SumFunctionOnSet(h, U \ {x}) =
                SumFunctionOnSet(f, U \ {x}) + SumFunctionOnSet(g, U \ {x})
        BY <1>1
      <3>5. f[x] \in Int /\ g[x] \in Int /\ h[x] = f[x] + g[x]
        OBVIOUS
      <3>6. QED
        BY <3>2, <3>3, <3>4, <3>5
    <2>3. QED
      BY <2>1, <2>2
  <1>2. S \in T
    <2> HIDE DEF T
    <2>1. QED
      BY <1>1, Descent
  <1>3. QED
    BY <1>2

\* A sum of zeros is zero.
THEOREM SumZero ==
    ASSUME NEW f, NEW S, IsFiniteSet(S), \A x \in S : f[x] = 0
    PROVE  SumFunctionOnSet(f, S) = 0
  <1>1. SumFunctionOnSet(f, S) = SumFunctionOnSet(f, S) + SumFunctionOnSet(f, S)
    BY SumPlus
  <1>2. PICK sum \in Int : sum = SumFunctionOnSet(f, S)
    BY SumType
  <1>3. sum = sum + sum
    BY <1>1, <1>2
  <1>4. sum = 0
    BY <1>3
  <1>5. QED
    BY <1>2, <1>4

\* A sum of naturals is a natural and no less than any of them.
THEOREM SumNat ==
    ASSUME NEW f, NEW S, IsFiniteSet(S), \A x \in S : f[x] \in Nat
    PROVE  /\ SumFunctionOnSet(f, S) \in Nat
           /\ \A x \in S : f[x] <= SumFunctionOnSet(f, S)
  <1> DEFINE T == {U \in SUBSET S : SumFunctionOnSet(f, U) \in Nat}
  <1>1. ASSUME NEW U \in SUBSET S, \A x \in U : U \ {x} \in T
        PROVE  U \in T
    <2>1. CASE U = {}
      BY <2>1, SumEmpty
    <2>2. CASE U # {}
      <3>1. PICK x \in U : SumFunctionOnSet(f, U) = f[x] + SumFunctionOnSet(f, U \ {x})
        BY <2>2, FS_Subset, SumChosen
      <3>2. QED
        BY <1>1, <3>1
    <2>3. QED
      BY <2>1, <2>2
  <1>2. \A U \in SUBSET S : U \in T
    <2> SUFFICES ASSUME NEW U \in SUBSET S PROVE U \in T
      OBVIOUS
    <2>1. IsFiniteSet(U)
      BY FS_Subset
    <2>2. \A V \in SUBSET U : (\A x \in V : V \ {x} \in T) => V \in T
      BY <1>1
    <2> HIDE DEF T
    <2>3. QED
      BY <2>1, <2>2, Descent
  <1>3. ASSUME NEW x \in S PROVE f[x] <= SumFunctionOnSet(f, S)
    <2>1. SumFunctionOnSet(f, S) = f[x] + SumFunctionOnSet(f, S \ {x})
      BY SumRemove
    <2>2. SumFunctionOnSet(f, S \ {x}) \in Nat
      BY <1>2
    <2>3. QED
      BY <2>1, <2>2
  <1>4. QED
    BY <1>2, <1>3

\* One more term.
THEOREM SumAdd ==
    ASSUME NEW f, NEW S, IsFiniteSet(S), NEW x, x \notin S,
           \A y \in S \cup {x} : f[y] \in Int
    PROVE  SumFunctionOnSet(f, S \cup {x}) = f[x] + SumFunctionOnSet(f, S)
  <1>1. IsFiniteSet(S \cup {x}) /\ (S \cup {x}) \ {x} = S
    BY FS_AddElement
  <1>2. QED
    BY <1>1, SumRemove

\* One value changes.
THEOREM SumChange ==
    ASSUME NEW f, NEW g, NEW S, IsFiniteSet(S), NEW x \in S,
           \A y \in S : f[y] \in Int, g[x] \in Int,
           \A y \in S \ {x} : g[y] = f[y]
    PROVE  SumFunctionOnSet(g, S) = SumFunctionOnSet(f, S) - f[x] + g[x]
  <1>1. SumFunctionOnSet(f, S) = f[x] + SumFunctionOnSet(f, S \ {x})
    BY SumRemove
  <1>2. SumFunctionOnSet(g, S) = g[x] + SumFunctionOnSet(g, S \ {x})
    <2>1. \A y \in S : g[y] \in Int
      OBVIOUS
    <2>2. QED
      BY <2>1, SumRemove
  <1>3. IsFiniteSet(S \ {x})
    BY FS_RemoveElement
  <1>4. SumFunctionOnSet(g, S \ {x}) = SumFunctionOnSet(f, S \ {x})
    BY <1>3, SumSame
  <1>5. SumFunctionOnSet(f, S \ {x}) \in Int /\ f[x] \in Int
    BY <1>3, SumType
  <1>6. QED
    BY <1>1, <1>2, <1>4, <1>5

\* More terms, no smaller a sum of naturals.
THEOREM SumSubset ==
    ASSUME NEW f, NEW S, IsFiniteSet(S), \A x \in S : f[x] \in Nat, NEW U \in SUBSET S
    PROVE  SumFunctionOnSet(f, U) <= SumFunctionOnSet(f, S)
  <1> DEFINE inside == [x \in S |-> IF x \in U THEN f[x] ELSE 0]
             outside == [x \in S |-> IF x \in U THEN 0 ELSE f[x]]
  <1>1. SumFunctionOnSet(f, S) = SumFunctionOnSet(inside, S) + SumFunctionOnSet(outside, S)
    BY SumPlus
  <1>2. SumFunctionOnSet(outside, S) \in Nat
    <2>1. \A x \in S : outside[x] \in Nat
      OBVIOUS
    <2> HIDE DEF outside
    <2>2. QED
      BY <2>1, SumNat
  <1>3. SumFunctionOnSet(inside, S) = SumFunctionOnSet(f, U)
    <2> DEFINE T == {V \in SUBSET S :
                        SumFunctionOnSet(inside, V) = SumFunctionOnSet(f, V \cap U)}
    <2>1. ASSUME NEW V \in SUBSET S, \A x \in V : V \ {x} \in T
          PROVE  V \in T
      <3>1. CASE V = {}
        <4>1. V \cap U = {}
          BY <3>1
        <4>2. QED
          BY <3>1, <4>1, SumEmpty
      <3>2. CASE V # {}
        <4>1. PICK x \in V : SumFunctionOnSet(inside, V) = inside[x] + SumFunctionOnSet(inside, V \ {x})
          BY <3>2, FS_Subset, SumChosen
        <4>2. SumFunctionOnSet(inside, V \ {x}) = SumFunctionOnSet(f, (V \ {x}) \cap U)
          BY <2>1
        <4>3. SumFunctionOnSet(f, (V \ {x}) \cap U) \in Nat
          BY FS_Subset, SumNat
        <4>4. CASE x \in U
          <5>1. (V \ {x}) \cap U = (V \cap U) \ {x} /\ x \in V \cap U
            BY <4>4
          <5>2. SumFunctionOnSet(f, V \cap U) = f[x] + SumFunctionOnSet(f, (V \cap U) \ {x})
            BY <5>1, FS_Subset, SumRemove
          <5>3. inside[x] = f[x]
            BY <4>4
          <5>4. QED
            BY <4>1, <4>2, <5>1, <5>2, <5>3
        <4>5. CASE x \notin U
          <5>1. (V \ {x}) \cap U = V \cap U
            BY <4>5
          <5>2. inside[x] = 0
            BY <4>5
          <5>3. PICK n \in Nat : n = SumFunctionOnSet(f, V \cap U)
            BY <4>3, <5>1
          <5>4. SumFunctionOnSet(inside, V) = 0 + n
            BY <4>1, <4>2, <5>1, <5>2, <5>3
          <5>5. QED
            BY <5>3, <5>4
        <4>6. QED
          BY <4>4, <4>5
      <3>3. QED
        BY <3>1, <3>2
    <2>2. S \in T
      <3> HIDE DEF T
      <3>1. QED
        BY <2>1, Descent
    <2>3. S \cap U = U
      OBVIOUS
    <2>4. QED
      BY <2>2, <2>3
  <1>4. SumFunctionOnSet(f, U) \in Nat
    BY FS_Subset, SumNat
  <1>5. QED
    BY <1>1, <1>2, <1>3, <1>4

-----------------------------------------------------------------------------
(* Other recursive functions.                                              *)

\* Induction up to N.
THEOREM Upward ==
    ASSUME NEW N \in Nat, NEW T, 0 \in T, \A k \in 1..N : k - 1 \in T => k \in T
    PROVE  \A k \in 0..N : k \in T
  <1> DEFINE bad == {k \in 0..N : k \notin T}
  <1> SUFFICES ASSUME bad # {} PROVE FALSE
    OBVIOUS
  <1>1. PICK k \in bad : \A m \in bad : k <= m
    <2>1. bad \in SUBSET Nat
      OBVIOUS
    <2> HIDE DEF bad
    <2>2. QED
      BY <2>1, Smallest
  <1>2. k \in 1..N /\ k \notin T
    BY <1>1
  <1>3. k - 1 \notin bad
    BY <1>1, <1>2
  <1>4. QED
    BY <1>2, <1>3

\* g is the function on 0..N that the recursion g[k] = step[k][g[k-1]] gives.
Follows(g, base, step, N) ==
    \A k \in 0..N : g[k] = IF k = 0 THEN base ELSE step[k][g[k - 1]]

\* A function on 0..N can be defined by recursion on its argument, and its values are
\* in the sets V[k] if every step leads from one to the next: what is needed to know
\* that the tables of the two dynamic programs (segmentation.ts, lines.ts) exist.
THEOREM TypedRecursion ==
    ASSUME NEW N \in Nat, NEW V, NEW base \in V[0], NEW step,
           \A k \in 1..N : \A v \in V[k - 1] : step[k][v] \in V[k]
    PROVE  /\ \E g : g = [k \in 0..N |-> g[k]] /\ Follows(g, base, step, N)
           /\ \A g : Follows(g, base, step, N) => \A k \in 0..N : g[k] \in V[k]
  <1>1. ASSUME NEW g, NEW n \in 0..N, Follows(g, base, step, n)
        PROVE  \A k \in 0..n : g[k] \in V[k]
    <2> DEFINE T == {k \in 0..n : g[k] \in V[k]}
    <2>1. 0 \in T
      BY <1>1 DEF Follows
    <2>2. ASSUME NEW k \in 1..n, k - 1 \in T PROVE k \in T
      BY <1>1, <2>2 DEF Follows
    <2> HIDE DEF T
    <2>3. \A k \in 0..n : k \in T
      BY <2>1, <2>2, Upward
    <2>4. QED
      BY <2>3 DEF T
  <1> DEFINE Good(n) == \E g : g = [k \in 0..n |-> g[k]] /\ Follows(g, base, step, n)
             T == {n \in 0..N : Good(n)}
  <1>2. 0 \in T
    <2> DEFINE g == [k \in 0..0 |-> base]
    <2>1. g = [k \in 0..0 |-> g[k]] /\ Follows(g, base, step, 0)
      BY DEF Follows
    <2>2. Good(0)
      BY <2>1
    <2>3. QED
      BY <2>2
  <1>3. ASSUME NEW n \in 1..N, n - 1 \in T PROVE n \in T
    <2>1. PICK g : Follows(g, base, step, n - 1)
      BY <1>3
    <2>2. PICK h : h = [k \in 0..n |-> IF k = n THEN step[n][g[n - 1]] ELSE g[k]]
      OBVIOUS
    <2>3. h = [k \in 0..n |-> h[k]]
      BY <2>2
    <2>4. Follows(h, base, step, n)
      BY <2>1, <2>2 DEF Follows
    <2>5. Good(n)
      BY <2>3, <2>4
    <2>6. QED
      BY <2>5
  <1>4. Good(N)
    <2> HIDE DEF T
    <2>1. \A k \in 0..N : k \in T
      BY <1>2, <1>3, Upward
    <2>2. N \in T
      BY <2>1
    <2>3. QED
      BY <2>2 DEF T
  <1>5. QED
    BY <1>1, <1>4

THEOREM Recursion ==
    ASSUME NEW N \in Nat, NEW V, NEW base \in V, NEW step,
           \A k \in 1..N : \A v \in V : step[k][v] \in V
    PROVE  \E g \in [0..N -> V] : Follows(g, base, step, N)
  <1>1. PICK W : W = [k \in 0..N |-> V]
    OBVIOUS
  <1>2. base \in W[0] /\ \A k \in 1..N : \A v \in W[k - 1] : step[k][v] \in W[k]
    BY <1>1
  <1>3. PICK g : /\ g = [k \in 0..N |-> g[k]] /\ Follows(g, base, step, N)
                 /\ \A k \in 0..N : g[k] \in W[k]
    BY <1>2, TypedRecursion
  <1>4. g \in [0..N -> V]
    BY <1>1, <1>3
  <1>5. QED
    BY <1>3, <1>4

\* The recursion of FoldLeft: the greatest index of a set is left to the last.
Greatest(s) == CHOOSE x \in s : \A y \in s : x >= y
FoldFollows(g, base, step, S) ==
    \A s \in SUBSET S :
        g[s] = IF s = {} THEN base ELSE step[Greatest(s)][g[s \ {Greatest(s)}]]

LEMMA GreatestIs ==
    ASSUME NEW n \in Int, NEW s \in SUBSET Int, n \in s, \A k \in s : k <= n
    PROVE  Greatest(s) = n
  <1>1. \A y \in s : n >= y
    OBVIOUS
  <1>2. Greatest(s) \in s /\ \A y \in s : Greatest(s) >= y
    BY <1>1 DEF Greatest
  <1>3. Greatest(s) \in Int /\ Greatest(s) <= n /\ Greatest(s) >= n
    BY <1>2
  <1>4. QED
    BY <1>3

THEOREM FoldRecursion ==
    ASSUME NEW N \in Nat, NEW V, NEW base \in V, NEW step,
           \A k \in 1..N : \A v \in V : step[k][v] \in V
    PROVE  \E g \in [SUBSET (1..N) -> V] : FoldFollows(g, base, step, 1..N)
  <1> DEFINE T == {n \in 0..N :
                      \E g \in [SUBSET (1..n) -> V] : FoldFollows(g, base, step, 1..n)}
  <1>1. 0 \in T
    <2> DEFINE g == [s \in SUBSET (1..0) |-> base]
    <2>1. g \in [SUBSET (1..0) -> V] /\ FoldFollows(g, base, step, 1..0)
      BY DEF FoldFollows
    <2>2. QED
      BY <2>1
  <1>2. ASSUME NEW n \in 1..N, n - 1 \in T PROVE n \in T
    <2>1. PICK g \in [SUBSET (1 .. n - 1) -> V] : FoldFollows(g, base, step, 1 .. n - 1)
      BY <1>2
    <2>2. PICK h : h = [s \in SUBSET (1..n) |-> IF n \in s THEN step[n][g[s \ {n}]] ELSE g[s]]
      OBVIOUS
    <2>3. \A s \in SUBSET (1..n) : s \ {n} \in SUBSET (1 .. n - 1)
      OBVIOUS
    <2>4. h \in [SUBSET (1..n) -> V]
      <3>1. ASSUME NEW s \in SUBSET (1..n)
            PROVE  (IF n \in s THEN step[n][g[s \ {n}]] ELSE g[s]) \in V
        <4>1. g[s \ {n}] \in V
          BY <2>1, <2>3
        <4>2. n \notin s => s = s \ {n}
          OBVIOUS
        <4>3. QED
          BY <4>1, <4>2
      <3>2. QED
        BY <2>2, <3>1
    <2>5. ASSUME NEW s \in SUBSET (1..n)
          PROVE  h[s] = IF s = {} THEN base ELSE step[Greatest(s)][h[s \ {Greatest(s)}]]
      <3>1. CASE n \in s
        <4>1. Greatest(s) = n
          BY <3>1, GreatestIs
        <4>2. h[s] = step[n][g[s \ {n}]]
          BY <2>2, <3>1
        <4>3. h[s \ {n}] = g[s \ {n}]
          BY <2>2
        <4>4. QED
          BY <3>1, <4>1, <4>2, <4>3
      <3>2. CASE n \notin s
        <4>1. s \in SUBSET (1 .. n - 1)
          BY <3>2, <2>3
        <4>2. h[s] = g[s] /\ h[s \ {Greatest(s)}] = g[s \ {Greatest(s)}]
          <5>1. PICK t : t = s \ {Greatest(s)}
            OBVIOUS
          <5>2. t \in SUBSET (1..n) /\ n \notin t
            BY <3>2, <5>1
          <5>3. QED
            BY <2>2, <3>2, <5>1, <5>2
        <4>3. QED
          BY <2>1, <4>1, <4>2 DEF FoldFollows
      <3>3. QED
        BY <3>1, <3>2
    <2>6. FoldFollows(h, base, step, 1..n)
      BY <2>5 DEF FoldFollows
    <2>7. QED
      BY <2>4, <2>6
  <1> HIDE DEF T
  <1>3. \A k \in 0..N : k \in T
    BY <1>1, <1>2, Upward
  <1>4. N \in T
    BY <1>3
  <1>5. QED
    BY <1>4 DEF T
================================================================================
