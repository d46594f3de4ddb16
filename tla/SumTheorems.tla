----------------------------- MODULE SumTheorems -----------------------------
(***************************************************************************)
(* Sums over finite sets: what SumFunctionOnSet of the community modules   *)
(* computes, for every finite set and every integer-valued function.       *)
(* Induction is over sets of finite sets, by a minimal counterexample.     *)
(***************************************************************************)
EXTENDS Integers, FiniteSets, Functions, FiniteSetTheorems, TLAPS

-----------------------------------------------------------------------------
(***************************************************************************)
(* Induction over finite sets                                              *)
(***************************************************************************)

\* What holds of a finite set whenever it holds of its proper subsets holds
\* of every subset of a finite set.
LEMMA SubsetInduction ==
  ASSUME NEW S, IsFiniteSet(S), NEW Good,
         \A T \in SUBSET S : (\A U \in SUBSET T : U # T => U \in Good) => T \in Good
  PROVE  SUBSET S \subseteq Good
<1> DEFINE Bad == (SUBSET S) \ Good
           less == StrictSubsetOrdering(S)
<1>1. SUFFICES ASSUME Bad # {} PROVE FALSE
  OBVIOUS
<1>2. IsWellFoundedOn(less, SUBSET S)
  BY FS_StrictSubsetOrderingWellFounded, FS_FiniteSubsetsOfFinite
<1>3. Bad \subseteq SUBSET S
  OBVIOUS
<1> HIDE DEF Bad, less
<1>4. PICK T \in Bad : \A U \in Bad : <<U, T>> \notin less
  BY <1>1, <1>2, <1>3, WFMin
<1>5. \A U \in SUBSET T : U # T => U \in Good
  BY <1>3, <1>4 DEF Bad, less, StrictSubsetOrdering
<1> QED
  BY <1>4, <1>5 DEF Bad

\* The usual induction over a finite set.
LEMMA ElementInduction ==
  ASSUME NEW S, IsFiniteSet(S), NEW Good, {} \in Good,
         \A T \in SUBSET S : \A x \in T : T \ {x} \in Good => T \in Good
  PROVE  S \in Good
<1>1. ASSUME NEW T \in SUBSET S, \A U \in SUBSET T : U # T => U \in Good
      PROVE  T \in Good
  <2>1. CASE T = {}
    BY <2>1
  <2>2. ASSUME NEW x \in T
        PROVE  T \in Good
    <3>1. T \ {x} \in SUBSET T /\ T \ {x} # T
      BY <2>2
    <3> QED
      BY <1>1, <3>1
  <2> QED
    BY <2>1, <2>2
<1> QED
  BY <1>1, SubsetInduction

-----------------------------------------------------------------------------
(***************************************************************************)
(* The recursion behind SumFunctionOnSet is well defined                   *)
(***************************************************************************)

Pick(s) == CHOOSE x \in s : TRUE

SumBody(f, g, s) == IF s = {} THEN 0 ELSE f[Pick(s)] + g[s \ {Pick(s)}]

\* The sums over the subsets of S.
Sums(f, S) == CHOOSE g : g = [s \in SUBSET S |-> SumBody(f, g, s)]

LEMMA SumUnfolds ==
  ASSUME NEW f, NEW S
  PROVE  SumFunctionOnSet(f, S) = Sums(f, S)[S]
BY DEF SumFunctionOnSet, FoldFunctionOnSet, MapThenFoldSet, Sums, SumBody, Pick

\* What the sums over the subsets of S must be.
Fixpoint(f, g, S) == g = [s \in SUBSET S |-> SumBody(f, g, s)]

\* A set that is picked from loses an element.
LEMMA PickIn ==
  ASSUME NEW s, s # {}
  PROVE  Pick(s) \in s /\ s \ {Pick(s)} \in SUBSET s /\ s \ {Pick(s)} # s
BY DEF Pick

\* The sums over the subsets of one set agree with those over the subsets of
\* another, where both are defined.
LEMMA FixpointsAgree ==
  ASSUME NEW f, NEW S, IsFiniteSet(S), NEW T, S \subseteq T,
         NEW g, NEW h, Fixpoint(f, g, S), Fixpoint(f, h, T)
  PROVE  \A s \in SUBSET S : g[s] = h[s]
<1> DEFINE Good == {s \in SUBSET S : g[s] = h[s]}
<1>1. ASSUME NEW s \in SUBSET S, \A u \in SUBSET s : u # s => u \in Good
      PROVE  s \in Good
  <2>1. g[s] = SumBody(f, g, s) /\ h[s] = SumBody(f, h, s)
    BY DEF Fixpoint
  <2>2. CASE s = {}
    BY <2>1, <2>2 DEF SumBody
  <2>3. CASE s # {}
    <3>1. g[s \ {Pick(s)}] = h[s \ {Pick(s)}]
      BY <1>1, <2>3, PickIn
    <3> QED
      BY <2>1, <2>3, <3>1 DEF SumBody
  <2> QED
    BY <2>2, <2>3
<1> HIDE DEF Good
<1>2. SUBSET S \subseteq Good
  BY <1>1, SubsetInduction
<1> QED
  BY <1>2 DEF Good

\* They exist.
LEMMA FixpointExists ==
  ASSUME NEW f, NEW S, IsFiniteSet(S)
  PROVE  Fixpoint(f, Sums(f, S), S)
<1> DEFINE Good == {T \in SUBSET S : Fixpoint(f, Sums(f, T), T)}
<1>1. ASSUME NEW T \in SUBSET S, \A U \in SUBSET T : U # T => U \in Good
      PROVE  T \in Good
  <2> DEFINE value(s) == IF s = T THEN SumBody(f, [u \in SUBSET T |-> Sums(f, u)[u]], T)
                         ELSE Sums(f, s)[s]
             g == [s \in SUBSET T |-> value(s)]
  <2>1. \A s \in SUBSET T : s # T => Fixpoint(f, Sums(f, s), s)
    BY <1>1
  <2>2. \A s \in SUBSET T : IsFiniteSet(s)
    BY FS_Subset
  <2>3. ASSUME NEW s \in SUBSET T
        PROVE  g[s] = SumBody(f, g, s)
    <3>1. CASE s = {}
      <4>1. CASE s = T
        BY <3>1, <4>1 DEF SumBody
      <4>2. CASE s # T
        BY <2>1, <3>1, <4>2 DEF Fixpoint, SumBody
      <4> QED
        BY <4>1, <4>2
    <3>2. CASE s # {}
      <4> DEFINE r == s \ {Pick(s)}
      <4>1. r \in SUBSET s /\ r # s /\ r \in SUBSET T /\ r # T
        BY <3>2, PickIn
      <4>2. g[r] = Sums(f, r)[r]
        BY <4>1
      <4>3. CASE s = T
        <5>1. g[s] = SumBody(f, [u \in SUBSET T |-> Sums(f, u)[u]], s)
          BY <4>3
        <5> QED
          BY <3>2, <4>1, <4>2, <5>1 DEF SumBody
      <4>4. CASE s # T
        <5>1. g[s] = Sums(f, s)[s]
          BY <4>4
        <5>2. Fixpoint(f, Sums(f, s), s) /\ Fixpoint(f, Sums(f, r), r)
          BY <2>1, <4>1, <4>4
        <5>3. Sums(f, s)[r] = Sums(f, r)[r]
          <6>1. IsFiniteSet(r) /\ r \subseteq s /\ r \in SUBSET r
            BY <2>2, <4>1
          <6> HIDE DEF r
          <6>2. \A u \in SUBSET r : Sums(f, r)[u] = Sums(f, s)[u]
            BY <5>2, <6>1, FixpointsAgree
          <6> QED
            BY <6>1, <6>2
        <5>4. Sums(f, s)[s] = SumBody(f, Sums(f, s), s)
          BY <5>2 DEF Fixpoint
        <5> QED
          BY <3>2, <4>2, <5>1, <5>3, <5>4 DEF SumBody
      <4> QED
        BY <4>3, <4>4
    <3> QED
      BY <3>1, <3>2
  <2>4. Fixpoint(f, g, T)
    <3>1. g = [s \in SUBSET T |-> g[s]]
      OBVIOUS
    <3> HIDE DEF g
    <3>2. g = [s \in SUBSET T |-> SumBody(f, g, s)]
      BY <2>3, <3>1
    <3> QED
      BY <3>2 DEF Fixpoint
  <2> HIDE DEF g
  <2>5. Fixpoint(f, Sums(f, T), T)
    BY <2>4 DEF Fixpoint, Sums
  <2> QED
    BY <2>5
<1> HIDE DEF Good
<1>2. SUBSET S \subseteq Good
  BY <1>1, SubsetInduction
<1> QED
  BY <1>2 DEF Good

-----------------------------------------------------------------------------
(***************************************************************************)
(* What a sum is                                                           *)
(***************************************************************************)

\* The sum over nothing.
LEMMA SumEmpty ==
  ASSUME NEW f
  PROVE  SumFunctionOnSet(f, {}) = 0
<1>1. Fixpoint(f, Sums(f, {}), {})
  BY FixpointExists, FS_EmptySet
<1> QED
  BY <1>1, SumUnfolds DEF Fixpoint, SumBody

\* The sums over the subsets of S restrict to those of a subset.
LEMMA SumsRestrict ==
  ASSUME NEW f, NEW S, IsFiniteSet(S), NEW R, R \subseteq S
  PROVE  Sums(f, S)[R] = Sums(f, R)[R]
<1>1. IsFiniteSet(R) /\ R \in SUBSET R
  BY FS_Subset
<1>2. Fixpoint(f, Sums(f, S), S)
  BY FixpointExists
<1>3. Fixpoint(f, Sums(f, R), R)
  BY <1>1, FixpointExists
<1> DEFINE g == Sums(f, R)
           h == Sums(f, S)
<1> HIDE DEF g, h
<1>4. Fixpoint(f, g, R) /\ Fixpoint(f, h, S)
  BY <1>2, <1>3 DEF g, h
<1>5. \A u \in SUBSET R : g[u] = h[u]
  BY <1>1, <1>4, FixpointsAgree
<1> QED
  BY <1>1, <1>5 DEF g, h

\* The recursion, for the element that it picks.
LEMMA SumPicks ==
  ASSUME NEW f, NEW S, IsFiniteSet(S), S # {}
  PROVE  SumFunctionOnSet(f, S)
           = f[Pick(S)] + SumFunctionOnSet(f, S \ {Pick(S)})
<1>1. Fixpoint(f, Sums(f, S), S)
  BY FixpointExists
<1>2. Sums(f, S)[S \ {Pick(S)}] = Sums(f, S \ {Pick(S)})[S \ {Pick(S)}]
  BY SumsRestrict
<1>3. Sums(f, S)[S] = SumBody(f, Sums(f, S), S)
  BY <1>1 DEF Fixpoint
<1> QED
  BY <1>2, <1>3, SumUnfolds DEF SumBody

\* A sum of integers is an integer.
LEMMA SumInt ==
  ASSUME NEW S, IsFiniteSet(S), NEW f, \A x \in S : f[x] \in Int
  PROVE  SumFunctionOnSet(f, S) \in Int
<1> DEFINE Good == {T \in SUBSET S : SumFunctionOnSet(f, T) \in Int}
<1>1. ASSUME NEW T \in SUBSET S, \A U \in SUBSET T : U # T => U \in Good
      PROVE  T \in Good
  <2>1. CASE T = {}
    BY <2>1, SumEmpty
  <2>2. CASE T # {}
    <3>1. Pick(T) \in T /\ T \ {Pick(T)} \in Good
      BY <1>1, <2>2, PickIn
    <3>2. IsFiniteSet(T)
      BY FS_Subset
    <3> QED
      BY <2>2, <3>1, <3>2, SumPicks
  <2> QED
    BY <2>1, <2>2
<1> HIDE DEF Good
<1>2. SUBSET S \subseteq Good
  BY <1>1, SubsetInduction
<1> QED
  BY <1>2 DEF Good

\* Any element may be taken out of a sum.
LEMMA SumTakesOut ==
  ASSUME NEW S, IsFiniteSet(S), NEW f, \A y \in S : f[y] \in Int, NEW x \in S
  PROVE  SumFunctionOnSet(f, S) = f[x] + SumFunctionOnSet(f, S \ {x})
<1> DEFINE Good == {T \in SUBSET S : \A y \in T :
                      SumFunctionOnSet(f, T) = f[y] + SumFunctionOnSet(f, T \ {y})}
<1>1. ASSUME NEW T \in SUBSET S, \A U \in SUBSET T : U # T => U \in Good
      PROVE  T \in Good
  <2>1. SUFFICES ASSUME NEW y \in T
                 PROVE  SumFunctionOnSet(f, T) = f[y] + SumFunctionOnSet(f, T \ {y})
    OBVIOUS
  <2> DEFINE p == Pick(T)
             R == T \ {p, y}
  <2>2. p \in T /\ IsFiniteSet(T)
    BY PickIn, FS_Subset
  <2>3. SumFunctionOnSet(f, T) = f[p] + SumFunctionOnSet(f, T \ {p})
    BY <2>2, SumPicks
  <2>4. CASE p = y
    BY <2>3, <2>4
  <2>5. CASE p # y
    <3> HIDE DEF p
    <3>1. SumFunctionOnSet(f, T \ {p}) = f[y] + SumFunctionOnSet(f, R)
      <4>1. T \ {p} \in Good /\ y \in T \ {p} /\ (T \ {p}) \ {y} = R
        BY <1>1, <2>2, <2>5
      <4> QED
        BY <4>1
    <3>2. SumFunctionOnSet(f, T \ {y}) = f[p] + SumFunctionOnSet(f, R)
      <4>1. T \ {y} \in Good /\ p \in T \ {y} /\ (T \ {y}) \ {p} = R
        BY <1>1, <2>2, <2>5
      <4> QED
        BY <4>1
    <3>3. SumFunctionOnSet(f, R) \in Int
      BY SumInt, FS_Subset
    <3>4. f[p] \in Int /\ f[y] \in Int
      BY <2>2
    <3> QED
      BY <2>3, <3>1, <3>2, <3>3, <3>4
  <2> QED
    BY <2>4, <2>5
<1> HIDE DEF Good
<1>2. SUBSET S \subseteq Good
  BY <1>1, SubsetInduction
<1> QED
  BY <1>2 DEF Good

\* An element more.
LEMMA SumAdds ==
  ASSUME NEW S, IsFiniteSet(S), NEW x, x \notin S, NEW f,
         \A y \in S \cup {x} : f[y] \in Int
  PROVE  SumFunctionOnSet(f, S \cup {x}) = SumFunctionOnSet(f, S) + f[x]
<1> DEFINE T == S \cup {x}
<1>1. IsFiniteSet(T) /\ x \in T /\ T \ {x} = S /\ f[x] \in Int
  BY FS_AddElement
<1>2. SumFunctionOnSet(f, S) \in Int
  BY SumInt
<1>3. \A y \in T : f[y] \in Int
  OBVIOUS
<1> HIDE DEF T
<1>4. SumFunctionOnSet(f, T) = f[x] + SumFunctionOnSet(f, T \ {x})
  BY <1>1, <1>3, SumTakesOut
<1>5. SumFunctionOnSet(f, T) = f[x] + SumFunctionOnSet(f, S)
  BY <1>1, <1>4, Zenon
<1>6. SumFunctionOnSet(f, T) = SumFunctionOnSet(f, S) + f[x]
  BY <1>1, <1>2, <1>5
<1> QED
  BY <1>6 DEF T

\* A sum of naturals is a natural.
LEMMA SumNat ==
  ASSUME NEW S, IsFiniteSet(S), NEW f, \A x \in S : f[x] \in Nat
  PROVE  SumFunctionOnSet(f, S) \in Nat
<1> DEFINE Good == {T \in SUBSET S : SumFunctionOnSet(f, T) \in Nat}
<1>1. {} \in Good
  BY SumEmpty
<1>2. ASSUME NEW T \in SUBSET S, NEW x \in T, T \ {x} \in Good
      PROVE  T \in Good
  <2>1. IsFiniteSet(T) /\ \A y \in T : f[y] \in Int
    BY FS_Subset
  <2>2. SumFunctionOnSet(f, T) = f[x] + SumFunctionOnSet(f, T \ {x})
    BY <2>1, SumTakesOut
  <2> QED
    BY <1>2, <2>2
<1> HIDE DEF Good
<1>3. S \in Good
  BY <1>1, <1>2, ElementInduction
<1> QED
  BY <1>3 DEF Good

\* Pointwise smaller, smaller sum.
LEMMA SumMonotonic ==
  ASSUME NEW S, IsFiniteSet(S), NEW f, NEW g,
         \A x \in S : f[x] \in Int /\ g[x] \in Int /\ f[x] <= g[x]
  PROVE  SumFunctionOnSet(f, S) <= SumFunctionOnSet(g, S)
<1> DEFINE Good == {T \in SUBSET S : SumFunctionOnSet(f, T) <= SumFunctionOnSet(g, T)}
<1>1. {} \in Good
  BY SumEmpty
<1>2. ASSUME NEW T \in SUBSET S, NEW x \in T, T \ {x} \in Good
      PROVE  T \in Good
  <2> DEFINE R == T \ {x}
  <2>1. IsFiniteSet(T) /\ (\A y \in T : f[y] \in Int) /\ (\A y \in T : g[y] \in Int)
    BY FS_Subset
  <2>2. SumFunctionOnSet(f, T) = f[x] + SumFunctionOnSet(f, R)
    BY <2>1, SumTakesOut
  <2>3. SumFunctionOnSet(g, T) = g[x] + SumFunctionOnSet(g, R)
    BY <2>1, SumTakesOut
  <2>4. IsFiniteSet(R) /\ (\A y \in R : f[y] \in Int) /\ (\A y \in R : g[y] \in Int)
    BY <2>1, FS_Subset
  <2>5. SumFunctionOnSet(f, R) <= SumFunctionOnSet(g, R)
    BY <1>2
  <2> HIDE DEF R
  <2>6. SumFunctionOnSet(f, R) \in Int /\ SumFunctionOnSet(g, R) \in Int
    BY <2>4, SumInt
  <2> QED
    BY <2>2, <2>3, <2>5, <2>6
<1> HIDE DEF Good
<1>3. S \in Good
  BY <1>1, <1>2, ElementInduction
<1> QED
  BY <1>3 DEF Good

\* A sum depends on the values in its set only.
LEMMA SumSame ==
  ASSUME NEW S, IsFiniteSet(S), NEW f, NEW g,
         \A x \in S : f[x] \in Int /\ g[x] = f[x]
  PROVE  SumFunctionOnSet(f, S) = SumFunctionOnSet(g, S)
<1>1. SumFunctionOnSet(f, S) <= SumFunctionOnSet(g, S)
  BY SumMonotonic
<1>2. SumFunctionOnSet(g, S) <= SumFunctionOnSet(f, S)
  BY SumMonotonic
<1>3. SumFunctionOnSet(f, S) \in Int /\ SumFunctionOnSet(g, S) \in Int
  BY SumInt
<1> QED
  BY <1>1, <1>2, <1>3

\* A sum of zeros.
LEMMA SumZero ==
  ASSUME NEW S, IsFiniteSet(S), NEW f, \A x \in S : f[x] = 0
  PROVE  SumFunctionOnSet(f, S) = 0
<1> DEFINE Good == {T \in SUBSET S : SumFunctionOnSet(f, T) = 0}
<1>1. {} \in Good
  BY SumEmpty
<1>2. ASSUME NEW T \in SUBSET S, NEW x \in T, T \ {x} \in Good
      PROVE  T \in Good
  <2>1. IsFiniteSet(T) /\ \A y \in T : f[y] \in Int
    BY FS_Subset
  <2>2. SumFunctionOnSet(f, T) = f[x] + SumFunctionOnSet(f, T \ {x})
    BY <2>1, SumTakesOut
  <2> QED
    BY <1>2, <2>2
<1> HIDE DEF Good
<1>3. S \in Good
  BY <1>1, <1>2, ElementInduction
<1> QED
  BY <1>3 DEF Good

\* Of naturals, a part sums to no more than the whole.
LEMMA SumOfPart ==
  ASSUME NEW S, IsFiniteSet(S), NEW T \in SUBSET S, NEW f, \A x \in S : f[x] \in Nat
  PROVE  SumFunctionOnSet(f, T) <= SumFunctionOnSet(f, S)
<1> DEFINE Good == {U \in SUBSET S : SumFunctionOnSet(f, U \cap T) <= SumFunctionOnSet(f, U)}
<1>1. {} \in Good
  <2>1. {} \cap T = {}
    OBVIOUS
  <2> QED
    BY <2>1, SumEmpty
<1>2. ASSUME NEW U \in SUBSET S, NEW x \in U, U \ {x} \in Good
      PROVE  U \in Good
  <2> DEFINE R == U \ {x}
  <2>1. IsFiniteSet(U) /\ IsFiniteSet(R) /\ IsFiniteSet(U \cap T) /\ IsFiniteSet(R \cap T)
    BY FS_Subset
  <2>2. SumFunctionOnSet(f, U) = f[x] + SumFunctionOnSet(f, R)
    BY <2>1, SumTakesOut
  <2>3. SumFunctionOnSet(f, R \cap T) <= SumFunctionOnSet(f, R)
    BY <1>2
  <2>4. SumFunctionOnSet(f, R) \in Int /\ SumFunctionOnSet(f, R \cap T) \in Int /\ f[x] \in Nat
    BY <2>1, SumInt
  <2>5. CASE x \in T
    <3>1. x \in U \cap T /\ (U \cap T) \ {x} = R \cap T /\ \A y \in U \cap T : f[y] \in Int
      BY <2>5
    <3>2. SumFunctionOnSet(f, U \cap T) = f[x] + SumFunctionOnSet(f, (U \cap T) \ {x})
      BY <2>1, <3>1, SumTakesOut
    <3> QED
      BY <2>2, <2>3, <2>4, <3>1, <3>2
  <2>6. CASE x \notin T
    <3>1. U \cap T = R \cap T
      BY <2>6
    <3>2. SumFunctionOnSet(f, U \cap T) = SumFunctionOnSet(f, R \cap T)
      BY <3>1
    <3>3. SumFunctionOnSet(f, U \cap T) <= SumFunctionOnSet(f, U)
      BY <2>2, <2>3, <2>4, <3>2
    <3> QED
      BY <3>3
  <2> QED
    BY <2>5, <2>6
<1> HIDE DEF Good
<1>3. S \in Good
  BY <1>1, <1>2, ElementInduction
<1>4. S \cap T = T
  OBVIOUS
<1> QED
  BY <1>3, <1>4 DEF Good

\* One value changes, and the sum by as much.
LEMMA SumChanges ==
  ASSUME NEW S, IsFiniteSet(S), NEW x \in S, NEW f, NEW g,
         \A y \in S : f[y] \in Int /\ g[y] \in Int,
         \A y \in S : y # x => g[y] = f[y]
  PROVE  SumFunctionOnSet(g, S) = SumFunctionOnSet(f, S) - f[x] + g[x]
<1> DEFINE R == S \ {x}
<1>1. IsFiniteSet(R) /\ \A y \in R : f[y] \in Int /\ g[y] = f[y]
  BY FS_Subset
<1>2. SumFunctionOnSet(f, S) = f[x] + SumFunctionOnSet(f, R)
  BY SumTakesOut
<1>3. SumFunctionOnSet(g, S) = g[x] + SumFunctionOnSet(g, R)
  BY SumTakesOut
<1> HIDE DEF R
<1>4. SumFunctionOnSet(f, R) = SumFunctionOnSet(g, R)
  BY <1>1, SumSame
<1>5. SumFunctionOnSet(f, R) \in Int
  BY <1>1, SumInt
<1> QED
  BY <1>2, <1>3, <1>4, <1>5

\* The sum of the sums.
LEMMA SumOfTwo ==
  ASSUME NEW S, IsFiniteSet(S), NEW f, NEW g, NEW h,
         \A x \in S : f[x] \in Int /\ g[x] \in Int /\ h[x] = f[x] + g[x]
  PROVE  SumFunctionOnSet(h, S) = SumFunctionOnSet(f, S) + SumFunctionOnSet(g, S)
<1> DEFINE Good == {T \in SUBSET S : SumFunctionOnSet(h, T)
                       = SumFunctionOnSet(f, T) + SumFunctionOnSet(g, T)}
<1>1. {} \in Good
  BY SumEmpty
<1>2. ASSUME NEW T \in SUBSET S, NEW x \in T, T \ {x} \in Good
      PROVE  T \in Good
  <2> DEFINE R == T \ {x}
  <2>1. /\ IsFiniteSet(T)
        /\ \A y \in T : f[y] \in Int
        /\ \A y \in T : g[y] \in Int
        /\ \A y \in T : h[y] \in Int
    BY FS_Subset
  <2>2. /\ SumFunctionOnSet(f, T) = f[x] + SumFunctionOnSet(f, R)
        /\ SumFunctionOnSet(g, T) = g[x] + SumFunctionOnSet(g, R)
        /\ SumFunctionOnSet(h, T) = h[x] + SumFunctionOnSet(h, R)
    BY <2>1, SumTakesOut
  <2>3. SumFunctionOnSet(h, R) = SumFunctionOnSet(f, R) + SumFunctionOnSet(g, R)
    BY <1>2
  <2>4. IsFiniteSet(R) /\ (\A y \in R : f[y] \in Int) /\ (\A y \in R : g[y] \in Int)
    BY <2>1, FS_Subset
  <2>5. h[x] = f[x] + g[x] /\ f[x] \in Int /\ g[x] \in Int
    OBVIOUS
  <2> HIDE DEF R
  <2>6. SumFunctionOnSet(f, R) \in Int /\ SumFunctionOnSet(g, R) \in Int
    BY <2>4, SumInt
  <2>7. SumFunctionOnSet(h, T) = SumFunctionOnSet(f, T) + SumFunctionOnSet(g, T)
    BY <2>2, <2>3, <2>5, <2>6
  <2> QED
    BY <2>7
<1> HIDE DEF Good
<1>3. S \in Good
  BY <1>1, <1>2, ElementInduction
<1> QED
  BY <1>3 DEF Good

\* The sum over disjoint sets.
LEMMA SumOfUnion ==
  ASSUME NEW S, IsFiniteSet(S), NEW T, IsFiniteSet(T), S \cap T = {}, NEW f,
         \A x \in S \cup T : f[x] \in Int
  PROVE  SumFunctionOnSet(f, S \cup T) = SumFunctionOnSet(f, S) + SumFunctionOnSet(f, T)
<1> DEFINE Good == {U \in SUBSET T : SumFunctionOnSet(f, S \cup U)
                       = SumFunctionOnSet(f, S) + SumFunctionOnSet(f, U)}
<1>1. {} \in Good
  <2>1. S \cup {} = S
    OBVIOUS
  <2>2. SumFunctionOnSet(f, S \cup {}) = SumFunctionOnSet(f, S)
    BY <2>1, Zenon
  <2>3. SumFunctionOnSet(f, S) \in Int
    BY SumInt
  <2> QED
    BY <2>2, <2>3, SumEmpty
<1>2. ASSUME NEW U \in SUBSET T, NEW x \in U, U \ {x} \in Good
      PROVE  U \in Good
  <2> DEFINE R == U \ {x}
  <2>1. /\ IsFiniteSet(U) /\ IsFiniteSet(R) /\ IsFiniteSet(S \cup U)
        /\ \A y \in U : f[y] \in Int
        /\ \A y \in R : f[y] \in Int
        /\ \A y \in S : f[y] \in Int
        /\ \A y \in S \cup U : f[y] \in Int
    BY FS_Subset, FS_Union
  <2>2. SumFunctionOnSet(f, U) = f[x] + SumFunctionOnSet(f, R)
    BY <2>1, SumTakesOut
  <2>3. x \in S \cup U /\ (S \cup U) \ {x} = S \cup R
    OBVIOUS
  <2>4. SumFunctionOnSet(f, S \cup U) = f[x] + SumFunctionOnSet(f, (S \cup U) \ {x})
    BY <2>1, <2>3, SumTakesOut
  <2>5. SumFunctionOnSet(f, (S \cup U) \ {x}) = SumFunctionOnSet(f, S \cup R)
    BY <2>3, Zenon
  <2>6. SumFunctionOnSet(f, S \cup R) = SumFunctionOnSet(f, S) + SumFunctionOnSet(f, R)
    BY <1>2
  <2>7. f[x] \in Int
    OBVIOUS
  <2> HIDE DEF R
  <2>8. SumFunctionOnSet(f, S) \in Int /\ SumFunctionOnSet(f, R) \in Int
    BY <2>1, SumInt
  <2>9. SumFunctionOnSet(f, S \cup U) = SumFunctionOnSet(f, S) + SumFunctionOnSet(f, U)
    BY <2>2, <2>4, <2>5, <2>6, <2>7, <2>8
  <2> QED
    BY <2>9
<1> HIDE DEF Good
<1>3. T \in Good
  BY <1>1, <1>2, ElementInduction
<1> QED
  BY <1>3 DEF Good

\* The sum of the sums over the classes of a partition: h[k] is the sum of f
\* over the members of D that g puts into k.
LEMMA SumOfClasses ==
  ASSUME NEW K, IsFiniteSet(K), NEW D, IsFiniteSet(D), NEW g, \A d \in D : g[d] \in K,
         NEW f, \A d \in D : f[d] \in Int,
         NEW class, \A k \in K : \A d : d \in class[k] <=> d \in D /\ g[d] = k,
         NEW h, \A k \in K : h[k] = SumFunctionOnSet(f, class[k])
  PROVE  SumFunctionOnSet(h, K) = SumFunctionOnSet(f, D)
<1> DEFINE Class(L) == {d \in D : g[d] \in L}
           Good == {L \in SUBSET K : SumFunctionOnSet(h, L) = SumFunctionOnSet(f, Class(L))}
<1>1. {} \in Good
  <2>1. Class({}) = {}
    OBVIOUS
  <2>2. SumFunctionOnSet(f, Class({})) = SumFunctionOnSet(f, {})
    BY <2>1, Zenon
  <2> QED
    BY <2>2, SumEmpty
<1>2. \A k \in K : h[k] \in Int
  <2> SUFFICES ASSUME NEW k \in K PROVE h[k] \in Int
    OBVIOUS
  <2> DEFINE E == class[k]
  <2>1. IsFiniteSet(E) /\ \A d \in E : f[d] \in Int
    <3>1. E \subseteq D
      OBVIOUS
    <3> QED
      BY <3>1, FS_Subset
  <2>2. h[k] = SumFunctionOnSet(f, E)
    OBVIOUS
  <2> HIDE DEF E
  <2> QED
    BY <2>1, <2>2, SumInt
<1>3. ASSUME NEW L \in SUBSET K, NEW k \in L, L \ {k} \in Good
      PROVE  L \in Good
  <2> DEFINE A == Class(L \ {k})
             B == class[k]
  <2>1. Class(L) = A \cup B /\ A \cap B = {}
    OBVIOUS
  <2>2. IsFiniteSet(A) /\ IsFiniteSet(B) /\ \A d \in A \cup B : f[d] \in Int
    <3>1. A \subseteq D /\ B \subseteq D
      OBVIOUS
    <3> QED
      BY <3>1, FS_Subset
  <2>3. IsFiniteSet(L) /\ \A l \in L : h[l] \in Int
    BY <1>2, FS_Subset
  <2>4. SumFunctionOnSet(h, L) = h[k] + SumFunctionOnSet(h, L \ {k})
    BY <2>3, SumTakesOut
  <2>5. SumFunctionOnSet(h, L \ {k}) = SumFunctionOnSet(f, A)
    BY <1>3
  <2>6. h[k] = SumFunctionOnSet(f, B)
    OBVIOUS
  <2>7. SumFunctionOnSet(f, Class(L)) = SumFunctionOnSet(f, A \cup B)
    BY <2>1, Zenon
  <2>8. SumFunctionOnSet(h, L) = SumFunctionOnSet(f, Class(L))
    <3> HIDE DEF A, B
    <3>1. SumFunctionOnSet(f, A \cup B) = SumFunctionOnSet(f, A) + SumFunctionOnSet(f, B)
      BY <2>1, <2>2, SumOfUnion
    <3>2. SumFunctionOnSet(f, A) \in Int /\ SumFunctionOnSet(f, B) \in Int
      BY <2>2, SumInt
    <3> QED
      BY <2>4, <2>5, <2>6, <2>7, <3>1, <3>2
  <2> QED
    BY <2>8
<1> HIDE DEF Good
<1>4. K \in Good
  BY <1>1, <1>3, ElementInduction
<1>5. Class(K) = D
  OBVIOUS
<1>6. SumFunctionOnSet(f, Class(K)) = SumFunctionOnSet(f, D)
  BY <1>5, Zenon
<1> QED
  BY <1>4, <1>6 DEF Good

\* The sum over one element.
LEMMA SumOfOne ==
  ASSUME NEW f, NEW x, f[x] \in Int
  PROVE  SumFunctionOnSet(f, {x}) = f[x]
<1>1. IsFiniteSet({x}) /\ {x} \ {x} = {} /\ x \in {x}
  BY FS_Singleton
<1>2. SumFunctionOnSet(f, {x}) = f[x] + SumFunctionOnSet(f, {x} \ {x})
  BY <1>1, SumTakesOut
<1>3. SumFunctionOnSet(f, {x} \ {x}) = SumFunctionOnSet(f, {})
  BY <1>1, Zenon
<1> QED
  BY <1>2, <1>3, SumEmpty

=============================================================================
