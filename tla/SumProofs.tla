------------------------------ MODULE SumProofs ------------------------------
(***************************************************************************)
(* Sums over finite sets, for the balances of Escrow and Withdrawal.       *)
(*                                                                         *)
(* MapThenSumSet of the community modules is a recursive function chosen   *)
(* on the subsets of the set it adds up over.  Total is that function over *)
(* a function f; the lemmas say what adding or taking out one element does *)
(* to it.  The library's induction theorems take an operator as parameter, *)
(* so each induction is over subsets by a minimal counterexample: the      *)
(* strict subset ordering of a finite set is well-founded, hence a set of  *)
(* subsets that violate a claim has a minimal member (MinimalSubset), and  *)
(* the claim holds of that member less one element.                        *)
(***************************************************************************)
EXTENDS Integers, FiniteSets, FiniteSetsExt, FiniteSetTheorems, TLAPS

\* The element that is added first.
Pick(S) == CHOOSE x \in S : TRUE

\* g adds up f over the subsets of S as MapThenSumSet does, one picked element
\* after another.
Adds(g, f, S) ==
    g = [s \in SUBSET S |-> IF s = {} THEN 0 ELSE f[Pick(s)] + g[s \ {Pick(s)}]]

Total(f, S) == (CHOOSE g : Adds(g, f, S))[S]

\* A family of subsets of a finite set has a minimal member.
LEMMA MinimalSubset ==
    ASSUME NEW S, IsFiniteSet(S), NEW T \in SUBSET SUBSET S, T # {}
    PROVE  \E s \in T : \A t \in T : t \subseteq s => t = s
<1> DEFINE R == StrictSubsetOrdering(S)
<1>1. IsWellFoundedOn(R, SUBSET S)
  BY FS_StrictSubsetOrderingWellFounded, FS_FiniteSubsetsOfFinite
<1>2. PICK s \in T : \A t \in T : <<t, s>> \notin R
  <2> HIDE DEF R
  <2> QED BY <1>1, WFMin
<1> QED BY <1>2 DEF StrictSubsetOrdering

\* What such a function computes does not depend on the set it is defined for.
LEMMA AddsAgree ==
    ASSUME NEW f, NEW S, IsFiniteSet(S), NEW U, NEW g, NEW h, Adds(g, f, S), Adds(h, f, U)
    PROVE  \A s \in SUBSET (S \cap U) : g[s] = h[s]
<1> DEFINE T == {s \in SUBSET (S \cap U) : g[s] # h[s]}
<1> SUFFICES ASSUME T # {} PROVE FALSE
  OBVIOUS
<1>1. PICK s \in T : \A t \in T : t \subseteq s => t = s
  <2>1. T \in SUBSET SUBSET S
    OBVIOUS
  <2> HIDE DEF T
  <2> QED BY <2>1, MinimalSubset
<1>2. s # {}
  BY <1>1 DEF Adds
<1>3. Pick(s) \in s
  BY <1>2 DEF Pick
<1>4. /\ g[s] = f[Pick(s)] + g[s \ {Pick(s)}]
      /\ h[s] = f[Pick(s)] + h[s \ {Pick(s)}]
  BY <1>1, <1>2 DEF Adds
<1>5. g[s \ {Pick(s)}] = h[s \ {Pick(s)}]
  BY <1>1, <1>3
<1> QED BY <1>1, <1>4, <1>5

\* The total of a set whose function exists is the function's value there.
LEMMA AddsTotal ==
    ASSUME NEW f, NEW S, IsFiniteSet(S), NEW g, Adds(g, f, S)
    PROVE  g[S] = Total(f, S)
<1>1. PICK h : h = CHOOSE k : Adds(k, f, S)
  OBVIOUS
<1>2. Adds(h, f, S)
  BY <1>1
<1>3. g[S] = h[S]
  BY <1>2, AddsAgree
<1> QED BY <1>1, <1>3 DEF Total

\* And its restriction to the subsets of U \subseteq S adds up f over U.
LEMMA AddsBelow ==
    ASSUME NEW f, NEW S, IsFiniteSet(S), NEW U \in SUBSET S, NEW g, Adds(g, f, S)
    PROVE  g[U] = Total(f, U)
<1> DEFINE h == [s \in SUBSET U |-> g[s]]
<1>1. \A s \in SUBSET U : g[s] = IF s = {} THEN 0 ELSE f[Pick(s)] + g[s \ {Pick(s)}]
  BY DEF Adds
<1>2. \A s \in SUBSET U : h[s] = IF s = {} THEN 0 ELSE f[Pick(s)] + h[s \ {Pick(s)}]
  BY <1>1
<1>3. Adds(h, f, U)
  BY <1>2 DEF Adds
<1>4. IsFiniteSet(U)
  BY FS_Subset
<1>5. h[U] = g[U]
  OBVIOUS
<1> HIDE DEF h
<1> QED BY <1>3, <1>4, <1>5, AddsTotal

\* The function exists for every finite set.
LEMMA AddsExists == ASSUME NEW f, NEW S, IsFiniteSet(S) PROVE \E g : Adds(g, f, S)
<1> DEFINE T == {s \in SUBSET S : ~ \E g : Adds(g, f, s)}
<1> SUFFICES ASSUME T # {} PROVE FALSE
  BY DEF Adds
<1>1. PICK s \in T : \A t \in T : t \subseteq s => t = s
  <2>1. T \in SUBSET SUBSET S
    OBVIOUS
  <2> HIDE DEF T
  <2> QED BY <2>1, MinimalSubset
<1>2. \A t \in SUBSET s : t # s => \E g : Adds(g, f, t)
  BY <1>1
<1> DEFINE h == [t \in SUBSET s |->
                   IF t = {} THEN 0
                   ELSE f[Pick(t)] + Total(f, t \ {Pick(t)})]
<1>3. \A t \in SUBSET s : t # s => h[t] = Total(f, t)
  <2> SUFFICES ASSUME NEW t \in SUBSET s, t # s PROVE h[t] = Total(f, t)
    OBVIOUS
  <2>0. IsFiniteSet(t)
    BY FS_Subset
  <2>1. PICK g : Adds(g, f, t)
    BY <1>2
  <2>2. Total(f, t) = g[t]
    BY <2>0, <2>1, AddsTotal
  <2>3. CASE t = {}
    BY <2>1, <2>2, <2>3 DEF Adds
  <2>4. CASE t # {}
    <3>1. t \ {Pick(t)} \in SUBSET t
      OBVIOUS
    <3>2. g[t \ {Pick(t)}] = Total(f, t \ {Pick(t)})
      BY <2>0, <2>1, <3>1, AddsBelow
    <3>3. g[t] = f[Pick(t)] + g[t \ {Pick(t)}]
      BY <2>1, <2>4 DEF Adds
    <3> QED BY <2>2, <2>4, <3>2, <3>3
  <2> QED BY <2>3, <2>4
<1>4. \A t \in SUBSET s : t # {} => h[t \ {Pick(t)}] = Total(f, t \ {Pick(t)})
  <2> SUFFICES ASSUME NEW t \in SUBSET s, t # {}
               PROVE  h[t \ {Pick(t)}] = Total(f, t \ {Pick(t)})
    OBVIOUS
  <2>1. Pick(t) \in t
    BY DEF Pick
  <2>2. t \ {Pick(t)} \in SUBSET s /\ t \ {Pick(t)} # s
    BY <2>1
  <2> QED BY <2>2, <1>3
<1>5. h = [t \in SUBSET s |-> IF t = {} THEN 0 ELSE f[Pick(t)] + h[t \ {Pick(t)}]]
  BY <1>4
<1>6. Adds(h, f, s)
  BY <1>5 DEF Adds
<1> QED BY <1>1, <1>6

-----------------------------------------------------------------------------
(* What a sum is *)

\* Nothing adds up to 0.
LEMMA TotalEmpty == ASSUME NEW f PROVE Total(f, {}) = 0
<1>1. PICK g : Adds(g, f, {})
  BY AddsExists, FS_EmptySet
<1> QED BY <1>1, AddsTotal, FS_EmptySet DEF Adds

\* A set adds up to its first element and the rest.
LEMMA TotalPick ==
    ASSUME NEW f, NEW S, IsFiniteSet(S), S # {}
    PROVE  Pick(S) \in S /\ Total(f, S) = f[Pick(S)] + Total(f, S \ {Pick(S)})
<1>1. PICK g : Adds(g, f, S)
  BY AddsExists
<1>2. g[S] = f[Pick(S)] + g[S \ {Pick(S)}]
  BY <1>1 DEF Adds
<1>3. g[S] = Total(f, S) /\ g[S \ {Pick(S)}] = Total(f, S \ {Pick(S)})
  BY <1>1, AddsBelow
<1> QED BY <1>2, <1>3 DEF Pick

\* Integers add up to an integer.
LEMMA TotalType ==
    ASSUME NEW f, NEW S, IsFiniteSet(S), \A x \in S : f[x] \in Int
    PROVE  Total(f, S) \in Int
<1>0. Total(f, {}) \in Int
  BY TotalEmpty
<1> DEFINE T == {s \in SUBSET S : Total(f, s) \notin Int}
<1> SUFFICES ASSUME T # {} PROVE FALSE
  OBVIOUS
<1>1. PICK s \in T : \A t \in T : t \subseteq s => t = s
  <2>1. T \in SUBSET SUBSET S
    OBVIOUS
  <2> HIDE DEF T
  <2> QED BY <2>1, MinimalSubset
<1>2. s # {}
  BY <1>0, <1>1
<1>3. Pick(s) \in s /\ Total(f, s) = f[Pick(s)] + Total(f, s \ {Pick(s)})
  BY <1>1, <1>2, TotalPick, FS_Subset
<1>4. Total(f, s \ {Pick(s)}) \in Int
  BY <1>1, <1>3
<1> QED BY <1>1, <1>3, <1>4

\* Any element may be taken out of a sum first.
LEMMA TotalRemove ==
    ASSUME NEW f, NEW S, IsFiniteSet(S), \A x \in S : f[x] \in Int, NEW y \in S
    PROVE  Total(f, S) = f[y] + Total(f, S \ {y})
<1> DEFINE T == {s \in SUBSET S : \E z \in s : Total(f, s) # f[z] + Total(f, s \ {z})}
<1> SUFFICES ASSUME T # {} PROVE FALSE
  OBVIOUS
<1>1. PICK s \in T : \A t \in T : t \subseteq s => t = s
  <2>1. T \in SUBSET SUBSET S
    OBVIOUS
  <2> HIDE DEF T
  <2> QED BY <2>1, MinimalSubset
<1>2. PICK z \in s : Total(f, s) # f[z] + Total(f, s \ {z})
  BY <1>1
<1>3. PICK x \in s : x = Pick(s) /\ Total(f, s) = f[x] + Total(f, s \ {x})
  BY <1>1, <1>2, TotalPick, FS_Subset
<1>4. x # z
  BY <1>2, <1>3
<1>5. Total(f, s \ {x}) = f[z] + Total(f, (s \ {x}) \ {z})
  <2>1. s \ {x} \notin T
    BY <1>1
  <2> QED BY <2>1, <1>1, <1>4
<1>6. Total(f, s \ {z}) = f[x] + Total(f, (s \ {z}) \ {x})
  <2>1. s \ {z} \notin T
    BY <1>1
  <2> QED BY <2>1, <1>1, <1>4
<1>7. (s \ {x}) \ {z} = (s \ {z}) \ {x}
  OBVIOUS
<1>8. PICK rest \in Int : rest = Total(f, (s \ {z}) \ {x})
  <2>1. (s \ {z}) \ {x} \in SUBSET S
    BY <1>1
  <2> QED BY <2>1, TotalType, FS_Subset
<1>9. PICK a \in Int, b \in Int : a = f[x] /\ b = f[z]
  BY <1>1
<1>10. Total(f, s) = a + (b + rest) /\ Total(f, s \ {z}) = a + rest
  BY <1>3, <1>5, <1>6, <1>7, <1>8, <1>9
<1> HIDE DEF T
<1>11. a + (b + rest) = b + (a + rest)
  OBVIOUS
<1> QED BY <1>2, <1>9, <1>10, <1>11

\* One more element adds its value.
LEMMA TotalAdd ==
    ASSUME NEW f, NEW S, IsFiniteSet(S), NEW y, y \notin S, \A x \in S \cup {y} : f[x] \in Int
    PROVE  Total(f, S \cup {y}) = f[y] + Total(f, S)
<1>1. IsFiniteSet(S \cup {y})
  BY FS_AddElement
<1>2. (S \cup {y}) \ {y} = S
  OBVIOUS
<1> QED BY <1>1, <1>2, TotalRemove

\* The sum depends on what is added only.
LEMMA TotalSame ==
    ASSUME NEW f, NEW g, NEW S, IsFiniteSet(S), \A x \in S : f[x] = g[x]
    PROVE  Total(f, S) = Total(g, S)
<1> DEFINE T == {s \in SUBSET S : Total(f, s) # Total(g, s)}
<1> SUFFICES ASSUME T # {} PROVE FALSE
  OBVIOUS
<1>1. PICK s \in T : \A t \in T : t \subseteq s => t = s
  <2>1. T \in SUBSET SUBSET S
    OBVIOUS
  <2> HIDE DEF T
  <2> QED BY <2>1, MinimalSubset
<1>2. s # {}
  BY <1>1, TotalEmpty
<1>3. /\ Pick(s) \in s
      /\ Total(f, s) = f[Pick(s)] + Total(f, s \ {Pick(s)})
      /\ Total(g, s) = g[Pick(s)] + Total(g, s \ {Pick(s)})
  BY <1>1, <1>2, TotalPick, FS_Subset
<1>4. Total(f, s \ {Pick(s)}) = Total(g, s \ {Pick(s)})
  BY <1>1, <1>3
<1> QED BY <1>1, <1>3, <1>4

=============================================================================
