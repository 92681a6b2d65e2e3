----------------------------- MODULE SumTheorems -----------------------------
(***************************************************************************)
(* Sums over finite sets, as MapThenSumSet computes them: what a wallet's  *)
(* ledger and a referrer's payouts add up.                                 *)
(*                                                                         *)
(* The induction is over the finite subsets of a set, by way of a minimal  *)
(* counterexample: the set of the subsets for which a statement fails, if  *)
(* not empty, has a member none of whose proper subsets is in it.          *)
(***************************************************************************)
EXTENDS FiniteSetsExt, Integers, FiniteSetTheorems, WellFoundedInduction, TLAPS

\* The values of f at the members of S, added up.
Sum(f, S) == MapThenSumSet(LAMBDA x : f[x], S)

-----------------------------------------------------------------------------
(* The recursive function in the definition of MapThenSumSet.              *)

One(s) == CHOOSE x \in s : TRUE

Rest(s) == s \ {One(s)}

\* g adds up the members of every subset of S, in the order in which One takes them.
Adds(f, S, g) == g = [s \in SUBSET S |-> IF s = {} THEN 0 ELSE f[One(s)] + g[Rest(s)]]

Adder(f, S) == CHOOSE g : Adds(f, S, g)

LEMMA SumIsAdder ==
  ASSUME NEW f, NEW S
  PROVE  Sum(f, S) = Adder(f, S)[S]
BY DEF Sum, MapThenSumSet, MapThenFoldSet, Adder, Adds, One, Rest

\* If a statement fails for some subset, it fails for a minimal one.
LEMMA SmallestSubset ==
  ASSUME NEW S, IsFiniteSet(S), NEW Bad, Bad \subseteq SUBSET S, Bad # {}
  PROVE  \E s \in Bad : \A t \in SUBSET s : t # s => t \notin Bad
<1>1. IsWellFoundedOn(StrictSubsetOrdering(S), SUBSET S)
  BY FS_FiniteSubsetsOfFinite, FS_StrictSubsetOrderingWellFounded
<1>2. PICK s \in Bad : \A t \in Bad : ~(<<t, s>> \in StrictSubsetOrdering(S))
  BY <1>1, WFMin
<1>3. ASSUME NEW t \in SUBSET s, t # s, t \in Bad PROVE FALSE
  BY <1>2, <1>3 DEF StrictSubsetOrdering
<1> QED
  BY <1>3

LEMMA RestIsSmaller ==
  ASSUME NEW s, s # {}
  PROVE  One(s) \in s /\ Rest(s) \subseteq s /\ Rest(s) # s
BY DEF One, Rest

LEMMA AddsAt ==
  ASSUME NEW f, NEW S, NEW g, Adds(f, S, g), NEW s \in SUBSET S
  PROVE  g[s] = IF s = {} THEN 0 ELSE f[One(s)] + g[Rest(s)]
BY DEF Adds

\* Such functions agree wherever both are defined.
LEMMA AddersAgree ==
  ASSUME NEW f, NEW S, IsFiniteSet(S), NEW T \in SUBSET S, NEW g, NEW h,
         Adds(f, S, g), Adds(f, T, h), NEW s \in SUBSET T
  PROVE  g[s] = h[s]
<1> DEFINE Bad == {t \in SUBSET T : g[t] # h[t]}
<1> SUFFICES ASSUME Bad # {} PROVE FALSE
  OBVIOUS
<1>1. IsFiniteSet(T)
  BY FS_Subset
<1>2. PICK t \in Bad : \A u \in SUBSET t : u # t => u \notin Bad
  BY <1>1, SmallestSubset
<1>3. t \in SUBSET T /\ t \in SUBSET S /\ g[t] # h[t]
  BY <1>2
<1>4. /\ g[t] = IF t = {} THEN 0 ELSE f[One(t)] + g[Rest(t)]
      /\ h[t] = IF t = {} THEN 0 ELSE f[One(t)] + h[Rest(t)]
  BY <1>3, AddsAt
<1>5. t # {} => g[Rest(t)] = h[Rest(t)]
  BY <1>2, <1>3, RestIsSmaller
<1> QED
  BY <1>3, <1>4, <1>5

LEMMA AdderExists ==
  ASSUME NEW f, NEW S, IsFiniteSet(S)
  PROVE  Adds(f, S, Adder(f, S))
<1> DEFINE Bad == {s \in SUBSET S : ~Adds(f, s, Adder(f, s))}
<1> SUFFICES ASSUME Bad # {} PROVE FALSE
  OBVIOUS
<1>1. PICK s \in Bad : \A t \in SUBSET s : t # s => t \notin Bad
  <2>1. Bad \subseteq SUBSET S
    OBVIOUS
  <2> HIDE DEF Bad
  <2> QED
    BY <2>1, SmallestSubset
<1>2. s \in SUBSET S /\ ~Adds(f, s, Adder(f, s))
  BY <1>1
<1>3. \A t \in SUBSET s : t # s => IsFiniteSet(t) /\ Adds(f, t, Adder(f, t))
  BY <1>1, <1>2, FS_Subset
<1> DEFINE g == [t \in SUBSET s |->
                    IF t = {} THEN 0 ELSE f[One(t)] + Adder(f, Rest(t))[Rest(t)]]
<1>4. ASSUME NEW t \in SUBSET s, t # {} PROVE g[Rest(t)] = Adder(f, Rest(t))[Rest(t)]
  <2> DEFINE u == Rest(t)
  <2>1. u \in SUBSET s /\ u # s
    BY <1>4, RestIsSmaller
  <2>2. IsFiniteSet(u) /\ Adds(f, u, Adder(f, u))
    BY <1>3, <2>1
  <2> HIDE DEF u
  <2>3. CASE u = {}
    <3>1. Adder(f, u)[u] = 0
      BY <2>2, <2>3, AddsAt
    <3>2. g[u] = 0
      BY <2>1, <2>3
    <3> QED
      BY <3>1, <3>2 DEF u
  <2>4. CASE u # {}
    <3>1. Rest(u) \in SUBSET u /\ Rest(u) \in SUBSET s /\ Rest(u) # s
      BY <2>1, <2>4, RestIsSmaller
    <3>2. Adds(f, Rest(u), Adder(f, Rest(u)))
      BY <1>3, <3>1
    <3>3. Adder(f, u)[Rest(u)] = Adder(f, Rest(u))[Rest(u)]
      BY <2>2, <3>1, <3>2, AddersAgree
    <3>4. Adder(f, u)[u] = f[One(u)] + Adder(f, u)[Rest(u)]
      BY <2>2, <2>4, AddsAt
    <3>5. g[u] = f[One(u)] + Adder(f, Rest(u))[Rest(u)]
      BY <2>1, <2>4
    <3> HIDE DEF g
    <3>6. g[u] = Adder(f, u)[u]
      BY <3>3, <3>4, <3>5
    <3> QED
      BY <3>6 DEF u
  <2> QED
    BY <2>3, <2>4
<1>5. Adds(f, s, g)
  <2>1. \A t \in SUBSET s : g[t] = IF t = {} THEN 0 ELSE f[One(t)] + g[Rest(t)]
    BY <1>4
  <2>2. g = [t \in SUBSET s |-> g[t]]
    OBVIOUS
  <2> HIDE DEF g
  <2>3. g = [t \in SUBSET s |-> IF t = {} THEN 0 ELSE f[One(t)] + g[Rest(t)]]
    BY <2>1, <2>2
  <2> QED
    BY <2>3 DEF Adds
<1> HIDE DEF g
<1> QED
  BY <1>2, <1>5 DEF Adder

-----------------------------------------------------------------------------
(* Sums.                                                                   *)

THEOREM SumOfNothing ==
  ASSUME NEW f
  PROVE  Sum(f, {}) = 0
<1>1. IsFiniteSet({})
  BY FS_EmptySet
<1> QED
  BY <1>1, AdderExists, AddsAt, SumIsAdder

LEMMA SumOfRest ==
  ASSUME NEW f, NEW S, IsFiniteSet(S), S # {}
  PROVE  Sum(f, S) = f[One(S)] + Sum(f, Rest(S))
<1>1. Rest(S) \in SUBSET S /\ IsFiniteSet(Rest(S))
  BY RestIsSmaller, FS_Subset
<1>2. Adds(f, S, Adder(f, S)) /\ Adds(f, Rest(S), Adder(f, Rest(S)))
  BY <1>1, AdderExists
<1>3. Adder(f, S)[Rest(S)] = Adder(f, Rest(S))[Rest(S)]
  BY <1>1, <1>2, AddersAgree
<1>4. Adder(f, S)[S] = f[One(S)] + Adder(f, S)[Rest(S)]
  BY <1>2, AddsAt
<1> QED
  BY <1>3, <1>4, SumIsAdder

\* A sum of integers is one.
THEOREM SumIsInt ==
  ASSUME NEW f, NEW S, IsFiniteSet(S), \A x \in S : f[x] \in Int
  PROVE  Sum(f, S) \in Int
<1> DEFINE Bad == {s \in SUBSET S : Sum(f, s) \notin Int}
<1> SUFFICES ASSUME Bad # {} PROVE FALSE
  OBVIOUS
<1>1. PICK s \in Bad : \A t \in SUBSET s : t # s => t \notin Bad
  <2>1. Bad \subseteq SUBSET S
    OBVIOUS
  <2> HIDE DEF Bad
  <2> QED
    BY <2>1, SmallestSubset
<1>2. s \in SUBSET S /\ Sum(f, s) \notin Int /\ IsFiniteSet(s)
  BY <1>1, FS_Subset
<1>3. s # {}
  BY <1>2, SumOfNothing
<1>4. One(s) \in S /\ Sum(f, Rest(s)) \in Int
  BY <1>1, <1>2, <1>3, RestIsSmaller
<1> QED
  BY <1>2, <1>3, <1>4, SumOfRest

\* One that is not empty, of positive numbers, is positive.
THEOREM SumIsPositive ==
  ASSUME NEW f, NEW S, IsFiniteSet(S), \A x \in S : f[x] \in Nat \ {0}
  PROVE  Sum(f, S) \in Nat /\ (S # {} => Sum(f, S) > 0)
<1> DEFINE Bad == {s \in SUBSET S : ~(Sum(f, s) \in Nat /\ (s # {} => Sum(f, s) > 0))}
<1> SUFFICES ASSUME Bad # {} PROVE FALSE
  OBVIOUS
<1>1. PICK s \in Bad : \A t \in SUBSET s : t # s => t \notin Bad
  <2>1. Bad \subseteq SUBSET S
    OBVIOUS
  <2> HIDE DEF Bad
  <2> QED
    BY <2>1, SmallestSubset
<1>2. s \in SUBSET S /\ ~(Sum(f, s) \in Nat /\ (s # {} => Sum(f, s) > 0)) /\ IsFiniteSet(s)
  BY <1>1, FS_Subset
<1>3. s # {}
  BY <1>2, SumOfNothing
<1>4. One(s) \in S /\ Sum(f, Rest(s)) \in Nat
  BY <1>1, <1>2, <1>3, RestIsSmaller
<1>5. Sum(f, s) = f[One(s)] + Sum(f, Rest(s)) /\ f[One(s)] \in Nat \ {0}
  BY <1>2, <1>3, <1>4, SumOfRest
<1> QED
  BY <1>2, <1>4, <1>5

\* Any member may be taken out first.
THEOREM SumWithout ==
  ASSUME NEW f, NEW S, IsFiniteSet(S), \A x \in S : f[x] \in Int, NEW x \in S
  PROVE  Sum(f, S) = f[x] + Sum(f, S \ {x})
<1> DEFINE Bad == {s \in SUBSET S : \E y \in s : Sum(f, s) # f[y] + Sum(f, s \ {y})}
<1> SUFFICES ASSUME Bad # {} PROVE FALSE
  OBVIOUS
<1>1. PICK s \in Bad : \A t \in SUBSET s : t # s => t \notin Bad
  <2>1. Bad \subseteq SUBSET S
    OBVIOUS
  <2> HIDE DEF Bad
  <2> QED
    BY <2>1, SmallestSubset
<1>2. PICK y \in s : Sum(f, s) # f[y] + Sum(f, s \ {y})
  BY <1>1
<1>3. s \in SUBSET S /\ IsFiniteSet(s) /\ s # {}
  BY <1>1, <1>2, FS_Subset
<1>4. PICK z \in s : z = One(s) /\ Rest(s) = s \ {z}
  BY <1>3, RestIsSmaller DEF Rest
<1>5. Sum(f, s) = f[z] + Sum(f, s \ {z})
  BY <1>3, <1>4, SumOfRest
<1>6. y # z
  BY <1>2, <1>5
<1>7. s \ {y} \notin Bad /\ s \ {z} \notin Bad
  BY <1>1, <1>2, <1>4
<1>8. /\ Sum(f, s \ {z}) = f[y] + Sum(f, (s \ {z}) \ {y})
      /\ Sum(f, s \ {y}) = f[z] + Sum(f, (s \ {y}) \ {z})
  BY <1>3, <1>6, <1>7
<1>9. (s \ {z}) \ {y} = (s \ {y}) \ {z}
  OBVIOUS
<1>10. IsFiniteSet((s \ {y}) \ {z}) /\ (s \ {y}) \ {z} \subseteq S
  BY <1>3, FS_Subset
<1>11. PICK rest \in Int : rest = Sum(f, (s \ {y}) \ {z})
  BY <1>3, <1>10, SumIsInt
<1>12. Sum(f, s \ {z}) = f[y] + rest /\ Sum(f, s \ {y}) = f[z] + rest
  BY <1>8, <1>9, <1>11
<1>13. f[z] + (f[y] + rest) = f[y] + (f[z] + rest)
  BY <1>3
<1> QED
  BY <1>2, <1>5, <1>12, <1>13

\* Only the values at the members count.
THEOREM SumOfSame ==
  ASSUME NEW f, NEW g, NEW S, IsFiniteSet(S), \A x \in S : f[x] = g[x]
  PROVE  Sum(f, S) = Sum(g, S)
<1> DEFINE Bad == {s \in SUBSET S : Sum(f, s) # Sum(g, s)}
<1> SUFFICES ASSUME Bad # {} PROVE FALSE
  OBVIOUS
<1>1. PICK s \in Bad : \A t \in SUBSET s : t # s => t \notin Bad
  <2>1. Bad \subseteq SUBSET S
    OBVIOUS
  <2> HIDE DEF Bad
  <2> QED
    BY <2>1, SmallestSubset
<1>2. s \in SUBSET S /\ Sum(f, s) # Sum(g, s) /\ IsFiniteSet(s)
  BY <1>1, FS_Subset
<1>3. s # {}
  BY <1>2, SumOfNothing
<1>4. One(s) \in S /\ Sum(f, Rest(s)) = Sum(g, Rest(s))
  BY <1>1, <1>2, <1>3, RestIsSmaller
<1> QED
  BY <1>2, <1>3, <1>4, SumOfRest
=============================================================================
