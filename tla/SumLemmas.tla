----------------------------- MODULE SumLemmas -----------------------------
(* Induction over finite sets and what the sums of the signer (MapThenSumSet
   over amounts) do when their set changes by one element. *)
EXTENDS Integers, FiniteSets, FiniteSetsExt, TLAPS, WellFoundedInduction, FiniteSetTheorems

(* Least number principle: a non-empty set of naturals has a smallest member. *)
LEMMA LeastNumber ==
  ASSUME NEW T \in SUBSET Nat, T # {}
  PROVE  \E n \in T : \A m \in T : n <= m
  <1> DEFINE R == OpToRel(<, Nat)
  <1>1. IsWellFoundedOn(R, Nat) BY NatLessThanWellFounded
  <1>2. \A x, y \in Nat : x < y => <<x, y>> \in R BY DEF OpToRel
  <1> HIDE DEF R
  <1>3. PICK x \in T : \A y \in T : <<y, x>> \notin R BY <1>1, WFMin
  <1>4. x \in Nat OBVIOUS
  <1>5. ASSUME NEW y \in T PROVE x <= y
    <2>1. y \in Nat /\ ~(y < x) BY <1>2, <1>3
    <2> QED BY <1>4, <2>1
  <1> QED BY <1>5

(* A non-empty set of subsets of a finite set has a minimal member: induction
   over finite sets, by the least counterexample. *)
LEMMA LeastSubset ==
  ASSUME NEW S, IsFiniteSet(S), NEW T, T \subseteq SUBSET S, T # {}
  PROVE  \E u \in T : \A v \in T : v \subseteq u => v = u
  <1> DEFINE R == StrictSubsetOrdering(S)
  <1>1. IsWellFoundedOn(R, FiniteSubsetsOf(S)) BY FS_StrictSubsetOrderingWellFounded
  <1>2. FiniteSubsetsOf(S) = SUBSET S BY FS_FiniteSubsetsOfFinite
  <1>3. \A x, y \in SUBSET S : x \subseteq y /\ x # y => <<x, y>> \in R
    BY DEF StrictSubsetOrdering
  <1> HIDE DEF R
  <1>4. IsWellFoundedOn(R, SUBSET S) BY <1>1, <1>2
  <1>5. \E x \in T : \A y \in T : <<y, x>> \notin R BY <1>4, WFMin
  <1> QED BY <1>3, <1>5

-----------------------------------------------------------------------------
(* MapThenSumSet is the function its recursive definition asks for.         *)

Pick(s) == CHOOSE x \in s : TRUE

IsSum(w, S, g) ==
  g = [s \in SUBSET S |-> IF s = {} THEN 0 ELSE w[Pick(s)] + g[s \ {Pick(s)}]]

SumOver(w, S) == (CHOOSE g : IsSum(w, S, g))[S]

(* The element a fold takes first is one of the set. *)
LEMMA PickIn ==
  ASSUME NEW s, s # {}
  PROVE  Pick(s) \in s
  BY DEF Pick

(* The sums the models write are SumOver. *)
LEMMA SumIsSumOver ==
  ASSUME NEW S, NEW w
  PROVE  MapThenSumSet(LAMBDA i : w[i], S) = SumOver(w, S)
  BY Zenon DEF MapThenSumSet, MapThenFoldSet, SumOver, IsSum, Pick

(* Two solutions of the recursion agree wherever both are defined. *)
LEMMA SumUnique ==
  ASSUME NEW S, IsFiniteSet(S), NEW T, NEW w, NEW g, NEW h,
         IsSum(w, S, g), IsSum(w, T, h), NEW s \in SUBSET S, s \in SUBSET T
  PROVE  g[s] = h[s]
  <1> DEFINE Bad == {u \in SUBSET S : u \in SUBSET T /\ g[u] # h[u]}
  <1> SUFFICES ASSUME Bad # {} PROVE FALSE OBVIOUS
  <1>0. Bad \subseteq SUBSET S OBVIOUS
  <1> HIDE DEF Bad
  <1>1. PICK u \in Bad : \A v \in Bad : v \subseteq u => v = u BY <1>0, LeastSubset
  <1> DEFINE p == Pick(u)
  <1>2. u \in SUBSET S /\ u \in SUBSET T /\ g[u] # h[u] BY DEF Bad
  <1>3. CASE u = {}
    <2>1. g[u] = 0 /\ h[u] = 0 BY <1>2, <1>3 DEF IsSum
    <2> QED BY <1>2, <2>1
  <1>4. CASE u # {}
    <2>1. p \in u BY <1>4, PickIn
    <2>2. g[u] = w[p] + g[u \ {p}] BY <1>2, <1>4 DEF IsSum
    <2>3. h[u] = w[p] + h[u \ {p}] BY <1>2, <1>4 DEF IsSum
    <2>4. g[u \ {p}] = h[u \ {p}] BY <1>1, <1>2, <2>1 DEF Bad
    <2> QED BY <1>2, <2>2, <2>3, <2>4
  <1> QED BY <1>3, <1>4

(* The recursion has a solution over every finite set. *)
LEMMA SumExists ==
  ASSUME NEW S, IsFiniteSet(S), NEW w
  PROVE  \E g : IsSum(w, S, g)
  <1> DEFINE Bad == {u \in SUBSET S : ~\E g : IsSum(w, u, g)}
  <1> SUFFICES ASSUME Bad # {} PROVE FALSE OBVIOUS
  <1>0. Bad \subseteq SUBSET S OBVIOUS
  <1> HIDE DEF Bad
  <1>1. PICK u \in Bad : \A v \in Bad : v \subseteq u => v = u BY <1>0, LeastSubset
  <1>2. u \in SUBSET S /\ ~\E g : IsSum(w, u, g) BY DEF Bad
  <1>3. ASSUME NEW s \in SUBSET u, s # u PROVE IsSum(w, s, CHOOSE g : IsSum(w, s, g))
    <2>1. \E g : IsSum(w, s, g) BY <1>1, <1>2, <1>3 DEF Bad
    <2> QED BY <2>1
  <1>4. ASSUME NEW s \in SUBSET u, s # u
        PROVE  SumOver(w, s) = IF s = {} THEN 0 ELSE w[Pick(s)] + SumOver(w, s \ {Pick(s)})
    <2> DEFINE g == CHOOSE f : IsSum(w, s, f)
               t == s \ {Pick(s)}
               h == CHOOSE f : IsSum(w, t, f)
    <2>1. IsSum(w, s, g) BY <1>3, <1>4
    <2>2. SumOver(w, s) = g[s] BY DEF SumOver
    <2>3. CASE s = {} BY <2>1, <2>2, <2>3 DEF IsSum
    <2>4. CASE s # {}
      <3>1. t \in SUBSET u /\ t # u /\ t \in SUBSET s BY <1>4
      <3>2. IsSum(w, t, h) BY <1>3, <3>1
      <3>3. SumOver(w, t) = h[t] BY DEF SumOver
      <3>4. IsFiniteSet(s) BY <1>2, FS_Subset
      <3> HIDE DEF g, h
      <3>5. g[t] = h[t] BY <2>1, <3>1, <3>2, <3>4, SumUnique
      <3>6. g[s] = w[Pick(s)] + g[t] BY <2>1, <2>4 DEF IsSum
      <3> QED BY <2>2, <2>4, <3>3, <3>5, <3>6
    <2> QED BY <2>3, <2>4
  <1> DEFINE G == [s \in SUBSET u |->
                     IF s = {} THEN 0 ELSE w[Pick(s)] + SumOver(w, s \ {Pick(s)})]
  <1>5. ASSUME NEW s \in SUBSET u, s # {} PROVE G[s \ {Pick(s)}] = SumOver(w, s \ {Pick(s)})
    <2>1. Pick(s) \in s BY <1>5, PickIn
    <2>2. s \ {Pick(s)} \in SUBSET u /\ s \ {Pick(s)} # u BY <2>1
    <2> QED BY <1>4, <2>2
  <1>6. IsSum(w, u, G)
    <2>1. G = [s \in SUBSET u |-> IF s = {} THEN 0 ELSE w[Pick(s)] + G[s \ {Pick(s)}]]
      BY <1>5
    <2> QED BY <2>1 DEF IsSum
  <1> QED BY <1>2, <1>6

(* SumOver obeys the recursion. *)
LEMMA SumStep ==
  ASSUME NEW S, IsFiniteSet(S), NEW w
  PROVE  SumOver(w, S) = IF S = {} THEN 0 ELSE w[Pick(S)] + SumOver(w, S \ {Pick(S)})
  <1> DEFINE t == S \ {Pick(S)}
             g == CHOOSE f : IsSum(w, S, f)
             h == CHOOSE f : IsSum(w, t, f)
  <1>1. IsFiniteSet(t) BY FS_Subset
  <1>2. IsSum(w, S, g) /\ IsSum(w, t, h) BY <1>1, SumExists
  <1>3. SumOver(w, S) = g[S] /\ SumOver(w, t) = h[t] BY DEF SumOver
  <1> HIDE DEF g, h
  <1>4. g[t] = h[t] BY <1>2, SumUnique
  <1>5. g[S] = IF S = {} THEN 0 ELSE w[Pick(S)] + g[t] BY <1>2 DEF IsSum
  <1> QED BY <1>3, <1>4, <1>5

-----------------------------------------------------------------------------
(* What a caller needs of a sum.                                            *)

(* A sum of integers is an integer, a sum of naturals a natural. *)
LEMMA SumType ==
  ASSUME NEW N \in {Nat, Int}, NEW S, IsFiniteSet(S), NEW w, \A x \in S : w[x] \in N
  PROVE  SumOver(w, S) \in N
  <1> DEFINE Bad == {u \in SUBSET S : SumOver(w, u) \notin N}
  <1> SUFFICES ASSUME Bad # {} PROVE FALSE OBVIOUS
  <1>0. Bad \subseteq SUBSET S OBVIOUS
  <1> HIDE DEF Bad
  <1>1. PICK u \in Bad : \A v \in Bad : v \subseteq u => v = u BY <1>0, LeastSubset
  <1>2. u \in SUBSET S /\ SumOver(w, u) \notin N /\ IsFiniteSet(u) BY FS_Subset DEF Bad
  <1>3. u # {}
    <2>1. SumOver(w, {}) = 0 BY FS_EmptySet, SumStep
    <2> QED BY <1>2, <2>1
  <1>4. Pick(u) \in u BY <1>3, PickIn
  <1>5. SumOver(w, u) = w[Pick(u)] + SumOver(w, u \ {Pick(u)}) BY <1>2, <1>3, SumStep
  <1>6. SumOver(w, u \ {Pick(u)}) \in N BY <1>1, <1>2, <1>4 DEF Bad
  <1>7. w[Pick(u)] \in N BY <1>2, <1>4
  <1> QED BY <1>2, <1>5, <1>6, <1>7

(* The order of the elements does not matter: any of them may be taken out. *)
LEMMA SumRemove ==
  ASSUME NEW S, IsFiniteSet(S), NEW w, \A y \in S : w[y] \in Int, NEW x \in S
  PROVE  SumOver(w, S) = w[x] + SumOver(w, S \ {x})
  <1> DEFINE Bad == {u \in SUBSET S : \E y \in u : SumOver(w, u) # w[y] + SumOver(w, u \ {y})}
  <1> SUFFICES ASSUME Bad # {} PROVE FALSE OBVIOUS
  <1>0. Bad \subseteq SUBSET S OBVIOUS
  <1> HIDE DEF Bad
  <1>1. PICK u \in Bad : \A v \in Bad : v \subseteq u => v = u BY <1>0, LeastSubset
  <1>2. u \in SUBSET S /\ IsFiniteSet(u) BY FS_Subset DEF Bad
  <1>3. PICK y \in u : SumOver(w, u) # w[y] + SumOver(w, u \ {y}) BY DEF Bad
  <1> DEFINE p == Pick(u)
             t == (u \ {p}) \ {y}
  <1>4. p \in u BY PickIn
  <1>5. SumOver(w, u) = w[p] + SumOver(w, u \ {p}) BY <1>2, SumStep
  <1> HIDE DEF p
  <1>6. p # y BY <1>3, <1>5
  <1>7. ASSUME NEW v \in SUBSET u, v # u, NEW z \in v
        PROVE  SumOver(w, v) = w[z] + SumOver(w, v \ {z})
    <2>1. v \notin Bad /\ v \in SUBSET S BY <1>1, <1>2, <1>7
    <2> QED BY <2>1 DEF Bad
  <1>8. SumOver(w, u \ {p}) = w[y] + SumOver(w, t)
    <2>1. u \ {p} \in SUBSET u /\ u \ {p} # u /\ y \in u \ {p} BY <1>4, <1>6
    <2> QED BY <1>7, <2>1
  <1>9. SumOver(w, u \ {y}) = w[p] + SumOver(w, t)
    <2>1. u \ {y} \in SUBSET u /\ u \ {y} # u /\ p \in u \ {y} BY <1>4, <1>6
    <2>2. SumOver(w, u \ {y}) = w[p] + SumOver(w, (u \ {y}) \ {p}) BY <1>7, <2>1
    <2>3. (u \ {y}) \ {p} = t OBVIOUS
    <2> QED BY <2>2, <2>3
  <1>10. w[p] \in Int /\ w[y] \in Int BY <1>2, <1>4
  <1>11. SumOver(w, t) \in Int
    <2>1. IsFiniteSet(t) /\ \A z \in t : w[z] \in Int BY <1>2, FS_Subset
    <2> QED BY <2>1, SumType
  <1> HIDE DEF t
  <1>12. w[p] + (w[y] + SumOver(w, t)) = w[y] + (w[p] + SumOver(w, t)) BY <1>10, <1>11
  <1> QED BY <1>3, <1>5, <1>8, <1>9, <1>12

(* Weights outside of the set do not matter. *)
LEMMA SumCongruent ==
  ASSUME NEW S, IsFiniteSet(S), NEW w, NEW v, \A x \in S : w[x] = v[x]
  PROVE  SumOver(w, S) = SumOver(v, S)
  <1> DEFINE Bad == {u \in SUBSET S : SumOver(w, u) # SumOver(v, u)}
  <1> SUFFICES ASSUME Bad # {} PROVE FALSE OBVIOUS
  <1>0. Bad \subseteq SUBSET S OBVIOUS
  <1> HIDE DEF Bad
  <1>1. PICK u \in Bad : \A t \in Bad : t \subseteq u => t = u BY <1>0, LeastSubset
  <1>2. u \in SUBSET S /\ SumOver(w, u) # SumOver(v, u) /\ IsFiniteSet(u) BY FS_Subset DEF Bad
  <1>3. u # {} BY <1>2, SumStep
  <1>4. Pick(u) \in u BY <1>3, PickIn
  <1>5. /\ SumOver(w, u) = w[Pick(u)] + SumOver(w, u \ {Pick(u)})
        /\ SumOver(v, u) = v[Pick(u)] + SumOver(v, u \ {Pick(u)})
    BY <1>2, <1>3, SumStep
  <1>6. SumOver(w, u \ {Pick(u)}) = SumOver(v, u \ {Pick(u)}) BY <1>1, <1>2, <1>4 DEF Bad
  <1>7. w[Pick(u)] = v[Pick(u)] BY <1>2, <1>4
  <1> QED BY <1>2, <1>5, <1>6, <1>7

(* A part of a sum of naturals is never more than the whole. *)
LEMMA SumMonotone ==
  ASSUME NEW S, IsFiniteSet(S), NEW w, \A x \in S : w[x] \in Nat, NEW T \in SUBSET S
  PROVE  SumOver(w, T) <= SumOver(w, S)
  <1> DEFINE Bad == {u \in SUBSET S : T \subseteq u /\ ~(SumOver(w, T) <= SumOver(w, u))}
  <1> SUFFICES ASSUME Bad # {} PROVE FALSE OBVIOUS
  <1>0. Bad \subseteq SUBSET S OBVIOUS
  <1> HIDE DEF Bad
  <1>1. PICK u \in Bad : \A t \in Bad : t \subseteq u => t = u BY <1>0, LeastSubset
  <1>2. /\ u \in SUBSET S /\ T \subseteq u /\ ~(SumOver(w, T) <= SumOver(w, u))
        /\ IsFiniteSet(u) /\ IsFiniteSet(T)
    BY FS_Subset DEF Bad
  <1>3. SumOver(w, T) \in Nat /\ SumOver(w, u) \in Nat BY <1>2, SumType
  <1>4. T # u BY <1>2, <1>3
  <1>5. PICK x \in u : x \notin T BY <1>2, <1>4
  <1>6. SumOver(w, u) = w[x] + SumOver(w, u \ {x}) BY <1>2, SumRemove
  <1>7. SumOver(w, T) <= SumOver(w, u \ {x}) BY <1>1, <1>2, <1>5 DEF Bad
  <1>8. IsFiniteSet(u \ {x}) BY <1>2, FS_Subset
  <1>9. SumOver(w, u \ {x}) \in Nat BY <1>2, <1>8, SumType
  <1>10. w[x] \in Nat BY <1>2
  <1> QED BY <1>2, <1>3, <1>6, <1>7, <1>9, <1>10
=============================================================================
