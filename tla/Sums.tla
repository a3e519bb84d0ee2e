-------------------------------- MODULE Sums --------------------------------
(***************************************************************************)
(* Lemmas about SumFunctionOnSet of the community modules: the sum of the  *)
(* values f[x] over a finite set.  The proofs about billing sum accounts,  *)
(* those about planning the shares of nodes.  An induction over the set is *)
(* the choice of a smallest subset for which the claim fails.              *)
(***************************************************************************)
EXTENDS Integers, FiniteSetsExt, FiniteSetTheorems, WellFoundedInduction, TLAPS

(* Every set of subsets of a finite set has a member with no part in it.   *)
LEMMA MinimalSubset ==
    ASSUME NEW S, IsFiniteSet(S), NEW C, C \subseteq SUBSET S, C # {}
    PROVE  \E T \in C : \A U \in C : ~(U \subseteq T /\ U # T)
<1>1. FiniteSubsetsOf(S) = SUBSET S
  BY FS_FiniteSubsetsOfFinite
<1>2. IsWellFoundedOn(StrictSubsetOrdering(S), FiniteSubsetsOf(S))
  BY FS_StrictSubsetOrderingWellFounded
<1>3. PICK T \in C : \A U \in C : ~(<<U, T>> \in StrictSubsetOrdering(S))
  BY <1>1, <1>2, WFMin, Zenon
<1>4. ASSUME NEW U \in C, U \subseteq T, U # T
      PROVE  FALSE
  BY <1>3, <1>4 DEF StrictSubsetOrdering
<1> QED
  BY <1>4

(* The recursive function a sum over T is read off from.                   *)
Chosen(s) == CHOOSE x \in s : TRUE

Iterates(f, T, g) ==
    g = [s \in SUBSET T |-> IF s = {} THEN 0 ELSE f[Chosen(s)] + g[s \ {Chosen(s)}]]

(* Its value at T, as the definitions of the fold unfold.                  *)
LEMMA SumUnfolds ==
    ASSUME NEW f, NEW T
    PROVE  SumFunctionOnSet(f, T) = (CHOOSE g : Iterates(f, T, g))[T]
BY Zenon DEF SumFunctionOnSet, FoldFunctionOnSet, MapThenFoldSet, Iterates, Chosen

(* The element chosen from a set is in it.                                 *)
LEMMA ChosenIn == ASSUME NEW s, s # {} PROVE Chosen(s) \in s
BY DEF Chosen

(* What such functions say of a set both are defined on is the same.       *)
LEMMA IteratesAgree ==
    ASSUME NEW f, NEW T, IsFiniteSet(T), NEW U, NEW g, NEW h,
           Iterates(f, T, g), Iterates(f, U, h), NEW s, s \subseteq T, s \subseteq U
    PROVE  g[s] = h[s]
<1> DEFINE C == {u \in SUBSET T : u \subseteq U /\ g[u] # h[u]}
<1> SUFFICES ASSUME C # {} PROVE FALSE
  OBVIOUS
<1>1. PICK u \in C : \A v \in C : ~(v \subseteq u /\ v # u)
  <2>1. C \subseteq SUBSET T
    OBVIOUS
  <2> HIDE DEF C
  <2> QED
    BY <2>1, MinimalSubset
<1>2. \A v \in SUBSET T :
          g[v] = IF v = {} THEN 0 ELSE f[Chosen(v)] + g[v \ {Chosen(v)}]
  BY DEF Iterates
<1>3. \A v \in SUBSET U :
          h[v] = IF v = {} THEN 0 ELSE f[Chosen(v)] + h[v \ {Chosen(v)}]
  BY DEF Iterates
<1>4. u # {}
  BY <1>2, <1>3
<1> DEFINE v == u \ {Chosen(u)}
<1>5. v \subseteq u /\ v # u
  BY <1>4, ChosenIn
<1>6. g[v] = h[v]
  BY <1>1, <1>5
<1> QED
  BY <1>2, <1>3, <1>4, <1>6

(* There is one for every finite set.                                      *)
LEMMA IteratesExists ==
    ASSUME NEW f, NEW S, IsFiniteSet(S)
    PROVE  \E g : Iterates(f, S, g)
<1> DEFINE C == {u \in SUBSET S : ~\E g : Iterates(f, u, g)}
<1> SUFFICES ASSUME C # {} PROVE FALSE
  OBVIOUS
<1>1. PICK T \in C : \A v \in C : ~(v \subseteq T /\ v # T)
  <2>1. C \subseteq SUBSET S
    OBVIOUS
  <2> HIDE DEF C
  <2> QED
    BY <2>1, MinimalSubset
<1>2. ASSUME NEW v \in SUBSET T, v # T
      PROVE  IsFiniteSet(v) /\ \E g : Iterates(f, v, g)
  BY <1>1, <1>2, FS_Subset
<1> DEFINE it(v) == CHOOSE g : Iterates(f, v, g)
           val(v) == it(v)[v]
           rest(v) == v \ {Chosen(v)}
           g == [v \in SUBSET T |->
                   IF v = {} THEN 0 ELSE f[Chosen(v)] + val(rest(v))]
<1>3. ASSUME NEW v \in SUBSET T, v # T
      PROVE  Iterates(f, v, it(v))
  BY <1>2, <1>3
<1>4. ASSUME NEW v \in SUBSET T, v # {}
      PROVE  rest(v) \in SUBSET T /\ rest(v) # T /\ rest(v) \subseteq v
  BY <1>4, ChosenIn
<1>5. ASSUME NEW v \in SUBSET T, v # T
      PROVE  g[v] = val(v)
  <2>1. CASE v = {}
    <3>1. it(v) = [s \in SUBSET v |-> IF s = {} THEN 0
                                      ELSE f[Chosen(s)] + it(v)[s \ {Chosen(s)}]]
      BY <1>3, <1>5 DEF Iterates
    <3> QED
      BY <2>1, <3>1
  <2>2. CASE v # {}
    <3>1. it(v) = [s \in SUBSET v |-> IF s = {} THEN 0
                                      ELSE f[Chosen(s)] + it(v)[s \ {Chosen(s)}]]
      BY <1>3, <1>5 DEF Iterates
    <3>2. val(v) = f[Chosen(v)] + it(v)[rest(v)]
      BY <2>2, <3>1
    <3>3. it(v)[rest(v)] = val(rest(v))
      <4>1. /\ Iterates(f, v, it(v)) /\ Iterates(f, rest(v), it(rest(v)))
            /\ IsFiniteSet(v)
        BY <1>2, <1>3, <1>4, <1>5, <2>2
      <4>2. rest(v) \subseteq v
        OBVIOUS
      <4> HIDE DEF it, rest
      <4>3. it(v)[rest(v)] = it(rest(v))[rest(v)]
        BY <4>1, <4>2, IteratesAgree
      <4> QED
        BY <4>3
    <3> QED
      BY <2>2, <3>2, <3>3
  <2> QED
    BY <2>1, <2>2
<1>6. Iterates(f, T, g)
  <2>1. ASSUME NEW v \in SUBSET T, v # {}
        PROVE  val(rest(v)) = g[rest(v)]
    BY <1>4, <1>5, <2>1
  <2> DEFINE d(v) == IF v = {} THEN 0 ELSE f[Chosen(v)] + val(rest(v))
             e(v) == IF v = {} THEN 0 ELSE f[Chosen(v)] + g[rest(v)]
  <2>2. g = [v \in SUBSET T |-> e(v)]
    <3>1. ASSUME NEW v \in SUBSET T PROVE d(v) = e(v)
      <4> HIDE DEF val, rest, g
      <4>1. CASE v = {}
        BY <4>1
      <4>2. CASE v # {}
        BY <2>1, <4>2
      <4> QED
        BY <4>1, <4>2
    <3>2. g = [v \in SUBSET T |-> d(v)]
      OBVIOUS
    <3> HIDE DEF d, e, g
    <3> QED
      BY <3>1, <3>2
  <2> HIDE DEF g
  <2> QED
    BY <2>2 DEF Iterates
<1> QED
  BY <1>1, <1>6

(* So a sum takes one element out of the set, whichever is chosen first.   *)
LEMMA SumFirst ==
    ASSUME NEW f, NEW S, IsFiniteSet(S)
    PROVE  SumFunctionOnSet(f, S) =
             IF S = {} THEN 0
             ELSE f[Chosen(S)] + SumFunctionOnSet(f, S \ {Chosen(S)})
<1> DEFINE R == S \ {Chosen(S)}
           g == CHOOSE x : Iterates(f, S, x)
           h == CHOOSE x : Iterates(f, R, x)
<1>1. Iterates(f, S, g)
  BY IteratesExists
<1>2. Iterates(f, R, h)
  BY IteratesExists, FS_Subset
<1>3. g[R] = h[R]
  <2>1. R \subseteq S
    OBVIOUS
  <2> HIDE DEF g, h, R
  <2> QED
    BY <1>1, <1>2, <2>1, IteratesAgree
<1>4. g[S] = IF S = {} THEN 0 ELSE f[Chosen(S)] + g[R]
  BY <1>1 DEF Iterates
<1>5. SumFunctionOnSet(f, S) = g[S] /\ SumFunctionOnSet(f, R) = h[R]
  BY SumUnfolds
<1> QED
  BY <1>3, <1>4, <1>5

(* A sum of naturals is one.                                               *)
LEMMA SumIsNat ==
    ASSUME NEW f, NEW S, IsFiniteSet(S), \A x \in S : f[x] \in Nat
    PROVE  SumFunctionOnSet(f, S) \in Nat
<1> DEFINE C == {u \in SUBSET S : SumFunctionOnSet(f, u) \notin Nat}
<1> SUFFICES ASSUME C # {} PROVE FALSE
  OBVIOUS
<1>1. PICK u \in C : \A v \in C : ~(v \subseteq u /\ v # u)
  <2>1. C \subseteq SUBSET S
    OBVIOUS
  <2> HIDE DEF C
  <2> QED
    BY <2>1, MinimalSubset
<1>2. IsFiniteSet(u)
  BY FS_Subset
<1> DEFINE v == u \ {Chosen(u)}
<1>3. SumFunctionOnSet(f, u) = IF u = {} THEN 0 ELSE f[Chosen(u)] + SumFunctionOnSet(f, v)
  BY <1>2, SumFirst
<1>4. u # {}
  BY <1>3
<1>5. v \subseteq u /\ v # u /\ f[Chosen(u)] \in Nat
  BY <1>4, ChosenIn
<1>6. SumFunctionOnSet(f, v) \in Nat
  BY <1>1, <1>5
<1> QED
  BY <1>3, <1>4, <1>5, <1>6

(* Any element may be taken out first.                                     *)
LEMMA SumTakes ==
    ASSUME NEW f, NEW S, IsFiniteSet(S), \A x \in S : f[x] \in Nat, NEW y \in S
    PROVE  SumFunctionOnSet(f, S) = f[y] + SumFunctionOnSet(f, S \ {y})
<1> DEFINE sum(u) == SumFunctionOnSet(f, u)
           C == {u \in SUBSET S : \E x \in u : sum(u) # f[x] + sum(u \ {x})}
<1> SUFFICES ASSUME C # {} PROVE FALSE
  OBVIOUS
<1>1. PICK u \in C : \A v \in C : ~(v \subseteq u /\ v # u)
  <2>1. C \subseteq SUBSET S
    OBVIOUS
  <2> HIDE DEF C
  <2> QED
    BY <2>1, MinimalSubset
<1>2. PICK x \in u : sum(u) # f[x] + sum(u \ {x})
  BY <1>1
<1> DEFINE c == Chosen(u)
           v == u \ {c}
           w == u \ {x}
<1>3. c \in u /\ v \subseteq u /\ v # u /\ w \subseteq u /\ w # u
  BY <1>2, ChosenIn
<1>4. IsFiniteSet(u) /\ IsFiniteSet(v) /\ IsFiniteSet(w) /\ IsFiniteSet(v \ {x})
  BY <1>3, FS_Subset
<1>5. sum(u) = f[c] + sum(v)
  BY <1>2, <1>4, SumFirst
<1>6. x # c
  BY <1>2, <1>5
<1>7. sum(v) = f[x] + sum(v \ {x})
  BY <1>1, <1>2, <1>3, <1>6
<1>8. sum(w) = f[c] + sum(w \ {c})
  BY <1>1, <1>2, <1>3, <1>6
<1>9. v \ {x} = w \ {c}
  OBVIOUS
<1>10. f[c] \in Nat /\ f[x] \in Nat /\ sum(v \ {x}) \in Nat
  <2>1. \A z \in v \ {x} : f[z] \in Nat
    OBVIOUS
  <2> QED
    BY <1>3, <1>4, <2>1, SumIsNat
<1> DEFINE z == sum(v \ {x})
<1>11. /\ sum(u) = f[c] + (f[x] + z) /\ sum(w) = f[c] + z
       /\ sum(u) # f[x] + sum(w)
  BY <1>2, <1>5, <1>7, <1>8, <1>9
<1>12. f[c] \in Nat /\ f[x] \in Nat /\ z \in Nat
  BY <1>10
<1> HIDE DEF sum, c, w, z
<1> QED
  BY <1>11, <1>12
(* A sum grows with its terms, and is that of any function with the same.  *)
LEMMA SumGrows ==
    ASSUME NEW f, NEW g, NEW S, IsFiniteSet(S),
           \A x \in S : f[x] \in Nat /\ g[x] \in Nat /\ f[x] <= g[x]
    PROVE  SumFunctionOnSet(f, S) <= SumFunctionOnSet(g, S)
<1> DEFINE C == {u \in SUBSET S : ~(SumFunctionOnSet(f, u) <= SumFunctionOnSet(g, u))}
<1> SUFFICES ASSUME C # {} PROVE FALSE
  OBVIOUS
<1>1. PICK u \in C : \A v \in C : ~(v \subseteq u /\ v # u)
  <2>1. C \subseteq SUBSET S
    OBVIOUS
  <2> HIDE DEF C
  <2> QED
    BY <2>1, MinimalSubset
<1> DEFINE v == u \ {Chosen(u)}
<1>2. IsFiniteSet(u) /\ IsFiniteSet(v)
  BY FS_Subset
<1>3. /\ SumFunctionOnSet(f, u) = IF u = {} THEN 0 ELSE f[Chosen(u)] + SumFunctionOnSet(f, v)
      /\ SumFunctionOnSet(g, u) = IF u = {} THEN 0 ELSE g[Chosen(u)] + SumFunctionOnSet(g, v)
  BY <1>2, SumFirst
<1>4. u # {}
  BY <1>3
<1>5. v \subseteq u /\ v # u /\ Chosen(u) \in S
  BY <1>4, ChosenIn
<1>6. SumFunctionOnSet(f, v) <= SumFunctionOnSet(g, v)
  BY <1>1, <1>5
<1>7. SumFunctionOnSet(f, v) \in Nat /\ SumFunctionOnSet(g, v) \in Nat
  <2>1. \A x \in v : f[x] \in Nat /\ g[x] \in Nat
    OBVIOUS
  <2> HIDE DEF v
  <2> QED
    BY <1>2, <2>1, SumIsNat
<1>8. ~(SumFunctionOnSet(f, u) <= SumFunctionOnSet(g, u))
  OBVIOUS
<1> HIDE DEF v
<1> QED
  BY <1>3, <1>4, <1>5, <1>6, <1>7, <1>8

(* When one term changes, the sum changes by as much.                      *)
LEMMA SumMoves ==
    ASSUME NEW f, NEW g, NEW S, IsFiniteSet(S),
           \A x \in S : f[x] \in Nat /\ g[x] \in Nat,
           NEW y \in S, \A x \in S : x # y => g[x] = f[x]
    PROVE  SumFunctionOnSet(g, S) + f[y] = SumFunctionOnSet(f, S) + g[y]
<1> DEFINE R == S \ {y}
<1>1. IsFiniteSet(R) /\ \A x \in R : f[x] \in Nat /\ g[x] \in Nat /\ f[x] = g[x]
  BY FS_Subset
<1>2. SumFunctionOnSet(f, R) \in Nat /\ SumFunctionOnSet(g, R) \in Nat
  BY <1>1, SumIsNat
<1>3. SumFunctionOnSet(f, R) = SumFunctionOnSet(g, R)
  <2>1. /\ \A x \in R : f[x] <= g[x]
        /\ \A x \in R : g[x] <= f[x]
    BY <1>1
  <2>2. /\ SumFunctionOnSet(f, R) <= SumFunctionOnSet(g, R)
        /\ SumFunctionOnSet(g, R) <= SumFunctionOnSet(f, R)
    BY <1>1, <2>1, SumGrows
  <2> QED
    BY <1>2, <2>2
<1>4. /\ SumFunctionOnSet(f, S) = f[y] + SumFunctionOnSet(f, R)
      /\ SumFunctionOnSet(g, S) = g[y] + SumFunctionOnSet(g, R)
  BY SumTakes
<1>5. f[y] \in Nat /\ g[y] \in Nat
  OBVIOUS
<1> HIDE DEF R
<1> QED
  BY <1>2, <1>3, <1>4, <1>5

(* A sum of zeros is zero.                                                 *)
LEMMA SumOfZeros ==
    ASSUME NEW S, IsFiniteSet(S)
    PROVE  SumFunctionOnSet([x \in S |-> 0], S) = 0
<1> DEFINE z == [x \in S |-> 0]
           C == {u \in SUBSET S : SumFunctionOnSet(z, u) # 0}
<1> SUFFICES ASSUME C # {} PROVE FALSE
  OBVIOUS
<1>1. PICK u \in C : \A v \in C : ~(v \subseteq u /\ v # u)
  <2>1. C \subseteq SUBSET S
    OBVIOUS
  <2> HIDE DEF C
  <2> QED
    BY <2>1, MinimalSubset
<1> DEFINE v == u \ {Chosen(u)}
<1>2. SumFunctionOnSet(z, u) = IF u = {} THEN 0 ELSE z[Chosen(u)] + SumFunctionOnSet(z, v)
  <2>1. IsFiniteSet(u)
    BY FS_Subset
  <2> HIDE DEF z
  <2> QED
    BY <2>1, SumFirst
<1>3. u # {} /\ v \subseteq u /\ v # u /\ Chosen(u) \in S
  BY <1>2, ChosenIn
<1>4. SumFunctionOnSet(z, v) = 0
  BY <1>1, <1>3
<1> QED
  BY <1>2, <1>3, <1>4

(* A larger set of naturals has no smaller sum.                            *)
LEMMA SumOfPart ==
    ASSUME NEW f, NEW S, IsFiniteSet(S), \A x \in S : f[x] \in Nat,
           NEW R, R \subseteq S
    PROVE  SumFunctionOnSet(f, R) <= SumFunctionOnSet(f, S)
<1> DEFINE sum(u) == SumFunctionOnSet(f, u)
           C == {u \in SUBSET S : R \subseteq u /\ ~(sum(R) <= sum(u))}
<1> SUFFICES ASSUME C # {} PROVE FALSE
  OBVIOUS
<1>1. PICK u \in C : \A v \in C : ~(v \subseteq u /\ v # u)
  <2>1. C \subseteq SUBSET S
    OBVIOUS
  <2> HIDE DEF C
  <2> QED
    BY <2>1, MinimalSubset
<1>2. IsFiniteSet(u) /\ \A x \in u : f[x] \in Nat
  BY FS_Subset
<1>3. sum(u) \in Nat
  BY <1>2, SumIsNat
<1>4. PICK y \in u : y \notin R
  BY <1>3
<1> DEFINE v == u \ {y}
<1>5. sum(u) = f[y] + sum(v)
  BY <1>2, SumTakes
<1>6. sum(v) \in Nat
  <2>1. IsFiniteSet(v) /\ \A x \in v : f[x] \in Nat
    BY <1>2, FS_Subset
  <2> QED
    BY <2>1, SumIsNat
<1>7. sum(R) \in Nat
  <2>1. IsFiniteSet(R) /\ \A x \in R : f[x] \in Nat
    BY FS_Subset
  <2> QED
    BY <2>1, SumIsNat
<1>8. sum(R) <= sum(v)
  <2>1. v \subseteq u /\ v # u /\ R \subseteq v /\ v \in SUBSET S
    BY <1>4
  <2> QED
    BY <1>1, <2>1
<1>9. f[y] \in Nat /\ ~(sum(R) <= sum(u))
  BY <1>2
<1> HIDE DEF sum, v
<1> QED
  BY <1>3, <1>5, <1>6, <1>7, <1>8, <1>9

(* The sum of two functions is the sum of their sums.                      *)
LEMMA SumOfBoth ==
    ASSUME NEW f, NEW g, NEW h, NEW S, IsFiniteSet(S),
           \A x \in S : f[x] \in Nat /\ g[x] \in Nat /\ h[x] = f[x] + g[x]
    PROVE  SumFunctionOnSet(h, S) = SumFunctionOnSet(f, S) + SumFunctionOnSet(g, S)
<1> DEFINE C == {u \in SUBSET S : SumFunctionOnSet(h, u)
                                     # SumFunctionOnSet(f, u) + SumFunctionOnSet(g, u)}
<1> SUFFICES ASSUME C # {} PROVE FALSE
  OBVIOUS
<1>1. PICK u \in C : \A v \in C : ~(v \subseteq u /\ v # u)
  <2>1. C \subseteq SUBSET S
    OBVIOUS
  <2> HIDE DEF C
  <2> QED
    BY <2>1, MinimalSubset
<1> DEFINE v == u \ {Chosen(u)}
<1>2. IsFiniteSet(u) /\ IsFiniteSet(v)
  BY FS_Subset
<1>3. /\ SumFunctionOnSet(f, u) = IF u = {} THEN 0 ELSE f[Chosen(u)] + SumFunctionOnSet(f, v)
      /\ SumFunctionOnSet(g, u) = IF u = {} THEN 0 ELSE g[Chosen(u)] + SumFunctionOnSet(g, v)
      /\ SumFunctionOnSet(h, u) = IF u = {} THEN 0 ELSE h[Chosen(u)] + SumFunctionOnSet(h, v)
  BY <1>2, SumFirst
<1>4. u # {}
  BY <1>3
<1>5. v \subseteq u /\ v # u /\ Chosen(u) \in S
  BY <1>4, ChosenIn
<1>6. SumFunctionOnSet(h, v) = SumFunctionOnSet(f, v) + SumFunctionOnSet(g, v)
  BY <1>1, <1>5
<1>7. SumFunctionOnSet(f, v) \in Nat /\ SumFunctionOnSet(g, v) \in Nat
  <2>1. \A x \in v : f[x] \in Nat /\ g[x] \in Nat
    OBVIOUS
  <2> HIDE DEF v
  <2> QED
    BY <1>2, <2>1, SumIsNat
<1>8. SumFunctionOnSet(h, u) # SumFunctionOnSet(f, u) + SumFunctionOnSet(g, u)
  OBVIOUS
<1> HIDE DEF v
<1> QED
  BY <1>3, <1>4, <1>5, <1>6, <1>7, <1>8

(* Counting the members of a part, one for each.                           *)
LEMMA SumOfMarks ==
    ASSUME NEW S, IsFiniteSet(S), NEW R, R \subseteq S
    PROVE  SumFunctionOnSet([x \in S |-> IF x \in R THEN 1 ELSE 0], S) = Cardinality(R)
<1> DEFINE f == [x \in S |-> IF x \in R THEN 1 ELSE 0]
           C == {u \in SUBSET S : SumFunctionOnSet(f, u) # Cardinality(u \cap R)}
<1>1. C = {}
  <2> SUFFICES ASSUME C # {} PROVE FALSE
    OBVIOUS
  <2>1. PICK u \in C : \A v \in C : ~(v \subseteq u /\ v # u)
    <3>1. C \subseteq SUBSET S
      OBVIOUS
    <3> HIDE DEF C
    <3> QED
      BY <3>1, MinimalSubset
  <2> DEFINE c == Chosen(u)
             v == u \ {c}
  <2>2. IsFiniteSet(u) /\ IsFiniteSet(v \cap R)
    BY FS_Subset
  <2>3. SumFunctionOnSet(f, u) = IF u = {} THEN 0 ELSE f[c] + SumFunctionOnSet(f, v)
    <3> HIDE DEF f
    <3> QED
      BY <2>2, SumFirst
  <2>4. SumFunctionOnSet(f, u) # Cardinality(u \cap R)
    OBVIOUS
  <2>5. CASE u = {}
    <3>1. u \cap R = {}
      BY <2>5
    <3> QED
      BY <2>3, <2>4, <2>5, <3>1, FS_EmptySet
  <2>6. CASE u # {}
    <3>1. c \in u /\ c \in S /\ v \subseteq u /\ v # u
      BY <2>6, ChosenIn
    <3>2. SumFunctionOnSet(f, v) = Cardinality(v \cap R)
      BY <2>1, <3>1
    <3>3. Cardinality(v \cap R) \in Nat
      BY <2>2, FS_CardinalityType
    <3>4. CASE c \in R
      <4>1. u \cap R = (v \cap R) \cup {c} /\ c \notin v \cap R
        BY <3>1, <3>4
      <4>2. Cardinality(u \cap R) = Cardinality(v \cap R) + 1
        BY <2>2, <4>1, FS_AddElement
      <4>3. f[c] = 1
        BY <3>1, <3>4
      <4> HIDE DEF f, v, c
      <4> QED
        BY <2>3, <2>4, <2>6, <3>2, <3>3, <4>2, <4>3
    <3>5. CASE c \notin R
      <4>1. u \cap R = v \cap R
        BY <3>5
      <4>2. f[c] = 0
        BY <3>1, <3>5
      <4> HIDE DEF f, v, c
      <4> QED
        BY <2>3, <2>4, <2>6, <3>2, <3>3, <4>1, <4>2
    <3> QED
      BY <3>4, <3>5
  <2> QED
    BY <2>5, <2>6
<1>2. S \cap R = R
  OBVIOUS
<1> QED
  BY <1>1, <1>2
=============================================================================
