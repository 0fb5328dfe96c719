---------------------------------- MODULE Sums ----------------------------------
(***************************************************************************)
(* What the provers need to know of sums over finite sets.                  *)
(*                                                                         *)
(* SumFunctionOnSet folds over the set in an order that CHOOSE gives.  These *)
(* lemmas show that the order does not matter: the sum over a set is that    *)
(* of any of its elements and of the rest.  Where a proof would be by        *)
(* induction on the set, it looks at a smallest set without the property.   *)
(***************************************************************************)
EXTENDS Integers, FiniteSets, Functions, FiniteSetTheorems, WellFoundedInduction, TLAPS

(* The fold, as MapThenFoldSet defines it. *)
First(s) == CHOOSE x \in s : TRUE
Rest(s) == s \ {First(s)}
Folds(g, f, S) == g = [s \in SUBSET S |-> IF s = {} THEN 0 ELSE f[First(s)] + g[Rest(s)]]
Fold(f, S) == CHOOSE g : Folds(g, f, S)

LEMMA SumIsFold == ASSUME NEW f, NEW S PROVE SumFunctionOnSet(f, S) = Fold(f, S)[S]
BY DEF SumFunctionOnSet, FoldFunctionOnSet, MapThenFoldSet, Fold, Folds, First, Rest

LEMMA FirstIn == ASSUME NEW s, s # {} PROVE First(s) \in s /\ Rest(s) \subseteq s /\ Rest(s) # s
BY DEF First, Rest

(* A smallest one among the subsets of a finite set. *)
LEMMA SmallestSubset ==
  ASSUME NEW S, IsFiniteSet(S), NEW Bad, Bad \subseteq SUBSET S, Bad # {}
  PROVE  \E T \in Bad : \A U \in SUBSET T : U # T => U \notin Bad
<1>1. IsWellFoundedOn(StrictSubsetOrdering(S), SUBSET S)
  BY FS_StrictSubsetOrderingWellFounded, FS_FiniteSubsetsOfFinite
<1>2. PICK T \in Bad : \A U \in Bad : ~(<<U, T>> \in StrictSubsetOrdering(S))
  BY <1>1, WFMin
<1>3. ASSUME NEW U \in SUBSET T, U # T, U \in Bad PROVE FALSE
  BY <1>2, <1>3 DEF StrictSubsetOrdering
<1> QED
  BY <1>3

LEMMA FoldAt ==
  ASSUME NEW f, NEW S, NEW g, Folds(g, f, S), NEW s \in SUBSET S
  PROVE  g[s] = IF s = {} THEN 0 ELSE f[First(s)] + g[Rest(s)]
BY DEF Folds

(* Folds of two sets agree where both are defined. *)
LEMMA FoldsAgree ==
  ASSUME NEW f, NEW S, NEW T, IsFiniteSet(S), NEW g, NEW h, Folds(g, f, S), Folds(h, f, T),
         NEW v, v \subseteq S, v \subseteq T
  PROVE  g[v] = h[v]
<1> DEFINE Bad == {u \in SUBSET S : u \subseteq T /\ g[u] # h[u]}
<1>1. SUFFICES ASSUME Bad # {} PROVE FALSE
  OBVIOUS
<1>2. PICK u \in Bad : \A w \in SUBSET u : w # u => w \notin Bad
  <2> HIDE DEF Bad
  <2>1. Bad \subseteq SUBSET S
    BY DEF Bad
  <2> QED
    BY <1>1, <2>1, SmallestSubset
<1>3. u \subseteq S /\ u \subseteq T /\ g[u] # h[u]
  OBVIOUS
<1>4. CASE u = {}
  BY <1>3, <1>4, FoldAt
<1>5. CASE u # {}
  <2>1. Rest(u) \subseteq u /\ Rest(u) # u
    BY <1>5, FirstIn
  <2>2. g[Rest(u)] = h[Rest(u)]
    BY <1>2, <1>3, <2>1
  <2>3. g[u] = f[First(u)] + g[Rest(u)] /\ h[u] = f[First(u)] + h[Rest(u)]
    BY <1>3, <1>5, FoldAt
  <2> QED
    BY <1>3, <2>2, <2>3
<1> QED
  BY <1>4, <1>5

(* A finite set has a fold. *)
LEMMA FoldExists ==
  ASSUME NEW f, NEW S, IsFiniteSet(S)
  PROVE  Folds(Fold(f, S), f, S)
<1> DEFINE Bad == {u \in SUBSET S : ~Folds(Fold(f, u), f, u)}
<1>1. SUFFICES ASSUME Bad # {} PROVE FALSE
  OBVIOUS
<1>2. PICK T \in Bad : \A w \in SUBSET T : w # T => w \notin Bad
  <2> HIDE DEF Bad
  <2>1. Bad \subseteq SUBSET S
    BY DEF Bad
  <2> QED
    BY <1>1, <2>1, SmallestSubset
<1>3. T \subseteq S /\ \A u \in SUBSET T : u # T => Folds(Fold(f, u), f, u)
  BY <1>2
<1>4. \A u \in SUBSET T : IsFiniteSet(u)
  BY <1>3, FS_Subset
<1> HIDE DEF Bad
<1> DEFINE Sum(u) == Fold(f, u)[u]
           h == [s \in SUBSET T |-> IF s = {} THEN 0 ELSE f[First(s)] + Sum(Rest(s))]
<1>5. ASSUME NEW u \in SUBSET T, u # T PROVE Sum(u) = h[u]
  <2>1. Folds(Fold(f, u), f, u) /\ u \in SUBSET u
    BY <1>3, <1>5
  <2>2. Sum(u) = IF u = {} THEN 0 ELSE f[First(u)] + Fold(f, u)[Rest(u)]
    BY <2>1, FoldAt
  <2>3. ASSUME u # {} PROVE Fold(f, u)[Rest(u)] = Sum(Rest(u))
    <3>1. Rest(u) \subseteq u /\ Rest(u) \in SUBSET T /\ Rest(u) # T
      BY <1>5, <2>3, FirstIn
    <3>2. Folds(Fold(f, Rest(u)), f, Rest(u)) /\ IsFiniteSet(u)
      BY <1>3, <1>4, <3>1
    <3> QED
      BY <2>1, <3>1, <3>2, FoldsAgree
  <2> QED
    BY <2>2, <2>3
<1>6. \A s \in SUBSET T : s # {} => Rest(s) \in SUBSET T /\ Rest(s) # T
  BY FirstIn
<1>7. h = [s \in SUBSET T |-> IF s = {} THEN 0 ELSE f[First(s)] + h[Rest(s)]]
  <2> HIDE DEF Sum
  <2>1. ASSUME NEW s \in SUBSET T, s # {} PROVE Sum(Rest(s)) = h[Rest(s)]
    BY <1>5, <1>6, <2>1
  <2> QED
    BY <2>1
<1>8. Folds(h, f, T)
  <2> HIDE DEF h
  <2> QED
    BY <1>7 DEF Folds
<1>9. Folds(Fold(f, T), f, T)
  <2> HIDE DEF h
  <2> QED
    BY <1>8 DEF Fold
<1> QED
  BY <1>2, <1>9 DEF Bad

(* The sum in the order of the fold. *)
LEMMA SumStep ==
  ASSUME NEW f, NEW S, IsFiniteSet(S)
  PROVE  SumFunctionOnSet(f, S) = IF S = {} THEN 0 ELSE f[First(S)] + SumFunctionOnSet(f, Rest(S))
<1>1. Folds(Fold(f, S), f, S) /\ S \in SUBSET S
  BY FoldExists
<1>2. Fold(f, S)[S] = IF S = {} THEN 0 ELSE f[First(S)] + Fold(f, S)[Rest(S)]
  BY <1>1, FoldAt
<1>3. ASSUME S # {} PROVE Fold(f, S)[Rest(S)] = Fold(f, Rest(S))[Rest(S)]
  <2>1. Rest(S) \subseteq S /\ IsFiniteSet(Rest(S))
    BY <1>3, FirstIn, FS_Subset
  <2>2. Folds(Fold(f, Rest(S)), f, Rest(S))
    BY <2>1, FoldExists
  <2> QED
    BY <1>1, <2>1, <2>2, FoldsAgree
<1> QED
  BY <1>2, <1>3, SumIsFold

LEMMA SumOfNone == ASSUME NEW f PROVE SumFunctionOnSet(f, {}) = 0
BY SumStep, FS_EmptySet

LEMMA SumType ==
  ASSUME NEW S, IsFiniteSet(S), NEW f, \A x \in S : f[x] \in Int
  PROVE  SumFunctionOnSet(f, S) \in Int
<1> DEFINE Bad == {u \in SUBSET S : SumFunctionOnSet(f, u) \notin Int}
<1>1. SUFFICES ASSUME Bad # {} PROVE FALSE
  OBVIOUS
<1>2. PICK T \in Bad : \A w \in SUBSET T : w # T => w \notin Bad
  <2> HIDE DEF Bad
  <2>1. Bad \subseteq SUBSET S
    BY DEF Bad
  <2> QED
    BY <1>1, <2>1, SmallestSubset
<1>3. T \subseteq S /\ IsFiniteSet(T) /\ SumFunctionOnSet(f, T) \notin Int
  BY FS_Subset
<1>4. T # {}
  BY <1>3, SumOfNone
<1>5. First(T) \in S /\ Rest(T) \in SUBSET S /\ SumFunctionOnSet(f, Rest(T)) \in Int
  BY <1>2, <1>3, <1>4, FirstIn
<1>6. SumFunctionOnSet(f, T) = f[First(T)] + SumFunctionOnSet(f, Rest(T))
  BY <1>3, <1>4, SumStep
<1> QED
  BY <1>3, <1>5, <1>6

(* Where every value is 0, so is the sum. *)
LEMMA SumOfZeros ==
  ASSUME NEW S, IsFiniteSet(S), NEW f, \A x \in S : f[x] = 0
  PROVE  SumFunctionOnSet(f, S) = 0
<1> DEFINE Bad == {u \in SUBSET S : SumFunctionOnSet(f, u) # 0}
<1>1. SUFFICES ASSUME Bad # {} PROVE FALSE
  OBVIOUS
<1>2. PICK T \in Bad : \A w \in SUBSET T : w # T => w \notin Bad
  <2> HIDE DEF Bad
  <2>1. Bad \subseteq SUBSET S
    BY DEF Bad
  <2> QED
    BY <1>1, <2>1, SmallestSubset
<1>3. T \subseteq S /\ IsFiniteSet(T) /\ SumFunctionOnSet(f, T) # 0
  BY FS_Subset
<1>4. T # {}
  BY <1>3, SumOfNone
<1>5. First(T) \in S /\ SumFunctionOnSet(f, Rest(T)) = 0
  BY <1>2, <1>3, <1>4, FirstIn
<1>6. SumFunctionOnSet(f, T) = f[First(T)] + SumFunctionOnSet(f, Rest(T))
  BY <1>3, <1>4, SumStep
<1> QED
  BY <1>3, <1>5, <1>6

(* The sum is that of any element and of the others. *)
LEMMA SumWithout ==
  ASSUME NEW S, IsFiniteSet(S), NEW f, \A x \in S : f[x] \in Int, NEW k \in S
  PROVE  SumFunctionOnSet(f, S) = f[k] + SumFunctionOnSet(f, S \ {k})
<1> DEFINE Splits(u) == \A x \in u : SumFunctionOnSet(f, u) = f[x] + SumFunctionOnSet(f, u \ {x})
           Bad == {u \in SUBSET S : ~Splits(u)}
<1>1. SUFFICES ASSUME Bad # {} PROVE FALSE
  OBVIOUS
<1>2. PICK T \in Bad : \A w \in SUBSET T : w # T => w \notin Bad
  <2> HIDE DEF Bad
  <2>1. Bad \subseteq SUBSET S
    BY DEF Bad
  <2> QED
    BY <1>1, <2>1, SmallestSubset
<1>3. T \subseteq S /\ \A u \in SUBSET T : u # T => Splits(u)
  BY <1>2
<1>4. PICK x \in T : SumFunctionOnSet(f, T) # f[x] + SumFunctionOnSet(f, T \ {x})
  BY <1>2
<1> HIDE DEF Bad, Splits
<1> DEFINE y == First(T)
<1>5. /\ y \in T /\ x # y /\ IsFiniteSet(T)
      /\ SumFunctionOnSet(f, T) = f[y] + SumFunctionOnSet(f, T \ {y})
  <2>1. T # {} /\ IsFiniteSet(T)
    BY <1>3, <1>4, FS_Subset
  <2>2. y \in T /\ SumFunctionOnSet(f, T) = f[y] + SumFunctionOnSet(f, T \ {y})
    BY <2>1, FirstIn, SumStep DEF Rest
  <2> QED
    BY <1>4, <2>1, <2>2
<1> HIDE DEF y
<1> DEFINE U == T \ {x, y}
<1>6. /\ (T \ {y}) \ {x} = U /\ (T \ {x}) \ {y} = U
      /\ T \ {y} \in SUBSET T /\ T \ {y} # T /\ x \in T \ {y}
      /\ T \ {x} \in SUBSET T /\ T \ {x} # T /\ y \in T \ {x}
  BY <1>4, <1>5
<1>7. /\ SumFunctionOnSet(f, T \ {y}) = f[x] + SumFunctionOnSet(f, U)
      /\ SumFunctionOnSet(f, T \ {x}) = f[y] + SumFunctionOnSet(f, U)
  BY <1>3, <1>6 DEF Splits
<1>8. SumFunctionOnSet(f, U) \in Int /\ f[x] \in Int /\ f[y] \in Int
  <2>1. U \subseteq S /\ IsFiniteSet(U) /\ x \in S /\ y \in S
    BY <1>3, <1>4, <1>5, FS_Subset
  <2> QED
    BY <2>1, SumType
<1> HIDE DEF U
<1> QED
  BY <1>4, <1>5, <1>7, <1>8

(* It depends on the values over the set alone. *)
LEMMA SumSame ==
  ASSUME NEW S, IsFiniteSet(S), NEW f, NEW g, \A x \in S : f[x] = g[x]
  PROVE  SumFunctionOnSet(f, S) = SumFunctionOnSet(g, S)
<1> DEFINE Bad == {u \in SUBSET S : SumFunctionOnSet(f, u) # SumFunctionOnSet(g, u)}
<1>1. SUFFICES ASSUME Bad # {} PROVE FALSE
  OBVIOUS
<1>2. PICK T \in Bad : \A w \in SUBSET T : w # T => w \notin Bad
  <2> HIDE DEF Bad
  <2>1. Bad \subseteq SUBSET S
    BY DEF Bad
  <2> QED
    BY <1>1, <2>1, SmallestSubset
<1>3. T \subseteq S /\ IsFiniteSet(T) /\ SumFunctionOnSet(f, T) # SumFunctionOnSet(g, T)
  BY FS_Subset
<1>4. T # {}
  BY <1>3, SumOfNone
<1>5. /\ First(T) \in S /\ Rest(T) \in SUBSET S
      /\ SumFunctionOnSet(f, Rest(T)) = SumFunctionOnSet(g, Rest(T))
  BY <1>2, <1>3, <1>4, FirstIn
<1>6. /\ SumFunctionOnSet(f, T) = f[First(T)] + SumFunctionOnSet(f, Rest(T))
      /\ SumFunctionOnSet(g, T) = g[First(T)] + SumFunctionOnSet(g, Rest(T))
  BY <1>3, <1>4, SumStep
<1> QED
  BY <1>3, <1>5, <1>6

(* One value changes: the sum changes by as much. *)
LEMMA SumChanges ==
  ASSUME NEW S, IsFiniteSet(S), NEW f, NEW g, NEW k \in S,
         \A x \in S : f[x] \in Int /\ g[x] \in Int, \A x \in S \ {k} : f[x] = g[x]
  PROVE  SumFunctionOnSet(g, S) = SumFunctionOnSet(f, S) + (g[k] - f[k])
<1>1. IsFiniteSet(S \ {k}) /\ SumFunctionOnSet(f, S \ {k}) = SumFunctionOnSet(g, S \ {k})
  BY FS_Subset, SumSame
<1>2. /\ SumFunctionOnSet(f, S) = f[k] + SumFunctionOnSet(f, S \ {k})
      /\ SumFunctionOnSet(g, S) = g[k] + SumFunctionOnSet(g, S \ {k})
  BY SumWithout
<1>3. SumFunctionOnSet(f, S \ {k}) \in Int /\ f[k] \in Int /\ g[k] \in Int
  BY <1>1, SumType
<1> QED
  BY <1>1, <1>2, <1>3

(* An element comes: the sum grows by its value. *)
LEMMA SumWith ==
  ASSUME NEW S, IsFiniteSet(S), NEW k, k \notin S, NEW f, \A x \in S \union {k} : f[x] \in Int
  PROVE  /\ IsFiniteSet(S \union {k})
         /\ SumFunctionOnSet(f, S \union {k}) = f[k] + SumFunctionOnSet(f, S)
<1>1. IsFiniteSet(S \union {k}) /\ (S \union {k}) \ {k} = S
  BY FS_AddElement
<1> QED
  BY <1>1, SumWithout

(* One value changes, and its place may have been outside the set while it was zero. *)
LEMMA SumGrows ==
  ASSUME NEW S, IsFiniteSet(S), NEW f, NEW g, NEW k,
         \A x \in S \union {k} : f[x] \in Int /\ g[x] \in Int,
         \A x \in S \ {k} : f[x] = g[x], k \notin S => f[k] = 0
  PROVE  /\ IsFiniteSet(S \union {k})
         /\ SumFunctionOnSet(g, S \union {k}) = SumFunctionOnSet(f, S) + (g[k] - f[k])
<1>1. CASE k \in S
  <2>1. S \union {k} = S
    BY <1>1
  <2>2. /\ \A x \in S : f[x] \in Int /\ g[x] \in Int
        /\ \A x \in S \ {k} : f[x] = g[x]
    OBVIOUS
  <2>3. SumFunctionOnSet(g, S) = SumFunctionOnSet(f, S) + (g[k] - f[k])
    BY <1>1, <2>2, SumChanges
  <2> QED
    BY <2>1, <2>3
<1>2. CASE k \notin S
  <2>1. /\ IsFiniteSet(S \union {k})
        /\ SumFunctionOnSet(g, S \union {k}) = g[k] + SumFunctionOnSet(g, S)
    BY <1>2, SumWith
  <2>2. SumFunctionOnSet(g, S) = SumFunctionOnSet(f, S) /\ SumFunctionOnSet(f, S) \in Int
    BY <1>2, SumSame, SumType
  <2>3. f[k] = 0 /\ g[k] \in Int
    BY <1>2
  <2> QED
    BY <2>1, <2>2, <2>3
<1> QED
  BY <1>1, <1>2
=================================================================================
