----------------------------- MODULE SumTheorems -----------------------------
(***************************************************************************)
(* Sums over finite sets.  SumFunction and SumFunctionOnSet of the         *)
(* community modules are folds, and a fold is a CHOOSE of a recursive      *)
(* function over the subsets of a set.  That function exists and is unique *)
(* (TotalsExist, TotalsUnique), by well-founded induction over the finite  *)
(* subsets, written with a set in place of a predicate (FiniteInduction).  *)
(* From its one equation, SumStep, follow the laws of sums that the proofs *)
(* about the ledgers of this project need.  The last section is about the  *)
(* queues of open units that fills add to and take from.                   *)
(***************************************************************************)
EXTENDS Functions, FiniteSetsExt, FiniteSetTheorems, SequenceTheorems, TLAPS

First(s) == CHOOSE x \in s : TRUE

Totals(f, S, g) ==
    g = [s \in SUBSET S |-> IF s = {} THEN 0 ELSE f[First(s)] + g[s \ {First(s)}]]

LEMMA SumUnfolds ==
  ASSUME NEW f, NEW S
  PROVE  SumFunctionOnSet(f, S) = (CHOOSE g : Totals(f, S, g))[S]
BY DEF SumFunctionOnSet, FoldFunctionOnSet, MapThenFoldSet, Totals, First

LEMMA FiniteInduction ==
  ASSUME NEW S, IsFiniteSet(S), NEW G, {} \in G,
         \A T \in SUBSET S : (\A U \in SUBSET T : U # T => U \in G) => T \in G
  PROVE  S \in G
<1> DEFINE R == StrictSubsetOrdering(S)
           B == {T \in SUBSET S : T \notin G}
<1>1. IsWellFoundedOn(R, SUBSET S)
  BY FS_StrictSubsetOrderingWellFounded, FS_FiniteSubsetsOfFinite
<1>2. SUFFICES ASSUME B # {} PROVE FALSE
  OBVIOUS
<1>3. B \subseteq SUBSET S
  OBVIOUS
<1>4. \E T \in B : \A U \in B : ~ (<<U, T>> \in R)
  <2> HIDE DEF R, B
  <2> QED  BY ONLY <1>1, <1>2, <1>3, WFMin, Zenon
<1>5. PICK T \in B : \A U \in B : ~ (<<U, T>> \in R)
  BY <1>4
<1>6. \A U \in SUBSET T : U # T => U \in G
  BY <1>5 DEF StrictSubsetOrdering
<1> QED  BY <1>5, <1>6

LEMMA FirstIsMember ==
  ASSUME NEW s, s # {}
  PROVE  First(s) \in s
BY DEF First

LEMMA TotalsAt ==
  ASSUME NEW f, NEW S, NEW g, Totals(f, S, g), NEW T \in SUBSET S
  PROVE  g[T] = IF T = {} THEN 0 ELSE f[First(T)] + g[T \ {First(T)}]
BY DEF Totals

LEMMA TotalsUnique ==
  ASSUME NEW f, NEW S, IsFiniteSet(S), NEW g, NEW h, Totals(f, S, g),
         NEW T, S \subseteq T, Totals(f, T, h)
  PROVE  g[S] = h[S]
<1> DEFINE G == {U \in SUBSET S : g[U] = h[U]}
<1>1. {} \in G
  BY TotalsAt
<1>2. ASSUME NEW U \in SUBSET S, \A V \in SUBSET U : V # U => V \in G
      PROVE  U \in G
  <2>1. CASE U = {}
    BY <1>1, <2>1
  <2>2. CASE U # {}
    <3>1. First(U) \in U
      BY <2>2, FirstIsMember
    <3>2. U \ {First(U)} \in G
      BY <1>2, <3>1
    <3>3. /\ g[U] = f[First(U)] + g[U \ {First(U)}]
          /\ h[U] = f[First(U)] + h[U \ {First(U)}]
      <4>1. U \in SUBSET T
        OBVIOUS
      <4>2. g[U] = f[First(U)] + g[U \ {First(U)}]
        BY <2>2, TotalsAt
      <4>3. h[U] = f[First(U)] + h[U \ {First(U)}]
        BY <2>2, <4>1, TotalsAt
      <4> QED  BY <4>2, <4>3
    <3> QED  BY <3>2, <3>3
  <2> QED  BY <2>1, <2>2
<1>3. S \in G
  <2> HIDE DEF G
  <2> QED  BY <1>1, <1>2, FiniteInduction
<1> QED  BY <1>3

LEMMA TotalsExist ==
  ASSUME NEW f, NEW S, IsFiniteSet(S)
  PROVE  \E g : Totals(f, S, g)
<1> DEFINE G == {U \in SUBSET S : \E g : Totals(f, U, g)}
<1>1. {} \in G
  <2>1. Totals(f, {}, [s \in SUBSET {} |-> 0])
    <3>1. \A s \in SUBSET {} : s = {}
      OBVIOUS
    <3> QED  BY <3>1 DEF Totals
  <2> QED  BY <2>1
<1>2. ASSUME NEW T \in SUBSET S, \A V \in SUBSET T : V # T => V \in G
      PROVE  T \in G
  <2> DEFINE Val(U) == (CHOOSE g : Totals(f, U, g))[U]
             new == [s \in SUBSET T |->
                       IF s = {} THEN 0 ELSE f[First(s)] + Val(s \ {First(s)})]
  <2>1. ASSUME NEW U \in SUBSET T, U # T
        PROVE  Totals(f, U, CHOOSE g : Totals(f, U, g))
    BY <1>2, <2>1
  <2>2. ASSUME NEW U \in SUBSET T, U # T, U # {}
        PROVE  Val(U) = f[First(U)] + Val(U \ {First(U)})
    <3> DEFINE g == CHOOSE g : Totals(f, U, g)
               V == U \ {First(U)}
               h == CHOOSE h : Totals(f, V, h)
    <3>1. First(U) \in U
      BY <2>2, FirstIsMember
    <3>2. Totals(f, U, g) /\ Totals(f, V, h)
      BY <2>1, <2>2, <3>1
    <3>3. V \subseteq U /\ IsFiniteSet(V)
      BY FS_Subset
    <3>4. g[V] = h[V]
      <4> HIDE DEF g, h, V
      <4> QED  BY <3>2, <3>3, TotalsUnique
    <3>5. g[U] = f[First(U)] + g[V]
      <4> HIDE DEF g
      <4> QED  BY <2>2, <3>2, TotalsAt
    <3> QED  BY <3>4, <3>5
  <2>3. Val({}) = 0 \/ T = {}
    <3>1. CASE T # {}
      BY <2>1, <3>1, TotalsAt
    <3> QED  BY <3>1
  <2> HIDE DEF Val
  <2>4. \A s \in SUBSET T : s # T => new[s] = Val(s)
    BY <2>2, <2>3
  <2>5. Totals(f, T, new)
    <3>1. ASSUME NEW s \in SUBSET T, s # {}
          PROVE  Val(s \ {First(s)}) = new[s \ {First(s)}]
      <4>1. First(s) \in s
        BY <3>1, FirstIsMember
      <4> QED  BY <2>4, <4>1
    <3> QED  BY <3>1 DEF Totals
  <2> QED  BY <2>5
<1>3. S \in G
  <2> HIDE DEF G
  <2> QED  BY <1>1, <1>2, FiniteInduction
<1> QED  BY <1>3

\* The sum over no index.
LEMMA SumEmpty ==
  ASSUME NEW f
  PROVE  SumFunctionOnSet(f, {}) = 0
BY FS_EmptySet, TotalsExist, TotalsAt, SumUnfolds

LEMMA SumStep ==
  ASSUME NEW f, NEW S, IsFiniteSet(S), S # {}
  PROVE  SumFunctionOnSet(f, S) = f[First(S)] + SumFunctionOnSet(f, S \ {First(S)})
<1> DEFINE g == CHOOSE g : Totals(f, S, g)
           T == S \ {First(S)}
           h == CHOOSE h : Totals(f, T, h)
<1>1. T \subseteq S /\ IsFiniteSet(T)
  BY FS_Subset
<1>2. Totals(f, S, g) /\ Totals(f, T, h)
  BY <1>1, TotalsExist
<1>3. SumFunctionOnSet(f, S) = g[S] /\ SumFunctionOnSet(f, T) = h[T]
  BY SumUnfolds
<1>4. g[S] = f[First(S)] + g[T]
  <2> HIDE DEF g
  <2> QED  BY <1>2, TotalsAt
<1>5. g[T] = h[T]
  <2> HIDE DEF g, h, T
  <2> QED  BY <1>1, <1>2, TotalsUnique
<1> QED  BY <1>3, <1>4, <1>5

\* Functions that agree on the indices have the same sum.
LEMMA SumAgree ==
  ASSUME NEW f, NEW g, NEW S, IsFiniteSet(S), \A x \in S : f[x] = g[x]
  PROVE  SumFunctionOnSet(f, S) = SumFunctionOnSet(g, S)
<1> DEFINE G == {U \in SUBSET S : SumFunctionOnSet(f, U) = SumFunctionOnSet(g, U)}
<1>1. {} \in G
  BY SumEmpty
<1>2. ASSUME NEW U \in SUBSET S, \A V \in SUBSET U : V # U => V \in G
      PROVE  U \in G
  <2>1. CASE U # {}
    <3>1. First(U) \in U
      BY <2>1, FirstIsMember
    <3>2. IsFiniteSet(U)
      BY FS_Subset
    <3>3. U \ {First(U)} \in G
      BY <1>2, <3>1
    <3>4. \A F : SumFunctionOnSet(F, U) = F[First(U)] + SumFunctionOnSet(F, U \ {First(U)})
      BY <2>1, <3>2, SumStep
    <3> QED  BY <3>1, <3>3, <3>4
  <2> QED  BY <1>1, <2>1
<1>3. S \in G
  <2> HIDE DEF G
  <2> QED  BY <1>1, <1>2, FiniteInduction
<1> QED  BY <1>3

\* A sum of integers is an integer.
LEMMA SumIsInt ==
  ASSUME NEW f, NEW S, IsFiniteSet(S), \A x \in S : f[x] \in Int
  PROVE  SumFunctionOnSet(f, S) \in Int
<1> DEFINE G == {U \in SUBSET S : SumFunctionOnSet(f, U) \in Int}
<1>1. {} \in G
  BY SumEmpty
<1>2. ASSUME NEW U \in SUBSET S, \A V \in SUBSET U : V # U => V \in G
      PROVE  U \in G
  <2>1. CASE U # {}
    <3>1. First(U) \in U
      BY <2>1, FirstIsMember
    <3>2. IsFiniteSet(U)
      BY FS_Subset
    <3>3. U \ {First(U)} \in G
      BY <1>2, <3>1
    <3>4. SumFunctionOnSet(f, U) = f[First(U)] + SumFunctionOnSet(f, U \ {First(U)})
      BY <2>1, <3>2, SumStep
    <3>5. f[First(U)] \in Int /\ SumFunctionOnSet(f, U \ {First(U)}) \in Int
      BY <3>1, <3>3
    <3>6. SumFunctionOnSet(f, U) \in Int
      BY <3>4, <3>5
    <3> QED  BY <3>6
  <2> QED  BY <1>1, <2>1
<1>3. S \in G
  <2> HIDE DEF G
  <2> QED  BY <1>1, <1>2, FiniteInduction
<1> QED  BY <1>3

LEMMA SumIsNat ==
  ASSUME NEW f, NEW S, IsFiniteSet(S), \A x \in S : f[x] \in Nat
  PROVE  SumFunctionOnSet(f, S) \in Nat
<1> DEFINE G == {U \in SUBSET S : SumFunctionOnSet(f, U) \in Nat}
<1>1. {} \in G
  BY SumEmpty
<1>2. ASSUME NEW U \in SUBSET S, \A V \in SUBSET U : V # U => V \in G
      PROVE  U \in G
  <2>1. CASE U # {}
    <3>1. First(U) \in U
      BY <2>1, FirstIsMember
    <3>2. IsFiniteSet(U)
      BY FS_Subset
    <3>3. U \ {First(U)} \in G
      BY <1>2, <3>1
    <3>4. SumFunctionOnSet(f, U) = f[First(U)] + SumFunctionOnSet(f, U \ {First(U)})
      BY <2>1, <3>2, SumStep
    <3>5. f[First(U)] \in Nat /\ SumFunctionOnSet(f, U \ {First(U)}) \in Nat
      BY <3>1, <3>3
    <3>6. SumFunctionOnSet(f, U) \in Nat
      BY <3>4, <3>5
    <3> QED  BY <3>6
  <2> QED  BY <1>1, <2>1
<1>3. S \in G
  <2> HIDE DEF G
  <2> QED  BY <1>1, <1>2, FiniteInduction
<1> QED  BY <1>3

\* Any index may be taken out of a sum, not only the one the fold chooses.
LEMMA SumRemove ==
  ASSUME NEW f, NEW S, IsFiniteSet(S), \A y \in S : f[y] \in Int, NEW x \in S
  PROVE  SumFunctionOnSet(f, S) = f[x] + SumFunctionOnSet(f, S \ {x})
<1> DEFINE G == {U \in SUBSET S :
                   \A y \in U : SumFunctionOnSet(f, U) = f[y] + SumFunctionOnSet(f, U \ {y})}
<1>1. {} \in G
  OBVIOUS
<1>2. ASSUME NEW U \in SUBSET S, \A V \in SUBSET U : V # U => V \in G
      PROVE  U \in G
  <2> SUFFICES ASSUME NEW y \in U
               PROVE  SumFunctionOnSet(f, U) = f[y] + SumFunctionOnSet(f, U \ {y})
    OBVIOUS
  <2> DEFINE z == First(U)
             W == (U \ {z}) \ {y}
  <2>1. z \in U /\ IsFiniteSet(U) /\ IsFiniteSet(W)
    BY FirstIsMember, FS_Subset
  <2>2. SumFunctionOnSet(f, U) = f[z] + SumFunctionOnSet(f, U \ {z})
    BY <2>1, SumStep
  <2>3. CASE z # y
    <3>1. U \ {z} \in G /\ U \ {y} \in G
      BY <1>2, <2>1
    <3>2. (U \ {y}) \ {z} = W
      OBVIOUS
    <3>3. SumFunctionOnSet(f, U \ {z}) = f[y] + SumFunctionOnSet(f, W)
      BY <2>3, <3>1
    <3>4. SumFunctionOnSet(f, U \ {y}) = f[z] + SumFunctionOnSet(f, W)
      BY <2>1, <2>3, <3>1, <3>2
    <3>5. SumFunctionOnSet(f, W) \in Int
      BY <2>1, SumIsInt
    <3> QED  BY <2>1, <2>2, <3>3, <3>4, <3>5
  <2> QED  BY <2>2, <2>3
<1>3. S \in G
  <2> HIDE DEF G
  <2> QED  BY <1>1, <1>2, FiniteInduction
<1> QED  BY <1>3

\* One more index adds its value.
LEMMA SumAdd ==
  ASSUME NEW f, NEW S, IsFiniteSet(S), NEW x, x \notin S,
         \A y \in S \cup {x} : f[y] \in Int
  PROVE  SumFunctionOnSet(f, S \cup {x}) = SumFunctionOnSet(f, S) + f[x]
<1> DEFINE T == S \cup {x}
<1>1. IsFiniteSet(T) /\ x \in T /\ T \ {x} = S
  BY FS_AddElement
<1>2. SumFunctionOnSet(f, S) \in Int /\ f[x] \in Int
  BY SumIsInt
<1> HIDE DEF T
<1>3. SumFunctionOnSet(f, T) = f[x] + SumFunctionOnSet(f, S)
  <2>1. \A y \in T : f[y] \in Int
    BY DEF T
  <2> QED  BY <1>1, <2>1, SumRemove
<1>4. SumFunctionOnSet(f, T) = SumFunctionOnSet(f, S) + f[x]
  BY ONLY <1>2, <1>3
<1> QED  BY <1>4 DEF T

\* The sum over two disjoint sets of indices is the sum of the sums.
LEMMA SumSplit ==
  ASSUME NEW f, NEW S, NEW T, IsFiniteSet(S), IsFiniteSet(T), S \cap T = {},
         \A y \in S \cup T : f[y] \in Int
  PROVE  SumFunctionOnSet(f, S \cup T) = SumFunctionOnSet(f, S) + SumFunctionOnSet(f, T)
<1> DEFINE G == {U \in SUBSET T : SumFunctionOnSet(f, S \cup U)
                                    = SumFunctionOnSet(f, S) + SumFunctionOnSet(f, U)}
<1>0. SumFunctionOnSet(f, S) \in Int
  BY SumIsInt
<1>1. {} \in G
  <2>1. S \cup {} = S
    OBVIOUS
  <2> QED  BY <1>0, <2>1, SumEmpty
<1>2. ASSUME NEW U \in SUBSET T, \A V \in SUBSET U : V # U => V \in G
      PROVE  U \in G
  <2>1. CASE U # {}
    <3> DEFINE x == First(U)
               V == U \ {x}
    <3>1. x \in U /\ x \notin S
      BY <2>1, FirstIsMember
    <3>2. IsFiniteSet(U) /\ IsFiniteSet(S \cup U) /\ IsFiniteSet(V)
      BY FS_Subset, FS_Union
    <3>3. SumFunctionOnSet(f, S \cup V) = SumFunctionOnSet(f, S) + SumFunctionOnSet(f, V)
      BY <1>2, <3>1
    <3> HIDE DEF x
    <3>4. SumFunctionOnSet(f, S \cup U) = f[x] + SumFunctionOnSet(f, (S \cup U) \ {x})
      BY <3>1, <3>2, SumRemove
    <3>5. SumFunctionOnSet(f, U) = f[x] + SumFunctionOnSet(f, V)
      BY <3>1, <3>2, SumRemove
    <3>6. (S \cup U) \ {x} = S \cup V
      BY <3>1
    <3>7. f[x] \in Int /\ SumFunctionOnSet(f, V) \in Int
      BY <3>1, <3>2, SumIsInt
    <3>8. SumFunctionOnSet(f, S \cup U) = f[x] + (SumFunctionOnSet(f, S) + SumFunctionOnSet(f, V))
      BY <3>3, <3>4, <3>6
    <3> DEFINE whole == SumFunctionOnSet(f, S \cup U)
    <3> HIDE DEF V, whole
    <3>9. whole = SumFunctionOnSet(f, S) + SumFunctionOnSet(f, U)
      BY <1>0, <3>5, <3>7, <3>8 DEF whole
    <3> QED  BY <3>9 DEF whole
  <2> QED  BY <1>1, <2>1
<1>3. T \in G
  <2> HIDE DEF G
  <2> QED  BY <1>1, <1>2, FiniteInduction
<1> QED  BY <1>3

\* A sum may be taken over other names of the same indices.
LEMMA SumRename ==
  ASSUME NEW f, NEW g, NEW p, NEW S, IsFiniteSet(S),
         \A x \in S : g[x] = f[p[x]] /\ f[p[x]] \in Int,
         \A x, y \in S : p[x] = p[y] => x = y
  PROVE  SumFunctionOnSet(g, S) = SumFunctionOnSet(f, {p[x] : x \in S})
<1> DEFINE Im(U) == {p[x] : x \in U}
           G == {U \in SUBSET S : /\ IsFiniteSet(Im(U))
                                  /\ SumFunctionOnSet(g, U) = SumFunctionOnSet(f, Im(U))}
<1>1. {} \in G
  <2>1. Im({}) = {}
    OBVIOUS
  <2> QED  BY <2>1, SumEmpty, FS_EmptySet
<1>2. ASSUME NEW U \in SUBSET S, \A V \in SUBSET U : V # U => V \in G
      PROVE  U \in G
  <2>1. CASE U # {}
    <3> DEFINE z == First(U)
               V == U \ {z}
    <3>1. z \in U
      BY <2>1, FirstIsMember
    <3>2. IsFiniteSet(U)
      BY FS_Subset
    <3>3. IsFiniteSet(Im(V)) /\ SumFunctionOnSet(g, V) = SumFunctionOnSet(f, Im(V))
      BY <1>2, <3>1
    <3>4. SumFunctionOnSet(g, U) = g[z] + SumFunctionOnSet(g, V)
      BY <2>1, <3>2, SumStep
    <3>5. Im(U) = Im(V) \cup {p[z]} /\ p[z] \notin Im(V)
      BY <3>1
    <3>6. /\ \A y \in Im(V) \cup {p[z]} : f[y] \in Int
          /\ g[z] = f[p[z]] /\ f[p[z]] \in Int
      BY <3>1
    <3> HIDE DEF Im, z, V
    <3>7. SumFunctionOnSet(f, Im(V) \cup {p[z]}) = SumFunctionOnSet(f, Im(V)) + f[p[z]]
      BY <3>3, <3>5, <3>6, SumAdd
    <3>8. SumFunctionOnSet(f, Im(V)) \in Int
      BY <3>3, <3>6, SumIsInt
    <3>9. IsFiniteSet(Im(U))
      BY <3>3, <3>5, FS_AddElement
    <3>10. SumFunctionOnSet(g, U) = SumFunctionOnSet(f, Im(U))
      BY ONLY <3>3, <3>4, <3>5, <3>6, <3>7, <3>8
    <3> QED  BY <3>9, <3>10 DEF Im
  <2> QED  BY <1>1, <2>1
<1>3. S \in G
  <2> HIDE DEF G
  <2> QED  BY <1>1, <1>2, FiniteInduction
<1> QED  BY <1>3

\* A sum of sums.
LEMMA SumPlus ==
  ASSUME NEW f, NEW g, NEW h, NEW S, IsFiniteSet(S),
         \A x \in S : f[x] \in Int /\ g[x] \in Int /\ h[x] = f[x] + g[x]
  PROVE  SumFunctionOnSet(h, S) = SumFunctionOnSet(f, S) + SumFunctionOnSet(g, S)
<1> DEFINE G == {U \in SUBSET S : SumFunctionOnSet(h, U)
                                    = SumFunctionOnSet(f, U) + SumFunctionOnSet(g, U)}
<1>1. {} \in G
  BY SumEmpty
<1>2. ASSUME NEW U \in SUBSET S, \A V \in SUBSET U : V # U => V \in G
      PROVE  U \in G
  <2>1. CASE U # {}
    <3> DEFINE z == First(U)
               V == U \ {z}
    <3>1. z \in U
      BY <2>1, FirstIsMember
    <3>2. IsFiniteSet(U) /\ IsFiniteSet(V)
      BY FS_Subset
    <3>3. SumFunctionOnSet(h, V) = SumFunctionOnSet(f, V) + SumFunctionOnSet(g, V)
      BY <1>2, <3>1
    <3>4. /\ SumFunctionOnSet(h, U) = h[z] + SumFunctionOnSet(h, V)
          /\ SumFunctionOnSet(f, U) = f[z] + SumFunctionOnSet(f, V)
          /\ SumFunctionOnSet(g, U) = g[z] + SumFunctionOnSet(g, V)
      <4>1. \A F : SumFunctionOnSet(F, U) = F[z] + SumFunctionOnSet(F, V)
        BY <2>1, <3>2, SumStep
      <4> QED  BY <4>1
    <3>5. h[z] = f[z] + g[z] /\ f[z] \in Int /\ g[z] \in Int
      BY <3>1
    <3>6. SumFunctionOnSet(f, V) \in Int /\ SumFunctionOnSet(g, V) \in Int
      BY <3>2, SumIsInt
    <3>7. SumFunctionOnSet(h, U) = SumFunctionOnSet(f, U) + SumFunctionOnSet(g, U)
      <4> HIDE DEF z, V
      <4> QED  BY <3>3, <3>4, <3>5, <3>6
    <3> QED  BY <3>7
  <2> QED  BY <1>1, <2>1
<1>3. S \in G
  <2> HIDE DEF G
  <2> QED  BY <1>1, <1>2, FiniteInduction
<1> QED  BY <1>3

\* What replacing one value does to a total.
LEMMA SumExcept ==
  ASSUME NEW f, NEW v \in Int, IsFiniteSet(DOMAIN f), NEW x \in DOMAIN f,
         \A y \in DOMAIN f : f[y] \in Int
  PROVE  SumFunction([f EXCEPT ![x] = v]) = SumFunction(f) - f[x] + v
<1> DEFINE g == [f EXCEPT ![x] = v]
           S == DOMAIN f
           T == S \ {x}
<1>1. /\ DOMAIN g = S /\ g[x] = v
      /\ \A y \in S : g[y] \in Int
      /\ \A y \in T : g[y] = f[y]
  OBVIOUS
<1>2. IsFiniteSet(T)
  BY FS_Subset
<1> HIDE DEF g
<1>3. SumFunctionOnSet(f, S) = f[x] + SumFunctionOnSet(f, T)
  BY SumRemove
<1>4. SumFunctionOnSet(g, S) = g[x] + SumFunctionOnSet(g, T)
  BY <1>1, SumRemove
<1>5. SumFunctionOnSet(g, T) = SumFunctionOnSet(f, T)
  <2> HIDE DEF T
  <2> QED  BY <1>1, <1>2, SumAgree
<1>6. SumFunctionOnSet(f, T) \in Int
  BY <1>2, SumIsInt
<1>7. SumFunction(g) = SumFunction(f) - f[x] + v
  BY <1>1, <1>3, <1>4, <1>5, <1>6 DEF SumFunction
<1> QED  BY <1>7 DEF g

\* What an element appended to a sequence does to its total.
LEMMA SumAppend ==
  ASSUME NEW s \in Seq(Int), NEW v \in Int
  PROVE  SumFunction(Append(s, v)) = SumFunction(s) + v
<1> DEFINE t == Append(s, v)
           n == Len(s) + 1
           S == 1..Len(s)
<1>1. /\ DOMAIN s = S /\ DOMAIN t = S \cup {n} /\ n \notin S
      /\ t[n] = v /\ \A i \in S : t[i] = s[i]
  OBVIOUS
<1>2. \A i \in S \cup {n} : t[i] \in Int
  OBVIOUS
<1>3. IsFiniteSet(S)
  BY FS_Interval
<1> HIDE DEF t, n
<1>4. SumFunctionOnSet(t, S \cup {n}) = SumFunctionOnSet(t, S) + t[n]
  BY <1>1, <1>2, <1>3, SumAdd
<1>5. SumFunctionOnSet(t, S) = SumFunctionOnSet(s, S)
  BY <1>1, <1>3, SumAgree
<1> QED  BY <1>1, <1>4, <1>5 DEF SumFunction, t

\* No element of a function into the naturals exceeds the total.
LEMMA SumBoundsElement ==
  ASSUME NEW f, NEW S, IsFiniteSet(S), \A y \in S : f[y] \in Nat, NEW x \in S
  PROVE  f[x] <= SumFunctionOnSet(f, S)
<1>1. SumFunctionOnSet(f, S) = f[x] + SumFunctionOnSet(f, S \ {x})
  BY SumRemove
<1>2. SumFunctionOnSet(f, S \ {x}) \in Nat
  BY FS_Subset, SumIsNat
<1> QED  BY <1>1, <1>2

\* The indices of a sequence.
LEMMA SeqIndices ==
  ASSUME NEW T, NEW s \in Seq(T)
  PROVE  /\ DOMAIN s = 1..Len(s)
         /\ IsFiniteSet(DOMAIN s)
         /\ \A i \in DOMAIN s : s[i] \in T
BY FS_Interval

\* One more time a factor.
LEMMA OneMore == \A k \in Nat, v \in Int : v + k * v = (k + 1) * v
  OBVIOUS

\* The sum of a constant.
LEMMA SumConstant ==
  ASSUME NEW f, NEW v \in Int, NEW S, IsFiniteSet(S), \A x \in S : f[x] = v
  PROVE  SumFunctionOnSet(f, S) = Cardinality(S) * v
<1> DEFINE G == {U \in SUBSET S : SumFunctionOnSet(f, U) = Cardinality(U) * v}
<1>1. {} \in G
  <2>1. 0 * v = 0
    OBVIOUS
  <2> QED  BY <2>1, SumEmpty, FS_EmptySet
<1>2. ASSUME NEW U \in SUBSET S, \A V \in SUBSET U : V # U => V \in G
      PROVE  U \in G
  <2>1. CASE U # {}
    <3> DEFINE z == First(U)
               V == U \ {z}
               k == Cardinality(V)
    <3>1. z \in U
      BY <2>1, FirstIsMember
    <3>2. IsFiniteSet(U) /\ IsFiniteSet(V)
      BY FS_Subset
    <3>3. SumFunctionOnSet(f, V) = k * v
      BY <1>2, <3>1
    <3>4. SumFunctionOnSet(f, U) = v + SumFunctionOnSet(f, V)
      BY <2>1, <3>1, <3>2, SumStep
    <3>5. k \in Nat /\ Cardinality(U) = k + 1
      <4>1. U = V \cup {z} /\ z \notin V
        BY <3>1
      <4> HIDE DEF z, V
      <4> QED  BY <3>2, <4>1, FS_AddElement, FS_CardinalityType DEF k
    <3> HIDE DEF k, V
    <3>6. SumFunctionOnSet(f, U) = Cardinality(U) * v
      BY <3>3, <3>4, <3>5, OneMore
    <3> QED  BY <3>6
  <2> QED  BY <1>1, <2>1
<1>3. S \in G
  <2> HIDE DEF G
  <2> QED  BY <1>1, <1>2, FiniteInduction
<1> QED  BY <1>3

\* Counting is summing ones.
LEMMA SumIndicator ==
  ASSUME NEW f, NEW S, IsFiniteSet(S), NEW U \in SUBSET S,
         \A x \in S : f[x] = IF x \in U THEN 1 ELSE 0
  PROVE  SumFunctionOnSet(f, S) = Cardinality(U)
<1> DEFINE W == S \ U
<1>1. IsFiniteSet(U) /\ IsFiniteSet(W) /\ S = U \cup W /\ U \cap W = {}
  BY FS_Subset
<1>2. /\ \A x \in U : f[x] = 1
      /\ \A x \in W : f[x] = 0
      /\ \A x \in U \cup W : f[x] \in Int
  OBVIOUS
<1> HIDE DEF W
<1>3. SumFunctionOnSet(f, U) = Cardinality(U) * 1
  BY <1>1, <1>2, SumConstant
<1>4. SumFunctionOnSet(f, W) = Cardinality(W) * 0
  BY <1>1, <1>2, SumConstant
<1>5. SumFunctionOnSet(f, U \cup W) = SumFunctionOnSet(f, U) + SumFunctionOnSet(f, W)
  BY <1>1, <1>2, SumSplit
<1>6. Cardinality(U) \in Nat /\ Cardinality(W) \in Nat
  BY <1>1, FS_CardinalityType
<1>7. SumFunctionOnSet(f, U \cup W) = Cardinality(U)
  BY <1>3, <1>4, <1>5, <1>6
<1> QED  BY <1>1, <1>7

\* A sum may be taken class by class.
LEMMA SumByClass ==
  ASSUME NEW f, NEW p, NEW S, IsFiniteSet(S), NEW E, IsFiniteSet(E),
         \A x \in S : f[x] \in Int /\ p[x] \in E
  PROVE  SumFunctionOnSet(f, S) =
           SumFunction([e \in E |-> SumFunctionOnSet(f, {x \in S : p[x] = e})])
<1> DEFINE Class(U, e) == {x \in U : p[x] = e}
           By(U) == [e \in E |-> SumFunctionOnSet(f, Class(U, e))]
           G == {U \in SUBSET S : SumFunctionOnSet(f, U) = SumFunction(By(U))}
<1>1. {} \in G
  <2>1. \A e \in E : Class({}, e) = {}
    OBVIOUS
  <2>2. DOMAIN By({}) = E /\ \A e \in E : By({})[e] = 0
    BY <2>1, SumEmpty
  <2> HIDE DEF By
  <2>3. SumFunctionOnSet(By({}), E) = Cardinality(E) * 0
    BY <2>2, SumConstant
  <2>4. Cardinality(E) \in Nat
    BY FS_CardinalityType
  <2>5. SumFunction(By({})) = 0
    BY <2>2, <2>3, <2>4 DEF SumFunction
  <2> QED  BY <2>5, SumEmpty
<1>2. ASSUME NEW U \in SUBSET S, \A V \in SUBSET U : V # U => V \in G
      PROVE  U \in G
  <2>1. CASE U # {}
    <3> DEFINE z == First(U)
               V == U \ {z}
               c == p[z]
               n == By(V)[c] + f[z]
    <3>1. z \in U
      BY <2>1, FirstIsMember
    <3>2. IsFiniteSet(U) /\ IsFiniteSet(V)
      BY FS_Subset
    <3>3. SumFunctionOnSet(f, V) = SumFunction(By(V))
      BY <1>2, <3>1
    <3>4. SumFunctionOnSet(f, U) = f[z] + SumFunctionOnSet(f, V)
      BY <2>1, <3>2, SumStep
    <3>5. DOMAIN By(V) = E /\ c \in E /\ f[z] \in Int
      BY <3>1
    <3>6. \A e \in E : By(V)[e] \in Int
      <4> TAKE e \in E
      <4>1. IsFiniteSet(Class(V, e)) /\ \A x \in Class(V, e) : f[x] \in Int
        BY <3>2, FS_Subset
      <4> HIDE DEF Class
      <4> QED  BY <4>1, SumIsInt
    <3>7. By(U) = [By(V) EXCEPT ![c] = n]
      <4> SUFFICES ASSUME NEW e \in E
                   PROVE  SumFunctionOnSet(f, Class(U, e)) =
                            IF e = c THEN SumFunctionOnSet(f, Class(V, c)) + f[z]
                            ELSE SumFunctionOnSet(f, Class(V, e))
        BY <3>5
      <4>1. CASE e # c
        <5>1. Class(U, e) = Class(V, e)
          BY <4>1
        <5> QED  BY <4>1, <5>1
      <4>2. CASE e = c
        <5> DEFINE T == Class(V, e)
        <5>1. /\ Class(U, e) = T \cup {z} /\ z \notin T
              /\ IsFiniteSet(T)
              /\ \A x \in T \cup {z} : f[x] \in Int
          BY <3>1, <3>2, <4>2, FS_Subset
        <5> HIDE DEF T, Class, z
        <5>2. SumFunctionOnSet(f, T \cup {z}) = SumFunctionOnSet(f, T) + f[z]
          BY <5>1, SumAdd
        <5> QED  BY <4>2, <5>1, <5>2 DEF T
      <4> QED  BY <4>1, <4>2
    <3>8. n \in Int
      BY <3>5, <3>6
    <3> HIDE DEF By, c
    <3>9. SumFunction([By(V) EXCEPT ![c] = n]) = SumFunction(By(V)) - By(V)[c] + n
      BY <3>5, <3>6, <3>8, SumExcept
    <3>10. SumFunction(By(V)) \in Int
      BY <3>5, <3>6, SumIsInt DEF SumFunction
    <3>11. By(V)[c] \in Int
      BY <3>5, <3>6
    <3> HIDE DEF z, V
    <3>12. SumFunction(By(U)) = f[z] + SumFunction(By(V))
      BY <3>5, <3>7, <3>9, <3>10, <3>11
    <3>13. SumFunctionOnSet(f, U) = SumFunction(By(U))
      BY <3>3, <3>4, <3>12
    <3> QED  BY <3>13
  <2> QED  BY <1>1, <2>1
<1>3. S \in G
  <2> HIDE DEF G
  <2> QED  BY <1>1, <1>2, FiniteInduction
<1> QED  BY <1>3

-----------------------------------------------------------------------------
(***************************************************************************)
(* Sums along a sequence.                                                  *)
(***************************************************************************)
\* The values f gives the elements of a sequence.
Mapped(f, q) == [i \in 1..Len(q) |-> f[q[i]]]

SumOf(f, q) == SumFunction(Mapped(f, q))

LEMMA SumOfIsInt ==
  ASSUME NEW T, NEW f \in [T -> Int], NEW q \in Seq(T)
  PROVE  SumOf(f, q) \in Int
<1>1. DOMAIN Mapped(f, q) = 1..Len(q) /\ \A i \in 1..Len(q) : Mapped(f, q)[i] \in Int
  BY DEF Mapped
<1> QED  BY <1>1, FS_Interval, SumIsInt DEF SumOf, SumFunction

LEMMA SumOfConcat ==
  ASSUME NEW T, NEW f \in [T -> Int], NEW a \in Seq(T), NEW b \in Seq(T)
  PROVE  SumOf(f, a \o b) = SumOf(f, a) + SumOf(f, b)
<1> DEFINE m == Len(a)
           n == Len(b)
           u == Mapped(f, a \o b)
           s == Mapped(f, a)
           t == Mapped(f, b)
           p == [i \in 1..n |-> i + m]
           R == m + 1 .. m + n
<1>1. m \in Nat /\ n \in Nat
  OBVIOUS
<1>2. /\ \A i \in 1..m : a[i] \in T /\ (a \o b)[i] = a[i]
      /\ \A i \in 1..n : b[i] \in T /\ (a \o b)[i + m] = b[i]
      /\ Len(a \o b) = m + n
  OBVIOUS
<1>3. /\ DOMAIN u = 1..(m + n) /\ DOMAIN s = 1..m /\ DOMAIN t = 1..n
      /\ \A i \in 1..m : u[i] = s[i] /\ u[i] \in Int
      /\ \A i \in 1..n : u[i + m] = t[i] /\ t[i] \in Int
  BY <1>1, <1>2 DEF Mapped
<1> HIDE DEF m, n, u, s, t
<1>4. 1..(m + n) = (1..m) \cup R /\ (1..m) \cap R = {}
  BY <1>1
<1>5. {p[i] : i \in 1..n} = R
  <2>1. \A j \in R : j - m \in 1..n /\ p[j - m] = j
    BY <1>1
  <2>2. \A i \in 1..n : p[i] \in R
    BY <1>1
  <2> QED  BY <2>1, <2>2
<1>6. /\ \A i \in 1..n : t[i] = u[p[i]] /\ u[p[i]] \in Int
      /\ \A i, j \in 1..n : p[i] = p[j] => i = j
  <2>1. \A i \in 1..n : p[i] = i + m
    OBVIOUS
  <2> HIDE DEF p
  <2>2. \A i \in 1..n : t[i] = u[p[i]] /\ u[p[i]] \in Int
    BY <1>3, <2>1
  <2>3. \A i, j \in 1..n : p[i] = p[j] => i = j
    BY <1>1, <2>1
  <2> QED  BY <2>2, <2>3
<1>7. \A i \in (1..m) \cup R : u[i] \in Int
  BY <1>3, <1>5, <1>6
<1>8. IsFiniteSet(1..m) /\ IsFiniteSet(1..n) /\ IsFiniteSet(R)
  BY <1>1, FS_Interval
<1> DEFINE S == 1..m
           Q == 1..n
<1> HIDE DEF p, R
<1>9. SumFunctionOnSet(u, (1..m) \cup R) = SumFunctionOnSet(u, 1..m) + SumFunctionOnSet(u, R)
  BY <1>4, <1>7, <1>8, SumSplit
<1>10. SumFunctionOnSet(t, 1..n) = SumFunctionOnSet(u, {p[i] : i \in 1..n})
  <2>1. /\ IsFiniteSet(Q)
        /\ \A i \in Q : t[i] = u[p[i]] /\ u[p[i]] \in Int
        /\ \A i, j \in Q : p[i] = p[j] => i = j
    BY <1>6, <1>8
  <2> HIDE DEF Q
  <2>2. SumFunctionOnSet(t, Q) = SumFunctionOnSet(u, {p[i] : i \in Q})
    BY <2>1, SumRename
  <2> QED  BY <2>2 DEF Q
<1>11. SumFunctionOnSet(u, 1..m) = SumFunctionOnSet(s, 1..m)
  <2>1. IsFiniteSet(S) /\ \A i \in S : u[i] = s[i]
    BY <1>3, <1>8
  <2> HIDE DEF S
  <2>2. SumFunctionOnSet(u, S) = SumFunctionOnSet(s, S)
    BY <2>1, SumAgree
  <2> QED  BY <2>2 DEF S
<1>12. SumFunction(u) = SumFunction(s) + SumFunction(t)
  BY <1>3, <1>4, <1>5, <1>9, <1>10, <1>11 DEF SumFunction
<1> QED  BY <1>12 DEF SumOf, u, s, t

LEMMA FiniteImage ==
  ASSUME NEW S, IsFiniteSet(S), NEW p
  PROVE  IsFiniteSet({p[x] : x \in S})
<1> DEFINE T == {p[x] : x \in S}
           f == [x \in S |-> p[x]]
<1>1. f \in Surjection(S, T)
  BY DEF Surjection
<1> HIDE DEF T, f
<1>2. IsFiniteSet(T)
  BY <1>1, FS_Surjection
<1> QED  BY <1>2 DEF T

\* The indices of a sequence.
LEMMA IndicesFinite ==
  \A n \in Nat : IsFiniteSet(1..n) /\ Cardinality(1..n) = n
BY FS_Interval

\* A sum over the old and the new.
LEMMA SumJoin ==
  ASSUME NEW f, NEW g, NEW h, NEW S, NEW T, IsFiniteSet(S), IsFiniteSet(T), S \cap T = {},
         DOMAIN f = S \cup T, DOMAIN g = S, DOMAIN h = T,
         \A y \in S : f[y] = g[y] /\ g[y] \in Int,
         \A y \in T : f[y] = h[y] /\ h[y] \in Int
  PROVE  SumFunction(f) = SumFunction(g) + SumFunction(h)
<1>1. \A y \in S \cup T : f[y] \in Int
  OBVIOUS
<1>2. SumFunctionOnSet(f, S \cup T) = SumFunctionOnSet(f, S) + SumFunctionOnSet(f, T)
  BY <1>1, SumSplit
<1>3. SumFunctionOnSet(f, S) = SumFunctionOnSet(g, S)
  BY SumAgree
<1>4. SumFunctionOnSet(f, T) = SumFunctionOnSet(h, T)
  BY SumAgree
<1> QED  BY <1>2, <1>3, <1>4 DEF SumFunction

-----------------------------------------------------------------------------
(***************************************************************************)
(* A queue of open units, all on one side, and what a fill leaves of it: the *)
(* paper account of the two trading loops keeps one for each symbol.       *)
(***************************************************************************)
\* All the units of a queue are on one side.
SameSide(q) == \A i \in 1..Len(q) : q[i].side = q[1].side

\* How many units are long, or minus how many are short.
NetOf(q) == IF q = <<>> THEN 0 ELSE IF q[1].side = "BUY" THEN Len(q) ELSE -Len(q)

\* How many units a fill of n units on a side takes from the front of a queue.
TakenFrom(q, side, n) ==
    IF q # <<>> /\ q[1].side # side THEN Min({Len(q), n}) ELSE 0

LEMMA LeastOfTwo ==
  ASSUME NEW m \in Nat, NEW n \in Nat
  PROVE  Min({m, n}) = IF m <= n THEN m ELSE n
<1>1. \E x \in {m, n} : \A y \in {m, n} : x <= y
  OBVIOUS
<1>2. Min({m, n}) \in {m, n} /\ \A y \in {m, n} : Min({m, n}) <= y
  <2> DEFINE x == CHOOSE x \in {m, n} : \A y \in {m, n} : x <= y
  <2>1. x \in {m, n} /\ \A y \in {m, n} : x <= y
    BY <1>1
  <2>2. Min({m, n}) = x
    BY DEF Min
  <2> HIDE DEF x
  <2> QED  BY <2>1, <2>2
<1> QED  BY <1>2

LEMMA JoinParts ==
  ASSUME NEW U, NEW a \in Seq(U), NEW b \in Seq(U)
  PROVE  /\ a \o b \in Seq(U)
         /\ Len(a \o b) = Len(a) + Len(b)
         /\ \A i \in 1..Len(a) : (a \o b)[i] = a[i]
         /\ \A i \in 1..Len(b) : (a \o b)[i + Len(a)] = b[i]
  OBVIOUS

\* A fill takes units of the other side from the front of a queue, and what
\* it has over opens units of its own side.
LEMMA FillOfQueue ==
  ASSUME NEW U, \A v \in U : v.side \in {"BUY", "SELL"},
         NEW q \in Seq(U), SameSide(q), NEW u \in U, NEW n \in Nat \ {0},
         NEW c, c = TakenFrom(q, u.side, n)
  PROVE  LET now == SubSeq(q, c + 1, Len(q)) \o [i \in 1..(n - c) |-> u]
         IN  /\ now \in Seq(U)
             /\ SameSide(now)
             /\ NetOf(now) = NetOf(q) + (IF u.side = "BUY" THEN n ELSE -n)
<1> DEFINE side == u.side
           kept == SubSeq(q, c + 1, Len(q))
           opened == [i \in 1..(n - c) |-> u]
           now == kept \o opened
           sg == IF side = "BUY" THEN 1 ELSE -1
<1>1. Len(q) \in Nat /\ (q = <<>> <=> Len(q) = 0)
  OBVIOUS
<1>2. /\ c \in Nat /\ c <= n /\ c <= Len(q)
      /\ c # 0 => q[1].side # side /\ q # <<>>
      /\ c # n => c = Len(q) \/ q[1].side = side
  <2>1. CASE q # <<>> /\ q[1].side # side
    <3>1. c = IF Len(q) <= n THEN Len(q) ELSE n
      BY <1>1, <2>1, LeastOfTwo DEF TakenFrom
    <3> QED  BY <1>1, <2>1, <3>1
  <2>2. CASE ~(q # <<>> /\ q[1].side # side)
    BY <1>1, <2>2 DEF TakenFrom
  <2> QED  BY <2>1, <2>2
<1>3. /\ kept \in Seq(U) /\ Len(kept) = Len(q) - c
      /\ \A i \in 1..(Len(q) - c) : kept[i] = q[i + c]
  BY <1>1, <1>2
<1>4. /\ opened \in Seq(U) /\ Len(opened) = n - c
      /\ \A i \in 1..(n - c) : opened[i] = u
  BY <1>2
<1>5. side \in {"BUY", "SELL"} /\ sg \in {1, -1} /\ (\A m \in Nat : IF side = "BUY" THEN sg * m = m ELSE sg * m = -m)
  OBVIOUS
<1> HIDE DEF kept, opened, side, sg
<1>6. /\ now \in Seq(U)
      /\ Len(now) = Len(kept) + Len(opened)
      /\ \A i \in 1..Len(kept) : now[i] = kept[i]
      /\ \A i \in 1..Len(opened) : now[i + Len(kept)] = opened[i]
  <2>1. kept \in Seq(U) /\ opened \in Seq(U)
    BY <1>3, <1>4
  <2> QED  BY ONLY <2>1, JoinParts
<1> HIDE DEF now
<1>7. (now = <<>> <=> Len(now) = 0) /\ Len(now) = (Len(q) - c) + (n - c)
  BY <1>3, <1>4, <1>6
<1>8. \A i \in 1..(Len(q) - c) : now[i].side = q[1].side
  <2> TAKE i \in 1..(Len(q) - c)
  <2>1. i + c \in 1..Len(q) /\ now[i] = q[i + c]
    BY <1>1, <1>2, <1>3, <1>6
  <2> QED  BY <2>1 DEF SameSide
<1>9. \A i \in 1..(n - c) : now[i + (Len(q) - c)].side = side
  BY <1>3, <1>4, <1>6 DEF side
<1>10. q # <<>> => q[1].side \in {"BUY", "SELL"}
  <2> SUFFICES ASSUME q # <<>> PROVE q[1].side \in {"BUY", "SELL"}
    OBVIOUS
  <2>1. q[1] \in U
    BY <1>1
  <2> QED  BY <2>1
<1>11. CASE c = n
  <2>1. Len(now) = Len(q) - n /\ q[1].side # side /\ q # <<>>
    BY <1>2, <1>7, <1>11
  <2>2. \A i \in 1..Len(now) : now[i].side = q[1].side
    BY <1>8, <1>11, <2>1
  <2>3. SameSide(now)
    BY <1>1, <1>11, <1>2, <2>1, <2>2 DEF SameSide
  <2>4. NetOf(q) = IF q[1].side = "BUY" THEN Len(q) ELSE -Len(q)
    BY <2>1 DEF NetOf
  <2>5. NetOf(now) = IF q[1].side = "BUY" THEN Len(q) - n ELSE -(Len(q) - n)
    <3>1. CASE now = <<>>
      BY <1>1, <1>2, <1>7, <1>11, <2>1, <3>1 DEF NetOf
    <3>2. CASE now # <<>>
      BY <1>1, <1>7, <1>11, <1>2, <2>1, <2>2, <3>2 DEF NetOf
    <3> QED  BY <3>1, <3>2
  <2>6. NetOf(now) = NetOf(q) + (IF side = "BUY" THEN n ELSE -n)
    <3>1. CASE side = "BUY"
      BY <1>1, <1>10, <2>1, <2>4, <2>5, <3>1
    <3>2. CASE side = "SELL"
      <4>1. q[1].side = "BUY"
        BY <1>10, <2>1, <3>2
      <4> QED  BY <1>1, <2>4, <2>5, <3>2, <4>1
    <3> QED  BY <1>5, <3>1, <3>2
  <2> QED  BY <1>6, <2>3, <2>6 DEF now, kept, opened, side
<1>12. CASE c # n
  <2>1. now # <<>>
    BY <1>1, <1>2, <1>7, <1>12
  <2>2. \A i \in 1..Len(now) : now[i].side = side
    <3> TAKE i \in 1..Len(now)
    <3>1. CASE i \in 1..(Len(q) - c)
      <4>1. c # Len(q) /\ now[i].side = q[1].side
        BY <1>1, <1>2, <1>8, <3>1
      <4> QED  BY <1>2, <1>12, <4>1
    <3>2. CASE i \notin 1..(Len(q) - c)
      <4>1. i - (Len(q) - c) \in 1..(n - c) /\ (i - (Len(q) - c)) + (Len(q) - c) = i
        <5> DEFINE d == Len(q) - c
        <5>1. d \in Nat /\ Len(now) = d + (n - c) /\ i \in Int /\ i >= 1 /\ i <= Len(now)
              /\ i \notin 1..d
          BY <1>1, <1>2, <1>7, <3>2
        <5> HIDE DEF d
        <5>2. i - d \in 1..(n - c) /\ (i - d) + d = i
          BY <1>2, <5>1
        <5> QED  BY <5>2 DEF d
      <4> QED  BY <1>9, <4>1
    <3> QED  BY <3>1, <3>2
  <2>3. SameSide(now) /\ now[1].side = side
    BY <1>1, <1>7, <2>1, <2>2, <1>2 DEF SameSide
  <2>4. NetOf(now) = IF side = "BUY" THEN Len(now) ELSE -Len(now)
    BY <2>1, <2>3 DEF NetOf
  <2>5. NetOf(now) = NetOf(q) + (IF side = "BUY" THEN n ELSE -n)
    <3>1. CASE q = <<>>
      <4>1. c = 0 /\ Len(q) = 0 /\ NetOf(q) = 0
        BY <1>1, <1>2, <3>1 DEF NetOf
      <4> QED  BY <1>5, <1>7, <2>4, <4>1
    <3>2. CASE q # <<>> /\ c = 0
      <4>1. q[1].side = side
        BY <1>1, <1>2, <1>12, <3>2
      <4>2. NetOf(q) = IF side = "BUY" THEN Len(q) ELSE -Len(q)
        BY <3>2, <4>1 DEF NetOf
      <4> QED  BY <1>1, <1>5, <1>7, <2>4, <3>2, <4>2
    <3>3. CASE q # <<>> /\ c # 0
      <4>1. q[1].side # side /\ c = Len(q)
        BY <1>2, <1>12, <3>3
      <4>2. NetOf(q) = IF side = "BUY" THEN -Len(q) ELSE Len(q)
        BY <1>5, <1>10, <3>3, <4>1 DEF NetOf
      <4> QED  BY <1>1, <1>2, <1>5, <1>7, <2>4, <4>1, <4>2
    <3> QED  BY <3>1, <3>2, <3>3
  <2> QED  BY <1>6, <2>3, <2>5 DEF now, kept, opened, side
<1> QED  BY <1>11, <1>12

\* A queue is empty when its units cancel out.
LEMMA NetZero ==
  ASSUME NEW U, NEW q \in Seq(U)
  PROVE  /\ NetOf(q) \in Int
         /\ NetOf(q) = 0 <=> q = <<>>
BY DEF NetOf
=============================================================================
