-------------------------------- MODULE Sums --------------------------------
(***************************************************************************)
(* Sums over finite sets: what SumFunctionOnSet of the community modules   *)
(* yields for one element more, for equal summands and under renaming.     *)
(*                                                                         *)
(* It is a recursive function on the subsets of a set.  Induction over     *)
(* them is written out with a smallest counterexample: strict inclusion is *)
(* well founded on the subsets of a finite set.                            *)
(***************************************************************************)
EXTENDS Functions, FiniteSetTheorems, TLAPS

(* The element a sum takes first, and the equation the summing function    *)
(* satisfies on the subsets of S.                                          *)
First(s) == CHOOSE x \in s : TRUE

Summed(f, S, g) ==
    g = [s \in SUBSET S |-> IF s = {} THEN 0 ELSE f[First(s)] + g[s \ {First(s)}]]

LEMMA SumIsChosen ==
    \A f, S : SumFunctionOnSet(f, S) = (CHOOSE g : Summed(f, S, g))[S]
  BY DEF SumFunctionOnSet, FoldFunctionOnSet, MapThenFoldSet, Summed, First

(* A set of subsets of a finite set has a smallest member.                 *)
LEMMA SmallestSubset ==
    ASSUME NEW S, IsFiniteSet(S), NEW B \in SUBSET (SUBSET S), B # {}
    PROVE  \E u \in B : \A v \in B : ~(v \subseteq u /\ v # u)
  <1> DEFINE R == StrictSubsetOrdering(S)
  <1>1. FiniteSubsetsOf(S) = SUBSET S
    BY FS_FiniteSubsetsOfFinite
  <1>2. IsWellFoundedOn(R, SUBSET S)
    BY <1>1, FS_StrictSubsetOrderingWellFounded
  <1> HIDE DEF R
  <1>3. PICK u \in B : \A v \in B : <<v, u>> \notin R
    BY <1>2, WFMin
  <1>4. ASSUME NEW v \in B, v \subseteq u, v # u PROVE FALSE
    BY <1>3, <1>4 DEF R, StrictSubsetOrdering
  <1> QED
    BY <1>4

(* The equation has at most one solution, whatever set it is stated for.   *)
LEMMA SummedUnique ==
    ASSUME NEW f, NEW S, NEW T, NEW g, NEW h, Summed(f, S, g), Summed(f, T, h),
           NEW U, IsFiniteSet(U), U \subseteq S, U \subseteq T
    PROVE  g[U] = h[U]
  <1> DEFINE B == {u \in SUBSET U : g[u] # h[u]}
  <1> SUFFICES ASSUME B # {} PROVE FALSE
    OBVIOUS
  <1>1. PICK u \in B : \A v \in B : ~(v \subseteq u /\ v # u)
    <2>1. B \in SUBSET (SUBSET U)
      OBVIOUS
    <2> HIDE DEF B
    <2> QED
      BY <2>1, SmallestSubset
  <1>2. /\ g[u] = IF u = {} THEN 0 ELSE f[First(u)] + g[u \ {First(u)}]
        /\ h[u] = IF u = {} THEN 0 ELSE f[First(u)] + h[u \ {First(u)}]
    BY <1>1 DEF Summed
  <1>3. u # {} /\ g[u \ {First(u)}] # h[u \ {First(u)}]
    BY <1>1, <1>2
  <1>4. First(u) \in u
    BY <1>3 DEF First
  <1>5. u \ {First(u)} \in B
    BY <1>1, <1>3
  <1> QED
    BY <1>1, <1>4, <1>5

(* Where it has a solution, the sum is that solution, and satisfies the    *)
(* equation itself.                                                        *)
LEMMA SumUnfolds ==
    ASSUME NEW f, NEW S, IsFiniteSet(S), NEW g, Summed(f, S, g)
    PROVE  SumFunctionOnSet(f, S) =
              IF S = {} THEN 0
              ELSE f[First(S)] + SumFunctionOnSet(f, S \ {First(S)})
  <1>1. SumFunctionOnSet(f, S) = g[S]
    <2> DEFINE c == CHOOSE h : Summed(f, S, h)
    <2>1. Summed(f, S, c)
      OBVIOUS
    <2>2. SumFunctionOnSet(f, S) = c[S]
      BY SumIsChosen
    <2> HIDE DEF c
    <2> QED
      BY <2>1, <2>2, SummedUnique
  <1>2. g[S] = IF S = {} THEN 0 ELSE f[First(S)] + g[S \ {First(S)}]
    BY DEF Summed
  <1>3. ASSUME S # {} PROVE SumFunctionOnSet(f, S \ {First(S)}) = g[S \ {First(S)}]
    <2> DEFINE T == S \ {First(S)}
               h == [s \in SUBSET T |-> g[s]]
               c == CHOOSE k : Summed(f, T, k)
    <2>1. Summed(f, T, h)
      <3>1. ASSUME NEW s \in SUBSET T
            PROVE  g[s] = IF s = {} THEN 0 ELSE f[First(s)] + h[s \ {First(s)}]
        <4>1. g[s] = IF s = {} THEN 0 ELSE f[First(s)] + g[s \ {First(s)}]
          BY DEF Summed
        <4>2. s \ {First(s)} \in SUBSET T
          OBVIOUS
        <4> QED
          BY <4>1, <4>2
      <3> HIDE DEF T
      <3> QED
        BY <3>1 DEF Summed
    <2>2. Summed(f, T, c)
      <3> HIDE DEF h, T
      <3> QED
        BY <2>1
    <2>3. SumFunctionOnSet(f, T) = c[T]
      BY SumIsChosen
    <2>4. IsFiniteSet(T) /\ T \subseteq S
      BY FS_RemoveElement
    <2> HIDE DEF c, T
    <2>5. c[T] = g[T]
      BY <2>2, <2>4, SummedUnique
    <2> QED
      BY <2>3, <2>5 DEF T
  <1> QED
    BY <1>1, <1>2, <1>3

(* The equation has a solution on every finite set: on a smallest set      *)
(* without one, the sums of its smaller subsets would make one.            *)
LEMMA SummedExists ==
    ASSUME NEW f, NEW S, IsFiniteSet(S)
    PROVE  \E g : Summed(f, S, g)
  <1> DEFINE B == {T \in SUBSET S : ~ \E g : Summed(f, T, g)}
  <1> SUFFICES ASSUME B # {} PROVE FALSE
    OBVIOUS
  <1>1. PICK T \in B : \A v \in B : ~(v \subseteq T /\ v # T)
    <2>1. B \in SUBSET (SUBSET S)
      OBVIOUS
    <2> HIDE DEF B
    <2> QED
      BY <2>1, SmallestSubset
  <1> DEFINE V(s) == IF s = {} THEN 0
                     ELSE f[First(s)] + SumFunctionOnSet(f, s \ {First(s)})
             G == [s \in SUBSET T |-> V(s)]
  <1>2. ASSUME NEW s \in SUBSET T, s # T PROVE SumFunctionOnSet(f, s) = V(s)
    <2>1. s \in SUBSET S /\ s \notin B
      BY <1>1, <1>2
    <2>2. PICK g : Summed(f, s, g)
      BY <2>1
    <2>3. IsFiniteSet(s)
      BY <2>1, FS_Subset
    <2> QED
      BY <2>2, <2>3, SumUnfolds
  <1>3. ASSUME NEW s \in SUBSET T, s # {}
        PROVE  G[s \ {First(s)}] = SumFunctionOnSet(f, s \ {First(s)})
    <2>1. First(s) \in s
      BY <1>3 DEF First
    <2>2. s \ {First(s)} \in SUBSET T /\ s \ {First(s)} # T
      BY <2>1
    <2> QED
      BY <2>2, <1>2
  <1>4. ASSUME NEW s \in SUBSET T
        PROVE  V(s) = IF s = {} THEN 0 ELSE f[First(s)] + G[s \ {First(s)}]
    BY <1>3
  <1>5. Summed(f, T, G)
    <2> HIDE DEF V
    <2>1. G = [s \in SUBSET T |-> V(s)]
      OBVIOUS
    <2> HIDE DEF G
    <2> QED
      BY <2>1, <1>4 DEF Summed
  <1> QED
    BY <1>1, <1>5

LEMMA SumEquation ==
    ASSUME NEW f, NEW S, IsFiniteSet(S)
    PROVE  SumFunctionOnSet(f, S) =
              IF S = {} THEN 0
              ELSE f[First(S)] + SumFunctionOnSet(f, S \ {First(S)})
  BY SummedExists, SumUnfolds

(* So has a set of numbers up to d a largest member: the fewest numbers    *)
(* up to d are above it.                                                   *)
LEMMA Largest ==
    ASSUME NEW d \in Nat, NEW G \in SUBSET (1 .. d), G # {}
    PROVE  \E g \in G : \A h \in (g + 1) .. d : h \notin G
  <1> DEFINE D == 1 .. d
             B == {(g + 1) .. d : g \in G}
  <1>1. B # {} /\ \A v \in B : v \in SUBSET D
    <2>1. \A g \in G : (g + 1) .. d \in SUBSET D
      OBVIOUS
    <2> QED
      BY <2>1
  <1>2. IsFiniteSet(D)
    BY FS_Interval
  <1>3. PICK u \in B : \A v \in B : ~(v \subseteq u /\ v # u)
    <2> HIDE DEF B, D
    <2>1. B \in SUBSET (SUBSET D)
      BY <1>1
    <2> QED
      BY <1>1, <1>2, <2>1, SmallestSubset
  <1>4. PICK g \in G : u = (g + 1) .. d
    BY <1>3
  <1>5. ASSUME NEW h \in (g + 1) .. d, h \in G PROVE FALSE
    <2>1. (h + 1) .. d \in B
      BY <1>5
    <2>2. g \in Nat /\ h \in Nat /\ g < h /\ h <= d
      BY <1>5
    <2>3. (h + 1) .. d \subseteq u
      BY <1>4, <2>2
    <2>4. h \in u /\ h \notin (h + 1) .. d
      BY <1>4, <2>2
    <2> HIDE DEF B
    <2> QED
      BY <1>3, <2>1, <2>3, <2>4
  <1>6. \A h \in (g + 1) .. d : h \notin G
    BY <1>5
  <1> HIDE DEF B
  <1> QED
    BY <1>6

LEMMA HasMaximum ==
    ASSUME NEW S, IsFiniteSet(S), S # {}, \A x \in S : x \in Int
    PROVE  \E m \in S : \A n \in S : m >= n
  <1> DEFINE Has(T) == \E m \in T : \A n \in T : m >= n
             B == {T \in SUBSET S : T # {} /\ ~Has(T)}
  <1> SUFFICES ASSUME B # {} PROVE FALSE
    OBVIOUS
  <1>1. PICK T \in B : \A v \in B : ~(v \subseteq T /\ v # T)
    <2>1. B \in SUBSET (SUBSET S)
      OBVIOUS
    <2> HIDE DEF B, Has
    <2> QED
      BY <2>1, SmallestSubset
  <1>2. PICK x \in T : TRUE
    BY <1>1
  <1>3. T \in SUBSET Int /\ ~Has(T)
    BY <1>1
  <1>4. CASE T \ {x} = {}
    <2>1. \A n \in T : n = x
      BY <1>4
    <2>2. \A n \in T : x >= n
      BY <2>1, <1>2, <1>3
    <2> QED
      BY <2>2, <1>2, <1>3
  <1>5. CASE T \ {x} # {}
    <2>1. T \ {x} \notin B /\ T \ {x} \in SUBSET S
      BY <1>1, <1>2
    <2>2. PICK m \in T \ {x} : \A n \in T \ {x} : m >= n
      BY <2>1, <1>5
    <2>3. \A n \in T : n = x \/ m >= n
      BY <2>2
    <2>4. m \in Int /\ x \in Int /\ (m >= x \/ x > m)
      BY <2>2, <1>2, <1>3
    <2>5. CASE m >= x
      <3>1. \A n \in T : m >= n
        BY <2>3, <2>5
      <3> QED
        BY <3>1, <2>2, <1>3
    <2>6. CASE x > m
      <3>1. \A n \in T : n \in Int /\ x >= n
        BY <2>3, <2>4, <2>6, <1>3
      <3> QED
        BY <3>1, <1>2, <1>3
    <2> QED
      BY <2>4, <2>5, <2>6
  <1> QED
    BY <1>4, <1>5

-----------------------------------------------------------------------------
(* What the proofs use.                                                    *)

LEMMA SumEmpty == \A f : SumFunctionOnSet(f, {}) = 0
  BY SumEquation, FS_EmptySet

LEMMA SumType ==
    ASSUME NEW S, IsFiniteSet(S), NEW f, \A x \in S : f[x] \in Int
    PROVE  SumFunctionOnSet(f, S) \in Int
  <1> DEFINE B == {T \in SUBSET S : SumFunctionOnSet(f, T) \notin Int}
  <1> SUFFICES ASSUME B # {} PROVE FALSE
    OBVIOUS
  <1>1. PICK T \in B : \A v \in B : ~(v \subseteq T /\ v # T)
    <2>1. B \in SUBSET (SUBSET S)
      OBVIOUS
    <2> HIDE DEF B
    <2> QED
      BY <2>1, SmallestSubset
  <1>2. IsFiniteSet(T)
    BY <1>1, FS_Subset
  <1>3. T # {}
    <2> SUFFICES ASSUME T = {} PROVE SumFunctionOnSet(f, T) \in Int
      BY <1>1
    <2>1. SumFunctionOnSet(f, T) = 0
      BY SumEmpty
    <2> QED
      BY <2>1
  <1>4. First(T) \in T /\ f[First(T)] \in Int
    BY <1>1, <1>3 DEF First
  <1>5. SumFunctionOnSet(f, T \ {First(T)}) \in Int
    BY <1>1, <1>4
  <1> QED
    BY <1>1, <1>2, <1>3, <1>4, <1>5, SumEquation

(* Any element can be taken first.                                         *)
LEMMA SumRemove ==
    ASSUME NEW S, IsFiniteSet(S), NEW f, \A x \in S : f[x] \in Int,
           NEW x \in S
    PROVE  SumFunctionOnSet(f, S) = f[x] + SumFunctionOnSet(f, S \ {x})
  <1> DEFINE Fits(T) ==
               \A y \in T : SumFunctionOnSet(f, T) = f[y] + SumFunctionOnSet(f, T \ {y})
             B == {T \in SUBSET S : ~Fits(T)}
  <1> SUFFICES ASSUME B # {} PROVE FALSE
    OBVIOUS
  <1>1. PICK T \in B : \A v \in B : ~(v \subseteq T /\ v # T)
    <2>1. B \in SUBSET (SUBSET S)
      OBVIOUS
    <2> HIDE DEF B
    <2> QED
      BY <2>1, SmallestSubset
  <1>2. PICK y \in T : SumFunctionOnSet(f, T) # f[y] + SumFunctionOnSet(f, T \ {y})
    BY <1>1
  <1> DEFINE c == First(T)
  <1>3. c \in T
    BY <1>2 DEF First
  <1>4. IsFiniteSet(T)
    BY <1>1, FS_Subset
  <1>5. SumFunctionOnSet(f, T) = f[c] + SumFunctionOnSet(f, T \ {c})
    BY <1>2, <1>4, SumEquation
  <1>6. y # c
    BY <1>2, <1>5
  <1> HIDE DEF c
  <1> DEFINE W == (T \ {c}) \ {y}
  <1>7. SumFunctionOnSet(f, T \ {c}) = f[y] + SumFunctionOnSet(f, W)
    <2>1. T \ {c} \in SUBSET S /\ T \ {c} \notin B
      BY <1>1, <1>3
    <2> QED
      BY <2>1, <1>2, <1>6
  <1>8. SumFunctionOnSet(f, T \ {y}) = f[c] + SumFunctionOnSet(f, W)
    <2>1. T \ {y} \in SUBSET S /\ T \ {y} \notin B
      BY <1>1, <1>2
    <2>2. W = (T \ {y}) \ {c}
      OBVIOUS
    <2> QED
      BY <2>1, <2>2, <1>3, <1>6
  <1>9. SumFunctionOnSet(f, W) \in Int /\ f[c] \in Int /\ f[y] \in Int
    <2>1. W \in SUBSET S
      BY <1>1
    <2>2. IsFiniteSet(W)
      BY <2>1, FS_Subset
    <2> HIDE DEF W
    <2> QED
      BY <2>1, <2>2, <1>1, <1>2, <1>3, SumType
  <1> HIDE DEF W
  <1> QED
    BY <1>2, <1>5, <1>7, <1>8, <1>9

LEMMA SumInsert ==
    ASSUME NEW S, IsFiniteSet(S), NEW x, x \notin S,
           NEW f, \A y \in S \cup {x} : f[y] \in Int
    PROVE  SumFunctionOnSet(f, S \cup {x}) = f[x] + SumFunctionOnSet(f, S)
  <1>1. IsFiniteSet(S \cup {x}) /\ (S \cup {x}) \ {x} = S
    BY FS_AddElement
  <1> QED
    BY <1>1, SumRemove

(* A sum whose elements are renamed one to one has the same value.         *)
LEMMA SumRenamed ==
    ASSUME NEW S, IsFiniteSet(S), NEW f, NEW g, NEW h,
           \A x \in S : g[x] \in Int /\ g[x] = f[h[x]],
           \A x, y \in S : h[x] = h[y] => x = y
    PROVE  SumFunctionOnSet(g, S) = SumFunctionOnSet(f, {h[x] : x \in S})
  <1> DEFINE Image(T) == {h[x] : x \in T}
             B == {T \in SUBSET S : SumFunctionOnSet(g, T) # SumFunctionOnSet(f, Image(T))}
  <1> SUFFICES ASSUME B # {} PROVE FALSE
    OBVIOUS
  <1>1. PICK T \in B : \A v \in B : ~(v \subseteq T /\ v # T)
    <2>1. B \in SUBSET (SUBSET S)
      OBVIOUS
    <2> HIDE DEF B
    <2> QED
      BY <2>1, SmallestSubset
  <1>2. T # {}
    <2>1. Image({}) = {}
      OBVIOUS
    <2> QED
      BY <2>1, <1>1, SumEmpty
  <1>3. PICK x \in T : TRUE
    BY <1>2
  <1>4. IsFiniteSet(T)
    BY <1>1, FS_Subset
  <1>5. SumFunctionOnSet(g, T) = g[x] + SumFunctionOnSet(g, T \ {x})
    BY <1>1, <1>3, <1>4, SumRemove
  <1>6. Image(T \ {x}) = Image(T) \ {h[x]} /\ h[x] \in Image(T)
    BY <1>1, <1>3
  <1>7. IsFiniteSet(Image(T))
    <2>1. [y \in T |-> h[y]] \in Surjection(T, Image(T))
      BY DEF Surjection
    <2> HIDE DEF Image
    <2> QED
      BY <2>1, <1>4, FS_Surjection
  <1>8. \A y \in Image(T) : f[y] \in Int
    BY <1>1
  <1>9. SumFunctionOnSet(f, Image(T)) = f[h[x]] + SumFunctionOnSet(f, Image(T \ {x}))
    <2> HIDE DEF Image
    <2>1. SumFunctionOnSet(f, Image(T)) = f[h[x]] + SumFunctionOnSet(f, Image(T) \ {h[x]})
      BY <1>6, <1>7, <1>8, SumRemove
    <2> QED
      BY <2>1, <1>6
  <1>10. SumFunctionOnSet(g, T \ {x}) = SumFunctionOnSet(f, Image(T \ {x}))
    BY <1>1, <1>3
  <1> HIDE DEF Image
  <1> QED
    BY <1>1, <1>3, <1>5, <1>9, <1>10

(* The same where h, as a relation of the two sums, is what is known.      *)
Renames(h, S, g, T, f) ==
    /\ \A x \in S : g[x] \in Int /\ h[x] \in T /\ g[x] = f[h[x]]
    /\ \A x, y \in S : h[x] = h[y] => x = y
    /\ \A y \in T : \E x \in S : y = h[x]

LEMMA SumImage ==
    ASSUME NEW S, IsFiniteSet(S), NEW T, NEW f, NEW g, NEW h, Renames(h, S, g, T, f)
    PROVE  SumFunctionOnSet(g, S) = SumFunctionOnSet(f, T)
  <1>1. T = {h[x] : x \in S}
    BY DEF Renames
  <1>2. SumFunctionOnSet(g, S) = SumFunctionOnSet(f, {h[x] : x \in S})
    BY SumRenamed DEF Renames
  <1> QED
    BY <1>1, <1>2

LEMMA SumSame ==
    ASSUME NEW S, IsFiniteSet(S), NEW f, NEW g,
           \A x \in S : f[x] \in Int /\ f[x] = g[x]
    PROVE  SumFunctionOnSet(f, S) = SumFunctionOnSet(g, S)
  <1> DEFINE h == [x \in S |-> x]
  <1>1. S = {h[x] : x \in S}
    OBVIOUS
  <1>2. /\ \A x \in S : f[x] \in Int /\ f[x] = g[h[x]]
        /\ \A x, y \in S : h[x] = h[y] => x = y
    OBVIOUS
  <1> HIDE DEF h
  <1>3. SumFunctionOnSet(f, S) = SumFunctionOnSet(g, {h[x] : x \in S})
    BY <1>2, SumRenamed
  <1> QED
    BY <1>1, <1>3

(* Leaving out summands that are not negative does not make a sum larger.  *)
LEMMA SumSubset ==
    ASSUME NEW T, IsFiniteSet(T), NEW S \in SUBSET T,
           NEW f, \A x \in T : f[x] \in Nat
    PROVE  0 <= SumFunctionOnSet(f, S) /\ SumFunctionOnSet(f, S) <= SumFunctionOnSet(f, T)
  <1> DEFINE Least(U) == \A V \in SUBSET U :
               0 <= SumFunctionOnSet(f, V) /\ SumFunctionOnSet(f, V) <= SumFunctionOnSet(f, U)
             B == {U \in SUBSET T : ~Least(U)}
  <1> SUFFICES ASSUME B # {} PROVE FALSE
    OBVIOUS
  <1>1. PICK U \in B : \A v \in B : ~(v \subseteq U /\ v # U)
    <2>1. B \in SUBSET (SUBSET T)
      OBVIOUS
    <2> HIDE DEF B
    <2> QED
      BY <2>1, SmallestSubset
  <1>2. U # {}
    <2> SUFFICES ASSUME U = {} PROVE Least(U)
      BY <1>1
    <2>1. SumFunctionOnSet(f, U) = 0
      BY SumEmpty
    <2> QED
      BY <2>1
  <1>3. IsFiniteSet(U) /\ \A x \in U : f[x] \in Int /\ f[x] >= 0
    BY <1>1, FS_Subset
  <1>4. ASSUME NEW V \in SUBSET U
        PROVE  0 <= SumFunctionOnSet(f, V) /\ SumFunctionOnSet(f, V) <= SumFunctionOnSet(f, U)
    <2> SUFFICES ASSUME NEW x \in U, x \notin V \/ V = U
                 PROVE  0 <= SumFunctionOnSet(f, V)
                        /\ SumFunctionOnSet(f, V) <= SumFunctionOnSet(f, U)
      BY <1>2
    <2>1. SumFunctionOnSet(f, U) = f[x] + SumFunctionOnSet(f, U \ {x})
      BY <1>3, SumRemove
    <2>2. Least(U \ {x})
      BY <1>1
    <2>3. SumFunctionOnSet(f, U \ {x}) \in Int
      BY <1>3, FS_RemoveElement, SumType
    <2>4. 0 <= SumFunctionOnSet(f, U \ {x})
      BY <2>2
    <2>5. CASE V = U
      BY <2>1, <2>3, <2>4, <2>5, <1>3
    <2>6. CASE x \notin V
      <3>1. V \in SUBSET (U \ {x})
        BY <2>6
      <3>2. 0 <= SumFunctionOnSet(f, V) /\ SumFunctionOnSet(f, V) <= SumFunctionOnSet(f, U \ {x})
        BY <3>1, <2>2
      <3>3. SumFunctionOnSet(f, V) \in Int
        <4>1. IsFiniteSet(V)
          BY <1>3, FS_Subset
        <4> QED
          BY <4>1, <1>3, SumType
      <3> HIDE DEF Least
      <3> QED
        BY <3>2, <3>3, <2>1, <2>3, <1>3
    <2> QED
      BY <2>5, <2>6
  <1> QED
    BY <1>1, <1>4

(* Equal terms add up to their value times their number.                   *)
LEMMA SumConstant ==
    ASSUME NEW S, IsFiniteSet(S), NEW f, NEW c \in Int, \A x \in S : f[x] = c
    PROVE  SumFunctionOnSet(f, S) = c * Cardinality(S)
  <1> DEFINE B == {T \in SUBSET S : SumFunctionOnSet(f, T) # c * Cardinality(T)}
  <1> SUFFICES ASSUME B # {} PROVE FALSE
    OBVIOUS
  <1>1. PICK T \in B : \A v \in B : ~(v \subseteq T /\ v # T)
    <2>1. B \in SUBSET (SUBSET S)
      OBVIOUS
    <2> HIDE DEF B
    <2> QED
      BY <2>1, SmallestSubset
  <1>2. IsFiniteSet(T) /\ \A x \in T : f[x] = c
    BY FS_Subset
  <1>3. CASE T = {}
    <2>1. SumFunctionOnSet(f, T) = 0 /\ Cardinality(T) = 0
      BY <1>3, SumEmpty, FS_EmptySet
    <2> QED
      BY <2>1, <1>1
  <1>4. ASSUME NEW x \in T PROVE FALSE
    <2> DEFINE U == T \ {x}
               n == Cardinality(U)
    <2>1. n \in Nat /\ Cardinality(T) = n + 1
      <3>1. IsFiniteSet(U) /\ n = Cardinality(T) - 1
        BY <1>2, FS_RemoveElement
      <3>2. n \in Nat /\ Cardinality(T) \in Nat
        BY <3>1, <1>2, FS_CardinalityType
      <3> QED
        BY <3>1, <3>2
    <2>2. U \in SUBSET S /\ U \subseteq T /\ U # T
      BY <1>1
    <2>3. SumFunctionOnSet(f, U) = c * n
      BY <2>2, <1>1
    <2>4. \A y \in T : f[y] \in Int
      BY <1>2
    <2>5. SumFunctionOnSet(f, T) = f[x] + SumFunctionOnSet(f, U)
      BY <2>4, <1>2, SumRemove
    <2>6. f[x] = c
      BY <1>2
    <2> HIDE DEF n, U
    <2>7. SumFunctionOnSet(f, T) = c * (n + 1)
      BY <2>1, <2>3, <2>5, <2>6
    <2> QED
      BY <2>1, <2>7, <1>1
  <1> QED
    BY <1>3, <1>4

(* What lies outside T and counts nothing does not matter to a sum.        *)
LEMMA SumSupport ==
    ASSUME NEW S, IsFiniteSet(S), NEW T \in SUBSET S,
           NEW f, \A x \in S : f[x] \in Int, \A x \in S \ T : f[x] = 0
    PROVE  SumFunctionOnSet(f, S) = SumFunctionOnSet(f, T)
  <1> DEFINE B == {U \in SUBSET S : /\ T \subseteq U
                                    /\ SumFunctionOnSet(f, U) # SumFunctionOnSet(f, T)}
  <1> SUFFICES ASSUME B # {} PROVE FALSE
    OBVIOUS
  <1>1. PICK U \in B : \A v \in B : ~(v \subseteq U /\ v # U)
    <2>1. B \in SUBSET (SUBSET S)
      OBVIOUS
    <2> HIDE DEF B
    <2> QED
      BY <2>1, SmallestSubset
  <1>2. PICK x \in U \ T : TRUE
    <2>1. T \subseteq U /\ U # T
      BY <1>1
    <2> HIDE DEF B
    <2> QED
      BY <2>1
  <1>3. IsFiniteSet(U)
    BY <1>1, FS_Subset
  <1>4. SumFunctionOnSet(f, U \ {x}) = SumFunctionOnSet(f, T)
    BY <1>1, <1>2
  <1>5. SumFunctionOnSet(f, U) = f[x] + SumFunctionOnSet(f, U \ {x})
    BY <1>1, <1>2, <1>3, SumRemove
  <1>6. SumFunctionOnSet(f, T) \in Int
    BY FS_Subset, SumType
  <1> QED
    BY <1>1, <1>2, <1>4, <1>5, <1>6

(* A sum is linear in its summands.                                        *)
LEMMA SumLinear ==
    ASSUME NEW S, IsFiniteSet(S), NEW f, NEW g, NEW h, NEW c \in Int, NEW d \in Int,
           \A x \in S : f[x] \in Int /\ g[x] \in Int /\ h[x] = c * f[x] + d * g[x]
    PROVE  SumFunctionOnSet(h, S) = c * SumFunctionOnSet(f, S) + d * SumFunctionOnSet(g, S)
  <1> DEFINE Fits(T) == SumFunctionOnSet(h, T)
                           = c * SumFunctionOnSet(f, T) + d * SumFunctionOnSet(g, T)
             B == {T \in SUBSET S : ~Fits(T)}
  <1> SUFFICES ASSUME B # {} PROVE FALSE
    OBVIOUS
  <1>1. PICK T \in B : \A v \in B : ~(v \subseteq T /\ v # T)
    <2>1. B \in SUBSET (SUBSET S)
      OBVIOUS
    <2> HIDE DEF B
    <2> QED
      BY <2>1, SmallestSubset
  <1>2. PICK x \in T : TRUE
    <2>1. c * 0 + d * 0 = 0
      OBVIOUS
    <2>2. Fits({})
      BY <2>1, SumEmpty
    <2> QED
      BY <1>1, <2>2
  <1> DEFINE U == T \ {x}
  <1>3. IsFiniteSet(T) /\ IsFiniteSet(U) /\ Fits(U)
    BY <1>1, <1>2, FS_Subset
  <1>4. \A y \in T : f[y] \in Int /\ g[y] \in Int /\ h[y] \in Int
    <2>1. \A a, b \in Int : c * a + d * b \in Int
      OBVIOUS
    <2> QED
      BY <1>1, <2>1
  <1>5. /\ SumFunctionOnSet(f, T) = f[x] + SumFunctionOnSet(f, U)
        /\ SumFunctionOnSet(g, T) = g[x] + SumFunctionOnSet(g, U)
        /\ SumFunctionOnSet(h, T) = h[x] + SumFunctionOnSet(h, U)
    BY <1>2, <1>3, <1>4, SumRemove
  <1>6. SumFunctionOnSet(f, U) \in Int /\ SumFunctionOnSet(g, U) \in Int
    BY <1>3, <1>4, SumType
  <1>7. h[x] = c * f[x] + d * g[x] /\ ~Fits(T)
    BY <1>1, <1>2
  <1>8. \A a, b, k, m \in Int :
           (c * a + d * b) + (c * k + d * m) = c * (a + k) + d * (b + m)
    BY SMT
  <1> HIDE DEF U
  <1> QED
    BY <1>2, <1>3, <1>4, <1>5, <1>6, <1>7, <1>8

(* Terms that are at most o above others add up to at most o more for each *)
(* of them.                                                                *)
LEMMA SumWithin ==
    ASSUME NEW S, IsFiniteSet(S), NEW f, NEW g, NEW o \in Int,
           \A x \in S : f[x] \in Int /\ g[x] \in Int /\ g[x] <= f[x] + o
    PROVE  SumFunctionOnSet(g, S) <= SumFunctionOnSet(f, S) + o * Cardinality(S)
  <1> DEFINE Fits(T) == SumFunctionOnSet(g, T) <= SumFunctionOnSet(f, T) + o * Cardinality(T)
             B == {T \in SUBSET S : ~Fits(T)}
  <1> SUFFICES ASSUME B # {} PROVE FALSE
    OBVIOUS
  <1>1. PICK T \in B : \A v \in B : ~(v \subseteq T /\ v # T)
    <2>1. B \in SUBSET (SUBSET S)
      OBVIOUS
    <2> HIDE DEF B
    <2> QED
      BY <2>1, SmallestSubset
  <1>2. PICK x \in T : TRUE
    <2>1. 0 <= 0 + o * 0
      OBVIOUS
    <2>2. Fits({})
      BY <2>1, SumEmpty, FS_EmptySet
    <2> QED
      BY <1>1, <2>2
  <1> DEFINE U == T \ {x}
  <1>3. IsFiniteSet(T) /\ IsFiniteSet(U) /\ Fits(U)
    BY <1>1, <1>2, FS_Subset
  <1>4. \A y \in T : f[y] \in Int /\ g[y] \in Int /\ g[y] <= f[y] + o
    BY <1>1
  <1>5. /\ SumFunctionOnSet(f, T) = f[x] + SumFunctionOnSet(f, U)
        /\ SumFunctionOnSet(g, T) = g[x] + SumFunctionOnSet(g, U)
    BY <1>2, <1>3, <1>4, SumRemove
  <1>6. SumFunctionOnSet(f, U) \in Int /\ SumFunctionOnSet(g, U) \in Int
    BY <1>3, <1>4, SumType
  <1>7. Cardinality(U) \in Int /\ Cardinality(T) = Cardinality(U) + 1
    BY <1>2, <1>3, FS_RemoveElement, FS_CardinalityType
  <1>8. ~Fits(T)
    BY <1>1
  <1> HIDE DEF U
  <1>9. PICK m \in Int : m = o * Cardinality(U) /\ o * Cardinality(T) = m + o
    <2>1. \A a \in Int : o * a \in Int /\ o * (a + 1) = o * a + o
      BY SMT
    <2> QED
      BY <1>7, <2>1
  <1> QED
    BY <1>2, <1>3, <1>4, <1>5, <1>6, <1>8, <1>9

(* A sum changes as its one summand that does.                             *)
LEMMA OneSummand ==
    ASSUME NEW S, IsFiniteSet(S), NEW s \in S, NEW f, NEW g,
           \A x \in S : f[x] \in Int, g[s] \in Int, \A x \in S \ {s} : g[x] = f[x]
    PROVE  SumFunctionOnSet(g, S) = SumFunctionOnSet(f, S) + g[s] - f[s]
  <1> DEFINE T == S \ {s}
  <1>1. \A x \in S : g[x] \in Int
    OBVIOUS
  <1>2. /\ SumFunctionOnSet(f, S) = f[s] + SumFunctionOnSet(f, T)
        /\ SumFunctionOnSet(g, S) = g[s] + SumFunctionOnSet(g, T)
    BY <1>1, SumRemove
  <1>3. IsFiniteSet(T)
    BY FS_RemoveElement
  <1>4. \A x \in T : f[x] \in Int /\ f[x] = g[x]
    OBVIOUS
  <1> HIDE DEF T
  <1>5. SumFunctionOnSet(f, T) = SumFunctionOnSet(g, T)
    BY <1>3, <1>4, SumSame
  <1>6. SumFunctionOnSet(f, T) \in Int
    BY <1>3, <1>4, SumType
  <1> QED
    BY <1>2, <1>5, <1>6

(* A set that is told apart by members of a finite set is no larger.       *)
LEMMA OneToOne ==
    ASSUME NEW S, NEW T, IsFiniteSet(T), NEW f, \A x \in S : f[x] \in T,
           \A x, y \in S : f[x] = f[y] => x = y
    PROVE  IsFiniteSet(S) /\ Cardinality(S) <= Cardinality(T)
  <1> DEFINE g == [x \in S |-> f[x]]
  <1>1. g \in [S -> T] /\ \A x, y \in S : g[x] = g[y] => x = y
    OBVIOUS
  <1> HIDE DEF g
  <1>2. g \in Injection(S, T)
    BY <1>1 DEF Injection, IsInjective
  <1> QED
    BY <1>2, FS_Injection

(* Sets of at most c[x] members each have no more members together than    *)
(* these numbers add up to.                                                *)
LEMMA CountUnion ==
    ASSUME NEW S, IsFiniteSet(S), NEW f, NEW c,
           \A x \in S : /\ IsFiniteSet(f[x]) /\ c[x] \in Nat
                        /\ Cardinality(f[x]) <= c[x]
    PROVE  /\ IsFiniteSet(UNION {f[x] : x \in S})
           /\ Cardinality(UNION {f[x] : x \in S}) <= SumFunctionOnSet(c, S)
  <1> DEFINE All(T) == UNION {f[x] : x \in T}
             Fits(T) == /\ IsFiniteSet(All(T))
                        /\ Cardinality(All(T)) <= SumFunctionOnSet(c, T)
             B == {T \in SUBSET S : ~Fits(T)}
  <1> SUFFICES ASSUME B # {} PROVE FALSE
    OBVIOUS
  <1>1. PICK T \in B : \A v \in B : ~(v \subseteq T /\ v # T)
    <2>1. B \in SUBSET (SUBSET S)
      OBVIOUS
    <2> HIDE DEF B
    <2> QED
      BY <2>1, SmallestSubset
  <1>2. T \in SUBSET S /\ ~Fits(T) /\ IsFiniteSet(T)
    BY FS_Subset
  <1>3. CASE T = {}
    <2>1. All(T) = {}
      BY <1>3
    <2>2. SumFunctionOnSet(c, T) = 0 /\ Cardinality(All(T)) = 0 /\ IsFiniteSet(All(T))
      BY <1>3, <2>1, SumEmpty, FS_EmptySet
    <2> QED
      BY <2>2, <1>2
  <1>4. ASSUME NEW x \in T PROVE FALSE
    <2> DEFINE U == T \ {x}
    <2>1. Fits(U)
      <3>1. U \in SUBSET S /\ U \subseteq T /\ U # T
        BY <1>2
      <3> HIDE DEF Fits, U
      <3> QED
        BY <3>1, <1>1
    <2>2. All(T) = f[x] \cup All(U)
      OBVIOUS
    <2>3. /\ IsFiniteSet(f[x]) /\ Cardinality(f[x]) <= c[x] /\ c[x] \in Nat
          /\ \A y \in T : c[y] \in Int
      BY <1>2
    <2>4. SumFunctionOnSet(c, T) = c[x] + SumFunctionOnSet(c, U)
      BY <2>3, <1>2, SumRemove
    <2>5. IsFiniteSet(U) /\ \A y \in U : c[y] \in Int
      BY <1>2, <2>3, FS_RemoveElement
    <2> DEFINE V == All(U)
    <2>6. IsFiniteSet(V) /\ Cardinality(V) <= SumFunctionOnSet(c, U)
      BY <2>1
    <2>7. SumFunctionOnSet(c, U) \in Int
      BY <2>5, SumType
    <2>8. All(T) = f[x] \cup V
      BY <2>2
    <2> HIDE DEF U, V, All, Fits
    <2>9. /\ IsFiniteSet(f[x] \cup V)
          /\ Cardinality(f[x] \cup V) <= Cardinality(f[x]) + Cardinality(V)
      <3>1. /\ IsFiniteSet(f[x] \cup V)
            /\ Cardinality(f[x] \cup V)
                  = Cardinality(f[x]) + Cardinality(V) - Cardinality(f[x] \cap V)
        BY <2>3, <2>6, FS_Union
      <3>2. IsFiniteSet(f[x] \cap V)
        BY <2>3, FS_Intersection
      <3>3. /\ Cardinality(f[x] \cap V) \in Nat /\ Cardinality(f[x]) \in Nat
            /\ Cardinality(V) \in Nat
        BY <3>2, <2>3, <2>6, FS_CardinalityType
      <3> QED
        BY <3>1, <3>3
    <2>10. /\ Cardinality(f[x] \cup V) \in Nat /\ Cardinality(f[x]) \in Nat
           /\ Cardinality(V) \in Nat
      BY <2>3, <2>6, <2>9, FS_CardinalityType
    <2>11. Cardinality(All(T)) <= SumFunctionOnSet(c, T)
      BY <2>3, <2>4, <2>6, <2>7, <2>8, <2>9, <2>10
    <2> QED
      BY <1>2, <2>8, <2>9, <2>11 DEF Fits
  <1> QED
    BY <1>3, <1>4
=============================================================================
