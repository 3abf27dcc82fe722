----------------------------- MODULE SumTheorems -----------------------------
(***************************************************************************)
(* Sums over finite sets, as the models take them (SumFunctionOnSet and    *)
(* SumFunction of the community module Functions), and the induction over  *)
(* a finite set that their laws rest on.                                   *)
(***************************************************************************)
EXTENDS Integers, FiniteSets, Functions, FiniteSetTheorems, WellFoundedInduction, TLAPS

(* A set of subsets of a finite set that has each subset whose strict      *)
(* subsets it has, has them all.                                           *)
LEMMA FiniteDescent ==
  ASSUME NEW S, IsFiniteSet(S), NEW Good,
         \A T \in SUBSET S : (\A U \in SUBSET T : U # T => U \in Good) => T \in Good
  PROVE  \A T \in SUBSET S : T \in Good
<1> DEFINE Bad == (SUBSET S) \ Good
<1> SUFFICES ASSUME Bad # {} PROVE FALSE
  OBVIOUS
<1>1. IsWellFoundedOn(StrictSubsetOrdering(S), FiniteSubsetsOf(S))
  BY FS_StrictSubsetOrderingWellFounded
<1>2. Bad \subseteq FiniteSubsetsOf(S)
  BY FS_FiniteSubsetsOfFinite
<1> HIDE DEF Bad
<1>3. PICK T \in Bad : \A U \in Bad : ~(<<U, T>> \in StrictSubsetOrdering(S))
  BY <1>1, <1>2, WFMin
<1> USE DEF Bad
<1>4. \A U \in SUBSET T : U # T => U \in Good
  BY <1>3 DEF StrictSubsetOrdering
<1> QED
  BY <1>3, <1>4

(* One that has the empty set, and with a set every one larger by one      *)
(* element, has the whole set.                                             *)
LEMMA FiniteInduction ==
  ASSUME NEW S, IsFiniteSet(S), NEW Good,
         {} \in Good, \A T \in SUBSET S : T \in Good => \A x \in S \ T : T \cup {x} \in Good
  PROVE  S \in Good
<1>1. ASSUME NEW T \in SUBSET S, \A U \in SUBSET T : U # T => U \in Good
      PROVE  T \in Good
  <2>1. CASE T # {}
    <3>1. PICK x : x \in T
      BY <2>1
    <3>2. T \ {x} \in SUBSET S /\ T \ {x} \in Good /\ T = (T \ {x}) \cup {x}
      BY <1>1, <3>1
    <3> QED
      BY <3>1, <3>2
  <2> QED
    BY <2>1
<1>2. \A T \in SUBSET S : T \in Good
  BY <1>1, FiniteDescent
<1> QED
  BY <1>2

(* Of any natural numbers there is a least, and of any things that have    *)
(* one each, a first.                                                      *)
LEMMA LeastNumber ==
  ASSUME NEW S, S \subseteq Nat, S # {}
  PROVE  \E m \in S : \A x \in S : m <= x
<1>1. PICK n \in S : TRUE
  OBVIOUS
<1> DEFINE I == S \cap (0..n)
           Ordered == {T \in SUBSET I : T # {} => \E m \in T : \A x \in T : m <= x}
<1>2. IsFiniteSet(I)
  BY FS_Interval, FS_Subset, 0 \in Int, n \in Int
<1>3. {} \in Ordered
  OBVIOUS
<1>4. ASSUME NEW T \in SUBSET I, T \in Ordered, NEW y \in I \ T PROVE T \cup {y} \in Ordered
  <2>1. CASE T = {}
    BY <2>1
  <2>2. CASE T # {}
    <3>1. PICK m \in T : \A x \in T : m <= x
      BY <1>4, <2>2
    <3>2. PICK k \in T \cup {y} : k = IF y < m THEN y ELSE m
      BY <3>1
    <3>3. \A x \in T \cup {y} : k <= x
      BY <3>1, <3>2
    <3> QED
      BY <3>2, <3>3
  <2> QED
    BY <2>1, <2>2
<1> HIDE DEF Ordered
<1>5. I \in Ordered
  BY <1>2, <1>3, <1>4, FiniteInduction
<1>6. PICK m \in I : \A x \in I : m <= x
  BY <1>1, <1>5 DEF Ordered
<1>7. \A x \in S : m <= x
  BY <1>1, <1>6
<1> QED
  BY <1>6, <1>7

LEMMA GreatestNumber ==
  ASSUME NEW S, IsFiniteSet(S), S \subseteq Nat, S # {}
  PROVE  \E m \in S : \A x \in S : m >= x
<1> DEFINE Good == {T \in SUBSET S : T # {} => \E m \in T : \A x \in T : m >= x}
<1>1. {} \in Good
  OBVIOUS
<1>2. ASSUME NEW T \in SUBSET S, T \in Good, NEW y \in S \ T PROVE T \cup {y} \in Good
  <2>1. CASE T = {}
    BY <2>1
  <2>2. CASE T # {}
    <3>1. PICK m \in T : \A x \in T : m >= x
      BY <1>2, <2>2
    <3>2. PICK k \in T \cup {y} : k = IF y > m THEN y ELSE m
      BY <3>1
    <3>3. \A x \in T \cup {y} : k >= x
      BY <3>1, <3>2
    <3> QED
      BY <3>2, <3>3
  <2> QED
    BY <2>1, <2>2
<1> HIDE DEF Good
<1>3. S \in Good
  BY <1>1, <1>2, FiniteInduction
<1> QED
  BY <1>3 DEF Good

(* What holds of 0, and of a number with the one before it, holds of all.  *)
LEMMA CountedUp ==
  ASSUME NEW N \in Nat, NEW Good, 0 \in Good, \A n \in 1..N : n - 1 \in Good => n \in Good
  PROVE  \A n \in 0..N : n \in Good
<1> DEFINE Bad == {n \in 0..N : n \notin Good}
<1> SUFFICES ASSUME Bad # {} PROVE FALSE
  OBVIOUS
<1>1. PICK m \in Bad : \A n \in Bad : m <= n
  <2>1. Bad \subseteq Nat
    OBVIOUS
  <2> HIDE DEF Bad
  <2> QED
    BY <2>1, LeastNumber
<1>2. m # 0 /\ m \in 1..N /\ m - 1 \in 0..N
  BY <1>1
<1>3. m - 1 \in Good
  BY <1>1, <1>2
<1> QED
  BY <1>1, <1>2, <1>3

LEMMA LeastByRank ==
  ASSUME NEW S, S # {}, NEW rank, \A x \in S : rank[x] \in Nat
  PROVE  \E p \in S : \A q \in S : rank[p] <= rank[q]
<1>1. PICK R : R = {rank[x] : x \in S}
  OBVIOUS
<1>2. PICK m \in R : \A n \in R : m <= n
  BY <1>1, LeastNumber
<1> QED
  BY <1>1, <1>2

-----------------------------------------------------------------------------
(***************************************************************************)
(* A sum is computed by a recursive function on the subsets; that there is *)
(* such a function has to be shown first.                                  *)
(***************************************************************************)
AnyOf(T) == CHOOSE x \in T : TRUE

Summing(f, S, g) ==
  g = [T \in SUBSET S |-> IF T = {} THEN 0 ELSE f[AnyOf(T)] + g[T \ {AnyOf(T)}]]

LEMMA SumDef ==
  ASSUME NEW f, NEW S
  PROVE  SumFunctionOnSet(f, S) = (CHOOSE g : Summing(f, S, g))[S]
  BY DEF SumFunctionOnSet, FoldFunctionOnSet, MapThenFoldSet, Summing, AnyOf

(* Two such functions agree wherever both are defined.                     *)
LEMMA SummingUnique ==
  ASSUME NEW f, NEW S, NEW g, NEW T, NEW h, NEW U \in SUBSET (S \cap T),
         Summing(f, S, g), Summing(f, T, h), IsFiniteSet(U)
  PROVE  g[U] = h[U]
<1> DEFINE Good == {V \in SUBSET U : g[V] = h[V]}
<1>1. \A W \in SUBSET U :
        /\ g[W] = IF W = {} THEN 0 ELSE f[AnyOf(W)] + g[W \ {AnyOf(W)}]
        /\ h[W] = IF W = {} THEN 0 ELSE f[AnyOf(W)] + h[W \ {AnyOf(W)}]
  BY DEF Summing
<1>2. ASSUME NEW W \in SUBSET U, \A V \in SUBSET W : V # W => V \in Good
      PROVE  W \in Good
  <2>1. CASE W = {}
    BY <1>1, <2>1
  <2>2. CASE W # {}
    <3>1. AnyOf(W) \in W
      BY <2>2 DEF AnyOf
    <3>2. W \ {AnyOf(W)} \in Good
      BY <1>2, <3>1
    <3> QED
      BY <1>1, <2>2, <3>2
  <2> QED
    BY <2>1, <2>2
<1> HIDE DEF Good
<1>3. \A W \in SUBSET U : W \in Good
  BY <1>2, FiniteDescent
<1> QED
  BY <1>3 DEF Good

(* There is one for every finite set.                                      *)
LEMMA SummingExists ==
  ASSUME NEW f, NEW S, IsFiniteSet(S)
  PROVE  \E g : Summing(f, S, g)
<1> DEFINE Good == {T \in SUBSET S : \E g : Summing(f, T, g)}
           sum(T) == SumFunctionOnSet(f, T)
<1>1. ASSUME NEW T \in SUBSET S, \A U \in SUBSET T : U # T => U \in Good
      PROVE  T \in Good
  <2> DEFINE g == [U \in SUBSET T |->
                     IF U = {} THEN 0 ELSE f[AnyOf(U)] + sum(U \ {AnyOf(U)})]
  <2>1. ASSUME NEW U \in SUBSET T, U # T PROVE g[U] = sum(U)
    <3>1. PICK h : Summing(f, U, h) /\ sum(U) = h[U]
      <4>1. \E h : Summing(f, U, h)
        BY <1>1, <2>1
      <4>2. Summing(f, U, CHOOSE h : Summing(f, U, h))
        BY <4>1, Zenon
      <4> QED
        BY <4>2, SumDef
    <3>2. h[U] = IF U = {} THEN 0 ELSE f[AnyOf(U)] + h[U \ {AnyOf(U)}]
      BY <3>1 DEF Summing
    <3>3. ASSUME U # {} PROVE h[U \ {AnyOf(U)}] = sum(U \ {AnyOf(U)})
      <4> DEFINE V == U \ {AnyOf(U)}
      <4>1. V \in SUBSET T /\ V # T /\ V \in SUBSET U
        BY <2>1, <3>3
      <4>2. \E k : Summing(f, V, k)
        BY <1>1, <4>1
      <4> HIDE DEF V
      <4>3. PICK k : Summing(f, V, k) /\ sum(V) = k[V]
        <5>1. Summing(f, V, CHOOSE k : Summing(f, V, k))
          BY <4>2, Zenon
        <5> QED
          BY <5>1, SumDef
      <4>4. IsFiniteSet(V)
        BY <4>1, FS_Subset
      <4>5. h[V] = k[V]
        BY <3>1, <4>1, <4>3, <4>4, SummingUnique
      <4> QED
        BY <4>3, <4>5 DEF V
    <3> QED
      BY <3>1, <3>2, <3>3
  <2>2. \A U \in SUBSET T : U # {} => g[U \ {AnyOf(U)}] = sum(U \ {AnyOf(U)})
    <3>1. \A U : U # {} => AnyOf(U) \in U
      BY DEF AnyOf
    <3>2. \A U \in SUBSET T : U # {} => U \ {AnyOf(U)} \in SUBSET T /\ U \ {AnyOf(U)} # T
      BY <3>1
    <3> HIDE DEF g, sum
    <3> QED
      BY <2>1, <3>2
  <2>3. \A U \in SUBSET T :
          g[U] = IF U = {} THEN 0 ELSE f[AnyOf(U)] + g[U \ {AnyOf(U)}]
    BY <2>2
  <2>4. Summing(f, T, g)
    <3>1. g = [U \in SUBSET T |-> g[U]]
      OBVIOUS
    <3> HIDE DEF g
    <3> QED
      BY <2>3, <3>1 DEF Summing
  <2> QED
    BY <2>4
<1> HIDE DEF Good
<1>2. \A T \in SUBSET S : T \in Good
  BY <1>1, FiniteDescent
<1> QED
  BY <1>2 DEF Good

-----------------------------------------------------------------------------
(* The laws of sums.                                                       *)

(* A sum is taken one element at a time, in an order that CHOOSE fixes.    *)
LEMMA SumStep ==
  ASSUME NEW f, NEW S, IsFiniteSet(S)
  PROVE  SumFunctionOnSet(f, S) =
           IF S = {} THEN 0
           ELSE f[AnyOf(S)] + SumFunctionOnSet(f, S \ {AnyOf(S)})
<1>1. PICK g : Summing(f, S, g) /\ SumFunctionOnSet(f, S) = g[S]
  <2>1. Summing(f, S, CHOOSE g : Summing(f, S, g))
    BY SummingExists, Zenon
  <2> QED
    BY <2>1, SumDef
<1>2. g[S] = IF S = {} THEN 0 ELSE f[AnyOf(S)] + g[S \ {AnyOf(S)}]
  BY <1>1 DEF Summing
<1>3. PICK T : T = S \ {AnyOf(S)}
  OBVIOUS
<1>4. T \in SUBSET (S \cap T) /\ IsFiniteSet(T)
  BY <1>3, FS_Subset
<1>5. PICK h : Summing(f, T, h) /\ SumFunctionOnSet(f, T) = h[T]
  <2>1. Summing(f, T, CHOOSE h : Summing(f, T, h))
    BY <1>4, SummingExists, Zenon
  <2> QED
    BY <2>1, SumDef
<1>6. g[T] = h[T]
  BY <1>1, <1>4, <1>5, SummingUnique
<1> QED
  BY <1>1, <1>2, <1>3, <1>5, <1>6

LEMMA SumEmpty == \A f : SumFunctionOnSet(f, {}) = 0
  BY SumStep, FS_EmptySet

LEMMA SumInt ==
  ASSUME NEW f, NEW S, IsFiniteSet(S), \A x \in S : f[x] \in Int
  PROVE  SumFunctionOnSet(f, S) \in Int
<1> DEFINE Good == {T \in SUBSET S : SumFunctionOnSet(f, T) \in Int}
<1>1. ASSUME NEW T \in SUBSET S, \A U \in SUBSET T : U # T => U \in Good
      PROVE  T \in Good
  <2>1. IsFiniteSet(T)
    BY FS_Subset
  <2>2. CASE T = {}
    BY <2>2, SumEmpty
  <2>3. CASE T # {}
    <3>1. AnyOf(T) \in T
      BY <2>3 DEF AnyOf
    <3>2. T \ {AnyOf(T)} \in Good
      BY <1>1, <3>1
    <3>3. SumFunctionOnSet(f, T) = f[AnyOf(T)] + SumFunctionOnSet(f, T \ {AnyOf(T)})
      BY <2>1, <2>3, SumStep
    <3> QED
      BY <3>1, <3>2, <3>3
  <2> QED
    BY <2>2, <2>3
<1> HIDE DEF Good
<1>2. S \in Good
  BY <1>1, FiniteDescent
<1> QED
  BY <1>2 DEF Good

(* The order does not matter.                                              *)
LEMMA SumRemove ==
  ASSUME NEW f, NEW S, IsFiniteSet(S), \A x \in S : f[x] \in Int, NEW y \in S
  PROVE  SumFunctionOnSet(f, S) = f[y] + SumFunctionOnSet(f, S \ {y})
<1> DEFINE sum(T) == SumFunctionOnSet(f, T)
           Good == {T \in SUBSET S : \A z \in T : sum(T) = f[z] + sum(T \ {z})}
<1>1. \A T \in SUBSET S : IsFiniteSet(T) /\ sum(T) \in Int
  BY FS_Subset, SumInt
<1>2. ASSUME NEW T \in SUBSET S, \A U \in SUBSET T : U # T => U \in Good
      PROVE  T \in Good
  <2> SUFFICES ASSUME NEW z \in T PROVE sum(T) = f[z] + sum(T \ {z})
    OBVIOUS
  <2>1. PICK c : c = AnyOf(T)
    OBVIOUS
  <2>2. c \in T /\ sum(T) = f[c] + sum(T \ {c})
    BY <1>1, <2>1, SumStep DEF AnyOf
  <2>3. CASE c # z
    <3>1. T \ {c} \in Good /\ T \ {z} \in Good
      BY <1>2, <2>2
    <3>2. z \in T \ {c} /\ c \in T \ {z}
      BY <2>2, <2>3
    <3>3. PICK U : U = (T \ {c}) \ {z} /\ U = (T \ {z}) \ {c} /\ U \in SUBSET S
      OBVIOUS
    <3>4. sum(T \ {c}) = f[z] + sum(U)
      BY <3>1, <3>2, <3>3
    <3>5. sum(T \ {z}) = f[c] + sum(U)
      BY <3>1, <3>2, <3>3
    <3>6. f[c] \in Int /\ f[z] \in Int /\ sum(U) \in Int
      BY <1>1, <2>2, <3>3
    <3> HIDE DEF sum
    <3> QED
      BY <2>2, <3>4, <3>5, <3>6
  <2> QED
    BY <2>2, <2>3
<1> HIDE DEF Good
<1>3. S \in Good
  BY <1>2, FiniteDescent
<1> QED
  BY <1>3 DEF Good

LEMMA SumInsert ==
  ASSUME NEW f, NEW S, IsFiniteSet(S), NEW y, y \notin S,
         \A x \in S \cup {y} : f[x] \in Int
  PROVE  SumFunctionOnSet(f, S \cup {y}) = f[y] + SumFunctionOnSet(f, S)
<1>1. IsFiniteSet(S \cup {y}) /\ (S \cup {y}) \ {y} = S
  BY FS_AddElement
<1>2. PICK T : T = S \cup {y}
  OBVIOUS
<1>3. SumFunctionOnSet(f, T) = f[y] + SumFunctionOnSet(f, T \ {y})
  BY <1>1, <1>2, SumRemove
<1> QED
  BY <1>1, <1>2, <1>3

LEMMA SumNat ==
  ASSUME NEW f, NEW S, IsFiniteSet(S), \A x \in S : f[x] \in Nat
  PROVE  SumFunctionOnSet(f, S) \in Nat
<1> DEFINE Good == {T \in SUBSET S : SumFunctionOnSet(f, T) \in Nat}
<1>1. {} \in Good
  BY SumEmpty
<1>2. ASSUME NEW T \in SUBSET S, T \in Good, NEW x \in S \ T PROVE T \cup {x} \in Good
  <2>1. SumFunctionOnSet(f, T \cup {x}) = f[x] + SumFunctionOnSet(f, T)
    BY SumInsert, FS_Subset
  <2> QED
    BY <1>2, <2>1
<1> HIDE DEF Good
<1>3. S \in Good
  BY <1>1, <1>2, FiniteInduction
<1> QED
  BY <1>3 DEF Good

(* Only the values on the set matter.                                      *)
LEMMA SumSame ==
  ASSUME NEW f, NEW g, NEW S, IsFiniteSet(S),
         \A x \in S : f[x] \in Int /\ f[x] = g[x]
  PROVE  SumFunctionOnSet(f, S) = SumFunctionOnSet(g, S)
<1> DEFINE Good == {T \in SUBSET S : SumFunctionOnSet(f, T) = SumFunctionOnSet(g, T)}
<1>1. {} \in Good
  BY SumEmpty
<1>2. ASSUME NEW T \in SUBSET S, T \in Good, NEW x \in S \ T PROVE T \cup {x} \in Good
  <2>1. IsFiniteSet(T)
    BY FS_Subset
  <2>2. SumFunctionOnSet(f, T \cup {x}) = f[x] + SumFunctionOnSet(f, T)
    BY <2>1, SumInsert
  <2>3. SumFunctionOnSet(g, T \cup {x}) = g[x] + SumFunctionOnSet(g, T)
    BY <2>1, SumInsert
  <2> QED
    BY <1>2, <2>2, <2>3
<1> HIDE DEF Good
<1>3. S \in Good
  BY <1>1, <1>2, FiniteInduction
<1> QED
  BY <1>3 DEF Good

LEMMA SumOfSums ==
  ASSUME NEW f, NEW g, NEW h, NEW S, IsFiniteSet(S),
         \A x \in S : f[x] \in Int /\ g[x] \in Int /\ h[x] = f[x] + g[x]
  PROVE  SumFunctionOnSet(h, S) = SumFunctionOnSet(f, S) + SumFunctionOnSet(g, S)
<1> DEFINE Good == {T \in SUBSET S : SumFunctionOnSet(h, T) =
                                       SumFunctionOnSet(f, T) + SumFunctionOnSet(g, T)}
<1>1. {} \in Good
  BY SumEmpty
<1>2. ASSUME NEW T \in SUBSET S, T \in Good, NEW x \in S \ T PROVE T \cup {x} \in Good
  <2>1. IsFiniteSet(T)
    BY FS_Subset
  <2>2. SumFunctionOnSet(f, T \cup {x}) = f[x] + SumFunctionOnSet(f, T)
    BY <2>1, SumInsert
  <2>3. SumFunctionOnSet(g, T \cup {x}) = g[x] + SumFunctionOnSet(g, T)
    BY <2>1, SumInsert
  <2>4. SumFunctionOnSet(h, T \cup {x}) = h[x] + SumFunctionOnSet(h, T)
    BY <2>1, SumInsert
  <2>5. SumFunctionOnSet(f, T) \in Int /\ SumFunctionOnSet(g, T) \in Int
    BY <2>1, SumInt
  <2> QED
    BY <1>2, <2>2, <2>3, <2>4, <2>5
<1> HIDE DEF Good
<1>3. S \in Good
  BY <1>1, <1>2, FiniteInduction
<1> QED
  BY <1>3 DEF Good

(* Sums of terms that are no larger, and of terms of which one is larger,  *)
(* by one.                                                                 *)
LEMMA SumAtMost ==
  ASSUME NEW f, NEW g, NEW S, IsFiniteSet(S),
         \A x \in S : f[x] \in Int /\ g[x] \in Int /\ f[x] <= g[x]
  PROVE  SumFunctionOnSet(f, S) <= SumFunctionOnSet(g, S)
<1>1. PICK h : h = [x \in S |-> g[x] - f[x]]
  OBVIOUS
<1>2. \A x \in S : h[x] \in Nat /\ h[x] \in Int /\ g[x] = f[x] + h[x]
  BY <1>1
<1>3. SumFunctionOnSet(g, S) = SumFunctionOnSet(f, S) + SumFunctionOnSet(h, S)
  BY <1>2, SumOfSums
<1>4. SumFunctionOnSet(h, S) \in Nat /\ SumFunctionOnSet(f, S) \in Int
  BY <1>2, SumNat, SumInt
<1> QED
  BY <1>3, <1>4

LEMMA SumOneMore ==
  ASSUME NEW f, NEW g, NEW S, IsFiniteSet(S), NEW y \in S,
         \A x \in S : f[x] \in Int /\ g[x] \in Int,
         \A x \in S \ {y} : f[x] <= g[x],
         f[y] <= g[y] + 1
  PROVE  SumFunctionOnSet(f, S) <= SumFunctionOnSet(g, S) + 1
<1>1. IsFiniteSet(S \ {y})
  BY FS_RemoveElement
<1>2. SumFunctionOnSet(f, S \ {y}) <= SumFunctionOnSet(g, S \ {y})
  BY <1>1, SumAtMost
<1>3. SumFunctionOnSet(f, S \ {y}) \in Int /\ SumFunctionOnSet(g, S \ {y}) \in Int
  BY <1>1, SumInt
<1>4. /\ SumFunctionOnSet(f, S) = f[y] + SumFunctionOnSet(f, S \ {y})
      /\ SumFunctionOnSet(g, S) = g[y] + SumFunctionOnSet(g, S \ {y})
  BY SumRemove
<1> QED
  BY <1>2, <1>3, <1>4

LEMMA SumSplit ==
  ASSUME NEW f, NEW S, NEW T, IsFiniteSet(S), IsFiniteSet(T), S \cap T = {},
         \A x \in S \cup T : f[x] \in Int
  PROVE  SumFunctionOnSet(f, S \cup T) = SumFunctionOnSet(f, S) + SumFunctionOnSet(f, T)
<1> DEFINE Good == {U \in SUBSET T : SumFunctionOnSet(f, S \cup U) =
                                       SumFunctionOnSet(f, S) + SumFunctionOnSet(f, U)}
<1>0. SumFunctionOnSet(f, S) \in Int
  BY SumInt
<1>1. {} \in Good
  BY <1>0, SumEmpty, S \cup {} = S
<1>2. ASSUME NEW U \in SUBSET T, U \in Good, NEW x \in T \ U PROVE U \cup {x} \in Good
  <2>1. IsFiniteSet(U) /\ IsFiniteSet(S \cup U)
    BY FS_Subset, FS_Union
  <2>2. SumFunctionOnSet(f, U \cup {x}) = f[x] + SumFunctionOnSet(f, U)
    BY <2>1, SumInsert
  <2>3. SumFunctionOnSet(f, S \cup (U \cup {x})) = f[x] + SumFunctionOnSet(f, S \cup U)
    <3>1. S \cup (U \cup {x}) = (S \cup U) \cup {x} /\ x \notin S \cup U
      OBVIOUS
    <3> QED
      BY <2>1, <3>1, SumInsert
  <2>4. SumFunctionOnSet(f, U) \in Int
    BY <2>1, SumInt
  <2> QED
    BY <1>0, <1>2, <2>2, <2>3, <2>4
<1> HIDE DEF Good
<1>3. T \in Good
  BY <1>1, <1>2, FiniteInduction
<1> QED
  BY <1>3 DEF Good

(* Nothing is added where there is nothing.                                *)
LEMMA SumZero ==
  ASSUME NEW f, NEW S, IsFiniteSet(S), \A x \in S : f[x] = 0
  PROVE  SumFunctionOnSet(f, S) = 0
<1> DEFINE Good == {T \in SUBSET S : SumFunctionOnSet(f, T) = 0}
<1>1. {} \in Good
  BY SumEmpty
<1>2. ASSUME NEW T \in SUBSET S, T \in Good, NEW x \in S \ T PROVE T \cup {x} \in Good
  <2>1. SumFunctionOnSet(f, T \cup {x}) = f[x] + SumFunctionOnSet(f, T)
    BY SumInsert, FS_Subset
  <2> QED
    BY <1>2, <2>1
<1> HIDE DEF Good
<1>3. S \in Good
  BY <1>1, <1>2, FiniteInduction
<1> QED
  BY <1>3 DEF Good

LEMMA SumExtend ==
  ASSUME NEW f, NEW g, NEW S, IsFiniteSet(S), NEW T \in SUBSET S,
         \A x \in T : f[x] \in Int /\ g[x] = f[x],
         \A x \in S \ T : g[x] = 0
  PROVE  SumFunctionOnSet(g, S) = SumFunctionOnSet(f, T)
<1>1. IsFiniteSet(T) /\ IsFiniteSet(S \ T)
  BY FS_Subset
<1>2. PICK U : U = S \ T
  OBVIOUS
<1>3. SumFunctionOnSet(g, U) = 0
  BY <1>1, <1>2, SumZero
<1>4. SumFunctionOnSet(g, T) = SumFunctionOnSet(f, T)
  BY <1>1, SumSame
<1>5. SumFunctionOnSet(f, T) \in Int
  BY <1>1, SumInt
<1>6. S = T \cup U /\ T \cap U = {} /\ IsFiniteSet(U)
  BY <1>1, <1>2
<1>7. \A x \in T \cup U : g[x] \in Int
  BY <1>2
<1>8. SumFunctionOnSet(g, T \cup U) = SumFunctionOnSet(g, T) + SumFunctionOnSet(g, U)
  BY <1>1, <1>6, <1>7, SumSplit
<1> QED
  BY <1>3, <1>4, <1>5, <1>6, <1>8

(* One value changes.                                                      *)
LEMMA SumChange ==
  ASSUME NEW f, NEW g, NEW S, IsFiniteSet(S), NEW y \in S,
         \A x \in S : f[x] \in Int /\ g[x] \in Int,
         \A x \in S \ {y} : g[x] = f[x]
  PROVE  SumFunctionOnSet(g, S) = SumFunctionOnSet(f, S) + (g[y] - f[y])
<1>1. PICK T : T = S \ {y} /\ IsFiniteSet(T)
  BY FS_Subset
<1>2. SumFunctionOnSet(f, S) = f[y] + SumFunctionOnSet(f, T)
  BY <1>1, SumRemove
<1>3. SumFunctionOnSet(g, S) = g[y] + SumFunctionOnSet(g, T)
  BY <1>1, SumRemove
<1>4. SumFunctionOnSet(f, T) = SumFunctionOnSet(g, T) /\ SumFunctionOnSet(f, T) \in Int
  BY <1>1, SumSame, SumInt
<1> QED
  BY <1>2, <1>3, <1>4

(* A part of a sum of numbers, and a sum with a term that is not zero.     *)
LEMMA SumPart ==
  ASSUME NEW f, NEW S, IsFiniteSet(S), NEW T \in SUBSET S, \A x \in S : f[x] \in Nat
  PROVE  SumFunctionOnSet(f, T) <= SumFunctionOnSet(f, S)
<1>1. PICK U : U = S \ T
  OBVIOUS
<1>2. IsFiniteSet(T) /\ IsFiniteSet(U) /\ T \cap U = {} /\ S = T \cup U
  BY <1>1, FS_Subset
<1>3. SumFunctionOnSet(f, T \cup U) = SumFunctionOnSet(f, T) + SumFunctionOnSet(f, U)
  BY <1>2, SumSplit
<1>4. SumFunctionOnSet(f, T) \in Nat /\ SumFunctionOnSet(f, U) \in Nat
  BY <1>2, SumNat
<1> QED
  BY <1>2, <1>3, <1>4

LEMMA SumPositive ==
  ASSUME NEW f, NEW S, IsFiniteSet(S), \A x \in S : f[x] \in Nat, NEW y \in S, f[y] > 0
  PROVE  SumFunctionOnSet(f, S) > 0
<1>1. SumFunctionOnSet(f, S) = f[y] + SumFunctionOnSet(f, S \ {y})
  BY SumRemove
<1>2. SumFunctionOnSet(f, S \ {y}) \in Nat
  BY FS_RemoveElement, SumNat
<1> QED
  BY <1>1, <1>2

(* Ones are counted.                                                       *)
LEMMA SumOnes ==
  ASSUME NEW f, NEW S, IsFiniteSet(S), \A x \in S : f[x] = 1
  PROVE  SumFunctionOnSet(f, S) = Cardinality(S)
<1> DEFINE Good == {T \in SUBSET S : SumFunctionOnSet(f, T) = Cardinality(T)}
<1>1. {} \in Good
  BY SumEmpty, FS_EmptySet
<1>2. ASSUME NEW T \in SUBSET S, T \in Good, NEW x \in S \ T PROVE T \cup {x} \in Good
  <2>1. IsFiniteSet(T) /\ Cardinality(T) \in Nat
    BY FS_Subset, FS_CardinalityType
  <2>2. SumFunctionOnSet(f, T \cup {x}) = f[x] + SumFunctionOnSet(f, T)
    BY <2>1, SumInsert
  <2>3. Cardinality(T \cup {x}) = Cardinality(T) + 1
    BY <2>1, FS_AddElement
  <2> QED
    BY <1>2, <2>1, <2>2, <2>3
<1> HIDE DEF Good
<1>3. S \in Good
  BY <1>1, <1>2, FiniteInduction
<1> QED
  BY <1>3 DEF Good

(* Terms that are all the same, and terms that are no larger than that.     *)
LEMMA SumConst ==
  ASSUME NEW f, NEW S, IsFiniteSet(S), NEW k \in Nat, \A x \in S : f[x] = k
  PROVE  SumFunctionOnSet(f, S) = Cardinality(S) * k
<1> DEFINE Good == {T \in SUBSET S : SumFunctionOnSet(f, T) = Cardinality(T) * k}
<1>1. {} \in Good
  BY SumEmpty, FS_EmptySet
<1>2. ASSUME NEW T \in SUBSET S, T \in Good, NEW x \in S \ T PROVE T \cup {x} \in Good
  <2>1. IsFiniteSet(T)
    BY FS_Subset
  <2>2. PICK c \in Nat : c = Cardinality(T)
    BY <2>1, FS_CardinalityType
  <2>3. SumFunctionOnSet(f, T \cup {x}) = f[x] + SumFunctionOnSet(f, T)
    BY <2>1, SumInsert
  <2>4. Cardinality(T \cup {x}) = c + 1
    BY <2>1, <2>2, FS_AddElement
  <2>5. (c + 1) * k = k + c * k
    BY SMT
  <2> QED
    BY <1>2, <2>2, <2>3, <2>4, <2>5
<1> HIDE DEF Good
<1>3. S \in Good
  BY <1>1, <1>2, FiniteInduction
<1> QED
  BY <1>3 DEF Good

LEMMA SumBound ==
  ASSUME NEW D, IsFiniteSet(D), NEW k \in Nat, NEW f \in [D -> 0..k], NEW S \in SUBSET D
  PROVE  SumFunctionOnSet(f, S) \in Nat /\ SumFunctionOnSet(f, S) <= Cardinality(D) * k
<1>1. IsFiniteSet(S) /\ \A x \in D : f[x] \in Nat /\ f[x] <= k
  BY FS_Subset
<1>2. SumFunctionOnSet(f, S) \in Nat /\ SumFunctionOnSet(f, D) \in Nat
  BY <1>1, SumNat
<1>3. SumFunctionOnSet(f, S) <= SumFunctionOnSet(f, D)
  BY <1>1, SumPart
<1>4. PICK g : g = [x \in D |-> k]
  OBVIOUS
<1>5. \A x \in D : g[x] = k /\ g[x] \in Int /\ f[x] \in Int /\ f[x] <= g[x]
  BY <1>1, <1>4
<1>6. SumFunctionOnSet(f, D) <= SumFunctionOnSet(g, D)
  BY <1>5, SumAtMost
<1>7. SumFunctionOnSet(g, D) = Cardinality(D) * k
  BY <1>5, SumConst
<1>8. Cardinality(D) * k \in Nat
  <2>1. PICK c \in Nat : c = Cardinality(D)
    BY FS_CardinalityType
  <2> QED
    BY <2>1, SMT
<1> QED
  BY <1>2, <1>3, <1>6, <1>7, <1>8

(* The image of a finite set.                                              *)
LEMMA ImageFinite ==
  ASSUME NEW h, NEW S, IsFiniteSet(S)
  PROVE  IsFiniteSet({h[x] : x \in S})
<1> DEFINE Good == {T \in SUBSET S : IsFiniteSet({h[x] : x \in T})}
<1>1. {} \in Good
  BY FS_EmptySet, {h[x] : x \in {}} = {}
<1>2. ASSUME NEW T \in SUBSET S, T \in Good, NEW x \in S \ T PROVE T \cup {x} \in Good
  <2>1. {h[y] : y \in T \cup {x}} = {h[y] : y \in T} \cup {h[x]}
    OBVIOUS
  <2>2. PICK V : V = {h[y] : y \in T}
    OBVIOUS
  <2>3. IsFiniteSet(V \cup {h[x]})
    BY <1>2, <2>2, FS_AddElement
  <2> QED
    BY <2>1, <2>2, <2>3
<1> HIDE DEF Good
<1>3. S \in Good
  BY <1>1, <1>2, FiniteInduction
<1> QED
  BY <1>3 DEF Good

(* Terms gathered in parts, each with a sum of its own.                    *)
LEMMA SumOfParts ==
  ASSUME NEW R, IsFiniteSet(R), NEW D, IsFiniteSet(D), NEW f, NEW parts, NEW sum,
         \A i \in D : f[i] \in Int /\ \E r \in R : i \in parts[r],
         \A r \in R : parts[r] \in SUBSET D /\ sum[r] = SumFunctionOnSet(f, parts[r]),
         \A r, s \in R : r # s => parts[r] \cap parts[s] = {}
  PROVE  SumFunctionOnSet(sum, R) = SumFunctionOnSet(f, D)
<1> DEFINE All(T) == UNION {parts[r] : r \in T}
           Good == {T \in SUBSET R : SumFunctionOnSet(sum, T) = SumFunctionOnSet(f, All(T))}
<1>1. ASSUME NEW A \in SUBSET D PROVE IsFiniteSet(A) /\ SumFunctionOnSet(f, A) \in Int
  <2>1. IsFiniteSet(A)
    BY FS_Subset
  <2> QED
    BY <2>1, SumInt
<1>2. \A T \in SUBSET R : All(T) \in SUBSET D
  OBVIOUS
<1>3. {} \in Good
  BY SumEmpty, All({}) = {}
<1>4. ASSUME NEW T \in SUBSET R, T \in Good, NEW r \in R \ T PROVE T \cup {r} \in Good
  <2>1. All(T \cup {r}) = All(T) \cup parts[r] /\ All(T) \cap parts[r] = {}
    OBVIOUS
  <2>2. PICK A, B \in SUBSET D : A = All(T) /\ B = parts[r]
    BY <1>2
  <2>3. SumFunctionOnSet(f, A \cup B) = SumFunctionOnSet(f, A) + SumFunctionOnSet(f, B)
    BY <1>1, <2>1, <2>2, SumSplit
  <2>4. SumFunctionOnSet(sum, T \cup {r}) = sum[r] + SumFunctionOnSet(sum, T)
    <3>1. \A x \in R : sum[x] \in Int
      BY <1>1
    <3> QED
      BY <3>1, FS_Subset, SumInsert
  <2>5. SumFunctionOnSet(sum, T) = SumFunctionOnSet(f, A) /\ sum[r] = SumFunctionOnSet(f, B)
    BY <1>4, <2>2
  <2>6. SumFunctionOnSet(f, A) \in Int /\ SumFunctionOnSet(f, B) \in Int
    BY <1>1
  <2>7. SumFunctionOnSet(sum, T \cup {r}) = SumFunctionOnSet(f, A \cup B)
    BY <2>3, <2>4, <2>5, <2>6
  <2> QED
    BY <2>1, <2>2, <2>7
<1> HIDE DEF Good
<1>5. R \in Good
  BY <1>3, <1>4, FiniteInduction
<1>6. All(R) = D
  OBVIOUS
<1> QED
  BY <1>5, <1>6 DEF Good

(* Each term of one sum has a term of its own in the other, no smaller.    *)
LEMMA SumMatched ==
  ASSUME NEW f, NEW S, IsFiniteSet(S), NEW g, NEW T, IsFiniteSet(T), NEW h,
         \A x \in S : h[x] \in T /\ f[x] \in Int /\ f[x] <= g[h[x]],
         \A y \in T : g[y] \in Nat,
         \A x, y \in S : h[x] = h[y] => x = y
  PROVE  SumFunctionOnSet(f, S) <= SumFunctionOnSet(g, T)
<1> DEFINE Image(U) == {h[x] : x \in U}
           Good == {U \in SUBSET S : SumFunctionOnSet(f, U) <= SumFunctionOnSet(g, Image(U))}
<1>1. \A U \in SUBSET S : /\ IsFiniteSet(U) /\ Image(U) \in SUBSET T /\ IsFiniteSet(Image(U))
                          /\ SumFunctionOnSet(f, U) \in Int
                          /\ SumFunctionOnSet(g, Image(U)) \in Nat
  <2> SUFFICES ASSUME NEW U \in SUBSET S
               PROVE  /\ IsFiniteSet(U) /\ Image(U) \in SUBSET T /\ IsFiniteSet(Image(U))
                      /\ SumFunctionOnSet(f, U) \in Int
                      /\ SumFunctionOnSet(g, Image(U)) \in Nat
    OBVIOUS
  <2>1. IsFiniteSet(U) /\ Image(U) \in SUBSET T
    BY FS_Subset
  <2>2. PICK V : V = Image(U)
    OBVIOUS
  <2>3. IsFiniteSet(V) /\ V \in SUBSET T
    BY <2>1, <2>2, FS_Subset
  <2>4. SumFunctionOnSet(g, V) \in Nat
    BY <2>3, SumNat
  <2>5. SumFunctionOnSet(f, U) \in Int
    BY <2>1, SumInt
  <2> QED
    BY <2>1, <2>2, <2>3, <2>4, <2>5
<1>2. {} \in Good
  BY SumEmpty, Image({}) = {}
<1>3. ASSUME NEW U \in SUBSET S, U \in Good, NEW x \in S \ U PROVE U \cup {x} \in Good
  <2>1. PICK V : V = Image(U)
    OBVIOUS
  <2>2. Image(U \cup {x}) = V \cup {h[x]} /\ h[x] \notin V /\ V \in SUBSET T /\ h[x] \in T
    BY <2>1
  <2>3. SumFunctionOnSet(f, U \cup {x}) = f[x] + SumFunctionOnSet(f, U)
    BY <1>1, SumInsert
  <2>4. IsFiniteSet(V) /\ SumFunctionOnSet(g, V) \in Nat /\ SumFunctionOnSet(f, U) \in Int
    BY <1>1, <2>1, Zenon
  <2>5. SumFunctionOnSet(g, V \cup {h[x]}) = g[h[x]] + SumFunctionOnSet(g, V)
    BY <2>2, <2>4, SumInsert
  <2>6. SumFunctionOnSet(f, U) <= SumFunctionOnSet(g, V)
    BY <1>3, <2>1
  <2>7. SumFunctionOnSet(f, U \cup {x}) <= SumFunctionOnSet(g, V \cup {h[x]})
    BY <2>2, <2>3, <2>4, <2>5, <2>6
  <2> QED
    BY <2>2, <2>7
<1> HIDE DEF Good
<1>4. S \in Good
  BY <1>2, <1>3, FiniteInduction
<1>5. SumFunctionOnSet(f, S) <= SumFunctionOnSet(g, Image(S))
  BY <1>4 DEF Good
<1>6. PICK V : V = Image(S)
  OBVIOUS
<1>7. SumFunctionOnSet(g, V) <= SumFunctionOnSet(g, T)
  BY <1>1, <1>6, SumPart
<1>8. SumFunctionOnSet(g, T) \in Nat
  BY SumNat
<1>9. SumFunctionOnSet(g, V) \in Nat /\ SumFunctionOnSet(f, S) \in Int
  BY <1>1, <1>6, Zenon
<1>10. SumFunctionOnSet(f, S) <= SumFunctionOnSet(g, V)
  BY <1>5, <1>6
<1> QED
  BY <1>7, <1>8, <1>9, <1>10

LEMMA SumSingle ==
  ASSUME NEW f, NEW x, f[x] \in Int
  PROVE  SumFunctionOnSet(f, {x}) = f[x]
<1>1. IsFiniteSet({})
  BY FS_EmptySet
<1>2. SumFunctionOnSet(f, {} \cup {x}) = f[x] + SumFunctionOnSet(f, {})
  BY <1>1, SumInsert
<1>3. {} \cup {x} = {x}
  OBVIOUS
<1> QED
  BY <1>2, <1>3, SumEmpty

(* Terms that are each in some part, perhaps in several.                   *)
LEMMA SumCovered ==
  ASSUME NEW R, IsFiniteSet(R), NEW D, IsFiniteSet(D), NEW f, NEW parts, NEW sum,
         \A i \in D : f[i] \in Nat /\ \E r \in R : i \in parts[r],
         \A r \in R : parts[r] \in SUBSET D /\ sum[r] = SumFunctionOnSet(f, parts[r])
  PROVE  SumFunctionOnSet(f, D) <= SumFunctionOnSet(sum, R)
<1>1. PICK owner : owner = [i \in D |-> CHOOSE r \in R : i \in parts[r]]
  OBVIOUS
<1>2. \A i \in D : owner[i] \in R /\ i \in parts[owner[i]]
  BY <1>1
<1>3. PICK owned : owned = [r \in R |-> {i \in D : owner[i] = r}]
  OBVIOUS
<1>4. PICK less : less = [r \in R |-> SumFunctionOnSet(f, owned[r])]
  OBVIOUS
<1>5. /\ \A i \in D : f[i] \in Int /\ \E r \in R : i \in owned[r]
      /\ \A r \in R : owned[r] \in SUBSET D /\ owned[r] \subseteq parts[r]
                       /\ less[r] = SumFunctionOnSet(f, owned[r])
      /\ \A r, s \in R : r # s => owned[r] \cap owned[s] = {}
  BY <1>2, <1>3, <1>4
<1>6. SumFunctionOnSet(less, R) = SumFunctionOnSet(f, D)
  BY <1>5, SumOfParts
<1>7. ASSUME NEW r \in R
      PROVE  less[r] \in Int /\ sum[r] \in Int /\ less[r] <= sum[r]
  <2>1. PICK P, Q : P = parts[r] /\ Q = owned[r]
    OBVIOUS
  <2>2. P \in SUBSET D /\ Q \in SUBSET P /\ Q \in SUBSET D
    BY <1>5, <2>1
  <2>3. IsFiniteSet(P) /\ IsFiniteSet(Q) /\ \A i \in P : f[i] \in Nat
    BY <2>2, FS_Subset
  <2>4. SumFunctionOnSet(f, Q) <= SumFunctionOnSet(f, P)
    BY <2>2, <2>3, SumPart
  <2>5. SumFunctionOnSet(f, P) \in Nat /\ SumFunctionOnSet(f, Q) \in Nat
    BY <2>2, <2>3, SumNat
  <2> QED
    BY <1>5, <2>1, <2>4, <2>5
<1>8. SumFunctionOnSet(less, R) <= SumFunctionOnSet(sum, R)
  BY <1>7, SumAtMost
<1> QED
  BY <1>6, <1>8
=============================================================================
