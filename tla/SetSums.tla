------------------------------- MODULE SetSums -------------------------------
(***************************************************************************)
(* Sums over finite sets: the facts about SumFunctionOnSet that the proofs *)
(* about allocations and balances need.  The library's induction theorems  *)
(* take an operator; here induction over a finite set is a statement about *)
(* a set of sets, which follows from the well-foundedness of inclusion.    *)
(***************************************************************************)
EXTENDS Integers, FiniteSetTheorems, WellFoundedInduction, TLAPS

LEMMA SubsetInduction ==
  ASSUME NEW S, IsFiniteSet(S), NEW P,
         \A T \in SUBSET S : (\A U \in SUBSET T : U # T => U \in P) => T \in P
  PROVE  SUBSET S \subseteq P
<1> DEFINE bad == {T \in SUBSET S : T \notin P}
<1>1. IsWellFoundedOn(StrictSubsetOrdering(S), SUBSET S)
  BY FS_StrictSubsetOrderingWellFounded, FS_FiniteSubsetsOfFinite
<1>2. SUFFICES ASSUME bad # {} PROVE FALSE
  OBVIOUS
<1>3. \E T \in bad : \A U \in bad : <<U, T>> \notin StrictSubsetOrdering(S)
  <2>1. bad \subseteq SUBSET S  OBVIOUS
  <2> HIDE DEF bad
  <2> QED  BY <1>1, <1>2, <2>1, WFMin
<1>4. PICK T \in bad : \A U \in bad : <<U, T>> \notin StrictSubsetOrdering(S)
  BY <1>3
<1>5. ASSUME NEW U \in SUBSET T, U # T PROVE U \in P
  <2>1. U \in SUBSET S /\ T \in SUBSET S  OBVIOUS
  <2>2. <<U, T>> \in StrictSubsetOrdering(S)  BY <1>5, <2>1 DEF StrictSubsetOrdering
  <2> QED  BY <1>4, <2>1, <2>2
<1> QED  BY <1>5

LEMMA SetInduction ==
  ASSUME NEW S, IsFiniteSet(S), NEW P, {} \in P,
         \A T \in SUBSET S, x \in S : T \in P /\ x \notin T => T \cup {x} \in P
  PROVE  S \in P
<1>1. ASSUME NEW T \in SUBSET S, \A U \in SUBSET T : U # T => U \in P PROVE T \in P
  <2>1. CASE T = {}  BY <2>1
  <2>2. CASE T # {}
    <3>1. PICK x \in T : TRUE  BY <2>2
    <3>2. T \ {x} \in P /\ T \ {x} \in SUBSET S /\ x \in S /\ T = (T \ {x}) \cup {x}
      BY <1>1
    <3>3. (T \ {x}) \cup {x} \in P  BY <3>2
    <3> QED  BY <3>2, <3>3
  <2> QED  BY <2>1, <2>2
<1>2. SUBSET S \subseteq P  BY <1>1, SubsetInduction
<1> QED  BY <1>2

-----------------------------------------------------------------------------
(* The recursion of SumFunctionOnSet. *)

Chosen(s) == CHOOSE x \in s : TRUE

Sums(f, S, g) ==
    g = [s \in SUBSET S |-> IF s = {} THEN 0 ELSE f[Chosen(s)] + g[s \ {Chosen(s)}]]

LEMMA SumDef ==
  ASSUME NEW f, NEW S PROVE SumFunctionOnSet(f, S) = (CHOOSE g : Sums(f, S, g))[S]
  BY DEF SumFunctionOnSet, FoldFunctionOnSet, MapThenFoldSet, Sums, Chosen

LEMMA SumsUnique ==
  ASSUME NEW f, NEW S, NEW T, NEW g, NEW h, Sums(f, S, g), Sums(f, T, h),
         NEW U, IsFiniteSet(U), U \subseteq S, U \subseteq T
  PROVE  g[U] = h[U]
<1> DEFINE P == {V \in SUBSET U : g[V] = h[V]}
<1>1. ASSUME NEW V \in SUBSET U, \A W \in SUBSET V : W # V => W \in P PROVE V \in P
  <2>1. V \in SUBSET S /\ V \in SUBSET T  OBVIOUS
  <2>2. /\ g[V] = IF V = {} THEN 0 ELSE f[Chosen(V)] + g[V \ {Chosen(V)}]
        /\ h[V] = IF V = {} THEN 0 ELSE f[Chosen(V)] + h[V \ {Chosen(V)}]
    BY <2>1 DEF Sums
  <2>3. CASE V = {}  BY <2>2, <2>3
  <2>4. CASE V # {}
    <3>1. Chosen(V) \in V  BY <2>4 DEF Chosen
    <3>2. V \ {Chosen(V)} \in P  BY <1>1, <3>1
    <3> QED  BY <2>2, <2>4, <3>2
  <2> QED  BY <2>3, <2>4
<1>2. SUBSET U \subseteq P
  <2> HIDE DEF P
  <2> QED  BY <1>1, SubsetInduction
<1> QED  BY <1>2

LEMMA SumsExist ==
  ASSUME NEW f, NEW S, IsFiniteSet(S) PROVE \E g : Sums(f, S, g)
<1> DEFINE P == {T \in SUBSET S : \E g : Sums(f, T, g)}
<1>1. ASSUME NEW T \in SUBSET S, \A U \in SUBSET T : U # T => U \in P PROVE T \in P
  <2> DEFINE G(U) == CHOOSE g : Sums(f, U, g)
             Next(s) == s \ {Chosen(s)}
             h == [s \in SUBSET T |-> IF s = {} THEN 0 ELSE f[Chosen(s)] + G(Next(s))[Next(s)]]
  <2>1. ASSUME NEW U \in SUBSET T, U # T PROVE Sums(f, U, G(U))
    BY <1>1, <2>1
  <2>2. ASSUME NEW s \in SUBSET T, s # {} PROVE h[Next(s)] = G(Next(s))[Next(s)]
    <3> DEFINE u == Next(s)
    <3>1. Chosen(s) \in s  BY <2>2 DEF Chosen
    <3>2. u \in SUBSET T /\ u # T  BY <3>1
    <3>3. Sums(f, u, G(u))  BY <2>1, <3>2
    <3>4. u \in SUBSET u  OBVIOUS
    <3>5. G(u)[u] = IF u = {} THEN 0 ELSE f[Chosen(u)] + G(u)[Next(u)]
      <4> HIDE DEF u, G
      <4> QED  BY <3>3, <3>4 DEF Sums
    <3>6. h[u] = IF u = {} THEN 0 ELSE f[Chosen(u)] + G(Next(u))[Next(u)]
      BY <3>2
    <3>7. CASE u = {}  BY <3>5, <3>6, <3>7
    <3>8. CASE u # {}
      <4>1. Chosen(u) \in u  BY <3>8 DEF Chosen
      <4>2. Next(u) \in SUBSET T /\ Next(u) # T /\ Next(u) \subseteq u
        BY <3>2, <4>1
      <4>3. Sums(f, Next(u), G(Next(u)))  BY <2>1, <4>2
      <4>4. IsFiniteSet(Next(u))  BY <4>2, FS_Subset
      <4>5. G(u)[Next(u)] = G(Next(u))[Next(u)]
        <5> DEFINE v == Next(u)
        <5>1. v \subseteq u /\ v \subseteq v /\ IsFiniteSet(v) /\ Sums(f, v, G(v))
          BY <4>2, <4>3, <4>4
        <5> HIDE DEF u, v, G
        <5>2. G(u)[v] = G(v)[v]  BY <3>3, <5>1, SumsUnique
        <5> QED  BY <5>2 DEF v
      <4> HIDE DEF u, G, h, Next
      <4>6. h[u] = G(u)[u]  BY <3>5, <3>6, <3>8, <4>5
      <4> QED  BY <4>6 DEF u
    <3> QED  BY <3>7, <3>8
  <2>3. Sums(f, T, h)
    <3> DEFINE k == [s \in SUBSET T |-> IF s = {} THEN 0 ELSE f[Chosen(s)] + h[Next(s)]]
    <3>1. \A s \in SUBSET T : h[s] = k[s]
      <4> SUFFICES ASSUME NEW s \in SUBSET T PROVE h[s] = k[s]  OBVIOUS
      <4>1. h[s] = IF s = {} THEN 0 ELSE f[Chosen(s)] + G(Next(s))[Next(s)]  OBVIOUS
      <4>2. k[s] = IF s = {} THEN 0 ELSE f[Chosen(s)] + h[Next(s)]
        <5> HIDE DEF h, Next
        <5> QED  OBVIOUS
      <4>3. s # {} => h[Next(s)] = G(Next(s))[Next(s)]  BY <2>2
      <4> HIDE DEF h, Next, G, k
      <4> QED  BY <4>1, <4>2, <4>3
    <3>2. h = [s \in SUBSET T |-> h[s]]  OBVIOUS
    <3>3. k = [s \in SUBSET T |-> k[s]]
      <4> HIDE DEF h, Next
      <4> QED  OBVIOUS
    <3>4. h = k
      <4> HIDE DEF h, k
      <4> QED  BY <3>1, <3>2, <3>3
    <3> HIDE DEF h
    <3> QED  BY <3>4 DEF Sums
  <2> HIDE DEF h, G
  <2> QED  BY <2>3
<1>2. SUBSET S \subseteq P
  <2> HIDE DEF P
  <2> QED  BY <1>1, SubsetInduction
<1> QED  BY <1>2

(* The sum over the empty set, and the step the recursion takes. *)
LEMMA SumStep ==
  ASSUME NEW f, NEW S, IsFiniteSet(S)
  PROVE  SumFunctionOnSet(f, S) =
            IF S = {} THEN 0 ELSE f[Chosen(S)] + SumFunctionOnSet(f, S \ {Chosen(S)})
<1> DEFINE G(T) == CHOOSE g : Sums(f, T, g)
           T == S \ {Chosen(S)}
<1>1. IsFiniteSet(T) /\ T \subseteq S  BY FS_Subset
<1>2. Sums(f, S, G(S)) /\ Sums(f, T, G(T))
  <2> HIDE DEF T
  <2> QED  BY <1>1, SumsExist
<1>3. SumFunctionOnSet(f, S) = G(S)[S] /\ SumFunctionOnSet(f, T) = G(T)[T]
  <2> HIDE DEF T
  <2> QED  BY SumDef
<1>4. G(S)[S] = IF S = {} THEN 0 ELSE f[Chosen(S)] + G(S)[T]
  <2> HIDE DEF G
  <2> QED  BY <1>2 DEF Sums
<1>5. G(S)[T] = G(T)[T]
  <2> HIDE DEF G, T
  <2> QED  BY <1>1, <1>2, SumsUnique
<1> HIDE DEF G
<1> QED  BY <1>3, <1>4, <1>5

LEMMA SumEmpty == ASSUME NEW f PROVE SumFunctionOnSet(f, {}) = 0
  BY SumStep, FS_EmptySet

LEMMA SumType ==
  ASSUME NEW f, NEW S, IsFiniteSet(S), \A x \in S : f[x] \in Int
  PROVE  SumFunctionOnSet(f, S) \in Int
<1> DEFINE P == {T \in SUBSET S : SumFunctionOnSet(f, T) \in Int}
<1>1. ASSUME NEW T \in SUBSET S, \A U \in SUBSET T : U # T => U \in P PROVE T \in P
  <2>1. IsFiniteSet(T)  BY FS_Subset
  <2>2. CASE T = {}  BY <2>2, SumEmpty
  <2>3. CASE T # {}
    <3>1. Chosen(T) \in T  BY <2>3 DEF Chosen
    <3>2. T \ {Chosen(T)} \in P  BY <1>1, <3>1
    <3> QED  BY <2>1, <2>3, <3>1, <3>2, SumStep
  <2> QED  BY <2>2, <2>3
<1>2. SUBSET S \subseteq P
  <2> HIDE DEF P
  <2> QED  BY <1>1, SubsetInduction
<1> QED  BY <1>2

(* The sum does not depend on the order of the recursion: any element can  *)
(* be taken out first.                                                     *)
THEOREM SumRemove ==
  ASSUME NEW f, NEW S, IsFiniteSet(S), \A x \in S : f[x] \in Int, NEW x \in S
  PROVE  SumFunctionOnSet(f, S) = f[x] + SumFunctionOnSet(f, S \ {x})
<1> DEFINE sum(T) == SumFunctionOnSet(f, T)
           P == {T \in SUBSET S : \A y \in T : sum(T) = f[y] + sum(T \ {y})}
<1>0. \A T \in SUBSET S : IsFiniteSet(T) /\ sum(T) \in Int
  BY SumType, FS_Subset
<1>1. ASSUME NEW T \in SUBSET S, \A U \in SUBSET T : U # T => U \in P PROVE T \in P
  <2> SUFFICES ASSUME NEW y \in T PROVE sum(T) = f[y] + sum(T \ {y})
    OBVIOUS
  <2> DEFINE c == Chosen(T)
  <2>1. c \in T  BY DEF Chosen
  <2>2. sum(T) = f[c] + sum(T \ {c})  BY <1>0, SumStep
  <2> HIDE DEF sum, c
  <2>3. CASE y = c  BY <2>2, <2>3
  <2>4. CASE y # c
    <3>1. sum(T \ {c}) = f[y] + sum((T \ {c}) \ {y})
      <4>1. T \ {c} \in P /\ y \in T \ {c}  BY <1>1, <2>1, <2>4
      <4> QED  BY <4>1
    <3>2. sum(T \ {y}) = f[c] + sum((T \ {y}) \ {c})
      <4>1. T \ {y} \in P /\ c \in T \ {y}  BY <1>1, <2>1, <2>4
      <4> QED  BY <4>1
    <3>3. (T \ {c}) \ {y} = (T \ {y}) \ {c}  OBVIOUS
    <3>4. f[y] \in Int /\ f[c] \in Int /\ sum((T \ {y}) \ {c}) \in Int
      BY <1>0, <2>1
    <3>5. \A a, b, rest \in Int : a + (b + rest) = b + (a + rest)  OBVIOUS
    <3>6. f[c] + (f[y] + sum((T \ {y}) \ {c})) = f[y] + (f[c] + sum((T \ {y}) \ {c}))
      BY <3>4, <3>5
    <3> QED  BY <2>2, <3>1, <3>2, <3>3, <3>6
  <2> QED  BY <2>3, <2>4
<1>2. SUBSET S \subseteq P
  <2> HIDE DEF P
  <2> QED  BY <1>1, SubsetInduction
<1> QED  BY <1>2

LEMMA SumAdd ==
  ASSUME NEW f, NEW S, IsFiniteSet(S), NEW x, x \notin S,
         f[x] \in Int, \A y \in S : f[y] \in Int
  PROVE  SumFunctionOnSet(f, S \cup {x}) = f[x] + SumFunctionOnSet(f, S)
<1>1. IsFiniteSet(S \cup {x})  BY FS_AddElement
<1>2. (S \cup {x}) \ {x} = S  OBVIOUS
<1>3. \A y \in S \cup {x} : f[y] \in Int  OBVIOUS
<1> QED  BY <1>1, <1>2, <1>3, SumRemove

LEMMA SumNat ==
  ASSUME NEW f, NEW S, IsFiniteSet(S), \A x \in S : f[x] \in Nat
  PROVE  SumFunctionOnSet(f, S) \in Nat
<1> DEFINE P == {T \in SUBSET S : SumFunctionOnSet(f, T) \in Nat}
<1>1. {} \in P  BY SumEmpty
<1>2. ASSUME NEW T \in SUBSET S, NEW x \in S, T \in P, x \notin T PROVE T \cup {x} \in P
  <2>1. IsFiniteSet(T)  BY FS_Subset
  <2>2. SumFunctionOnSet(f, T \cup {x}) = f[x] + SumFunctionOnSet(f, T)
    BY <1>2, <2>1, SumAdd
  <2> QED  BY <1>2, <2>2
<1>3. S \in P
  <2> HIDE DEF P
  <2> QED  BY <1>1, <1>2, SetInduction
<1> QED  BY <1>3

(* A sum of larger terms is larger; of equal terms, equal. *)
THEOREM SumMonotonic ==
  ASSUME NEW f, NEW g, NEW S, IsFiniteSet(S),
         \A x \in S : f[x] \in Int /\ g[x] \in Int /\ f[x] <= g[x]
  PROVE  SumFunctionOnSet(f, S) <= SumFunctionOnSet(g, S)
<1> DEFINE P == {T \in SUBSET S : SumFunctionOnSet(f, T) <= SumFunctionOnSet(g, T)}
<1>1. {} \in P
  <2>1. SumFunctionOnSet(f, {}) = 0 /\ SumFunctionOnSet(g, {}) = 0  BY SumEmpty
  <2> QED  BY <2>1
<1>2. ASSUME NEW T \in SUBSET S, NEW x \in S, T \in P, x \notin T PROVE T \cup {x} \in P
  <2>1. IsFiniteSet(T)  BY FS_Subset
  <2>2. /\ SumFunctionOnSet(f, T \cup {x}) = f[x] + SumFunctionOnSet(f, T)
        /\ SumFunctionOnSet(g, T \cup {x}) = g[x] + SumFunctionOnSet(g, T)
    BY <1>2, <2>1, SumAdd
  <2>3. SumFunctionOnSet(f, T) \in Int /\ SumFunctionOnSet(g, T) \in Int
    BY <2>1, SumType
  <2>4. SumFunctionOnSet(f, T) <= SumFunctionOnSet(g, T) /\ f[x] <= g[x]
        /\ f[x] \in Int /\ g[x] \in Int
    BY <1>2
  <2>5. SumFunctionOnSet(f, T \cup {x}) <= SumFunctionOnSet(g, T \cup {x})
    BY <2>2, <2>3, <2>4
  <2> QED  BY <2>5
<1>3. S \in P
  <2> HIDE DEF P
  <2> QED  BY <1>1, <1>2, SetInduction
<1> QED  BY <1>3

LEMMA SumEqual ==
  ASSUME NEW f, NEW g, NEW S, IsFiniteSet(S), \A x \in S : f[x] \in Int /\ f[x] = g[x]
  PROVE  SumFunctionOnSet(f, S) = SumFunctionOnSet(g, S)
<1>1. \A x \in S : f[x] \in Int /\ g[x] \in Int /\ f[x] <= g[x] /\ g[x] <= f[x]
  OBVIOUS
<1>2. SumFunctionOnSet(f, S) <= SumFunctionOnSet(g, S)  BY <1>1, SumMonotonic
<1>3. SumFunctionOnSet(g, S) <= SumFunctionOnSet(f, S)  BY <1>1, SumMonotonic
<1>4. SumFunctionOnSet(f, S) \in Int /\ SumFunctionOnSet(g, S) \in Int
  BY <1>1, SumType
<1> QED  BY <1>2, <1>3, <1>4

(* A sum over two sets that do not meet; over part of a set. *)
THEOREM SumDisjointUnion ==
  ASSUME NEW f, NEW S, NEW T, IsFiniteSet(S), IsFiniteSet(T), S \cap T = {},
         \A x \in S \cup T : f[x] \in Int
  PROVE  SumFunctionOnSet(f, S \cup T) = SumFunctionOnSet(f, S) + SumFunctionOnSet(f, T)
<1> DEFINE P == {U \in SUBSET T : SumFunctionOnSet(f, S \cup U) =
                                     SumFunctionOnSet(f, S) + SumFunctionOnSet(f, U)}
<1>0. SumFunctionOnSet(f, S) \in Int  BY SumType
<1>1. {} \in P
  <2>1. S \cup {} = S  OBVIOUS
  <2> QED  BY <1>0, <2>1, SumEmpty
<1>2. ASSUME NEW U \in SUBSET T, NEW x \in T, U \in P, x \notin U PROVE U \cup {x} \in P
  <2>1. IsFiniteSet(U) /\ IsFiniteSet(S \cup U)  BY FS_Subset, FS_Union
  <2>2. x \notin S \cup U /\ S \cup (U \cup {x}) = (S \cup U) \cup {x}  BY <1>2
  <2>3. /\ SumFunctionOnSet(f, U \cup {x}) = f[x] + SumFunctionOnSet(f, U)
        /\ SumFunctionOnSet(f, (S \cup U) \cup {x}) = f[x] + SumFunctionOnSet(f, S \cup U)
    BY <1>2, <2>1, <2>2, SumAdd
  <2>4. SumFunctionOnSet(f, U) \in Int /\ f[x] \in Int
    BY <2>1, SumType
  <2>5. SumFunctionOnSet(f, S \cup U) = SumFunctionOnSet(f, S) + SumFunctionOnSet(f, U)
    BY <1>2
  <2>6. SumFunctionOnSet(f, S \cup (U \cup {x})) =
           SumFunctionOnSet(f, S) + SumFunctionOnSet(f, U \cup {x})
    <3>1. \A a, b, c \in Int : a + (b + c) = b + (a + c)  OBVIOUS
    <3>2. f[x] + (SumFunctionOnSet(f, S) + SumFunctionOnSet(f, U)) =
             SumFunctionOnSet(f, S) + (f[x] + SumFunctionOnSet(f, U))
      BY <1>0, <2>4, <3>1
    <3> QED  BY <2>2, <2>3, <2>5, <3>2
  <2> QED  BY <2>6
<1>3. T \in P
  <2> HIDE DEF P
  <2> QED  BY <1>1, <1>2, SetInduction
<1> QED  BY <1>3

LEMMA SumSubset ==
  ASSUME NEW f, NEW S, IsFiniteSet(S), \A x \in S : f[x] \in Nat, NEW T \in SUBSET S
  PROVE  SumFunctionOnSet(f, T) <= SumFunctionOnSet(f, S)
<1>1. IsFiniteSet(T) /\ IsFiniteSet(S \ T) /\ T \cap (S \ T) = {} /\ T \cup (S \ T) = S
  <2>1. T \in SUBSET S /\ S \ T \in SUBSET S  OBVIOUS
  <2> QED  BY <2>1, FS_Subset
<1>2. \A x \in T \cup (S \ T) : f[x] \in Int
  BY <1>1
<1>3. SumFunctionOnSet(f, T \cup (S \ T)) = SumFunctionOnSet(f, T) + SumFunctionOnSet(f, S \ T)
  BY <1>1, <1>2, SumDisjointUnion
<1>4. SumFunctionOnSet(f, T) \in Nat /\ SumFunctionOnSet(f, S \ T) \in Nat
  BY <1>1, SumNat
<1>5. \A a, b \in Nat : a <= a + b  OBVIOUS
<1>6. SumFunctionOnSet(f, T) <= SumFunctionOnSet(f, T) + SumFunctionOnSet(f, S \ T)
  BY <1>4, <1>5
<1> QED  BY <1>1, <1>3, <1>6

(* Adding to each term adds the sum of what is added. *)
LEMMA SumPlus ==
  ASSUME NEW f, NEW g, NEW h, NEW S, IsFiniteSet(S),
         \A x \in S : f[x] \in Int /\ g[x] \in Int /\ h[x] = f[x] + g[x]
  PROVE  SumFunctionOnSet(h, S) = SumFunctionOnSet(f, S) + SumFunctionOnSet(g, S)
<1> DEFINE P == {T \in SUBSET S : SumFunctionOnSet(h, T) =
                                     SumFunctionOnSet(f, T) + SumFunctionOnSet(g, T)}
<1>1. {} \in P
  <2>1. /\ SumFunctionOnSet(f, {}) = 0 /\ SumFunctionOnSet(g, {}) = 0
        /\ SumFunctionOnSet(h, {}) = 0
    BY SumEmpty
  <2> QED  BY <2>1
<1>2. ASSUME NEW T \in SUBSET S, NEW x \in S, T \in P, x \notin T PROVE T \cup {x} \in P
  <2>0. \A y \in S : f[y] \in Int /\ g[y] \in Int /\ h[y] \in Int /\ h[y] = f[y] + g[y]
    OBVIOUS
  <2>1. IsFiniteSet(T)  BY FS_Subset
  <2>2. /\ SumFunctionOnSet(f, T \cup {x}) = f[x] + SumFunctionOnSet(f, T)
        /\ SumFunctionOnSet(g, T \cup {x}) = g[x] + SumFunctionOnSet(g, T)
        /\ SumFunctionOnSet(h, T \cup {x}) = h[x] + SumFunctionOnSet(h, T)
    BY <1>2, <2>0, <2>1, SumAdd
  <2>3. /\ SumFunctionOnSet(f, T) \in Int /\ SumFunctionOnSet(g, T) \in Int
        /\ SumFunctionOnSet(h, T) \in Int
    BY <2>0, <2>1, SumType
  <2>4. SumFunctionOnSet(h, T) = SumFunctionOnSet(f, T) + SumFunctionOnSet(g, T)
    BY <1>2
  <2>5. SumFunctionOnSet(h, T \cup {x}) =
           SumFunctionOnSet(f, T \cup {x}) + SumFunctionOnSet(g, T \cup {x})
    BY <2>0, <2>2, <2>3, <2>4
  <2> QED  BY <2>5
<1>3. S \in P
  <2> HIDE DEF P
  <2> QED  BY <1>1, <1>2, SetInduction
<1> QED  BY <1>3

(* Terms that are zero do not matter. *)
LEMMA SumZero ==
  ASSUME NEW f, NEW S, IsFiniteSet(S), \A x \in S : f[x] = 0
  PROVE  SumFunctionOnSet(f, S) = 0
<1> DEFINE P == {T \in SUBSET S : SumFunctionOnSet(f, T) = 0}
<1>1. {} \in P  BY SumEmpty
<1>2. ASSUME NEW T \in SUBSET S, NEW x \in S, T \in P, x \notin T PROVE T \cup {x} \in P
  <2>1. IsFiniteSet(T)  BY FS_Subset
  <2>2. f[x] = 0 /\ f[x] \in Int /\ \A y \in T : f[y] \in Int  OBVIOUS
  <2>3. SumFunctionOnSet(f, T \cup {x}) = f[x] + SumFunctionOnSet(f, T)
    BY <1>2, <2>1, <2>2, SumAdd
  <2>4. SumFunctionOnSet(f, T) = 0  BY <1>2
  <2>5. SumFunctionOnSet(f, T \cup {x}) = 0  BY <2>2, <2>3, <2>4
  <2> QED  BY <2>5
<1>3. S \in P
  <2> HIDE DEF P
  <2> QED  BY <1>1, <1>2, SetInduction
<1> QED  BY <1>3

LEMMA SumIgnoresZeros ==
  ASSUME NEW f, NEW S, IsFiniteSet(S), \A x \in S : f[x] \in Int, NEW T \in SUBSET S,
         \A x \in S \ T : f[x] = 0
  PROVE  SumFunctionOnSet(f, S) = SumFunctionOnSet(f, T)
<1>1. IsFiniteSet(T) /\ IsFiniteSet(S \ T)
  <2>1. T \in SUBSET S /\ S \ T \in SUBSET S  OBVIOUS
  <2> QED  BY <2>1, FS_Subset
<1>2. T \cap (S \ T) = {} /\ T \cup (S \ T) = S  OBVIOUS
<1>3. SumFunctionOnSet(f, T \cup (S \ T)) = SumFunctionOnSet(f, T) + SumFunctionOnSet(f, S \ T)
  BY <1>1, <1>2, SumDisjointUnion
<1>4. SumFunctionOnSet(f, S \ T) = 0  BY <1>1, SumZero
<1>5. SumFunctionOnSet(f, T) \in Int  BY <1>1, SumType
<1>6. SumFunctionOnSet(f, T) + 0 = SumFunctionOnSet(f, T)  BY <1>5
<1> QED  BY <1>2, <1>3, <1>4, <1>6

(* The sum of a function, as the sum of another that agrees with it. *)
LEMMA SumOfFunction ==
  ASSUME NEW g, NEW S, DOMAIN g = S, IsFiniteSet(S), NEW f,
         \A x \in S : f[x] \in Int /\ g[x] = f[x]
  PROVE  SumFunction(g) = SumFunctionOnSet(f, S)
<1>1. SumFunction(g) = SumFunctionOnSet(g, S)  BY DEF SumFunction
<1>2. \A x \in S : g[x] \in Int /\ g[x] = f[x]  OBVIOUS
<1>3. SumFunctionOnSet(g, S) = SumFunctionOnSet(f, S)  BY <1>2, SumEqual
<1> QED  BY <1>1, <1>3

LEMMA SumSingle ==
  ASSUME NEW f, NEW x, f[x] \in Int
  PROVE  SumFunctionOnSet(f, {x}) = f[x]
<1>1. IsFiniteSet({}) /\ x \notin {} /\ {x} = {} \cup {x}  BY FS_EmptySet
<1>2. SumFunctionOnSet(f, {x}) = f[x] + SumFunctionOnSet(f, {})  BY <1>1, SumAdd
<1>3. f[x] + 0 = f[x]  OBVIOUS
<1> QED  BY <1>2, <1>3, SumEmpty

(* The members of A that g tells to be of part s. *)
Part(A, g, s) == {a \in A : g[a] = s}

(* A sum over a set is the sum of the sums over its parts. *)
THEOREM SumByParts ==
  ASSUME NEW f, NEW A, IsFiniteSet(A), \A a \in A : f[a] \in Int,
         NEW S, IsFiniteSet(S), NEW g, \A a \in A : g[a] \in S,
         NEW sums, \A s \in S : sums[s] = SumFunctionOnSet(f, Part(A, g, s))
  PROVE  SumFunctionOnSet(f, A) = SumFunctionOnSet(sums, S)
<1> DEFINE In(T) == {a \in A : g[a] \in T}
           P == {T \in SUBSET S : SumFunctionOnSet(f, In(T)) = SumFunctionOnSet(sums, T)}
<1>1. \A T : IsFiniteSet(In(T))  BY FS_Subset
<1>2. \A s : IsFiniteSet(Part(A, g, s))  BY FS_Subset DEF Part
<1>3. \A s \in S : sums[s] \in Int
  <2> SUFFICES ASSUME NEW s \in S PROVE sums[s] \in Int  OBVIOUS
  <2>1. \A a \in Part(A, g, s) : f[a] \in Int  BY DEF Part
  <2> QED  BY <1>2, <2>1, SumType
<1>4. {} \in P
  <2>1. In({}) = {}  OBVIOUS
  <2> HIDE DEF In
  <2> QED  BY <2>1, SumEmpty
<1>5. ASSUME NEW T \in SUBSET S, NEW s \in S, T \in P, s \notin T PROVE T \cup {s} \in P
  <2>1. In(T \cup {s}) = In(T) \cup Part(A, g, s)  BY DEF Part
  <2>2. In(T) \cap Part(A, g, s) = {}  BY <1>5 DEF Part
  <2>3. \A a \in In(T) \cup Part(A, g, s) : f[a] \in Int  BY DEF Part
  <2>4. SumFunctionOnSet(f, In(T)) = SumFunctionOnSet(sums, T)  BY <1>5
  <2>5. IsFiniteSet(T) /\ \A t \in T : sums[t] \in Int  BY <1>3, FS_Subset
  <2>6. SumFunctionOnSet(sums, T \cup {s}) = sums[s] + SumFunctionOnSet(sums, T)
    BY <1>3, <1>5, <2>5, SumAdd
  <2>7. sums[s] \in Int /\ SumFunctionOnSet(sums, T) \in Int  BY <1>3, <2>5, SumType
  <2>8. T \cup {s} \in SUBSET S  OBVIOUS
  <2>9. SumFunctionOnSet(f, In(T) \cup Part(A, g, s)) = SumFunctionOnSet(f, In(T)) + sums[s]
    <3> HIDE DEF In
    <3> QED  BY <1>1, <1>2, <2>2, <2>3, SumDisjointUnion
  <2>10. \A a, b \in Int : a + b = b + a  OBVIOUS
  <2>11. SumFunctionOnSet(f, In(T \cup {s})) = SumFunctionOnSet(sums, T \cup {s})
    BY <2>1, <2>4, <2>6, <2>7, <2>9, <2>10
  <2> QED  BY <2>8, <2>11
<1>6. S \in P
  <2> HIDE DEF P
  <2> QED  BY <1>4, <1>5, SetInduction
<1>7. In(S) = A  OBVIOUS
<1> QED  BY <1>6, <1>7

(* The terms of a sum under other names. *)
LEMMA SumRenamed ==
  ASSUME NEW S, IsFiniteSet(S), NEW T, IsFiniteSet(T), NEW h \in Bijection(S, T),
         NEW f, \A t \in T : f[t] \in Int, NEW g, \A s \in S : g[s] = f[h[s]]
  PROVE  SumFunctionOnSet(g, S) = SumFunctionOnSet(f, T)
<1>1. \A s \in S : h[s] \in T /\ g[s] \in Int  BY DEF Bijection, Injection
<1>2. \A t \in T : f[t] = SumFunctionOnSet(g, Part(S, h, t))
  <2> SUFFICES ASSUME NEW t \in T PROVE f[t] = SumFunctionOnSet(g, Part(S, h, t))  OBVIOUS
  <2>1. PICK s \in S : h[s] = t  BY DEF Bijection, Surjection
  <2>2. Part(S, h, t) = {s}  BY <2>1 DEF Part, Bijection, Injection, IsInjective
  <2>3. g[s] = f[t] /\ g[s] \in Int  BY <1>1, <2>1
  <2>4. SumFunctionOnSet(g, {s}) = g[s]  BY <2>3, SumSingle
  <2> QED  BY <2>2, <2>3, <2>4
<1> QED  BY <1>1, <1>2, SumByParts

-----------------------------------------------------------------------------
(* A finite set of numbers has a least and a greatest member. *)
LEMMA Extremes ==
  ASSUME NEW S \in SUBSET Int, IsFiniteSet(S), S # {}
  PROVE  (\E m \in S : \A x \in S : m <= x) /\ (\E m \in S : \A x \in S : x <= m)
<1> DEFINE P == {T \in SUBSET S : T # {} => /\ \E m \in T : \A x \in T : m <= x
                                          /\ \E m \in T : \A x \in T : x <= m}
<1>1. {} \in P  OBVIOUS
<1>2. ASSUME NEW T \in SUBSET S, NEW y \in S, T \in P, y \notin T PROVE T \cup {y} \in P
  <2>1. CASE T = {}
    <3>1. y \in T \cup {y} /\ \A x \in T \cup {y} : y <= x /\ x <= y  BY <2>1
    <3> QED  BY <3>1
  <2>2. CASE T # {}
    <3>1. PICK l \in T : \A x \in T : l <= x  BY <1>2, <2>2
    <3>2. PICK g \in T : \A x \in T : x <= g  BY <1>2, <2>2
    <3>3. \E m \in T \cup {y} : \A x \in T \cup {y} : m <= x
      <4>1. CASE l <= y  BY <3>1, <4>1
      <4>2. CASE y < l  BY <3>1, <4>2
      <4> QED  BY <4>1, <4>2
    <3>4. \E m \in T \cup {y} : \A x \in T \cup {y} : x <= m
      <4>1. CASE y <= g  BY <3>2, <4>1
      <4>2. CASE g < y  BY <3>2, <4>2
      <4> QED  BY <4>1, <4>2
    <3> QED  BY <3>3, <3>4
  <2> QED  BY <2>1, <2>2
<1>3. S \in P
  <2> HIDE DEF P
  <2> QED  BY <1>1, <1>2, SetInduction
<1> QED  BY <1>3
=============================================================================
