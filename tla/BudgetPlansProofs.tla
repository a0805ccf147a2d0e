-------------------------- MODULE BudgetPlansProofs --------------------------
(***************************************************************************)
(* Budget plans.  For every set of readers, plans, categories and lines,   *)
(* with any number of allocations and budget edits between the queries: in *)
(* one listing the budgets stay within the plan's totals and the cap's     *)
(* state covers them, and no total lies.  For every set of requests,       *)
(* windows and UTC offsets: plans of one series overlap only for a named   *)
(* cause.  Both hold where plans are created and listed at once.           *)
(***************************************************************************)
EXTENDS PlanRequests, SetSums, TLAPS

(* The directions and the type of the categories each counts. *)
TypeOf == [out |-> "expense", in |-> "income"]

(* Before a request a reader has nothing; each asks what its kind asks.    *)
Fresh ==
    \A r \in Readers : kind[r] = None =>
        /\ asks[r] = <<>> /\ rows[r] = {}
        /\ \A p \in Plans, d \in {"in", "out"} : totals[r][p][d] = None

(* The allocations are only added to. *)
Grown ==
    /\ began \in [Readers -> [Lines -> Nat]]
    /\ \A r \in Readers, l \in Lines : began[r][l] <= amount[l]

(* A budget in an answer was true when it was read, and is there once.     *)
RowsTrue ==
    \A r \in Readers : \A b \in rows[r] :
        /\ b.consumed <= Consumed(b.plan, b.category)
        /\ b.state = DerivedState(CategoryType[b.category], b.limit, b.consumed)
RowsOnce ==
    \A r \in Readers : \A b, c \in rows[r] : b.plan = c.plan /\ b.category = c.category => b = c

(* What the listing has still to ask: each query once, a plan's totals     *)
(* after its budgets; what it has not asked it does not know.              *)
Asked(p, w) == [plan |-> p, what |-> w]
Once(r) == \A i, j \in DOMAIN asks[r] : asks[r][i] = asks[r][j] => i = j
BudgetsFirst(r) ==
    \A i \in DOMAIN asks[r], d \in {"out", "in"} : asks[r][i].what = "budgets" =>
        \E j \in DOMAIN asks[r] : i < j /\ asks[r][j] = Asked(asks[r][i].plan, d)
Unknown(r) ==
    /\ \A p \in Plans, d \in {"out", "in"} :
          totals[r][p][d] = None <=> \E i \in DOMAIN asks[r] : asks[r][i] = Asked(p, d)
    /\ \A b \in rows[r], i \in DOMAIN asks[r] : asks[r][i] # Asked(b.plan, "budgets")
Within(r) ==
    \A p \in Plans, d \in {"out", "in"} : totals[r][p][d] # None =>
        SumConsumed(Budgeted(r, p, TypeOf[d])) <= totals[r][p][d]

Listed == \A r \in Readers :
    /\ kind[r] = "plans" => Once(r) /\ BudgetsFirst(r) /\ Unknown(r) /\ Within(r)
    /\ kind[r] # "plans" => \A i \in DOMAIN asks[r] : asks[r][i].what # "budgets"

Inv == TypeOK /\ Fresh /\ Grown /\ RowsTrue /\ RowsOnce /\ TotalsAreBetween /\ Listed

-----------------------------------------------------------------------------
(* The lines behind a figure. *)

LEMMA LineSets ==
    ASSUME NEW p, NEW c, NEW d
    PROVE  /\ IsFiniteSet(ConsumedBy(p, c)) /\ ConsumedBy(p, c) \subseteq Lines
           /\ IsFiniteSet(Counted(p, d)) /\ Counted(p, d) \subseteq Lines
<1>1. ConsumedBy(p, c) \in SUBSET Lines /\ Counted(p, d) \in SUBSET Lines
    BY DEF ConsumedBy, Counted, InWindow
<1>2. QED BY <1>1, FiniteTables, FS_Subset

(* Two categories share no line, and a category's lines count in the total *)
(* of its direction.                                                       *)
LEMMA CategoryLines ==
    ASSUME NEW p \in Plans, NEW c \in Categories
    PROVE  /\ \A e \in Categories : e # c => ConsumedBy(p, c) \cap ConsumedBy(p, e) = {}
           /\ \A d \in {"out", "in"} : CategoryType[c] = TypeOf[d] =>
                  ConsumedBy(p, c) \subseteq Counted(p, d)
<1>1. \A e \in Categories : e # c => ConsumedBy(p, c) \cap ConsumedBy(p, e) = {}
    BY DEF ConsumedBy
<1>2. ASSUME NEW d \in {"out", "in"}, CategoryType[c] = TypeOf[d], NEW l \in ConsumedBy(p, c)
      PROVE  l \in Counted(p, d)
    <2>1. l \in InWindow(p) /\ l \in Lines /\ LineOf[l].category = c /\ c # None
        BY ConstantsAssumption DEF ConsumedBy, InWindow
    <2>2. ~LineOf[l].transfer /\ LineOf[l].direction \in {"in", "out"}
        BY <2>1, ConstantsAssumption
    <2>3. LineOf[l].direction = "out" <=> CategoryType[c] = "expense"
        BY <2>1, ConstantsAssumption
    <2>4. CategoryType[c] = "expense" <=> d = "out"
        BY <1>2 DEF TypeOf
    <2>5. LineOf[l].direction = d
        BY <2>2, <2>3, <2>4
    <2>6. QED BY <2>1, <2>2, <2>5 DEF Counted
<1>3. QED BY <1>1, <1>2

LEMMA FigureTypes ==
    ASSUME NEW a \in [Lines -> Nat], NEW p, NEW c, NEW d
    PROVE  /\ SumFunctionOnSet(a, ConsumedBy(p, c)) \in Nat
           /\ SumFunctionOnSet(a, Counted(p, d)) \in Nat
<1>1. (\A l \in ConsumedBy(p, c) : a[l] \in Nat) /\ (\A l \in Counted(p, d) : a[l] \in Nat)
    BY LineSets
<1>2. QED BY <1>1, LineSets, SumNat

LEMMA FiguresGrow ==
    ASSUME NEW a \in [Lines -> Nat], NEW b \in [Lines -> Nat], \A l \in Lines : a[l] <= b[l],
           NEW p, NEW c, NEW d
    PROVE  /\ SumFunctionOnSet(a, ConsumedBy(p, c)) <= SumFunctionOnSet(b, ConsumedBy(p, c))
           /\ SumFunctionOnSet(a, Counted(p, d)) <= SumFunctionOnSet(b, Counted(p, d))
<1>1. /\ \A l \in ConsumedBy(p, c) : a[l] \in Int /\ b[l] \in Int /\ a[l] <= b[l]
      /\ \A l \in Counted(p, d) : a[l] \in Int /\ b[l] \in Int /\ a[l] <= b[l]
    BY LineSets
<1>2. QED BY <1>1, LineSets, SumMonotonic

(* Budgets of different categories, none of which shows more than was      *)
(* consumed, add up to no more than the total of their direction.          *)
LEMMA BudgetsAddUp ==
    ASSUME NEW a \in [Lines -> Nat], NEW p \in Plans, NEW d \in {"out", "in"},
           NEW B, IsFiniteSet(B),
           \A b \in B : /\ b.category \in Categories /\ CategoryType[b.category] = TypeOf[d]
                        /\ b.consumed \in Nat
                        /\ b.consumed <= SumFunctionOnSet(a, ConsumedBy(p, b.category)),
           \A b, c \in B : b.category = c.category => b = c
    PROVE  SumConsumed(B) <= SumFunctionOnSet(a, Counted(p, d))
<1> DEFINE f == [b \in B |-> b.consumed]
           LinesOf(T) == UNION {ConsumedBy(p, b.category) : b \in T}
           P == {T \in SUBSET B : SumFunctionOnSet(f, T) <= SumFunctionOnSet(a, LinesOf(T))}
<1>1. \A T \in SUBSET B : LinesOf(T) \in SUBSET Counted(p, d)
    BY CategoryLines
<1>2. \A T \in SUBSET B : IsFiniteSet(T) /\ IsFiniteSet(LinesOf(T))
    <2> HIDE DEF LinesOf
    <2> QED BY <1>1, LineSets, FS_Subset
<1>3. \A b \in B : f[b] \in Nat /\ f[b] = b.consumed
    OBVIOUS
<1>4. \A l \in Counted(p, d) : a[l] \in Nat
    BY LineSets
<1>5. {} \in P
    <2>1. LinesOf({}) = {}
        OBVIOUS
    <2>2. SumFunctionOnSet(f, {}) = 0 /\ SumFunctionOnSet(a, {}) = 0
        <3> HIDE DEF f
        <3> QED BY SumEmpty
    <2>3. QED BY <2>1, <2>2
<1>6. ASSUME NEW T \in SUBSET B, NEW x \in B, T \in P, x \notin T PROVE T \cup {x} \in P
    <2> DEFINE X == ConsumedBy(p, x.category)
    <2>1. LinesOf(T \cup {x}) = LinesOf(T) \cup X
        OBVIOUS
    <2>2. LinesOf(T) \cap X = {}
        BY <1>6, CategoryLines
    <2>3. IsFiniteSet(X) /\ X \subseteq Counted(p, d) /\ LinesOf(T) \subseteq Counted(p, d)
        BY <1>1, LineSets, CategoryLines
    <2> HIDE DEF f, LinesOf, X
    <2>4. SumFunctionOnSet(f, T \cup {x}) = f[x] + SumFunctionOnSet(f, T)
        <3>1. f[x] \in Int /\ \A y \in T : f[y] \in Int
            BY <1>3
        <3>2. QED BY <1>2, <1>6, <3>1, SumAdd
    <2>5. SumFunctionOnSet(a, LinesOf(T) \cup X) =
             SumFunctionOnSet(a, LinesOf(T)) + SumFunctionOnSet(a, X)
        <3>1. \A l \in LinesOf(T) \cup X : a[l] \in Int
            BY <1>4, <2>3
        <3>2. QED BY <1>2, <2>2, <2>3, <3>1, SumDisjointUnion
    <2>6. SumFunctionOnSet(f, T) <= SumFunctionOnSet(a, LinesOf(T))
        BY <1>6
    <2>7. f[x] <= SumFunctionOnSet(a, X)
        BY <1>3 DEF X
    <2>8. /\ SumFunctionOnSet(f, T) \in Int /\ f[x] \in Int
          /\ SumFunctionOnSet(a, LinesOf(T)) \in Int /\ SumFunctionOnSet(a, X) \in Int
        <3>1. \A y \in T : f[y] \in Int
            BY <1>3
        <3>2. (\A l \in LinesOf(T) : a[l] \in Int) /\ (\A l \in X : a[l] \in Int)
            BY <1>4, <2>3
        <3>3. QED BY <1>2, <1>3, <2>3, <3>1, <3>2, SumType
    <2>9. SumFunctionOnSet(f, T \cup {x}) <= SumFunctionOnSet(a, LinesOf(T \cup {x}))
        <3>1. \A u, v, w, z \in Int : u <= w /\ v <= z => v + u <= w + z
            OBVIOUS
        <3>2. f[x] + SumFunctionOnSet(f, T) <= SumFunctionOnSet(a, LinesOf(T)) + SumFunctionOnSet(a, X)
            BY <2>6, <2>7, <2>8, <3>1
        <3>3. SumFunctionOnSet(a, LinesOf(T \cup {x})) = SumFunctionOnSet(a, LinesOf(T) \cup X)
            BY <2>1
        <3>4. QED BY <2>4, <2>5, <3>2, <3>3
    <2>10. QED BY <2>9
<1>7. B \in P
    <2> HIDE DEF P
    <2> QED BY <1>5, <1>6, SetInduction
<1>8. SumFunctionOnSet(f, B) <= SumFunctionOnSet(a, LinesOf(B))
    BY <1>7
<1>9. SumConsumed(B) = SumFunctionOnSet(f, B)
    <2>1. DOMAIN f = B
        OBVIOUS
    <2>2. SumConsumed(B) = SumFunction(f)
        BY DEF SumConsumed
    <2> HIDE DEF f
    <2>3. SumFunction(f) = SumFunctionOnSet(f, DOMAIN f)
        BY DEF SumFunction
    <2>4. QED BY <2>1, <2>2, <2>3
<1> HIDE DEF f, LinesOf
<1>10. B \in SUBSET B
    OBVIOUS
<1>11. SumFunctionOnSet(a, LinesOf(B)) <= SumFunctionOnSet(a, Counted(p, d))
    BY <1>1, <1>4, <1>10, LineSets, SumSubset
<1>12. /\ SumFunctionOnSet(f, B) \in Int /\ SumFunctionOnSet(a, LinesOf(B)) \in Int
       /\ SumFunctionOnSet(a, Counted(p, d)) \in Int
    <2>1. \A b \in B : f[b] \in Int
        BY <1>3
    <2>2. \A l \in LinesOf(B) : a[l] \in Int
        BY <1>1, <1>4, <1>10
    <2>3. \A l \in Counted(p, d) : a[l] \in Int
        BY <1>4
    <2>4. QED BY <1>2, <1>10, <2>1, <2>2, <2>3, LineSets, SumType
<1>13. QED BY <1>8, <1>9, <1>11, <1>12
(* A budget is part of the sum of the budgets.                             *)
LEMMA OneOfTheSum ==
    ASSUME NEW B, IsFiniteSet(B), \A c \in B : c.consumed \in Nat, NEW b \in B
    PROVE  SumConsumed(B) \in Nat /\ b.consumed <= SumConsumed(B)
<1> DEFINE f == [c \in B |-> c.consumed]
<1>1. DOMAIN f = B /\ f[b] = b.consumed /\ (\A c \in B : f[c] \in Nat) /\ SumConsumed(B) = SumFunction(f)
    BY DEF SumConsumed
<1> HIDE DEF f
<1>2. SumFunction(f) = SumFunctionOnSet(f, B)
    BY <1>1 DEF SumFunction
<1>3. SumFunctionOnSet(f, B) = f[b] + SumFunctionOnSet(f, B \ {b})
    <2>1. \A c \in B : f[c] \in Int
        BY <1>1
    <2>2. QED BY <2>1, SumRemove
<1>4. SumFunctionOnSet(f, B \ {b}) \in Nat
    <2>1. IsFiniteSet(B \ {b}) /\ \A c \in B \ {b} : f[c] \in Nat
        BY <1>1, FS_RemoveElement
    <2>2. QED BY <2>1, SumNat
<1>5. \A u, w \in Nat : u <= u + w /\ u + w \in Nat
    OBVIOUS
<1>6. QED BY <1>1, <1>2, <1>3, <1>4, <1>5

-----------------------------------------------------------------------------
(* The queries of a request. *)

LEMMA AsksType ==
    ASSUME NEW ps \in Seq(Plans), NEW k \in Kinds
    PROVE  AsksFor(ps, Queries[k]) \in Seq([plan : Plans, what : What])
<1> DEFINE qs == Queries[k]
<1>1. qs \in Seq(What) /\ (Len(qs) = 2 \/ Len(qs) = 3)
    <2>1. k = "plans" \/ k = "flows" \/ k = "export"
        BY DEF Kinds
    <2>2. qs = <<"budgets", "out", "in">> \/ qs = <<"in", "out">> \/ qs = <<"out", "in">>
        BY <2>1 DEF Queries
    <2>3. /\ <<"budgets", "out", "in">> \in Seq(What) /\ Len(<<"budgets", "out", "in">>) = 3
          /\ <<"in", "out">> \in Seq(What) /\ Len(<<"in", "out">>) = 2
          /\ <<"out", "in">> \in Seq(What) /\ Len(<<"out", "in">>) = 2
        BY DEF What
    <2> HIDE DEF qs
    <2>4. QED BY <2>2, <2>3
<1> HIDE DEF qs
<1>2. Len(ps) \in Nat /\ \A n \in 1..Len(ps) : ps[n] \in Plans
    OBVIOUS
<1>3. ASSUME NEW n \in {2, 3}, NEW i \in 1..(Len(ps) * n)
      PROVE  ((i - 1) \div n) + 1 \in 1..Len(ps) /\ ((i - 1) % n) + 1 \in 1..n
    BY <1>2
<1>4. ASSUME NEW i \in 1..(Len(ps) * Len(qs))
      PROVE  [plan |-> ps[((i - 1) \div Len(qs)) + 1], what |-> qs[((i - 1) % Len(qs)) + 1]]
                \in [plan : Plans, what : What]
    <2>1. Len(qs) \in {2, 3}
        BY <1>1
    <2>2. ((i - 1) \div Len(qs)) + 1 \in 1..Len(ps) /\ ((i - 1) % Len(qs)) + 1 \in 1..Len(qs)
        BY <1>3, <2>1
    <2>3. QED BY <1>1, <1>2, <2>2
<1>5. Len(ps) * Len(qs) \in Nat
    BY <1>1, <1>2
<1>6. AsksFor(ps, qs) \in Seq([plan : Plans, what : What])
    BY <1>4, <1>5 DEF AsksFor
<1>7. QED BY <1>6 DEF qs

LEMMA NoBudgetsAsked ==
    ASSUME NEW ps \in Seq(Plans), NEW k \in Kinds, k # "plans",
           NEW i \in DOMAIN AsksFor(ps, Queries[k])
    PROVE  AsksFor(ps, Queries[k])[i].what # "budgets"
<1> DEFINE qs == Queries[k]
<1>1. Len(qs) = 2 /\ qs[1] # "budgets" /\ qs[2] # "budgets"
    BY DEF Queries, Kinds
<1> HIDE DEF qs
<1>2. Len(ps) \in Nat /\ i \in 1..(Len(ps) * 2)
    BY <1>1 DEF AsksFor, qs
<1>3. ((i - 1) % 2) + 1 \in 1..2
    BY <1>2
<1>4. AsksFor(ps, qs)[i].what = qs[((i - 1) % 2) + 1]
    BY <1>1, <1>2 DEF AsksFor
<1>5. QED BY <1>1, <1>3, <1>4 DEF qs

(* The listing asks each query of each plan once, the budgets first.       *)
LEMMA ListingAsks ==
    LET as == AsksFor(PlanOrder, Queries["plans"])
    IN  /\ \A i, j \in DOMAIN as : as[i] = as[j] => i = j
        /\ \A i \in DOMAIN as, d \in {"out", "in"} : as[i].what = "budgets" =>
              \E j \in DOMAIN as : i < j /\ as[j] = Asked(as[i].plan, d)
        /\ \A p \in Plans, d \in {"out", "in"} : \E i \in DOMAIN as : as[i] = Asked(p, d)
<1> DEFINE as == AsksFor(PlanOrder, Queries["plans"])
           N == Len(PlanOrder)
           W == <<"budgets", "out", "in">>
           At(i) == ((i - 1) \div 3) + 1
           In(i) == ((i - 1) % 3) + 1
<1>1. N \in Nat /\ PlanOrder \in [1..N -> Plans]
    BY ConstantsAssumption
<1>2. as = [i \in 1..(N * 3) |-> [plan |-> PlanOrder[At(i)], what |-> W[In(i)]]]
    BY DEF AsksFor, Queries
<1> HIDE DEF as
<1>3. \A i \in 1..(N * 3) : At(i) \in 1..N /\ In(i) \in 1..3 /\ i = 3 * (At(i) - 1) + In(i)
    BY <1>1
<1>4. \A n \in 1..N, w \in 1..3 : /\ 3 * (n - 1) + w \in 1..(N * 3)
                                   /\ At(3 * (n - 1) + w) = n /\ In(3 * (n - 1) + w) = w
    BY <1>1
<1>5. W[1] = "budgets" /\ W[2] = "out" /\ W[3] = "in"
    OBVIOUS
<1> HIDE DEF At, In, W, N
<1>6. DOMAIN as = 1..(N * 3)
    BY <1>2
<1>7. \A i \in 1..(N * 3) : as[i].plan = PlanOrder[At(i)] /\ as[i].what = W[In(i)]
                            /\ as[i] = [plan |-> PlanOrder[At(i)], what |-> W[In(i)]]
    BY <1>2
<1>8. \A n \in 1..N, w \in 1..3 : as[3 * (n - 1) + w] = Asked(PlanOrder[n], W[w])
    BY <1>4, <1>7 DEF Asked
<1>9. ASSUME NEW i \in DOMAIN as, NEW j \in DOMAIN as, as[i] = as[j] PROVE i = j
    <2>1. PlanOrder[At(i)] = PlanOrder[At(j)] /\ W[In(i)] = W[In(j)]
        BY <1>6, <1>7, <1>9
    <2>2. At(i) = At(j)
        <3>1. At(i) \in DOMAIN PlanOrder /\ At(j) \in DOMAIN PlanOrder
            BY <1>1, <1>3, <1>6
        <3>2. QED BY <2>1, <3>1, ConstantsAssumption
    <2>3. In(i) = In(j)
        BY <1>3, <1>5, <1>6, <2>1
    <2>4. QED BY <1>3, <1>6, <2>2, <2>3
<1>10. ASSUME NEW i \in DOMAIN as, NEW d \in {"out", "in"}, as[i].what = "budgets"
       PROVE  \E j \in DOMAIN as : i < j /\ as[j] = Asked(as[i].plan, d)
    <2>1. In(i) \in 1..3 /\ At(i) \in 1..N /\ i = 3 * (At(i) - 1) + In(i)
        BY <1>3, <1>6
    <2>2. W[In(i)] = "budgets" /\ as[i].plan = PlanOrder[At(i)]
        BY <1>6, <1>7, <1>10
    <2>3. In(i) = 1
        BY <1>5, <2>1, <2>2
    <2>4. PICK w \in {2, 3} : W[w] = d
        BY <1>5
    <2>5. PICK n \in 1..N : n = At(i)
        BY <2>1
    <2>6. w \in 1..3 /\ i = 3 * (n - 1) + 1 /\ i < 3 * (n - 1) + w
        BY <1>1, <2>1, <2>3, <2>5
    <2>7. 3 * (n - 1) + w \in DOMAIN as
        BY <1>4, <1>6, <2>6
    <2>8. as[3 * (n - 1) + w] = Asked(as[i].plan, d)
        BY <1>8, <2>2, <2>4, <2>5, <2>6
    <2>9. QED BY <2>6, <2>7, <2>8
<1>11. ASSUME NEW p \in Plans, NEW d \in {"out", "in"}
       PROVE  \E i \in DOMAIN as : as[i] = Asked(p, d)
    <2>1. PICK n \in 1..N : PlanOrder[n] = p
        BY <1>1, ConstantsAssumption
    <2>2. PICK w \in 1..3 : W[w] = d
        BY <1>5
    <2>3. QED BY <1>4, <1>6, <1>8, <2>1, <2>2
<1>12. QED BY <1>9, <1>10, <1>11 DEF as

LEMMA ListingsType ==
    ASSUME NEW P \in SUBSET Plans, NEW ps \in Listings(P)
    PROVE  ps \in Seq(Plans)
<1>1. Cardinality(P) \in Nat
    BY FiniteTables, FS_Subset, FS_CardinalityType
<1>2. ps \in [1..Cardinality(P) -> P]
    BY DEF Listings
<1>3. QED BY <1>1, <1>2
-----------------------------------------------------------------------------
(* The invariant. *)

LEMMA InitInv == Init => Inv
<1> SUFFICES ASSUME Init PROVE Inv
    OBVIOUS
<1>1. TypeOK
    BY ConstantsAssumption DEF Init, TypeOK, Figures
<1>2. Fresh /\ Grown /\ RowsTrue /\ RowsOnce /\ TotalsAreBetween
    BY DEF Init, Fresh, Grown, RowsTrue, RowsOnce, TotalsAreBetween
<1>3. Listed
    BY ConstantsAssumption DEF Init, Listed, Kinds
<1>4. QED BY <1>1, <1>2, <1>3 DEF Inv

(* A reader whose answer does not change keeps what holds of it.           *)
LEMMA SameAnswer ==
    ASSUME NEW s \in Readers,
           asks'[s] = asks[s], rows'[s] = rows[s], totals'[s] = totals[s],
           Once(s) /\ BudgetsFirst(s) /\ Unknown(s) /\ Within(s)
    PROVE  (Once(s) /\ BudgetsFirst(s) /\ Unknown(s) /\ Within(s))'
<1>1. Once(s)' /\ BudgetsFirst(s)' /\ Unknown(s)'
    BY DEF Once, BudgetsFirst, Unknown, Asked
<1>2. \A p \in Plans, t \in {"expense", "income"} : Budgeted(s, p, t)' = Budgeted(s, p, t)
    BY DEF Budgeted
<1>3. \A d \in {"out", "in"} : TypeOf[d] \in {"expense", "income"}
    BY DEF TypeOf
<1>4. Within(s)'
    BY <1>2, <1>3 DEF Within
<1>5. QED BY <1>1, <1>4

(* The budgets of one direction in an answer are at most one per category. *)
LEMMA BudgetedFinite ==
    ASSUME TypeOK, RowsOnce, NEW r \in Readers, NEW p \in Plans, NEW t
    PROVE  IsFiniteSet(Budgeted(r, p, t))
<1> DEFINE B == Budgeted(r, p, t)
           C == {b.category : b \in B}
           f == [b \in B |-> b.category]
<1>1. \A b \in B : b \in rows[r] /\ b.plan = p /\ b.category \in Categories
    BY DEF Budgeted, TypeOK, Row
<1>2. C \in SUBSET Categories
    BY <1>1
<1>3. IsFiniteSet(C)
    <2> HIDE DEF C
    <2> QED BY <1>2, FiniteTables, FS_Subset
<1>4. \A b, c \in B : b.category = c.category => b = c
    BY <1>1 DEF RowsOnce
<1>5. f \in Injection(B, C)
    BY <1>4 DEF Injection, IsInjective
<1>6. QED BY <1>3, <1>5, FS_Injection

LEMMA AdmitInv ==
    ASSUME Inv, NEW r \in Readers, NEW k \in Kinds, NEW ps \in Seq(Plans),
           k = "plans" => ps = PlanOrder, Admit(r, k, ps)
    PROVE  Inv'
<1> USE DEF Inv
<1>1. /\ kind[r] = None /\ kind' = [kind EXCEPT ![r] = k] /\ kind'[r] = k /\ k # None
      /\ asks'[r] = AsksFor(ps, Queries[k]) /\ began'[r] = amount
    BY ConstantsAssumption DEF Admit, TypeOK, Grown
<1>2. \A s \in Readers : s # r =>
          kind'[s] = kind[s] /\ asks'[s] = asks[s] /\ began'[s] = began[s]
    BY DEF Admit, TypeOK, Grown
<1>3. UNCHANGED <<amount, limit, rows, totals, edits>>
    BY DEF Admit
<1>4. rows[r] = {} /\ \A p \in Plans, d \in {"in", "out"} : totals[r][p][d] = None
    BY <1>1 DEF Fresh
<1>5. TypeOK'
    <2>1. kind' \in [Readers -> Kinds \cup {None}]
        BY <1>1 DEF TypeOK
    <2>2. asks' \in [Readers -> Seq([plan : Plans, what : What])]
        BY AsksType DEF Admit, TypeOK
    <2>3. QED BY <1>3, <2>1, <2>2 DEF TypeOK
<1>6. Fresh'
    BY <1>1, <1>2, <1>3 DEF Fresh
<1>7. Grown'
    <2>1. began' \in [Readers -> [Lines -> Nat]]
        BY DEF Admit, Grown, TypeOK
    <2>2. ASSUME NEW s \in Readers, NEW l \in Lines PROVE began'[s][l] <= amount'[l]
        <3>1. CASE s = r
            BY <1>1, <1>3, <3>1 DEF TypeOK
        <3>2. CASE s # r
            BY <1>2, <1>3, <3>2 DEF Grown
        <3>3. QED BY <3>1, <3>2
    <2>3. QED BY <2>1, <2>2 DEF Grown
<1>8. RowsTrue' /\ RowsOnce'
    BY <1>3 DEF RowsTrue, RowsOnce, Consumed
<1>9. TotalsAreBetween'
    BY <1>2, <1>3, <1>4 DEF TotalsAreBetween, Total
<1>10. Listed'
    <2>0. k # "plans" => \A i \in DOMAIN asks'[r] : asks'[r][i].what # "budgets"
        BY <1>1, NoBudgetsAsked
    <2> SUFFICES ASSUME NEW s \in Readers, kind'[s] = "plans"
                 PROVE  (Once(s) /\ BudgetsFirst(s) /\ Unknown(s) /\ Within(s))'
        BY <1>1, <1>2, <2>0 DEF Listed
    <2>1. CASE s # r
        BY <1>2, <1>3, <2>1, SameAnswer DEF Listed
    <2>2. CASE s = r
        <3>1. asks'[r] = AsksFor(PlanOrder, Queries["plans"])
            BY <1>1, <2>2
        <3>2. Once(r)' /\ BudgetsFirst(r)'
            BY <3>1, ListingAsks DEF Once, BudgetsFirst
        <3>3. Unknown(r)'
            BY <1>3, <1>4, <3>1, ListingAsks DEF Unknown
        <3>4. Within(r)'
            BY <1>3, <1>4 DEF Within
        <3>5. QED BY <2>2, <3>2, <3>3, <3>4
    <2>3. QED BY <2>1, <2>2
<1>11. QED BY <1>5, <1>6, <1>7, <1>8, <1>9, <1>10

LEMMA AllocateInv ==
    ASSUME Inv, NEW l \in Lines, Allocate(l)
    PROVE  Inv'
<1> USE DEF Inv
<1>1. UNCHANGED <<limit, kind, asks, rows, totals, began, edits>>
    BY DEF Allocate, readerVars
<1>2. amount \in [Lines -> Nat] /\ amount' \in [Lines -> Nat] /\ \A m \in Lines : amount[m] <= amount'[m]
    BY DEF Allocate, TypeOK
<1>3. TypeOK' /\ Fresh' /\ RowsOnce'
    <2>1. TypeOK'
        BY <1>1, <1>2 DEF TypeOK
    <2>2. Fresh'
        BY <1>1 DEF Fresh
    <2>3. RowsOnce'
        BY <1>1 DEF RowsOnce
    <2>4. QED BY <2>1, <2>2, <2>3
<1>4. Grown'
    BY <1>1, <1>2 DEF Grown
<1>5. RowsTrue'
    <2> SUFFICES ASSUME NEW r \in Readers, NEW b \in rows[r]
                 PROVE  b.consumed <= Consumed(b.plan, b.category)'
        BY <1>1 DEF RowsTrue
    <2>1. b.consumed \in Nat /\ b.consumed <= Consumed(b.plan, b.category)
        BY DEF TypeOK, Row, RowsTrue
    <2>2. PICK x : x = Consumed(b.plan, b.category)
        OBVIOUS
    <2>3. PICK y : y = Consumed(b.plan, b.category)'
        OBVIOUS
    <2>4. x \in Nat /\ y \in Nat /\ x <= y
        BY <1>2, <2>2, <2>3, FigureTypes, FiguresGrow DEF Consumed
    <2>5. QED BY <2>1, <2>2, <2>3, <2>4
<1>6. TotalsAreBetween'
    <2> SUFFICES ASSUME NEW r \in Readers, NEW p \in Plans, NEW d \in {"in", "out"}, totals[r][p][d] # None
                 PROVE  /\ SumFunctionOnSet(began[r], Counted(p, d)) <= totals[r][p][d]
                        /\ totals[r][p][d] <= Total(p, d)'
        BY <1>1 DEF TotalsAreBetween
    <2>1. /\ SumFunctionOnSet(began[r], Counted(p, d)) <= totals[r][p][d]
          /\ totals[r][p][d] <= Total(p, d)
        BY DEF TotalsAreBetween
    <2>2. totals[r][p][d] \in Nat
        BY DEF TypeOK, Figures
    <2>3. PICK x : x = Total(p, d)
        OBVIOUS
    <2>4. PICK y : y = Total(p, d)'
        OBVIOUS
    <2>5. x \in Nat /\ y \in Nat /\ x <= y
        BY <1>2, <2>3, <2>4, FigureTypes, FiguresGrow DEF Total
    <2>6. QED BY <2>1, <2>2, <2>3, <2>4, <2>5
<1>7. Listed'
    BY <1>1, SameAnswer DEF Listed
<1>8. QED BY <1>3, <1>4, <1>5, <1>6, <1>7

LEMMA BudgetEditInv ==
    ASSUME Inv, NEW p \in Plans, NEW c \in Categories, NEW l \in Limits \cup {None},
           AddBudget(p, c, l) \/ UpdateBudget(p, c, l)
    PROVE  Inv'
<1> USE DEF Inv
<1>1. UNCHANGED <<amount, kind, asks, rows, totals, began>>
    BY DEF AddBudget, UpdateBudget, readerVars
<1>2. TypeOK'
    <2>1. limit' \in [Plans -> [Categories -> Limits \cup {None, Absent}]]
        <3>1. /\ limit' = [limit EXCEPT ![p][c] = l]
              /\ limit \in [Plans -> [Categories -> Limits \cup {None, Absent}]]
            BY DEF AddBudget, UpdateBudget, TypeOK
        <3>2. [limit[p] EXCEPT ![c] = l] \in [Categories -> Limits \cup {None, Absent}]
            BY <3>1
        <3>3. limit' = [limit EXCEPT ![p] = [limit[p] EXCEPT ![c] = l]]
            BY <3>1
        <3>4. QED BY <3>1, <3>2, <3>3
    <2>2. edits' \in 0..MaxEdits
        BY ConstantsAssumption DEF AddBudget, UpdateBudget, Edit, TypeOK
    <2>3. QED BY <1>1, <2>1, <2>2 DEF TypeOK
<1>3. Fresh' /\ Grown' /\ RowsTrue' /\ RowsOnce' /\ TotalsAreBetween'
    BY <1>1 DEF Fresh, Grown, RowsTrue, RowsOnce, TotalsAreBetween, Total, Consumed
<1>4. Listed'
    BY <1>1, SameAnswer DEF Listed
<1>5. QED BY <1>2, <1>3, <1>4

(* What a query takes from the queue.                                      *)
LEMMA Queue ==
    ASSUME TypeOK, NEW r \in Readers, Query(r)
    PROVE  /\ Len(asks[r]) \in Nat /\ DOMAIN asks[r] = 1..Len(asks[r]) /\ 1 \in DOMAIN asks[r]
           /\ Head(asks[r]) = asks[r][1]
           /\ \A i \in DOMAIN asks[r] : /\ asks[r][i].plan \in Plans /\ asks[r][i].what \in What
                                        /\ asks[r][i] = Asked(asks[r][i].plan, asks[r][i].what)
           /\ asks' \in [Readers -> Seq([plan : Plans, what : What])]
           /\ DOMAIN asks'[r] = 1..(Len(asks[r]) - 1)
           /\ \A i \in DOMAIN asks'[r] : i + 1 \in DOMAIN asks[r] /\ asks'[r][i] = asks[r][i + 1]
           /\ \A i \in DOMAIN asks[r] : i # 1 => i - 1 \in DOMAIN asks'[r] /\ asks'[r][i - 1] = asks[r][i]
           /\ \A s \in Readers : s # r => asks'[s] = asks[s]
<1> DEFINE q == asks[r]
<1>1. q \in Seq([plan : Plans, what : What]) /\ q # <<>>
    BY DEF TypeOK, Query
<1>2. asks' = [asks EXCEPT ![r] = Tail(q)] /\ asks \in [Readers -> Seq([plan : Plans, what : What])]
    BY DEF TypeOK, Query
<1>3. Tail(q) \in Seq([plan : Plans, what : What]) /\ asks'[r] = Tail(q)
    BY <1>1, <1>2
<1> HIDE DEF q
<1>4. /\ Len(q) \in Nat /\ DOMAIN q = 1..Len(q) /\ 1 \in DOMAIN q /\ Head(q) = q[1]
      /\ DOMAIN Tail(q) = 1..(Len(q) - 1) /\ \A i \in 1..(Len(q) - 1) : Tail(q)[i] = q[i + 1]
    BY <1>1
<1>5. \A i \in DOMAIN q : q[i].plan \in Plans /\ q[i].what \in What
                         /\ q[i] = [plan |-> q[i].plan, what |-> q[i].what]
    <2> SUFFICES ASSUME NEW i \in DOMAIN q
                 PROVE  /\ q[i].plan \in Plans /\ q[i].what \in What
                        /\ q[i] = [plan |-> q[i].plan, what |-> q[i].what]
        OBVIOUS
    <2> DEFINE A == [plan : Plans, what : What]
    <2>1. q[i] \in A
        <3> HIDE DEF A
        <3>1. q \in Seq(A)
            BY <1>1 DEF A
        <3>2. QED BY <3>1
    <2>2. QED BY <2>1
<1>6. \A i \in DOMAIN Tail(q) : i + 1 \in DOMAIN q /\ Tail(q)[i] = q[i + 1]
    BY <1>4
<1>7. \A i \in DOMAIN q : i # 1 => i - 1 \in DOMAIN Tail(q) /\ Tail(q)[i - 1] = q[i]
    BY <1>4
<1>8. QED BY <1>2, <1>3, <1>4, <1>5, <1>6, <1>7 DEF q, Asked

(* The rest of the queue keeps its order.                                  *)
LEMMA QueueKeeps ==
    ASSUME TypeOK, NEW r \in Readers, Query(r), Once(r), BudgetsFirst(r)
    PROVE  /\ Once(r)' /\ BudgetsFirst(r)'
           /\ \A i \in DOMAIN asks'[r] : asks'[r][i] # asks[r][1]
           /\ \A a : a # asks[r][1] =>
                 ((\E i \in DOMAIN asks[r] : asks[r][i] = a) <=> (\E i \in DOMAIN asks'[r] : asks'[r][i] = a))
<1>1. Once(r)'
    <2> SUFFICES ASSUME NEW i \in DOMAIN asks'[r], NEW j \in DOMAIN asks'[r], asks'[r][i] = asks'[r][j]
                 PROVE  i = j
        BY DEF Once
    <2>1. i \in Nat /\ j \in Nat /\ i + 1 = j + 1
        BY Queue DEF Once
    <2>2. QED BY <2>1
<1>2. BudgetsFirst(r)'
    <2> SUFFICES ASSUME NEW i \in DOMAIN asks'[r], NEW d \in {"out", "in"}, asks'[r][i].what = "budgets"
                 PROVE  \E j \in DOMAIN asks'[r] : i < j /\ asks'[r][j] = Asked(asks'[r][i].plan, d)
        BY DEF BudgetsFirst
    <2>1. i \in Nat /\ i >= 1 /\ i + 1 \in DOMAIN asks[r] /\ asks'[r][i] = asks[r][i + 1]
        BY Queue
    <2>2. PICK j \in DOMAIN asks[r] : i + 1 < j /\ asks[r][j] = Asked(asks'[r][i].plan, d)
        BY <2>1 DEF BudgetsFirst
    <2>3. j \in Nat /\ j # 1 /\ i < j - 1
        BY <2>1, <2>2, Queue
    <2>4. j - 1 \in DOMAIN asks'[r] /\ asks'[r][j - 1] = asks[r][j]
        BY <2>3, Queue
    <2>5. QED BY <2>2, <2>3, <2>4
<1>3. ASSUME NEW i \in DOMAIN asks'[r] PROVE asks'[r][i] # asks[r][1]
    <2>1. i \in Nat /\ i >= 1 /\ i + 1 \in DOMAIN asks[r] /\ asks'[r][i] = asks[r][i + 1]
        BY Queue
    <2>2. 1 \in DOMAIN asks[r] /\ i + 1 # 1
        BY <2>1, Queue
    <2>3. QED BY <2>1, <2>2 DEF Once
<1>4. ASSUME NEW a, a # asks[r][1]
      PROVE  (\E i \in DOMAIN asks[r] : asks[r][i] = a) <=> (\E i \in DOMAIN asks'[r] : asks'[r][i] = a)
    BY <1>4, Queue
<1>5. QED BY <1>1, <1>2, <1>3, <1>4

LEMMA StateTypes ==
    ASSUME NEW type \in {"expense", "income"}, NEW lim, NEW consumed
    PROVE  /\ DerivedState(type, lim, consumed) \in States \cup {None}
           /\ DerivedState(type, lim, consumed) = None <=> lim = None
BY ConstantsAssumption DEF DerivedState, ExpenseState, IncomeState, States

LEMMA BudgetsQueryInv ==
    ASSUME Inv, NEW r \in Readers, Query(r), Head(asks[r]).what = "budgets"
    PROVE  Inv'
<1> USE DEF Inv
<1> DEFINE p == Head(asks[r]).plan
           new == {[plan |-> p, category |-> c, limit |-> limit[p][c], consumed |-> Consumed(p, c),
                    state |-> DerivedState(CategoryType[c], limit[p][c], Consumed(p, c))]
                      : c \in {e \in Categories : limit[p][e] # Absent}}
<1>1. p \in Plans /\ asks[r][1] = Asked(p, "budgets") /\ 1 \in DOMAIN asks[r]
    <2>1. Head(asks[r]) = asks[r][1] /\ 1 \in DOMAIN asks[r]
        BY Queue
    <2>2. asks[r][1].plan \in Plans /\ asks[r][1] = Asked(asks[r][1].plan, asks[r][1].what)
        BY <2>1, Queue
    <2>3. QED BY <2>1, <2>2
<1>2. rows' = [rows EXCEPT ![r] = @ \cup new] /\ UNCHANGED <<totals, amount, limit, kind, began, edits>>
    BY DEF Query
<1> HIDE DEF p
<1>3. /\ rows'[r] = rows[r] \cup new
      /\ \A s \in Readers : s # r => rows'[s] = rows[s] /\ asks'[s] = asks[s]
    BY <1>2, Queue DEF TypeOK
<1>4. ASSUME NEW b \in new
      PROVE  /\ b \in Row /\ (b.limit = None <=> b.state = None)
             /\ b.plan = p /\ b.category \in Categories /\ b.consumed = Consumed(p, b.category)
             /\ b.state = DerivedState(CategoryType[b.category], b.limit, b.consumed)
    <2>1. PICK c \in Categories :
             /\ limit[p][c] # Absent
             /\ b = [plan |-> p, category |-> c, limit |-> limit[p][c], consumed |-> Consumed(p, c),
                     state |-> DerivedState(CategoryType[c], limit[p][c], Consumed(p, c))]
        BY DEF new
    <2>2. limit[p][c] \in Limits \cup {None} /\ CategoryType[c] \in {"expense", "income"}
        BY <1>1, <2>1, ConstantsAssumption DEF TypeOK
    <2>3. Consumed(p, c) \in Nat
        BY FigureTypes DEF Consumed, TypeOK
    <2>4. /\ DerivedState(CategoryType[c], limit[p][c], Consumed(p, c)) \in States \cup {None}
          /\ DerivedState(CategoryType[c], limit[p][c], Consumed(p, c)) = None <=> limit[p][c] = None
        BY <2>2, StateTypes
    <2>5. QED BY <1>1, <2>1, <2>2, <2>3, <2>4 DEF Row
<1>5. \A b, c \in new : b.category = c.category => b = c
    BY DEF new
<1> HIDE DEF new
<1>6. kind[r] = "plans"
    BY <1>1 DEF Listed, Asked
<1>7. Once(r) /\ BudgetsFirst(r) /\ Unknown(r) /\ Within(r)
    BY <1>6 DEF Listed
<1>8. \A b \in rows[r] : b.plan # p
    BY <1>1, <1>7 DEF Unknown
<1>9. TypeOK'
    <2>1. rows' \in [Readers -> SUBSET Row]
        BY <1>2, <1>4 DEF TypeOK
    <2>2. \A s \in Readers : \A b \in rows'[s] : b.limit = None <=> b.state = None
        BY <1>3, <1>4 DEF TypeOK
    <2>3. asks' \in [Readers -> Seq([plan : Plans, what : What])]
        BY Queue
    <2>4. QED BY <1>2, <2>1, <2>2, <2>3 DEF TypeOK
<1>10. Fresh' /\ Grown' /\ TotalsAreBetween'
    <2>1. kind[r] # None
        BY <1>6, ConstantsAssumption DEF Kinds
    <2>2. Fresh'
        BY <1>2, <1>3, <2>1 DEF Fresh
    <2>3. Grown' /\ TotalsAreBetween'
        BY <1>2 DEF Grown, TotalsAreBetween, Total
    <2>4. QED BY <2>2, <2>3
<1>11. RowsTrue'
    <2> SUFFICES ASSUME NEW s \in Readers, NEW b \in rows'[s]
                 PROVE  /\ b.consumed <= Consumed(b.plan, b.category)
                        /\ b.state = DerivedState(CategoryType[b.category], b.limit, b.consumed)
        BY <1>2 DEF RowsTrue, Consumed
    <2>1. CASE b \in rows[s]
        BY <2>1 DEF RowsTrue
    <2>2. CASE b \notin rows[s]
        <3>1. s = r /\ b \in new
            BY <1>3, <2>2
        <3>2. b.consumed \in Nat
            BY <1>4, <3>1 DEF Row
        <3>3. QED BY <1>4, <3>1, <3>2
    <2>3. QED BY <2>1, <2>2
<1>12. RowsOnce'
    <2> SUFFICES ASSUME NEW s \in Readers, NEW b \in rows'[s], NEW c \in rows'[s],
                        b.plan = c.plan, b.category = c.category
                 PROVE  b = c
        BY DEF RowsOnce
    <2>1. CASE b \in rows[s] /\ c \in rows[s]
        BY <2>1 DEF RowsOnce
    <2>2. CASE s = r /\ ~(b \in rows[s] /\ c \in rows[s])
        BY <1>3, <1>4, <1>5, <1>8, <2>2
    <2>3. QED BY <1>3, <2>1, <2>2
<1>13. Listed'
    <2>1. ASSUME NEW s \in Readers, s # r, kind[s] = "plans"
          PROVE  (Once(s) /\ BudgetsFirst(s) /\ Unknown(s) /\ Within(s))'
        BY <1>2, <1>3, <2>1, SameAnswer DEF Listed
    <2>2. Once(r)' /\ BudgetsFirst(r)'
        BY <1>7, QueueKeeps
    <2>3. Unknown(r)'
        <3>1. ASSUME NEW q \in Plans, NEW d \in {"out", "in"}
              PROVE  totals'[r][q][d] = None <=> \E i \in DOMAIN asks'[r] : asks'[r][i] = Asked(q, d)
            <4>1. Asked(q, d) # asks[r][1]
                BY <1>1 DEF Asked
            <4>2. totals[r][q][d] = None <=> \E i \in DOMAIN asks[r] : asks[r][i] = Asked(q, d)
                BY <1>7 DEF Unknown
            <4>3. (\E i \in DOMAIN asks[r] : asks[r][i] = Asked(q, d)) <=>
                      (\E i \in DOMAIN asks'[r] : asks'[r][i] = Asked(q, d))
                BY <1>7, <4>1, QueueKeeps
            <4>4. QED BY <1>2, <4>2, <4>3
        <3>2. ASSUME NEW b \in rows'[r], NEW i \in DOMAIN asks'[r]
              PROVE  asks'[r][i] # Asked(b.plan, "budgets")
            <4>1. CASE b \in rows[r]
                <5>1. i + 1 \in DOMAIN asks[r] /\ asks'[r][i] = asks[r][i + 1]
                    BY Queue
                <5>2. QED BY <1>7, <4>1, <5>1 DEF Unknown
            <4>2. CASE b \notin rows[r]
                <5>1. b.plan = p
                    BY <1>3, <1>4, <4>2
                <5>2. asks'[r][i] # asks[r][1]
                    BY <1>7, QueueKeeps
                <5>3. QED BY <1>1, <5>1, <5>2
            <4>3. QED BY <4>1, <4>2
        <3>3. QED BY <3>1, <3>2 DEF Unknown, Asked
    <2>4. Within(r)'
        <3> SUFFICES ASSUME NEW q \in Plans, NEW d \in {"out", "in"}, totals'[r][q][d] # None
                     PROVE  (SumConsumed(Budgeted(r, q, TypeOf[d])) <= totals[r][q][d])'
            BY DEF Within
        <3>1. totals[r][q][d] # None
            BY <1>2
        <3>2. q # p
            <4>1. \E j \in DOMAIN asks[r] : asks[r][j] = Asked(p, d)
                <5>1. asks[r][1].what = "budgets" /\ asks[r][1].plan = p
                    BY <1>1 DEF Asked
                <5>2. QED BY <1>1, <1>7, <5>1 DEF BudgetsFirst
            <4>2. totals[r][p][d] = None
                BY <1>1, <1>7, <4>1 DEF Unknown
            <4>3. QED BY <3>1, <4>2
        <3>3. Budgeted(r, q, TypeOf[d])' = Budgeted(r, q, TypeOf[d])
            BY <1>3, <1>4, <3>2 DEF Budgeted
        <3>4. SumConsumed(Budgeted(r, q, TypeOf[d])) <= totals[r][q][d]
            BY <1>7, <3>1 DEF Within
        <3>5. QED BY <1>2, <3>3, <3>4
    <2>5. ASSUME NEW s \in Readers, kind'[s] # "plans"
          PROVE  \A i \in DOMAIN asks'[s] : asks'[s][i].what # "budgets"
        <3>1. s # r /\ asks'[s] = asks[s] /\ kind[s] # "plans"
            BY <1>2, <1>3, <1>6, <2>5
        <3>2. QED BY <3>1 DEF Listed
    <2>6. QED BY <1>2, <2>1, <2>2, <2>3, <2>4, <2>5 DEF Listed
<1>14. QED BY <1>9, <1>10, <1>11, <1>12, <1>13

LEMMA TotalQueryInv ==
    ASSUME Inv, NEW r \in Readers, Query(r), Head(asks[r]).what # "budgets"
    PROVE  Inv'
<1> USE DEF Inv
<1>1. PICK p \in Plans, d \in {"out", "in"} :
          Head(asks[r]) = Asked(p, d) /\ asks[r][1] = Asked(p, d) /\ 1 \in DOMAIN asks[r]
    <2>1. Head(asks[r]) = asks[r][1] /\ 1 \in DOMAIN asks[r]
        BY Queue
    <2>2. /\ asks[r][1].plan \in Plans /\ asks[r][1].what \in What
          /\ asks[r][1] = Asked(asks[r][1].plan, asks[r][1].what)
        BY <2>1, Queue
    <2>3. asks[r][1].what \in {"out", "in"}
        BY <2>1, <2>2 DEF What
    <2>4. QED BY <2>1, <2>2, <2>3
<1>2. Head(asks[r]).plan = p /\ Head(asks[r]).what = d
    BY <1>1 DEF Asked
<1>3. PICK v : v = Total(p, d)
    OBVIOUS
<1>4. Flows(p, d) = v
    BY <1>3 DEF Flows, Total
<1>5. v \in Nat /\ v # None
    <2>1. amount \in [Lines -> Nat]
        BY DEF TypeOK
    <2>2. v \in Nat
        BY <1>3, <2>1, FigureTypes DEF Total
    <2>3. QED BY <2>2, ConstantsAssumption
<1>6. totals' = [totals EXCEPT ![r][p][d] = v] /\ UNCHANGED <<rows, amount, limit, kind, began, edits>>
    BY <1>2, <1>3, <1>4 DEF Query
<1>7. totals \in [Readers -> [Plans -> Figures]]
    BY DEF TypeOK
<1>8. /\ totals' \in [Readers -> [Plans -> Figures]]
      /\ \A s \in Readers : s # r => totals'[s] = totals[s] /\ asks'[s] = asks[s]
      /\ \A q \in Plans, e \in {"out", "in"} :
            totals'[r][q][e] = IF q = p /\ e = d THEN v ELSE totals[r][q][e]
    <2>0. totals[r][p] \in Figures /\ v \in Nat \cup {None}
        BY <1>5, <1>7
    <2>1. [totals[r][p] EXCEPT ![d] = v] \in Figures
        <3>1. CASE d = "out"
            BY <2>0, <3>1 DEF Figures
        <3>2. CASE d = "in"
            BY <2>0, <3>2 DEF Figures
        <3>3. QED BY <3>1, <3>2
    <2>2. \A e \in {"out", "in"} :
              [totals[r][p] EXCEPT ![d] = v][e] = IF e = d THEN v ELSE totals[r][p][e]
        BY <2>0 DEF Figures
    <2>3. PICK f \in Figures : f = [totals[r][p] EXCEPT ![d] = v]
        BY <2>1
    <2>4. totals' = [totals EXCEPT ![r] = [totals[r] EXCEPT ![p] = f]]
        BY <1>6, <1>7, <2>3
    <2>5. totals[r] \in [Plans -> Figures] /\ [totals[r] EXCEPT ![p] = f] \in [Plans -> Figures]
        BY <1>7
    <2>6. totals' \in [Readers -> [Plans -> Figures]] /\ totals'[r] = [totals[r] EXCEPT ![p] = f]
        BY <1>7, <2>4, <2>5
    <2>7. \A q \in Plans : totals'[r][q] = IF q = p THEN f ELSE totals[r][q]
        BY <2>5, <2>6
    <2>8. \A s \in Readers : s # r => totals'[s] = totals[s]
        BY <1>7, <2>4
    <2>9. \A q \in Plans, e \in {"out", "in"} :
              totals'[r][q][e] = IF q = p /\ e = d THEN v ELSE totals[r][q][e]
        BY <2>2, <2>3, <2>7
    <2>10. QED BY <2>6, <2>8, <2>9, Queue
<1>9. TypeOK'
    <2>1. asks' \in [Readers -> Seq([plan : Plans, what : What])]
        BY Queue
    <2>2. QED BY <1>6, <1>8, <2>1 DEF TypeOK
<1>10. kind[r] # None /\ Fresh'
    <2>1. kind[r] # None
        BY <1>1 DEF Fresh
    <2>2. QED BY <1>6, <1>8, <2>1 DEF Fresh
<1>11. Grown' /\ RowsTrue' /\ RowsOnce'
    BY <1>6 DEF Grown, RowsTrue, RowsOnce, Consumed
<1>12. TotalsAreBetween'
    <2> SUFFICES ASSUME NEW s \in Readers, NEW q \in Plans, NEW e \in {"in", "out"},
                        totals'[s][q][e] # None
                 PROVE  /\ SumFunctionOnSet(began[s], Counted(q, e)) <= totals'[s][q][e]
                        /\ totals'[s][q][e] <= Total(q, e)
        BY <1>6 DEF TotalsAreBetween, Total
    <2>1. CASE s = r /\ q = p /\ e = d
        <3>1. totals'[s][q][e] = v
            BY <1>8, <2>1
        <3>2. began[r] \in [Lines -> Nat] /\ amount \in [Lines -> Nat]
              /\ \A l \in Lines : began[r][l] <= amount[l]
            BY DEF TypeOK, Grown
        <3>3. SumFunctionOnSet(began[r], Counted(p, d)) <= v
            BY <1>3, <3>2, FiguresGrow DEF Total
        <3>4. QED BY <1>3, <1>5, <2>1, <3>1, <3>3
    <2>2. CASE ~(s = r /\ q = p /\ e = d)
        <3>1. totals'[s][q][e] = totals[s][q][e]
            BY <1>8, <2>2
        <3>2. QED BY <3>1 DEF TotalsAreBetween
    <2>3. QED BY <2>1, <2>2
<1>13. Listed'
    <2>1. ASSUME NEW s \in Readers, s # r, kind[s] = "plans"
          PROVE  (Once(s) /\ BudgetsFirst(s) /\ Unknown(s) /\ Within(s))'
        BY <1>6, <1>8, <2>1, SameAnswer DEF Listed
    <2>2. ASSUME kind[r] = "plans" PROVE (Once(r) /\ BudgetsFirst(r) /\ Unknown(r) /\ Within(r))'
        <3>1. Once(r) /\ BudgetsFirst(r) /\ Unknown(r) /\ Within(r)
            BY <2>2 DEF Listed
        <3>2. Once(r)' /\ BudgetsFirst(r)'
            BY <3>1, QueueKeeps
        <3>3. ASSUME NEW q \in Plans, NEW e \in {"out", "in"}
              PROVE  totals'[r][q][e] = None <=> \E i \in DOMAIN asks'[r] : asks'[r][i] = Asked(q, e)
            <4>1. CASE q = p /\ e = d
                <5>1. totals'[r][q][e] # None
                    BY <1>5, <1>8, <4>1
                <5>2. \A i \in DOMAIN asks'[r] : asks'[r][i] # Asked(q, e)
                    BY <1>1, <3>1, <4>1, QueueKeeps
                <5>3. QED BY <5>1, <5>2
            <4>2. CASE ~(q = p /\ e = d)
                <5>1. Asked(q, e) # asks[r][1]
                    BY <1>1, <4>2 DEF Asked
                <5>2. totals[r][q][e] = None <=> \E i \in DOMAIN asks[r] : asks[r][i] = Asked(q, e)
                    BY <3>1 DEF Unknown
                <5>3. (\E i \in DOMAIN asks[r] : asks[r][i] = Asked(q, e)) <=>
                          (\E i \in DOMAIN asks'[r] : asks'[r][i] = Asked(q, e))
                    BY <3>1, <5>1, QueueKeeps
                <5>4. QED BY <1>8, <4>2, <5>2, <5>3
            <4>3. QED BY <4>1, <4>2
        <3>4. ASSUME NEW b \in rows'[r], NEW i \in DOMAIN asks'[r]
              PROVE  asks'[r][i] # Asked(b.plan, "budgets")
            <4>1. i + 1 \in DOMAIN asks[r] /\ asks'[r][i] = asks[r][i + 1]
                BY Queue
            <4>2. QED BY <1>6, <3>1, <4>1 DEF Unknown
        <3>5. Unknown(r)'
            BY <3>3, <3>4 DEF Unknown, Asked
        <3>6. Within(r)'
            <4> SUFFICES ASSUME NEW q \in Plans, NEW e \in {"out", "in"}, totals'[r][q][e] # None
                         PROVE  SumConsumed(Budgeted(r, q, TypeOf[e])) <= totals'[r][q][e]
                BY <1>6 DEF Within, Budgeted
            <4>1. CASE q = p /\ e = d
                <5> DEFINE B == Budgeted(r, p, TypeOf[d])
                <5>1. IsFiniteSet(B)
                    BY BudgetedFinite
                <5>2. ASSUME NEW b \in B
                      PROVE  /\ b.category \in Categories /\ CategoryType[b.category] = TypeOf[d]
                             /\ b.consumed \in Nat
                             /\ b.consumed <= SumFunctionOnSet(amount, ConsumedBy(p, b.category))
                    <6>1. b \in rows[r] /\ b \in Row /\ b.plan = p /\ CategoryType[b.category] = TypeOf[d]
                        BY DEF Budgeted, TypeOK
                    <6>2. b.category \in Categories /\ b.consumed \in Nat
                        BY <6>1 DEF Row
                    <6>3. b.consumed <= Consumed(p, b.category)
                        BY <6>1 DEF RowsTrue
                    <6>4. QED BY <6>1, <6>2, <6>3 DEF Consumed
                <5>3. \A b, c \in B : b.category = c.category => b = c
                    BY DEF Budgeted, RowsOnce
                <5>4. amount \in [Lines -> Nat]
                    BY DEF TypeOK
                <5> HIDE DEF B
                <5>5. SumConsumed(B) <= SumFunctionOnSet(amount, Counted(p, d))
                    BY <5>1, <5>2, <5>3, <5>4, BudgetsAddUp
                <5>6. totals'[r][q][e] = SumFunctionOnSet(amount, Counted(p, d))
                    BY <1>3, <1>8, <4>1 DEF Total
                <5>7. QED BY <4>1, <5>5, <5>6 DEF B
            <4>2. CASE ~(q = p /\ e = d)
                <5>1. totals'[r][q][e] = totals[r][q][e]
                    BY <1>8, <4>2
                <5>2. QED BY <3>1, <5>1 DEF Within
            <4>3. QED BY <4>1, <4>2
        <3>7. QED BY <3>2, <3>5, <3>6
    <2>3. ASSUME NEW s \in Readers, kind[s] # "plans"
          PROVE  \A i \in DOMAIN asks'[s] : asks'[s][i].what # "budgets"
        <3>1. CASE s = r
            BY <2>3, <3>1, Queue DEF Listed
        <3>2. CASE s # r
            BY <1>8, <2>3, <3>2 DEF Listed
        <3>3. QED BY <3>1, <3>2
    <2>4. QED BY <1>6, <2>1, <2>2, <2>3 DEF Listed
<1>14. QED BY <1>9, <1>10, <1>11, <1>12, <1>13

LEMMA NextInv == Inv /\ [Next]_vars => Inv'
<1> SUFFICES ASSUME Inv, [Next]_vars PROVE Inv'
    OBVIOUS
<1>1. CASE UNCHANGED vars
    <2>1. UNCHANGED <<amount, limit, kind, asks, rows, totals, began, edits>>
        BY <1>1 DEF vars, readerVars
    <2>2. TypeOK'
        BY <2>1 DEF Inv, TypeOK
    <2>3. Fresh' /\ Grown' /\ RowsTrue' /\ RowsOnce' /\ TotalsAreBetween'
        BY <2>1 DEF Inv, Fresh, Grown, RowsTrue, RowsOnce, TotalsAreBetween, Total, Consumed
    <2>4. Listed'
        BY <2>1, SameAnswer DEF Inv, Listed
    <2>5. QED BY <2>2, <2>3, <2>4 DEF Inv
<1>2. ASSUME NEW r \in Readers, ListPlans(r) PROVE Inv'
    BY <1>2, AdmitInv, ConstantsAssumption DEF ListPlans, Kinds
<1>3. ASSUME NEW r \in Readers, NEW p \in Plans, MoneyFlows(r, p) PROVE Inv'
    <2>1. <<p>> \in Seq(Plans) /\ "flows" \in Kinds
        BY DEF Kinds
    <2>2. QED BY <1>3, <2>1, AdmitInv DEF MoneyFlows
<1>4. ASSUME NEW r \in Readers, NEW from \in Days, NEW to \in Days, ExportPlans(r, from, to) PROVE Inv'
    <2> DEFINE P == {p \in Plans : Window[p] \cap (from..to) # {}}
    <2>1. PICK ps \in Listings(P) : Admit(r, "export", ps)
        BY <1>4 DEF ExportPlans
    <2>2. P \in SUBSET Plans
        OBVIOUS
    <2> HIDE DEF P
    <2>3. ps \in Seq(Plans) /\ "export" \in Kinds
        BY <2>1, <2>2, ListingsType DEF Kinds
    <2>4. QED BY <2>1, <2>3, AdmitInv
<1>5. ASSUME NEW r \in Readers, Query(r) PROVE Inv'
    BY <1>5, BudgetsQueryInv, TotalQueryInv
<1>6. ASSUME NEW l \in Lines, Allocate(l) PROVE Inv'
    BY <1>6, AllocateInv
<1>7. ASSUME NEW p \in Plans, NEW c \in Categories, NEW l \in Limits \cup {None},
             AddBudget(p, c, l) \/ UpdateBudget(p, c, l)
      PROVE  Inv'
    BY <1>7, BudgetEditInv
<1>8. QED BY <1>1, <1>2, <1>3, <1>4, <1>5, <1>6, <1>7 DEF Next

LEMMA Invariance == Spec => []Inv
BY InitInv, NextInv, PTL DEF Spec

(* A larger consumption of a smaller limit is at least as bad a state.     *)
LEMMA StateMonotonic ==
    ASSUME NEW near \in 1..99, NEW cap \in Nat, NEW lim \in Nat, cap <= lim,
           NEW x \in Nat, NEW y \in Nat, x <= y
    PROVE  StateRank[ExpenseState(lim, x, near)] <= StateRank[ExpenseState(cap, y, near)]
<1>1. near * cap <= near * lim
    <2>1. near * (lim - cap) >= 0 /\ near * (lim - cap) = near * lim - near * cap
        <3>1. \A k \in Nat : near * k >= 0
            OBVIOUS
        <3>2. lim - cap \in Nat
            OBVIOUS
        <3>3. QED BY <3>1, <3>2
    <2>2. near * lim \in Int /\ near * cap \in Int
        OBVIOUS
    <2>3. QED BY <2>1, <2>2
<1>2. /\ StateRank["ok"] = 0 /\ StateRank["near"] = 1
      /\ StateRank["at"] = 2 /\ StateRank["over"] = 3
    BY DEF StateRank
<1>3. \A l, c \in Nat : ExpenseState(l, c, near) =
          IF l = 0 THEN (IF c > 0 THEN "over" ELSE IF 0 >= near THEN "near" ELSE "ok")
          ELSE IF c > l THEN "over" ELSE IF c = l THEN "at"
          ELSE IF 100 * c >= near * l THEN "near" ELSE "ok"
    BY DEF ExpenseState, Ratio
<1>4. PICK a \in Int, b \in Int : a = near * cap /\ b = near * lim
    OBVIOUS
<1>5. a <= b
    BY <1>1, <1>4
<1>6. CASE lim = 0
    BY <1>2, <1>3, <1>6
<1>7. CASE lim # 0 /\ cap = 0
    BY <1>2, <1>3, <1>7
<1>8. CASE lim # 0 /\ cap # 0
    BY <1>2, <1>3, <1>4, <1>5, <1>8
<1>9. QED BY <1>6, <1>7, <1>8

-----------------------------------------------------------------------------
(* Type correctness: every budget and every total of an answer is of its   *)
(* kind, and only an uncapped budget has no state.                         *)
THEOREM TypeCorrect == Spec => []TypeOK
<1>1. Inv => TypeOK
    BY DEF Inv
<1>2. QED BY Invariance, <1>1, PTL

(* A total is never below what was allocated when the request came in nor  *)
(* above what is allocated now.                                            *)
THEOREM TotalsNeverLie == Spec => []TotalsAreBetween
<1>1. Inv => TotalsAreBetween
    BY DEF Inv
<1>2. QED BY Invariance, <1>1, PTL

(* When the listing is answered, it knows every total. *)
LEMMA ListingComplete ==
    ASSUME Inv, NEW r \in Readers, Done(r, "plans"), NEW p \in Plans, NEW d \in {"out", "in"}
    PROVE  /\ totals[r][p][d] \in Nat
           /\ SumConsumed(Budgeted(r, p, TypeOf[d])) <= totals[r][p][d]
<1>1. Unknown(r) /\ Within(r) /\ asks[r] = <<>>
    BY DEF Inv, Listed, Done
<1>2. totals[r][p][d] # None
    BY <1>1 DEF Unknown
<1>3. totals[r][p][d] \in Nat \cup {None}
    BY DEF Inv, TypeOK, Figures
<1>4. QED BY <1>1, <1>2, <1>3 DEF Within

(* In one listing the budgets of a plan never add up to more than its      *)
(* totals, whatever was allocated between the queries.                     *)
THEOREM BudgetsStayWithin == Spec => []BudgetsWithinTotals
<1>1. Inv => BudgetsWithinTotals
    BY ListingComplete DEF BudgetsWithinTotals, TypeOf
<1>2. QED BY Invariance, <1>1, PTL

(* The cap's state is at least as bad as that of each expense budget whose *)
(* limit is not below the cap.                                             *)
THEOREM CapCovers == Spec => []CapCoversBudgets
<1>1. Inv => CapCoversBudgets
    <2> SUFFICES ASSUME Inv, NEW r \in Readers, Done(r, "plans"), NEW p \in Plans, Cap[p] # None,
                        NEW b \in Budgeted(r, p, "expense"), b.limit # None, b.limit >= Cap[p]
                 PROVE  StateRank[b.state] <= StateRank[CapState(p, totals[r][p])]
        BY DEF CapCoversBudgets
    <2> DEFINE B == Budgeted(r, p, "expense")
    <2>1. /\ b \in rows[r] /\ b \in Row /\ b.plan = p /\ CategoryType[b.category] = "expense"
          /\ b.limit \in Nat /\ b.consumed \in Nat /\ Cap[p] \in Nat
        <3>1. b \in rows[r] /\ b \in Row /\ b.plan = p /\ CategoryType[b.category] = "expense"
            BY DEF Inv, TypeOK, Budgeted
        <3>2. b.limit \in Limits \cup {None} /\ b.consumed \in Nat
            BY <3>1 DEF Row
        <3>3. Limits \subseteq Nat /\ Cap[p] \in Nat \cup {None}
            BY ConstantsAssumption
        <3>4. b.limit \in Nat /\ Cap[p] \in Nat
            BY <3>2, <3>3
        <3>5. QED BY <3>1, <3>2, <3>4
    <2>2. b.state = ExpenseState(b.limit, b.consumed, NearThreshold)
        BY <2>1 DEF Inv, RowsTrue, DerivedState
    <2>3. totals[r][p].out \in Nat /\ SumConsumed(B) <= totals[r][p].out
        BY ListingComplete DEF TypeOf
    <2>4. IsFiniteSet(B) /\ b \in B /\ \A c \in B : c.consumed \in Nat
        <3>1. IsFiniteSet(B)
            BY BudgetedFinite DEF Inv
        <3>2. \A c \in B : c \in Row
            BY DEF Budgeted, Inv, TypeOK
        <3>3. QED BY <3>1, <3>2 DEF Row
    <2>5. b.consumed <= totals[r][p].out
        <3> HIDE DEF B
        <3>1. SumConsumed(B) \in Nat /\ b.consumed <= SumConsumed(B)
            BY <2>4, OneOfTheSum
        <3>2. QED BY <2>1, <2>3, <3>1
    <2>6. CapState(p, totals[r][p]) = ExpenseState(Cap[p], totals[r][p].out, NearThreshold)
        BY DEF CapState, DerivedState
    <2>7. NearThreshold \in 1..99 /\ Cap[p] <= b.limit
        BY <2>1, ConstantsAssumption
    <2>8. QED BY <2>1, <2>2, <2>3, <2>5, <2>6, <2>7, StateMonotonic
<1>2. QED BY Invariance, <1>1, PTL

-----------------------------------------------------------------------------
(* Creating the plans (BudgetPlans): for every set of requests, every kind *)
(* of window and any UTC offsets, plans of one series overlap only for one *)
(* of the causes OverlapHasCause names, and a request whose dates are UTC  *)
(* dates is refused only for a plan that really overlaps.                  *)
(* What each request carries with it: an admitted one has a window, one    *)
(* past its check was made against plans that did not conflict, one that   *)
(* was refused met a plan that did.                                        *)
Admitted == \A r \in Requests : pc[r] \notin {"idle", "invalid"} =>
                body[r] \in Body /\ body[r].starts_at < body[r].ends_at
Recorded == \A p \in plans : pc[p] \in {"created", "failed"}
Checked  == \A r \in Requests :
                /\ met[r] \subseteq plans
                /\ pc[r] = "insert" \/ r \in plans =>
                      \A p \in met[r] : ~Conflicts(body[p], body[r])
Refused  == \A r \in Requests : pc[r] = "conflict" =>
                \E p \in plans : Conflicts(body[p], body[r])

CreationInv == CreationTypeOK /\ Admitted /\ Recorded /\ Checked /\ Refused

-----------------------------------------------------------------------------
(* Dates. *)

LEMMA DateType ==
    ASSUME NEW x \in Int
    PROVE  UtcDate(x) \in Int /\ OwnDate(x, 0) = UtcDate(x)
BY ClientsAssumption DEF UtcDate, OwnDate

(* Two windows whose ends pass each other have a date in common, and none  *)
(* otherwise.                                                              *)
LEMMA Windows ==
    ASSUME NEW a1 \in Int, NEW a2 \in Int, NEW b1 \in Int, NEW b2 \in Int,
           a1 <= a2, b1 <= b2
    PROVE  (a1 <= b2 /\ b1 <= a2) <=> (a1..a2) \cap (b1..b2) # {}
<1>1. CASE a1 <= b2 /\ b1 <= a2
    <2>1. CASE a1 <= b1
        <3>1. b1 \in (a1..a2) \cap (b1..b2)
            BY <1>1, <2>1
        <3>2. QED BY <1>1, <3>1
    <2>2. CASE b1 < a1
        <3>1. a1 \in (a1..a2) \cap (b1..b2)
            BY <1>1, <2>2
        <3>2. QED BY <1>1, <3>1
    <2>3. QED BY <2>1, <2>2
<1>2. CASE ~(a1 <= b2 /\ b1 <= a2)
    <2>1. \A x \in a1..a2 : x \notin b1..b2
        BY <1>2
    <2>2. QED BY <1>2, <2>1
<1>3. QED BY <1>1, <1>2

LEMMA DatesInOrder ==
    ASSUME NEW x \in Int, NEW y \in Int, x <= y
    PROVE  UtcDate(x) <= UtcDate(y)
<1> DEFINE d == PerDay  u == x \div d  v == y \div d
<1>1. d \in Nat /\ d > 0
    BY ClientsAssumption
<1>2. u \in Int /\ v \in Int
    BY <1>1
<1>3. d * u <= x /\ y < d * v + d
    BY <1>1
<1>4. d * u < d * (v + 1)
    BY <1>1, <1>2, <1>3
<1>5. u < v + 1
    <2> HIDE DEF d, u, v
    <2>1. SUFFICES ASSUME u >= v + 1 PROVE FALSE
        BY <1>2
    <2>2. \A k \in Nat : d * k >= 0
        BY <1>1
    <2>3. u - (v + 1) \in Nat
        BY <1>2, <2>1
    <2>4. d * (u - (v + 1)) >= 0
        BY <2>2, <2>3
    <2>5. d * (u - (v + 1)) = d * u - d * (v + 1)
        BY <1>1, <1>2
    <2>6. QED BY <1>1, <1>2, <1>4, <2>4, <2>5
<1>6. QED BY <1>2, <1>5 DEF UtcDate

(* With UTC dates, the check is right: two plans of one series conflict    *)
(* exactly when they share a date.                                         *)
LEMMA CheckIsExact ==
    ASSUME NEW p, NEW q, body[p] \in Body, body[q] \in Body, body[q].offset = 0,
           body[p].starts_at < body[p].ends_at, body[q].starts_at < body[q].ends_at
    PROVE  Conflicts(body[p], body[q]) <=> SameSeries(p, q) /\ DaysOf(p) \cap DaysOf(q) # {}
<1> DEFINE a1 == UtcDate(body[p].starts_at)  a2 == UtcDate(body[p].ends_at)
           b1 == UtcDate(body[q].starts_at)  b2 == UtcDate(body[q].ends_at)
<1>1. /\ body[p].starts_at \in Int /\ body[p].ends_at \in Int
      /\ body[q].starts_at \in Int /\ body[q].ends_at \in Int
    BY ClientsAssumption DEF Body
<1>2. a1 \in Int /\ a2 \in Int /\ b1 \in Int /\ b2 \in Int
    BY <1>1, DateType
<1>3. a1 <= a2 /\ b1 <= b2
    BY <1>1, DatesInOrder
<1>4. OwnDate(body[q].starts_at, body[q].offset) = b1 /\ OwnDate(body[q].ends_at, body[q].offset) = b2
    BY <1>1, DateType
<1>5. (a1 <= b2 /\ b1 <= a2) <=> (a1..a2) \cap (b1..b2) # {}
    <2> HIDE DEF a1, a2, b1, b2
    <2> QED BY <1>2, <1>3, Windows
<1>6. QED BY <1>4, <1>5 DEF Conflicts, SameSeries, DaysOf

-----------------------------------------------------------------------------
(* The invariant. *)

LEMMA CreationInitInv == CreationInit => CreationInv
BY ClientsAssumption DEF CreationInit, CreationInv, CreationTypeOK, Pc, Admitted, Recorded, Checked, Refused

LEMMA CreationNextInv == CreationInv /\ [CreationNext]_creationVars => CreationInv'
<1> SUFFICES ASSUME CreationInv, [CreationNext]_creationVars PROVE CreationInv'
    OBVIOUS
<1> USE DEF CreationInv
<1>1. CASE UNCHANGED creationVars
    BY <1>1 DEF creationVars, CreationTypeOK, Admitted, Recorded, Checked, Refused
<1>2. ASSUME NEW r \in Requests, NEW b \in Body, PostPlan(r, b) PROVE CreationInv'
    <2>1. r \notin plans
        BY <1>2 DEF PostPlan, Recorded
    <2>2. \A p \in Requests : p # r => pc'[p] = pc[p] /\ body'[p] = body[p]
        BY <1>2 DEF PostPlan, CreationTypeOK
    <2>3. pc'[r] \in {"check", "invalid"} /\ (pc'[r] = "check" => body'[r] = b /\ WindowValid(b))
        BY <1>2 DEF PostPlan, CreationTypeOK
    <2>4. CreationTypeOK'
        BY <1>2, <2>1, <2>2, <2>3 DEF PostPlan, CreationTypeOK, Pc, Busy
    <2>5. Admitted'
        BY <2>2, <2>3 DEF Admitted, WindowValid, Body
    <2>6. Recorded'
        BY <1>2, <2>1, <2>2 DEF PostPlan, Recorded, CreationTypeOK
    <2>7. Checked'
        BY <1>2, <2>1, <2>2, <2>3 DEF PostPlan, Checked, CreationTypeOK
    <2>8. Refused'
        BY <1>2, <2>1, <2>2, <2>3 DEF PostPlan, Refused, CreationTypeOK
    <2>9. QED BY <2>4, <2>5, <2>6, <2>7, <2>8
<1>3. ASSUME NEW r \in Requests, CheckOverlap(r) PROVE CreationInv'
    <2>1. r \notin plans
        BY <1>3 DEF CheckOverlap, Recorded
    <2>2. \A p \in Requests : p # r => pc'[p] = pc[p] /\ met'[p] = met[p]
        BY <1>3 DEF CheckOverlap, CreationTypeOK
    <2>3. /\ met'[r] = plans
          /\ pc'[r] \in {"conflict", "insert"}
          /\ pc'[r] = "conflict" <=> \E p \in plans : Conflicts(body[p], body[r])
        BY <1>3 DEF CheckOverlap, CreationTypeOK
    <2>4. CreationTypeOK'
        BY <1>3 DEF CheckOverlap, CreationTypeOK, Pc, Busy
    <2>5. Admitted'
        BY <1>3, <2>2, <2>3 DEF CheckOverlap, Admitted
    <2>6. Recorded'
        BY <1>3, <2>1, <2>2 DEF CheckOverlap, Recorded, CreationTypeOK
    <2>7. Checked'
        BY <1>3, <2>1, <2>2, <2>3 DEF CheckOverlap, Checked
    <2>8. Refused'
        BY <1>3, <2>2, <2>3 DEF CheckOverlap, Refused
    <2>9. QED BY <2>4, <2>5, <2>6, <2>7, <2>8
<1>4. ASSUME NEW r \in Requests, InsertPlan(r) PROVE CreationInv'
    <2>1. \A p \in Requests : p # r => pc'[p] = pc[p]
        BY <1>4 DEF InsertPlan, CreationTypeOK
    <2>2. pc[r] = "insert" /\ pc'[r] \in {"created", "failed"}
        BY <1>4 DEF InsertPlan, CreationTypeOK
    <2>3. body[r] \in Body /\ body[r].starts_at < body[r].ends_at
        BY <2>2 DEF Admitted
    <2>4. CreationTypeOK'
        BY <1>4, <2>2, <2>3, ClientsAssumption DEF InsertPlan, CreationTypeOK, Pc, Busy, Fault
    <2>5. Admitted'
        BY <1>4, <2>1, <2>3 DEF InsertPlan, Admitted
    <2>6. Recorded'
        BY <1>4, <2>1, <2>2 DEF InsertPlan, Recorded, CreationTypeOK
    <2>7. Checked'
        BY <1>4, <2>1, <2>2 DEF InsertPlan, Checked
    <2>8. Refused'
        BY <1>4, <2>1, <2>2 DEF InsertPlan, Refused
    <2>9. QED BY <2>4, <2>5, <2>6, <2>7, <2>8
<1>5. ASSUME NEW r \in Requests, RequestFails(r) PROVE CreationInv'
    <2>1. \A p \in Requests : p # r => pc'[p] = pc[p]
        BY <1>5 DEF RequestFails, CreationTypeOK
    <2>2. pc[r] \in Busy /\ pc'[r] = "failed"
        BY <1>5 DEF RequestFails, CreationTypeOK
    <2>3. CreationTypeOK'
        BY <1>5, ClientsAssumption DEF RequestFails, CreationTypeOK, Pc, Busy, Fault
    <2>4. Admitted'
        BY <1>5, <2>1, <2>2 DEF RequestFails, Admitted, Busy
    <2>5. Recorded'
        BY <1>5, <2>1, <2>2 DEF RequestFails, Recorded, CreationTypeOK
    <2>6. Checked'
        BY <1>5, <2>1, <2>2 DEF RequestFails, Checked
    <2>7. Refused'
        BY <1>5, <2>1, <2>2 DEF RequestFails, Refused
    <2>8. QED BY <2>3, <2>4, <2>5, <2>6, <2>7
<1>6. CASE CreationNext
    <2>1. PICK r \in Requests :
              \/ \E b \in Body : PostPlan(r, b)
              \/ CheckOverlap(r) \/ InsertPlan(r) \/ RequestFails(r)
        BY <1>6 DEF CreationNext
    <2>2. QED BY <1>2, <1>3, <1>4, <1>5, <2>1
<1>7. QED BY <1>1, <1>6

LEMMA CreationInvariance == CreationSpec => []CreationInv
<1>1. CreationInit => CreationInv
    BY CreationInitInv
<1>2. CreationInv /\ [CreationNext]_creationVars => CreationInv'
    BY CreationNextInv
<1>3. QED BY <1>1, <1>2, PTL DEF CreationSpec

-----------------------------------------------------------------------------
(* Type correctness: every plan has a window, and every request past the   *)
(* validator a payload.                                                    *)
THEOREM CreationTypeCorrect == CreationSpec => []CreationTypeOK
<1>1. CreationInv => CreationTypeOK
    BY DEF CreationInv
<1>2. QED BY CreationInvariance, <1>1, PTL

(* Plans of one series overlap only if they raced or an offset was sent.   *)
THEOREM OverlapsAreExplained == CreationSpec => []OverlapHasCause
<1>1. CreationInv => OverlapHasCause
    <2> SUFFICES ASSUME CreationInv, NEW p \in plans, NEW q \in plans, p # q, SameSeries(p, q),
                        DaysOf(p) \cap DaysOf(q) # {}, p \in met[q], body[q].offset = 0
                 PROVE  FALSE
        BY DEF OverlapHasCause
    <2>1. ~Conflicts(body[p], body[q])
        BY DEF CreationInv, CreationTypeOK, Checked
    <2>2. /\ body[p] \in Body /\ body[p].starts_at < body[p].ends_at
          /\ body[q] \in Body /\ body[q].starts_at < body[q].ends_at
        BY DEF CreationInv, CreationTypeOK
    <2>3. QED BY <2>1, <2>2, CheckIsExact
<1>2. QED BY CreationInvariance, <1>1, PTL

(* A request whose dates are UTC dates is refused only for a plan that     *)
(* counts one of its dates.                                                *)
THEOREM RefusalsAreJustified == CreationSpec => []RefusedForOverlap
<1>1. CreationInv => RefusedForOverlap
    <2> SUFFICES ASSUME CreationInv, NEW r \in Requests, pc[r] = "conflict", body[r].offset = 0
                 PROVE  \E p \in plans : p # r /\ SameSeries(p, r) /\ DaysOf(p) \cap DaysOf(r) # {}
        BY DEF RefusedForOverlap
    <2>1. \E p \in plans : Conflicts(body[p], body[r])
        BY DEF CreationInv, Refused
    <2>2. PICK p \in plans : Conflicts(body[p], body[r])
        BY <2>1
    <2>3. p # r
        BY DEF CreationInv, Recorded
    <2>4. /\ body[p] \in Body /\ body[p].starts_at < body[p].ends_at
          /\ body[r] \in Body /\ body[r].starts_at < body[r].ends_at
        BY DEF CreationInv, CreationTypeOK, Admitted
    <2>5. SameSeries(p, r) /\ DaysOf(p) \cap DaysOf(r) # {}
        BY <2>2, <2>4, CheckIsExact
    <2>6. QED BY <2>3, <2>5
<1>2. QED BY CreationInvariance, <1>1, PTL

-----------------------------------------------------------------------------
(* Creating plans and listing them, interleaved in any way, are each what  *)
(* its own specification says: what is proved of either holds of both.     *)
THEOREM PlanRequestsImplementBoth == PlansSpec => Spec /\ CreationSpec
<1>1. PlansInit => Init /\ CreationInit
    BY DEF PlansInit
<1>2. [PlansNext]_<<vars, creationVars>> => [Next]_vars /\ [CreationNext]_creationVars
    BY DEF PlansNext
<1>3. QED BY <1>1, <1>2, PTL DEF PlansSpec, Spec, CreationSpec

(* So the figures of an answer, and the causes of an overlap, are what the *)
(* theorems above say while plans are created and listed at once.          *)
THEOREM PlanRequestsInvariants ==
    PlansSpec => [](BudgetsWithinTotals /\ CapCoversBudgets /\ TotalsAreBetween /\ OverlapHasCause
                       /\ RefusedForOverlap)
BY PlanRequestsImplementBoth, BudgetsStayWithin, CapCovers, TotalsNeverLie, OverlapsAreExplained,
   RefusalsAreJustified, PTL
=============================================================================
