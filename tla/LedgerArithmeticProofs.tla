----------------------- MODULE LedgerArithmeticProofs -----------------------
(***************************************************************************)
(* What the Account Service's totals come to, for any list of transactions *)
(* and any precision: a total is a number, and one whose amounts together  *)
(* fit the precision is exact, whatever the order it is added up in.       *)
(*                                                                         *)
(* The sums and roundings are folds and recursive functions.  That the     *)
(* functions exist, and what they are at every argument, is proved by      *)
(* induction over sets, which needs no theorem with an operator parameter. *)
(***************************************************************************)
EXTENDS LedgerArithmetic, FiniteSetsExt, FiniteSetTheorems, TLAPS

-----------------------------------------------------------------------------
(* Induction, over sets: a set without a smallest counterexample has none. *)

\* Among finite sets there is always one that contains no other.
LEMMA SmallestSet ==
  ASSUME NEW S, NEW Bad, Bad \subseteq FiniteSubsetsOf(S), Bad # {}
  PROVE  \E m \in Bad : \A t \in Bad : t \subseteq m => t = m
<1>1. PICK m \in Bad : \A t \in Bad : ~ (<<t, m>> \in StrictSubsetOrdering(S))
  BY FS_StrictSubsetOrderingWellFounded, WFMin, Zenon
<1>2. \A t \in Bad : t \in SUBSET S
  BY DEF FiniteSubsetsOf
<1> QED BY <1>1, <1>2 DEF StrictSubsetOrdering

\* Induction over the subsets of a finite set.
LEMMA SubsetInduction ==
  ASSUME NEW S, IsFiniteSet(S), NEW Good,
         \A s \in SUBSET S : (\A t \in SUBSET s : t # s => t \in Good) => s \in Good
  PROVE  \A s \in SUBSET S : s \in Good
<1> SUFFICES ASSUME NEW s \in SUBSET S, s \notin Good PROVE FALSE
  OBVIOUS
<1> DEFINE Bad == {t \in SUBSET S : t \notin Good}
<1>1. Bad \subseteq FiniteSubsetsOf(S) /\ Bad # {}
  BY FS_Subset DEF FiniteSubsetsOf
<1>2. PICK m \in Bad : \A t \in Bad : t \subseteq m => t = m
  <2> HIDE DEF Bad
  <2> QED BY <1>1, SmallestSet
<1> QED BY <1>2

\* Induction over an interval of numbers.
LEMMA NumberInduction ==
  ASSUME NEW n \in Nat, NEW Good,
         \A k \in 0..n : (\A j \in 0..(k - 1) : j \in Good) => k \in Good
  PROVE  \A k \in 0..n : k \in Good
<1> SUFFICES ASSUME NEW k \in 0..n, k \notin Good PROVE FALSE
  OBVIOUS
<1> DEFINE Bad == {0..j : j \in (0..n) \ Good}
<1>1. Bad \subseteq FiniteSubsetsOf(Nat) /\ Bad # {}
  <2>1. \A j \in 0..n : 0..j \in SUBSET Nat /\ IsFiniteSet(0..j)
    BY FS_Interval
  <2> QED BY <2>1, Zenon DEF FiniteSubsetsOf
<1>2. PICK m \in Bad : \A t \in Bad : t \subseteq m => t = m
  <2> HIDE DEF Bad
  <2> QED BY <1>1, SmallestSet
<1>3. PICK j \in (0..n) \ Good : m = 0..j
  BY <1>2
<1>4. PICK i \in 0..(j - 1) : i \notin Good
  BY <1>3
<1>5. 0..i \in Bad /\ 0..i \subseteq 0..j /\ 0..i # 0..j
  BY <1>3, <1>4
<1> QED BY <1>2, <1>3, <1>5

-----------------------------------------------------------------------------
(* Folds.  What a fold of the community modules iterates exists, whatever  *)
(* it picks from a set and whatever a step does.                           *)

Iterates(f, S, pick, step) ==
  \A s \in SUBSET S : f[s] = IF s = {} THEN 0 ELSE step[<<pick[s], f[s \ {pick[s]}]>>]

LEMMA IterationExists ==
  ASSUME NEW S, IsFiniteSet(S), NEW pick \in [(SUBSET S) \ {{}} -> S], NEW step \in [S \X Int -> Int],
         \A s \in SUBSET S : s # {} => pick[s] \in s
  PROVE  \E f \in [SUBSET S -> Int] : Iterates(f, S, pick, step)
<1> DEFINE Small(n) == {s \in SUBSET S : Cardinality(s) <= n}
           Is(f, n) == \A s \in Small(n) :
             f[s] = IF s = {} THEN 0 ELSE step[<<pick[s], f[s \ {pick[s]}]>>]
           Good == {n \in Nat : \E f \in [Small(n) -> Int] : Is(f, n)}
<1>1. \A s \in SUBSET S : IsFiniteSet(s) /\ Cardinality(s) \in Nat
  BY FS_Subset, FS_CardinalityType
<1>2. 0 \in Good
  <2> DEFINE f == [s \in Small(0) |-> 0]
  <2>1. \A s \in Small(0) : s = {}
    BY <1>1, FS_EmptySet
  <2>2. f \in [Small(0) -> Int] /\ Is(f, 0)
    BY <2>1
  <2> QED BY <2>2
<1>3. ASSUME NEW n \in Nat, n \in Good PROVE n + 1 \in Good
  <2>1. PICK f \in [Small(n) -> Int] : Is(f, n)
    BY <1>3
  <2> DEFINE g == [s \in Small(n + 1) |->
                     IF s = {} THEN 0 ELSE step[<<pick[s], f[s \ {pick[s]}]>>]]
  <2>2. \A s \in Small(n + 1) : s # {} => s \ {pick[s]} \in Small(n) /\ pick[s] \in S
    BY <1>1, FS_RemoveElement
  <2>3. g \in [Small(n + 1) -> Int]
    BY <2>1, <2>2
  <2>4. \A s \in Small(n) : s \in Small(n + 1) /\ g[s] = f[s]
    <3>1. \A s \in Small(n) : s \in Small(n + 1)
      BY <1>1
    <3> QED BY <2>1, <3>1
  <2>5. Is(g, n + 1)
    BY <2>2, <2>4
  <2>6. \E f1 \in [Small(n + 1) -> Int] : Is(f1, n + 1)
    <3> HIDE DEF Small, Is, g
    <3> QED BY <2>3, <2>5
  <2>7. n + 1 \in Nat
    OBVIOUS
  <2> HIDE DEF Is, Small
  <2> QED BY <2>6, <2>7, Zenon
<1>4. Cardinality(S) \in Good
  <2>1. Cardinality(S) \in Nat
    BY FS_CardinalityType
  <2>2. \A k \in 0..Cardinality(S) : (\A j \in 0..(k - 1) : j \in Good) => k \in Good
    <3> SUFFICES ASSUME NEW k \in 0..Cardinality(S), \A j \in 0..(k - 1) : j \in Good
                 PROVE  k \in Good
      OBVIOUS
    <3>1. CASE k = 0
      BY <1>2, <3>1
    <3>2. CASE k # 0
      <4>1. k - 1 \in 0..(k - 1) /\ k - 1 \in Nat /\ (k - 1) + 1 = k
        BY <2>1, <3>2
      <4> HIDE DEF Good
      <4>2. k - 1 \in Good
        BY <4>1
      <4> QED BY <1>3, <4>1, <4>2
    <3> QED BY <3>1, <3>2
  <2> HIDE DEF Good
  <2> QED BY <2>1, <2>2, NumberInduction
<1>5. Small(Cardinality(S)) = SUBSET S
  BY <1>1, FS_Subset
<1> QED BY <1>4, <1>5 DEF Iterates

-----------------------------------------------------------------------------
(* Sums over functions.                                                    *)

Picked(s) == CHOOSE x \in s : TRUE

IsSum(w, f) == f = [s \in SUBSET DOMAIN w |->
  IF s = {} THEN 0 ELSE w[Picked(s)] + f[s \ {Picked(s)}]]

Sums(w) == CHOOSE f : IsSum(w, f)

\* SumFunction is a fold: the last value of that function.
LEMMA SumIsLast == ASSUME NEW w PROVE SumFunction(w) = Sums(w)[DOMAIN w]
  BY DEF SumFunction, SumFunctionOnSet, FoldFunctionOnSet, MapThenFoldSet, Sums, IsSum, Picked

LEMMA SumEquation ==
  ASSUME NEW S, NEW w \in [S -> Int], IsSum(w, Sums(w))
  PROVE  \A s \in SUBSET S :
           Sums(w)[s] = IF s = {} THEN 0 ELSE w[Picked(s)] + Sums(w)[s \ {Picked(s)}]
<1>1. DOMAIN w = S
  OBVIOUS
<1> QED BY <1>1, Zenon DEF IsSum

LEMMA SumDomain ==
  ASSUME NEW S, NEW w \in [S -> Int], IsSum(w, Sums(w))
  PROVE  Sums(w) = [s \in SUBSET S |-> Sums(w)[s]]
<1>1. DOMAIN w = S
  OBVIOUS
<1> QED BY <1>1, Zenon DEF IsSum

LEMMA SumsTyped ==
  ASSUME NEW S, IsFiniteSet(S), NEW w \in [S -> Int]
  PROVE  IsSum(w, Sums(w)) /\ Sums(w) \in [SUBSET S -> Int]
<1> DEFINE pick == [s \in (SUBSET S) \ {{}} |-> Picked(s)]
           step == [p \in S \X Int |-> w[p[1]] + p[2]]
<1>1. \A s \in SUBSET S : s # {} => pick[s] \in s
  BY DEF Picked
<1>2. \A x \in S, v \in Int : step[<<x, v>>] = w[x] + v
  OBVIOUS
<1>3. PICK f \in [SUBSET S -> Int] : Iterates(f, S, pick, step)
  <2>1. pick \in [(SUBSET S) \ {{}} -> S]
    BY <1>1
  <2>2. step \in [S \X Int -> Int]
    OBVIOUS
  <2> HIDE DEF pick, step
  <2> QED BY <1>1, <2>1, <2>2, IterationExists
<1>4. IsSum(w, f)
  <2>1. ASSUME NEW s \in SUBSET S, s # {}
        PROVE  f[s] = w[Picked(s)] + f[s \ {Picked(s)}]
    <3>1. pick[s] = Picked(s) /\ Picked(s) \in S /\ f[s \ {Picked(s)}] \in Int
      BY <1>1, <2>1
    <3>2. f[s] = step[<<pick[s], f[s \ {pick[s]}]>>]
      BY <1>3, <2>1 DEF Iterates
    <3> HIDE DEF pick, step
    <3>3. f[s] = step[<<Picked(s), f[s \ {Picked(s)}]>>]
      BY <3>1, <3>2
    <3> QED BY <1>2, <3>1, <3>3
  <2>2. f[{}] = 0
    BY <1>3 DEF Iterates
  <2> QED BY <2>1, <2>2 DEF IsSum
<1>5. IsSum(w, Sums(w))
  BY <1>4 DEF Sums
<1> DEFINE g == Sums(w)
<1>6. \A s \in SUBSET S : g[s] = IF s = {} THEN 0 ELSE w[Picked(s)] + g[s \ {Picked(s)}]
  BY <1>5, SumEquation
<1>8. g = [s \in SUBSET S |-> g[s]]
  BY <1>5, SumDomain
<1> HIDE DEF g
<1>7. \A s \in SUBSET S : g[s] \in Int
  <2> DEFINE Good == {s \in SUBSET S : g[s] \in Int}
  <2>1. ASSUME NEW s \in SUBSET S, \A t \in SUBSET s : t # s => t \in Good PROVE g[s] \in Int
    <3>1. CASE s = {}
      BY <1>6, <3>1
    <3>2. CASE s # {}
      <4>1. Picked(s) \in s
        BY <3>2 DEF Picked
      <4>2. s \ {Picked(s)} \in Good
        BY <2>1, <4>1
      <4> QED BY <1>6, <3>2, <4>1, <4>2
    <3> QED BY <3>1, <3>2
  <2> HIDE DEF Good
  <2>2. \A s \in SUBSET S : (\A t \in SUBSET s : t # s => t \in Good) => s \in Good
    BY <2>1 DEF Good
  <2>3. \A s \in SUBSET S : s \in Good
    BY <2>2, SubsetInduction
  <2> QED BY <2>3 DEF Good
<1> QED BY <1>5, <1>7, <1>8 DEF g

\* An element may be added to a sum at any time.
LEMMA SumAnyOrder ==
  ASSUME NEW S, IsFiniteSet(S), NEW w \in [S -> Int], NEW s \in SUBSET S, NEW e \in s
  PROVE  Sums(w)[s] = w[e] + Sums(w)[s \ {e}]
<1> DEFINE g == Sums(w)
<1>1. g \in [SUBSET S -> Int]
  BY SumsTyped
<1>2. \A t \in SUBSET S : g[t] = IF t = {} THEN 0 ELSE w[Picked(t)] + g[t \ {Picked(t)}]
  <2>1. IsSum(w, Sums(w))
    BY SumsTyped
  <2> QED BY <2>1, SumEquation
<1> HIDE DEF g
<1> DEFINE Good == {t \in SUBSET S : \A d \in t : g[t] = w[d] + g[t \ {d}]}
<1>3. ASSUME NEW t \in SUBSET S, \A u \in SUBSET t : u # t => u \in Good, NEW d \in t
      PROVE  g[t] = w[d] + g[t \ {d}]
  <2> DEFINE x == Picked(t)
  <2>1. x \in t
    BY DEF Picked
  <2>2. g[t] = w[x] + g[t \ {x}]
    BY <1>2
  <2> HIDE DEF x
  <2>3. CASE d = x
    BY <2>2, <2>3
  <2>4. CASE d # x
    <3>1. t \ {x} \in Good /\ d \in t \ {x}
      BY <1>3, <2>1, <2>4
    <3>2. t \ {d} \in Good /\ x \in t \ {d}
      BY <1>3, <2>1, <2>4
    <3>3. g[t \ {x}] = w[d] + g[(t \ {x}) \ {d}]
      BY <3>1
    <3>4. g[t \ {d}] = w[x] + g[(t \ {d}) \ {x}]
      BY <3>2
    <3>5. (t \ {x}) \ {d} = (t \ {d}) \ {x} /\ (t \ {d}) \ {x} \in SUBSET S
      OBVIOUS
    <3>6. PICK rest \in Int : rest = g[(t \ {d}) \ {x}]
      BY <1>1, <3>5
    <3>7. w[x] \in Int /\ w[d] \in Int
      BY <2>1
    <3>8. g[t] = w[x] + (w[d] + rest) /\ g[t \ {d}] = w[x] + rest
      BY <2>2, <3>3, <3>4, <3>5, <3>6
    <3> QED BY <3>7, <3>8
  <2> QED BY <2>3, <2>4
<1> HIDE DEF Good
<1>4. \A t \in SUBSET S : (\A u \in SUBSET t : u # t => u \in Good) => t \in Good
  BY <1>3 DEF Good
<1>5. \A t \in SUBSET S : t \in Good
  BY <1>4, SubsetInduction
<1>6. s \in Good
  BY <1>5
<1> QED BY <1>6 DEF Good, g

LEMMA SumOfNone ==
  ASSUME NEW S, IsFiniteSet(S), NEW w \in [S -> Int] PROVE Sums(w)[{}] = 0
<1>1. IsSum(w, Sums(w))
  BY SumsTyped
<1>2. {} \in SUBSET S
  OBVIOUS
<1> QED BY <1>1, <1>2, SumEquation

-----------------------------------------------------------------------------
(* Rounding.                                                               *)

IsUnit(n, f) == f = [m \in 0..n |-> IF m = 0 \/ m < 10 ^ Precision THEN 1 ELSE 10 * f[m \div 10]]
Units(n) == CHOOSE f : IsUnit(n, f)

LEMMA UnitIsLast == ASSUME NEW x PROVE Unit(x) = Units(Abs(x))[Abs(x)]
  BY Zenon DEF Unit, Units, IsUnit

UnitOf(f, m, limit) == IF m = 0 \/ m < limit THEN 1 ELSE 10 * f[m \div 10]

\* The function that Unit builds exists, for any number of digits.
LEMMA UnitExists ==
  ASSUME NEW n \in Nat, NEW limit \in Int
  PROVE  \E f \in [0..n -> Nat \ {0}] : \A m \in 0..n : f[m] = UnitOf(f, m, limit)
<1> DEFINE Is(f, k) == \A m \in 0..k : f[m] = UnitOf(f, m, limit)
           Good == {k \in 0..n : \E f \in [0..k -> Nat \ {0}] : Is(f, k)}
<1>1. ASSUME NEW k \in 0..n, \A j \in 0..(k - 1) : j \in Good PROVE k \in Good
  <2>1. CASE k = 0
    <3>1. [m \in 0..0 |-> 1] \in [0..0 -> Nat \ {0}] /\ Is([m \in 0..0 |-> 1], 0)
      BY DEF UnitOf
    <3> QED BY <2>1, <3>1
  <2>2. CASE k # 0
    <3>1. k - 1 \in Good
      BY <1>1, <2>2
    <3>2. PICK f \in [0..(k - 1) -> Nat \ {0}] : Is(f, k - 1)
      BY <3>1
    <3> DEFINE g == [m \in 0..k |-> IF m = k THEN UnitOf(f, k, limit) ELSE f[m]]
    <3>3. \A m \in 1..k : m \div 10 \in 0..(k - 1) /\ m \div 10 # k
      OBVIOUS
    <3>4. UnitOf(f, k, limit) \in Nat \ {0}
      BY <2>2, <3>3 DEF UnitOf
    <3>5. g \in [0..k -> Nat \ {0}]
      BY <3>4
    <3>6. \A m \in 0..k : UnitOf(g, m, limit) = UnitOf(f, m, limit)
      BY <3>3 DEF UnitOf
    <3>7. Is(g, k)
      BY <3>2, <3>6
    <3> QED BY <3>5, <3>7
  <2> QED BY <2>1, <2>2
<1> HIDE DEF Good
<1>2. \A k \in 0..n : k \in Good
  BY <1>1, NumberInduction
<1>3. n \in Good
  BY <1>2
<1> QED BY <1>3 DEF Good

\* The unit of a number is one when the number fits the precision.
LEMMA UnitTyped ==
  ASSUME NEW x \in Int
  PROVE  Unit(x) \in Nat \ {0} /\ (Abs(x) < 10 ^ Precision => Unit(x) = 1)
<1> DEFINE n == Abs(x)
           limit == 10 ^ Precision
           g == Units(n)
<1>1. n \in Nat
  BY DEF Abs
<1>2. limit \in Int
  BY PrecisionAssumption
<1> HIDE DEF n, limit
<1>3. PICK f \in [0..n -> Nat \ {0}] : \A m \in 0..n : f[m] = UnitOf(f, m, limit)
  BY <1>1, <1>2, UnitExists
<1>4. f = [m \in 0..n |-> IF m = 0 \/ m < limit THEN 1 ELSE 10 * f[m \div 10]]
  BY <1>3 DEF UnitOf
<1>5. IsUnit(n, g)
  BY <1>4 DEF IsUnit, Units, limit
<1>6. \A m \in 0..n : g[m] = IF m = 0 \/ m < limit THEN 1 ELSE 10 * g[m \div 10]
  BY <1>5, Zenon DEF IsUnit, limit
<1> HIDE DEF g
<1> DEFINE Good == {m \in 0..n : g[m] \in Nat \ {0}}
<1>7. ASSUME NEW m \in 0..n, \A j \in 0..(m - 1) : j \in Good PROVE m \in Good
  <2>1. CASE m = 0 \/ m < limit
    BY <1>6, <2>1
  <2>2. CASE ~(m = 0 \/ m < limit)
    <3>1. m \div 10 \in 0..(m - 1)
      BY <1>1, <2>2
    <3>2. m \div 10 \in Good
      BY <1>7, <3>1
    <3> QED BY <1>6, <2>2, <3>2
  <2> QED BY <2>1, <2>2
<1> HIDE DEF Good
<1>8. \A m \in 0..n : m \in Good
  BY <1>1, <1>7, NumberInduction
<1>9. n \in 0..n
  BY <1>1
<1>10. g[n] \in Nat \ {0} /\ (n < limit => g[n] = 1)
  BY <1>6, <1>8, <1>9 DEF Good
<1> QED BY <1>10, UnitIsLast DEF g, n, limit

LEMMA HalfEvenTyped ==
  ASSUME NEW x \in Nat, NEW unit \in Nat \ {0}
  PROVE  HalfEven(x, unit) \in Int /\ HalfEven(x, 1) = x
<1>1. x \div unit \in Int
  OBVIOUS
<1>2. (x \div unit) * unit \in Int /\ (x \div unit + 1) * unit \in Int
  BY <1>1
<1>3. HalfEven(x, unit) \in Int
  BY <1>2 DEF HalfEven
<1>4. HalfEven(x, 1) = x
  BY DEF HalfEven
<1> QED BY <1>3, <1>4

\* A result that fits the precision is exact.
LEMMA RoundFits ==
  ASSUME NEW x \in Int
  PROVE  Round(x) \in Int /\ (Abs(x) < 10 ^ Precision => Round(x) = x)
<1>1. Abs(x) \in Nat /\ Unit(x) \in Nat \ {0}
  BY UnitTyped DEF Abs
<1>2. HalfEven(Abs(x), Unit(x)) \in Int
  BY <1>1, HalfEvenTyped
<1>3. Abs(x) < 10 ^ Precision => HalfEven(Abs(x), Unit(x)) = Abs(x)
  BY <1>1, UnitTyped, HalfEvenTyped
<1> QED BY <1>2, <1>3 DEF Round, Abs

-----------------------------------------------------------------------------
(* The total of a list of transactions.                                    *)

IsTotal(txs, f) == f = [s \in SUBSET DOMAIN txs |->
  IF s = {} THEN 0 ELSE Plus(f[s \ {Max(s)}], txs[Max(s)])]

Totals(txs) == CHOOSE f : IsTotal(txs, f)

LEMMA TotalIsLast == ASSUME NEW txs PROVE Total(txs) = Totals(txs)[DOMAIN txs]
  BY DEF Total, FoldLeft, MapThenFoldSet, Totals, IsTotal

LEMMA MaxIsIn ==
  ASSUME NEW n \in Nat
  PROVE  /\ \A s \in SUBSET (1..n) : s # {} => Max(s) \in s
         /\ \A k \in 1..n : Max(1..k) = k
<1> DEFINE Good == {k \in 0..n : \A s \in SUBSET (1..k) :
                      s # {} => \E x \in s : \A y \in s : x >= y}
<1>1. ASSUME NEW k \in 0..n, \A j \in 0..(k - 1) : j \in Good PROVE k \in Good
  <2>1. ASSUME NEW s \in SUBSET (1..k), s # {} PROVE \E x \in s : \A y \in s : x >= y
    <3>1. CASE k \in s
      BY <3>1
    <3>2. CASE k \notin s
      <4>0. \E z \in s : z \in 1..k
        BY <2>1
      <4>1. k # 0
        BY <4>0
      <4>2. \A y \in 1..k : y # k => y \in 1..(k - 1)
        BY <4>1
      <4>3. s \in SUBSET (1..(k - 1))
        BY <2>1, <3>2, <4>2
      <4>4. k - 1 \in 0..(k - 1)
        BY <4>1
      <4>5. k - 1 \in Good
        BY <1>1, <4>4
      <4> QED BY <2>1, <4>3, <4>5
    <3> QED BY <3>1, <3>2
  <2> QED BY <2>1
<1>2. n \in Good
  <2> HIDE DEF Good
  <2>1. \A k \in 0..n : k \in Good
    BY <1>1, NumberInduction
  <2> QED BY <2>1
<1>3. \A s \in SUBSET (1..n) : s # {} => Max(s) \in s /\ \A y \in s : Max(s) >= y
  BY <1>2 DEF Max
<1>4. \A k \in 1..n : Max(1..k) = k
  BY <1>3
<1> QED BY <1>3, <1>4

LEMMA PlusTyped ==
  ASSUME NEW total \in Int, NEW tx, tx.amount \in Int
  PROVE  Plus(total, tx) \in Int
<1>1. tx.amount \in Int /\ -tx.amount \in Int
  OBVIOUS
<1>2. Round(-tx.amount) \in Int
  BY <1>1, RoundFits
<1>3. total + tx.amount \in Int /\ total + Round(-tx.amount) \in Int
  BY <1>1, <1>2
<1> QED BY <1>3, RoundFits DEF Plus

\* A total is reached in a step per transaction, first to last.
LEMMA TotalSteps ==
  ASSUME NEW n \in Nat, NEW txs, DOMAIN txs = 1..n, \A i \in 1..n : txs[i].amount \in Int
  PROVE  \E f \in [0..n -> Int] : /\ f[0] = 0
                                  /\ \A i \in 1..n : f[i] = Plus(f[i - 1], txs[i])
                                  /\ Total(txs) = f[n]
<1> DEFINE S == 1..n
           pick == [s \in (SUBSET S) \ {{}} |-> Max(s)]
           step == [p \in S \X Int |-> Plus(p[2], txs[p[1]])]
<1>1. IsFiniteSet(S)
  BY FS_Interval
<1>2. /\ pick \in [(SUBSET S) \ {{}} -> S]
      /\ \A s \in SUBSET S : s # {} => pick[s] \in s /\ pick[s] = Max(s)
  BY MaxIsIn
<1>3. \A x \in S, v \in Int : Plus(v, txs[x]) \in Int
  BY PlusTyped
<1>4. /\ step \in [S \X Int -> Int]
      /\ \A x \in S, v \in Int : step[<<x, v>>] = Plus(v, txs[x])
  BY <1>3
<1>5. PICK g \in [SUBSET S -> Int] : Iterates(g, S, pick, step)
  <2> HIDE DEF pick, step, S
  <2> QED BY <1>1, <1>2, <1>4, IterationExists
<1>6. IsTotal(txs, g)
  <2>1. ASSUME NEW s \in SUBSET S, s # {}
        PROVE  g[s] = Plus(g[s \ {Max(s)}], txs[Max(s)])
    <3>1. pick[s] = Max(s) /\ Max(s) \in S /\ g[s \ {Max(s)}] \in Int
      BY <1>2, <2>1
    <3>2. g[s] = step[<<pick[s], g[s \ {pick[s]}]>>]
      BY <1>5, <2>1 DEF Iterates
    <3> QED BY <1>4, <3>1, <3>2
  <2>2. g[{}] = 0
    BY <1>5 DEF Iterates
  <2> QED BY <2>1, <2>2 DEF IsTotal
<1>7. IsTotal(txs, Totals(txs))
  BY <1>6 DEF Totals
<1> DEFINE h == Totals(txs)
<1>8. \A s \in SUBSET S : h[s] = IF s = {} THEN 0 ELSE Plus(h[s \ {Max(s)}], txs[Max(s)])
  BY <1>7, Zenon DEF IsTotal
<1>9. Total(txs) = h[1..n]
  BY TotalIsLast
<1> HIDE DEF h
<1>10. h[1..0] = 0
  <2>1. 1..0 = {} /\ {} \in SUBSET S
    OBVIOUS
  <2> QED BY <1>8, <2>1
<1>11. ASSUME NEW i \in 1..n PROVE h[1..i] = Plus(h[1..(i - 1)], txs[i])
  <2>1. 1..i \in SUBSET S /\ 1..i # {}
    <3>1. \A j \in 1..i : j \in 1..n
      OBVIOUS
    <3>2. i \in 1..i
      OBVIOUS
    <3> QED BY <3>1, <3>2
  <2>2. Max(1..i) = i
    BY MaxIsIn
  <2>3. \A j : j \in (1..i) \ {i} <=> j \in 1..(i - 1)
    OBVIOUS
  <2>4. (1..i) \ {i} = 1..(i - 1)
    BY <2>3, Zenon
  <2> QED BY <1>8, <2>1, <2>2, <2>4
<1> DEFINE Good == {i \in 0..n : h[1..i] \in Int}
<1>12. ASSUME NEW i \in 0..n, \A j \in 0..(i - 1) : j \in Good PROVE h[1..i] \in Int
  <2>1. CASE i = 0
    BY <1>10, <2>1
  <2>2. CASE i # 0
    <3>1. i \in 1..n /\ i - 1 \in 0..(i - 1)
      BY <2>2
    <3>2. h[1..(i - 1)] \in Int
      BY <1>12, <3>1
    <3>3. Plus(h[1..(i - 1)], txs[i]) \in Int
      BY <3>1, <3>2, PlusTyped
    <3> QED BY <1>11, <3>1, <3>3
  <2> QED BY <2>1, <2>2
<1> HIDE DEF Good
<1>13. \A i \in 0..n : i \in Good
  <2>1. \A i \in 0..n : (\A j \in 0..(i - 1) : j \in Good) => i \in Good
    BY <1>12 DEF Good
  <2> QED BY <2>1, NumberInduction
<1> DEFINE f == [i \in 0..n |-> h[1..i]]
<1>14. f \in [0..n -> Int] /\ f[0] = 0
  BY <1>10, <1>13 DEF Good
<1>15. \A i \in 1..n : f[i] = Plus(f[i - 1], txs[i])
  <2>1. \A i \in 1..n : i - 1 \in 0..n
    OBVIOUS
  <2> QED BY <1>11, <2>1
<1>16. Total(txs) = f[n]
  BY <1>9
<1> HIDE DEF f
<1> QED BY <1>14, <1>15, <1>16

\* Adding a transaction is exact while the amount and the result fit.
LEMMA PlusExact ==
  ASSUME NEW total \in Int, NEW tx, tx.type \in {"CREDIT", "DEBIT"}, tx.amount \in Nat,
         NEW signed \in Int, signed = IF tx.type = "CREDIT" THEN tx.amount ELSE -tx.amount,
         tx.amount < 10 ^ Precision, Abs(total + signed) < 10 ^ Precision
  PROVE  Plus(total, tx) = total + signed
<1>1. Round(total + signed) = total + signed
  BY RoundFits
<1>2. CASE tx.type = "CREDIT"
  BY <1>1, <1>2 DEF Plus
<1>3. CASE tx.type # "CREDIT"
  <2>1. signed = -tx.amount /\ Abs(signed) = tx.amount
    BY <1>3 DEF Abs
  <2>2. Round(signed) = signed
    BY <2>1, RoundFits
  <2> QED BY <1>1, <1>3, <2>1, <2>2 DEF Plus
<1> QED BY <1>2, <1>3

\* In whatever order TransactionRepository.balance reads the rows, the total is
\* exact as long as their amounts together fit the precision: then every partial
\* total fits as well, and nothing is rounded away.
THEOREM TotalExact ==
  ASSUME NEW S, IsFiniteSet(S), NEW tx,
         \A e \in S : tx[e].type \in {"CREDIT", "DEBIT"} /\ tx[e].amount \in Nat,
         NEW order \in SetToSeqs(S),
         SumFunction([e \in S |-> tx[e].amount]) < 10 ^ Precision
  PROVE  Total([i \in DOMAIN order |-> tx[order[i]]]) =
           SumFunction([e \in S |-> IF tx[e].type = "CREDIT" THEN tx[e].amount ELSE -tx[e].amount])
<1> DEFINE n == Cardinality(S)
           limit == 10 ^ Precision
           V == [e \in S |-> tx[e].amount]
           W == [e \in S |-> IF tx[e].type = "CREDIT" THEN tx[e].amount ELSE -tx[e].amount]
           txs == [i \in DOMAIN order |-> tx[order[i]]]
           v == Sums(V)
           w == Sums(W)
           Upto(i) == {order[j] : j \in 1..i}
<1>1. /\ n \in Nat /\ limit \in Int
      /\ V \in [S -> Int] /\ W \in [S -> Int]
      /\ \A e \in S : V[e] >= 0 /\ W[e] \in {V[e], -V[e]}
  BY FS_CardinalityType, PrecisionAssumption
<1>2. /\ order \in [1..n -> S] /\ DOMAIN order = 1..n
      /\ \A i, j \in 1..n : i # j => order[i] # order[j]
  BY DEF SetToSeqs
<1>3. /\ v \in [SUBSET S -> Int] /\ v[{}] = 0
      /\ \A s \in SUBSET S : \A e \in s : v[s] = V[e] + v[s \ {e}]
  <2> HIDE DEF V
  <2>1. v \in [SUBSET S -> Int]
    BY <1>1, SumsTyped
  <2>2. v[{}] = 0
    BY <1>1, SumOfNone
  <2>3. ASSUME NEW s \in SUBSET S, NEW e \in s PROVE v[s] = V[e] + v[s \ {e}]
    BY <1>1, SumAnyOrder
  <2> QED BY <2>1, <2>2, <2>3
<1>4. /\ w \in [SUBSET S -> Int] /\ w[{}] = 0
      /\ \A s \in SUBSET S : \A e \in s : w[s] = W[e] + w[s \ {e}]
  <2> HIDE DEF W
  <2>1. w \in [SUBSET S -> Int]
    BY <1>1, SumsTyped
  <2>2. w[{}] = 0
    BY <1>1, SumOfNone
  <2>3. ASSUME NEW s \in SUBSET S, NEW e \in s PROVE w[s] = W[e] + w[s \ {e}]
    BY <1>1, SumAnyOrder
  <2> QED BY <2>1, <2>2, <2>3
<1>5. v[S] < limit /\ SumFunction(W) = w[S]
  BY SumIsLast
<1>6. /\ Upto(0) = {} /\ Upto(n) = S
      /\ \A i \in 1..n : /\ Upto(i) \in SUBSET S /\ order[i] \in Upto(i)
                         /\ Upto(i) \ {order[i]} = Upto(i - 1)
  <2>1. Upto(0) = {}
    OBVIOUS
  <2>2. ASSUME NEW i \in 1..n
        PROVE  /\ Upto(i) \in SUBSET S /\ order[i] \in Upto(i)
               /\ Upto(i) \ {order[i]} = Upto(i - 1)
    <3>1. \A j \in 1..i : j \in 1..n
      BY <1>1
    <3>2. \A j : j \in 1..(i - 1) <=> j \in 1..i /\ j # i
      OBVIOUS
    <3> HIDE DEF n
    <3> QED BY <1>2, <3>1, <3>2
  <2>3. Upto(n) = S
    <3>1. order \in Injection(1..n, S)
      BY <1>2 DEF Injection, IsInjective
    <3>2. IsFiniteSet(1..n) /\ Cardinality(1..n) = n
      BY <1>1, FS_Interval
    <3>3. order \in Surjection(1..n, S)
      BY <3>1, <3>2, FS_Injection
    <3> QED BY <1>2, <3>3 DEF Surjection
  <2> QED BY <2>1, <2>2, <2>3
<1>7. DOMAIN txs = 1..n /\ \A i \in 1..n : txs[i] = tx[order[i]] /\ txs[i].amount \in Int
  BY <1>2
<1> DEFINE total == Total(txs)
<1> HIDE DEF txs, n
<1>8. PICK f \in [0..n -> Int] : /\ f[0] = 0
                                 /\ \A i \in 1..n : f[i] = Plus(f[i - 1], txs[i])
                                 /\ total = f[n]
  BY <1>1, <1>7, TotalSteps
<1> HIDE DEF total
<1> DEFINE a == [i \in 0..n |-> v[Upto(i)]]
           b == [i \in 0..n |-> w[Upto(i)]]
<1>9. /\ a \in [0..n -> Int] /\ b \in [0..n -> Int]
      /\ a[0] = 0 /\ b[0] = 0 /\ a[n] < limit /\ SumFunction(W) = b[n]
  <2> HIDE DEF v, w, Upto, limit, W, n
  <2>1. \A i \in 0..n : Upto(i) \in SUBSET S
    BY <1>1, <1>6
  <2>2. 0 \in 0..n /\ n \in 0..n
    BY <1>1
  <2> QED BY <1>3, <1>4, <1>5, <1>6, <2>1, <2>2
<1>10. ASSUME NEW i \in 1..n
       PROVE  /\ i \in 0..n /\ i - 1 \in 0..n /\ order[i] \in S
              /\ a[i] = V[order[i]] + a[i - 1] /\ b[i] = W[order[i]] + b[i - 1]
  <2> HIDE DEF v, w, V, W, Upto, n
  <2>1. i \in 0..n /\ i - 1 \in 0..n /\ order[i] \in S
    BY <1>1, <1>2
  <2>2. Upto(i) \in SUBSET S /\ order[i] \in Upto(i) /\ Upto(i) \ {order[i]} = Upto(i - 1)
    BY <1>6
  <2>3. v[Upto(i)] = V[order[i]] + v[Upto(i - 1)] /\ w[Upto(i)] = W[order[i]] + w[Upto(i - 1)]
    BY <1>3, <1>4, <2>2
  <2> QED BY <2>1, <2>3
<1> HIDE DEF a, b, n, limit
<1> DEFINE Between(i) == 0 <= a[i] /\ -a[i] <= b[i] /\ b[i] <= a[i]
<1>11. ASSUME NEW i \in 1..n, Between(i - 1)
       PROVE  /\ Between(i) /\ a[i - 1] <= a[i]
              /\ a[i] < limit => /\ V[order[i]] < limit /\ Abs(b[i - 1] + W[order[i]]) < limit
                                 /\ b[i] = b[i - 1] + W[order[i]]
  <2>1. /\ a[i] = V[order[i]] + a[i - 1] /\ b[i] = W[order[i]] + b[i - 1]
        /\ i - 1 \in 0..n /\ order[i] \in S
    BY <1>10
  <2>2. PICK x \in Int, y \in Int : /\ x = V[order[i]] /\ y = W[order[i]]
                                    /\ 0 <= x /\ (y = x \/ y = -x)
    BY <1>1, <2>1
  <2>3. PICK p \in Int, q \in Int : p = a[i - 1] /\ q = b[i - 1]
    BY <1>9, <2>1
  <2>4. 0 <= p /\ -p <= q /\ q <= p
    BY <1>11, <2>3
  <2>5. limit \in Int
    BY <1>1
  <2>6. /\ 0 <= x + p /\ -(x + p) <= y + q /\ y + q <= x + p /\ p <= x + p
        /\ x + p < limit => Abs(q + y) < limit /\ x < limit
    <3> HIDE DEF Between, V, W
    <3>1. 0 <= x
      BY <2>2
    <3>2. CASE y = x
      BY <2>4, <2>5, <3>1, <3>2 DEF Abs
    <3>3. CASE y = -x
      BY <2>4, <2>5, <3>1, <3>3 DEF Abs
    <3> QED BY <2>2, <3>2, <3>3
  <2>7. a[i] = x + p /\ b[i] = y + q /\ y + q = q + y
    BY <2>1, <2>2, <2>3
  <2> QED BY <2>2, <2>3, <2>6, <2>7
<1>12. \A i \in 0..n : Between(i)
  <2> DEFINE Good == {i \in 0..n : Between(i)}
  <2>1. ASSUME NEW i \in 0..n, \A j \in 0..(i - 1) : j \in Good PROVE Between(i)
    <3>1. CASE i = 0
      BY <1>9, <3>1
    <3>2. CASE i # 0
      <4>1. i \in 1..n /\ i - 1 \in 0..(i - 1)
        BY <1>1, <3>2
      <4>2. Between(i - 1)
        BY <2>1, <4>1
      <4> HIDE DEF Between
      <4> QED BY <1>11, <4>1, <4>2
    <3> QED BY <3>1, <3>2
  <2> HIDE DEF Between
  <2>2. \A i \in 0..n : (\A j \in 0..(i - 1) : j \in Good) => i \in Good
    BY <2>1
  <2> HIDE DEF Good
  <2>3. \A i \in 0..n : i \in Good
    BY <1>1, <2>2, NumberInduction
  <2> QED BY <2>3 DEF Good
<1>13. \A i \in 0..n : a[i] < limit
  <2> DEFINE Good == {k \in 0..n : a[n - k] < limit}
  <2>1. ASSUME NEW k \in 0..n, \A j \in 0..(k - 1) : j \in Good PROVE a[n - k] < limit
    <3>1. CASE k = 0
      BY <1>1, <1>9, <3>1
    <3>2. CASE k # 0
      <4>1. /\ k - 1 \in 0..(k - 1) /\ n - (k - 1) \in 1..n /\ (n - (k - 1)) - 1 = n - k
            /\ n - k \in 0..n /\ n - (k - 1) \in 0..n
        BY <1>1, <3>2
      <4>2. a[n - (k - 1)] < limit
        BY <2>1, <4>1
      <4>3. Between((n - (k - 1)) - 1)
        BY <1>12, <4>1
      <4>4. a[n - k] <= a[n - (k - 1)]
        <5> HIDE DEF Between
        <5> QED BY <1>11, <4>1, <4>3
      <4>5. a[n - k] \in Int /\ a[n - (k - 1)] \in Int
        BY <1>9, <4>1
      <4> QED BY <1>1, <4>2, <4>4, <4>5
    <3> QED BY <3>1, <3>2
  <2>2. \A k \in 0..n : (\A j \in 0..(k - 1) : j \in Good) => k \in Good
    BY <2>1
  <2> HIDE DEF Good
  <2>3. \A k \in 0..n : k \in Good
    BY <1>1, <2>2, NumberInduction
  <2>4. ASSUME NEW i \in 0..n PROVE a[i] < limit
    <3>1. n - i \in 0..n /\ n - (n - i) = i
      BY <1>1
    <3> QED BY <2>3, <3>1 DEF Good
  <2> QED BY <2>4
<1> HIDE DEF Between
<1>14. ASSUME NEW i \in 1..n, f[i - 1] = b[i - 1] PROVE f[i] = b[i]
  <2>1. /\ i \in 0..n /\ i - 1 \in 0..n /\ order[i] \in S
        /\ f[i] = Plus(b[i - 1], txs[i]) /\ txs[i] = tx[order[i]]
    <3>1. i \in 0..n /\ i - 1 \in 0..n /\ order[i] \in S
      BY <1>10
    <3>2. f[i] = Plus(f[i - 1], txs[i]) /\ txs[i] = tx[order[i]]
      BY <1>7, <1>8
    <3> HIDE DEF txs
    <3> QED BY <1>14, <3>1, <3>2
  <2>2. /\ V[order[i]] < limit /\ Abs(b[i - 1] + W[order[i]]) < limit
        /\ b[i] = b[i - 1] + W[order[i]]
    <3>1. Between(i - 1) /\ a[i] < limit
      BY <1>12, <1>13, <2>1
    <3> QED BY <1>11, <3>1
  <2>3. /\ tx[order[i]].type \in {"CREDIT", "DEBIT"} /\ tx[order[i]].amount \in Nat
        /\ tx[order[i]].amount = V[order[i]]
        /\ W[order[i]] = IF tx[order[i]].type = "CREDIT" THEN tx[order[i]].amount
                         ELSE -tx[order[i]].amount
        /\ W[order[i]] \in Int /\ b[i - 1] \in Int
    BY <1>1, <1>9, <2>1
  <2> HIDE DEF V, W
  <2>4. Plus(b[i - 1], tx[order[i]]) = b[i - 1] + W[order[i]]
    BY <2>2, <2>3, PlusExact DEF limit
  <2> QED BY <2>1, <2>2, <2>4
<1> DEFINE Good == {i \in 0..n : f[i] = b[i]}
<1>15. ASSUME NEW i \in 0..n, \A j \in 0..(i - 1) : j \in Good PROVE f[i] = b[i]
  <2>1. CASE i = 0
    BY <1>8, <1>9, <2>1
  <2>2. CASE i # 0
    <3>1. i \in 1..n /\ i - 1 \in 0..(i - 1)
      BY <1>1, <2>2
    <3> QED BY <1>14, <1>15, <3>1
  <2> QED BY <2>1, <2>2
<1>16. n \in Good
  <2>1. \A i \in 0..n : (\A j \in 0..(i - 1) : j \in Good) => i \in Good
    BY <1>15
  <2> HIDE DEF Good
  <2>2. \A i \in 0..n : i \in Good
    BY <1>1, <2>1, NumberInduction
  <2> QED BY <1>1, <2>2
<1>17. total = SumFunction(W)
  <2> HIDE DEF txs, W
  <2>1. f[n] = b[n]
    BY <1>16
  <2>2. total = f[n]
    BY <1>8
  <2>3. SumFunction(W) = b[n]
    BY <1>9
  <2> QED BY <2>1, <2>2, <2>3
<1> QED BY <1>17 DEF txs, total
=============================================================================
