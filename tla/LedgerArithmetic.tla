-------------------------- MODULE LedgerArithmetic --------------------------
(***************************************************************************)
(* The total that TransactionRepository.balance of the Account Service     *)
(* adds up with Python's decimal module.  An amount keeps every digit the  *)
(* client sent; a result of arithmetic is rounded to the precision of the  *)
(* context (28 significant digits by default), half to even.               *)
(*                                                                         *)
(* Amounts are numbers of the smallest unit in use.                        *)
(***************************************************************************)
EXTENDS Integers, Sequences, SequencesExt

CONSTANT Precision  \* of the decimal context

ASSUME PrecisionAssumption == Precision \in Nat \ {0}

Abs(x) == IF x < 0 THEN -x ELSE x

\* A multiple of unit next to x >= 0, the even one when x is halfway.
HalfEven(x, unit) ==
  LET q == x \div unit
      r == 2 * (x % unit)
  IN IF r > unit \/ (r = unit /\ q % 2 = 1) THEN (q + 1) * unit ELSE q * unit

\* The unit of the last digit of x that the precision keeps: a digit is dropped
\* until the others fit.
Unit(x) ==
  LET unit[m \in 0..Abs(x)] ==
        IF m = 0 \/ m < 10 ^ Precision THEN 1 ELSE 10 * unit[m \div 10]
  IN unit[Abs(x)]

Round(x) == LET m == HalfEven(Abs(x), Unit(x)) IN IF x < 0 THEN -m ELSE m

\* total += value if type is CREDIT else -value: the negation rounds too.
Plus(total, tx) ==
  Round(IF tx.type = "CREDIT" THEN total + tx.amount ELSE total + Round(-tx.amount))

Total(txs) == FoldLeft(Plus, 0, txs)
=============================================================================
