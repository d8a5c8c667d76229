------------------------------- MODULE Money -------------------------------
(***************************************************************************)
(* Sums of money.  The repository adds amounts up in SQL and in Decimal    *)
(* arithmetic (reserved_amount, SUM(amount) over transactions, ...).  Here *)
(* an amount is a whole number of indivisible units, and the sum of the    *)
(* amounts of a finite set of items is the number of units they hold: the  *)
(* size of a disjoint union.  Stated this way a sum needs no recursion,    *)
(* and what a change of the set does to it follows from the cardinality of *)
(* unions, so it can be proved about (MoneyProofs).                        *)
(***************************************************************************)
EXTENDS Integers, FiniteSets

\* The units that make up item x.
UnitsOf(x, amount) == {x} \X (1 .. amount[x])

\* The units held by all the items of S, each item's apart from the others'.
Units(S, amount) == UNION {UnitsOf(x, amount) : x \in S}

\* The sum of amount[x] for x in S.
Total(S, amount) == Cardinality(Units(S, amount))
=============================================================================
