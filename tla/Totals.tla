------------------------------- MODULE Totals -------------------------------
(***************************************************************************)
(* The sum of a column of natural numbers over a set of rows: what         *)
(* SUM(...), aggregate({_sum}) and the Array.reduce calls of the services  *)
(* compute.  It counts the units the rows hold, each unit of a row once,   *)
(* so that facts about sums follow from facts about finite sets.           *)
(***************************************************************************)
EXTENDS Integers, FiniteSets

UnitsOf(f, S) == UNION {{x} \X (1 .. f[x]) : x \in S}

SumOver(f, S) == Cardinality(UnitsOf(f, S))

=============================================================================
