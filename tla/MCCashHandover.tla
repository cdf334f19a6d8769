--------------------------- MODULE MCCashHandover ---------------------------
(* Instances of CashHandover for TLC.                                      *)
EXTENDS CashHandover

CONSTANTS p1, p2

\* A trader who tries again with the same photograph.
SamePhoto == [p \in Pledge |-> "photo"]
OwnNotes == [p \in Pledge |-> {p}]
\* The float covers the first pledge or the second, and never both.
TwoAndOne == [p \in Pledge |-> IF p = p1 THEN 2 ELSE 1]
Two == [a \in Agent |-> 2]
=============================================================================
