-------------------------- MODULE MCTapSettlement --------------------------
(* Instances of TapSettlement for TLC.                                     *)
EXTENDS TapSettlement

CONSTANT t1

\* Paid for by both rails, two units in naira.
BothLegs == [t \in Tap |-> [l \in {"usdc", "naira"} |-> IF l = "usdc" THEN 1 ELSE 2]]
=============================================================================
