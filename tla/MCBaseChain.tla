---------------------------- MODULE MCBaseChain ----------------------------
(* Instances of BaseChain for TLC.                                         *)
EXTENDS BaseChain

CONSTANTS t1, t2, w1, w2

Worth == [t \in Transfer |-> IF t = t1 THEN 2 ELSE 1]
Price == [w \in Withdrawal |-> 1]
=============================================================================
