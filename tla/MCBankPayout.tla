---------------------------- MODULE MCBankPayout ----------------------------
(* Instances of BankPayout for TLC.                                        *)
EXTENDS BankPayout

CONSTANTS p1, p2, w1, o1

\* A merchant's payout, and a sender's when there are two.
Kinds == [p \in Payout |-> IF p = p1 THEN "merchant" ELSE "user"]
OneEach == [p \in Payout |-> 1]
=============================================================================
