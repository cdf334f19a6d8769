----------------------------- MODULE MCCardTap -----------------------------
(* Instances of CardTap for TLC.                                           *)
EXTENDS CardTap

CONSTANTS d1, d2

\* Small amounts need nothing, larger ones a PIN, the largest an approval.
Tiers == [a \in Amount |-> IF a = 1 THEN "none" ELSE IF a = 2 THEN "pin" ELSE "step_up"]
=============================================================================
