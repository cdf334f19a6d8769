------------------------------- MODULE Claims -------------------------------
(***************************************************************************)
(* What settling a merchant promises, whichever rail does it:              *)
(*                                                                         *)
(*   - each leg of a tap is owed, covered by a payment on its way, or paid;*)
(*   - only a covered leg is paid, and one whose payment failed is owed    *)
(*     again in full;                                                      *)
(*   - merchant_payable holds what is owed, less what reversals withdrew:  *)
(*     a leg leaves the account when it is covered, if the account can     *)
(*     bear it, and comes back when its payment fails.                     *)
(*                                                                         *)
(* TapSettlement (both legs) and NairaLeg (the naira leg) implement it.    *)
(***************************************************************************)
EXTENDS Integers

CONSTANTS
  Tap,      \* the taps of one merchant
  Share     \* what each leg of each tap delivers: 0 for no leg

VARIABLES
  claim,      \* where each leg of each tap is
  withdrawn,  \* taps that have been reversed
  payable     \* balance of merchant_payable

vars == <<claim, withdrawn, payable>>

Leg == {"usdc", "naira"}
Unclaimed == [l \in Leg |-> "none"]
Recorded(t) == [l \in Leg |-> IF Share[t][l] > 0 THEN "owed" ELSE "none"]
Net(t) == Share[t]["usdc"] + Share[t]["naira"]

Init ==
  /\ \A t \in Tap : claim[t] \in {Unclaimed, Recorded(t)}
  /\ withdrawn = {}
  /\ payable \in Int

Charge(t) ==
  /\ claim[t] = Unclaimed
  /\ claim' = [claim EXCEPT ![t] = Recorded(t)]
  /\ payable' = payable + Net(t)
  /\ UNCHANGED withdrawn

Cover(t, l) ==
  /\ claim[t][l] = "owed" /\ payable >= Share[t][l]
  /\ claim' = [claim EXCEPT ![t][l] = "covered"]
  /\ payable' = payable - Share[t][l]
  /\ UNCHANGED withdrawn

Restore(t, l) ==
  /\ claim[t][l] = "covered"
  /\ claim' = [claim EXCEPT ![t][l] = "owed"]
  /\ payable' = payable + Share[t][l]
  /\ UNCHANGED withdrawn

Pay(t, l) ==
  /\ claim[t][l] = "covered"
  /\ claim' = [claim EXCEPT ![t][l] = "paid"]
  /\ UNCHANGED <<withdrawn, payable>>

\* A reversal withdraws the tap, wherever its settlement has got to.
Withdraw(t) ==
  /\ t \notin withdrawn /\ claim[t] # Unclaimed
  /\ withdrawn' = withdrawn \cup {t}
  /\ payable' = payable - Net(t)
  /\ UNCHANGED claim

Next ==
  \E t \in Tap : \/ Charge(t) \/ Withdraw(t)
                 \/ \E l \in Leg : Cover(t, l) \/ Restore(t, l) \/ Pay(t, l)

Spec == Init /\ [][Next]_vars
=============================================================================
