-------------------------------- MODULE Sums --------------------------------
(***************************************************************************)
(* Sums of integers over finite sets, of which the ledger's balances and   *)
(* the properties about amounts are made.                                  *)
(***************************************************************************)
EXTENDS Integers, FiniteSetsExt

\* The sum of what f gives to the members of S.
Total(f, S) == MapThenSumSet(LAMBDA x : f[x], S)
=============================================================================
