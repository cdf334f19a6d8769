------------------------------- MODULE Ledger -------------------------------
(***************************************************************************)
(* What the ledger promises, whatever the interleaving of the database     *)
(* transactions that write to it:                                          *)
(*                                                                         *)
(*   - the books change only when a movement is posted;                    *)
(*   - a movement, named by its idempotency key, is posted at most once;   *)
(*   - no change takes a protected account below zero.                     *)
(*                                                                         *)
(* LedgerTx, the statement-level model of internal/ledger, implements it.  *)
(***************************************************************************)
EXTENDS Integers

CONSTANTS
  Account,    \* every account the transactions touch
  Key,        \* every idempotency key they present
  Txn,        \* the transactions
  NoTxn,      \* "posted by nobody yet"
  Protected   \* accounts that ensureFunds guards on every debit

VARIABLES
  balance,    \* committed sum of the entries of each account
  posted      \* which transaction posted each key, or NoTxn

vars == <<balance, posted>>

Init ==
  /\ balance \in [Account -> Int]
  /\ \A a \in Protected : balance[a] >= 0
  /\ posted = [k \in Key |-> NoTxn]

\* Transaction t posts movements, none of them posted before.
Commit(t) ==
  /\ posted' # posted
  /\ posted' \in [Key -> Txn \cup {NoTxn}]
  /\ \A k \in Key : posted'[k] # posted[k] => posted[k] = NoTxn /\ posted'[k] = t
  /\ balance' \in [Account -> Int]
  /\ \A a \in Protected : balance'[a] >= 0

Next == \E t \in Txn : Commit(t)

Spec == Init /\ [][Next]_vars
=============================================================================
