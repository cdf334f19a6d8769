--------------------------- MODULE LedgerTx_proofs ---------------------------
(***************************************************************************)
(* What LedgerTx guarantees for every set of transactions, every program   *)
(* whose movements are sound, and any number of retries: no protected      *)
(* account is ever negative, what a transaction does is posted whole or not*)
(* at all, books balance, a duplicate is done, nobody is stuck, and every  *)
(* interleaving of the statements implements the abstract Ledger.          *)
(*                                                                         *)
(* None is inductive. The argument is Postgres's: whoever is past a        *)
(* FOR UPDATE still holds it, nobody else then has an uncommitted entry on *)
(* that account, so the sum that was checked is still the sum when the     *)
(* debit lands and when it commits.                                        *)
(*                                                                         *)
(* The last part is about Movements: every movement, and every transaction *)
(* the services make of them, is a sound program.                          *)
(***************************************************************************)
EXTENDS LedgerTx, Movements, Sums_proofs, SequenceTheorems

\* Only the holder of FOR UPDATE can hold FOR KEY SHARE beside it.
LocksExclude ==
  \A a \in Account : \A t, u \in Txn : (t # u /\ xlock[a] = t) => u \notin slock[a]

\* An uncommitted entry holds its account's row.
EntriesHoldLocks ==
  \A t \in Txn : \A a \in Account : pend[t][a] # 0 => t \in slock[a]

\* An uncommitted entry was inserted under a key.
EntriesHaveKeys ==
  \A t \in Txn : (\E a \in Account : pend[t][a] # 0) => keys[t] # {}

\* What a transaction has locked or keyed so far, it still holds.
LocksHeld ==
  \A t \in Txn : \A i \in 1..Len(Program[t]) :
    (i < pc[t] /\ Statement(t, i).op = "lock") => xlock[Statement(t, i).account] = t

KeysHeld ==
  \A t \in Txn : \A i \in 1..Len(Program[t]) :
    (i < pc[t] /\ Statement(t, i).op = "key") => Statement(t, i).key \in keys[t]

\* A key in flight is in flight once and not yet posted.
KeysFresh ==
  \A t \in Txn : \A k \in keys[t] :
    posted[k] = NoTxn /\ \A u \in Txn \ {t} : k \notin keys[u]

\* Whatever commits next, a protected account stays covered.
Covered ==
  \A a \in Protected :
    /\ balance[a] >= 0
    /\ \A t \in Txn : IF xlock[a] = t THEN balance[a] + pend[t][a] >= 0
                                      ELSE pend[t][a] >= 0

\* Between the check and the debit it allows, what was checked stays true.
IsDebit(t, i) ==
  Statement(t, i).op = "entry" /\ Statement(t, i).account \in Protected
    /\ Statement(t, i).amount < 0

CheckStands ==
  \A t \in Txn : \A i \in 1..Len(Program[t]) :
    (IsDebit(t, i) /\ pc[t] \in {i - 1, i}) =>
      balance[Statement(t, i).account] + pend[t][Statement(t, i).account]
        >= -Statement(t, i).amount

Inv ==
  /\ TypeOK
  /\ LocksExclude
  /\ EntriesHoldLocks
  /\ EntriesHaveKeys
  /\ LocksHeld
  /\ KeysHeld
  /\ KeysFresh
  /\ Covered
  /\ CheckStands

-----------------------------------------------------------------------------
(* Statements and the fields they carry.                                   *)

\* Each kind of statement has the fields its kind needs.
LEMMA StatementFields ==
  ASSUME NEW t \in Txn, NEW i \in 1..Len(Program[t])
  PROVE  /\ Statement(t, i) \in Statements
         /\ Statement(t, i).op \in {"lock", "check", "entry"}
              => Statement(t, i).account \in Account
         /\ Statement(t, i).op \in {"check", "entry"} => Statement(t, i).amount \in Int
         /\ Statement(t, i).op \in {"key", "seen"} => Statement(t, i).key \in Key
         /\ Statement(t, i).op = "key" => Statement(t, i).taken \in Results
<1>1. Program[t] \in Seq(Statements)
  BY ProgramAssumption
<1>2. Statement(t, i) \in Statements
  BY <1>1 DEF Statement
<1> QED
  BY <1>2 DEF Statements

\* A statement about to run is a statement of the program.
LEMMA CurrentStatement ==
  ASSUME TypeOK, NEW t \in Txn, Running(t), ~AtCommit(t)
  PROVE  /\ pc[t] \in 1..Len(Program[t])
         /\ Stmt(t) = Statement(t, pc[t])
<1>1. Len(Program[t]) \in Nat
  BY ProgramAssumption
<1>2. pc[t] \in Nat /\ pc[t] <= Len(Program[t]) + 1
  BY DEF TypeOK
<1>3. pc[t] \in 1..Len(Program[t])
  BY <1>1, <1>2 DEF Running, AtCommit
<1> QED
  BY <1>3 DEF Stmt

\* The three statements before a protected debit.
LEMMA DebitShape ==
  ASSUME NEW t \in Txn, NEW i \in 1..Len(Program[t]), IsDebit(t, i)
  PROVE  /\ i > 3
         /\ Statement(t, i - 1).op = "key"
         /\ Statement(t, i - 2).op = "check"
         /\ Statement(t, i - 2).account = Statement(t, i).account
         /\ Statement(t, i - 2).amount = -Statement(t, i).amount
         /\ Statement(t, i - 3).op = "lock"
         /\ Statement(t, i - 3).account = Statement(t, i).account
<1>1. /\ i > 3
      /\ Statement(t, i - 1).op = "key"
      /\ Statement(t, i - 2) = [op |-> "check", account |-> Statement(t, i).account,
                                amount |-> -Statement(t, i).amount]
      /\ Statement(t, i - 3) = [op |-> "lock", account |-> Statement(t, i).account]
  BY ProgramAssumption DEF Sound, DebitsAreChecked, IsDebit, Statement
<1> QED
  BY <1>1

\* An empty transaction table on covered balances satisfies the invariant.
LEMMA InitInv == Init => Inv
<1> SUFFICES ASSUME Init PROVE Inv
  OBVIOUS
<1> USE DEF Init
<1>1. TypeOK
  BY OpeningAssumption, RunsAssumption, ProgramAssumption DEF TypeOK, Nothing, Results
<1>2. LocksExclude
  BY DEF LocksExclude
<1>3. EntriesHoldLocks /\ EntriesHaveKeys
  BY DEF EntriesHoldLocks, EntriesHaveKeys, Nothing
<1>4. LocksHeld /\ KeysHeld
  BY DEF LocksHeld, KeysHeld
<1>5. KeysFresh
  BY DEF KeysFresh
<1>6. Covered
  BY OpeningAssumption, ProgramAssumption DEF Covered, Nothing
<1>7. CheckStands
  <2> SUFFICES ASSUME NEW t \in Txn, NEW i \in 1..Len(Program[t]), IsDebit(t, i),
                      pc[t] \in {i - 1, i}
               PROVE FALSE
    BY DEF CheckStands
  <2> QED
    BY DebitShape
<1> QED
  BY <1>1, <1>2, <1>3, <1>4, <1>5, <1>6, <1>7 DEF Inv

-----------------------------------------------------------------------------
(* Statements that leave the transaction open.                             *)

\* Moving to the next statement keeps the program counters typed.
LEMMA StepTypes ==
  ASSUME TypeOK, NEW t \in Txn, Running(t), ~AtCommit(t), Step(t)
  PROVE  /\ pc' \in [Txn -> Nat]
         /\ \A u \in Txn : pc'[u] <= Len(Program[u]) + 1
         /\ pc'[t] = pc[t] + 1
         /\ \A u \in Txn \ {t} : pc'[u] = pc[u]
<1>1. pc[t] \in 1..Len(Program[t])
  BY CurrentStatement
<1>2. \A u \in Txn : Len(Program[u]) \in Nat
  BY ProgramAssumption
<1> QED
  BY <1>1, <1>2 DEF TypeOK, Step

\* When t steps, the checks of the others stand; t's own debits within reach are
\* those one or two statements on.
LEMMA NextDebit ==
  ASSUME TypeOK, NEW t \in Txn, Running(t), ~AtCommit(t), Step(t),
         NEW i \in 1..Len(Program[t]), IsDebit(t, i), pc'[t] \in {i - 1, i}
  PROVE  \/ pc[t] = i - 1 /\ Statement(t, pc[t]).op = "key"
         \/ /\ pc[t] = i - 2
            /\ Statement(t, pc[t]).op = "check"
            /\ Statement(t, pc[t]).account = Statement(t, i).account
            /\ Statement(t, pc[t]).amount = -Statement(t, i).amount
<1>1. pc'[t] = pc[t] + 1 /\ pc[t] \in Nat
  BY StepTypes DEF TypeOK
<1>2. pc[t] \in {i - 1, i - 2}
  BY <1>1
<1> QED
  BY <1>2, DebitShape

\* A debit about to land, or its key, is past the lock on its account.
LEMMA DebitIsLocked ==
  ASSUME TypeOK, LocksHeld, NEW t \in Txn, NEW i \in 1..Len(Program[t]), IsDebit(t, i),
         pc[t] \in {i - 1, i}
  PROVE  xlock[Statement(t, i).account] = t
<1>1. /\ i - 3 \in 1..Len(Program[t])
      /\ i - 3 < pc[t]
      /\ Statement(t, i - 3).op = "lock"
      /\ Statement(t, i - 3).account = Statement(t, i).account
  BY DebitShape
<1> QED
  BY <1>1 DEF LocksHeld

\* What a step that is no lock, no key and no check leaves standing.
LEMMA LocksHeldStep ==
  ASSUME TypeOK, LocksHeld, NEW t \in Txn, Running(t), ~AtCommit(t), Step(t),
         Stmt(t).op # "lock", xlock' = xlock
  PROVE  LocksHeld'
<1> SUFFICES ASSUME NEW u \in Txn, NEW i \in 1..Len(Program[u]), i < pc'[u],
                    Statement(u, i).op = "lock"
             PROVE xlock[Statement(u, i).account] = u
  BY DEF LocksHeld
<1>1. i < pc[u]
  <2>1. CASE u = t
    <3>1. pc'[t] = pc[t] + 1 /\ pc[t] \in 1..Len(Program[t]) /\ Stmt(t) = Statement(t, pc[t])
      BY StepTypes, CurrentStatement
    <3>2. i # pc[t]
      BY <2>1, <3>1
    <3> QED
      BY <2>1, <3>1, <3>2
  <2>2. CASE u # t
    BY <2>2, StepTypes
  <2> QED
    BY <2>1, <2>2
<1> QED
  BY <1>1 DEF LocksHeld

\* A step to the next statement loses no key already inserted.
LEMMA KeysHeldStep ==
  ASSUME TypeOK, KeysHeld, NEW t \in Txn, Running(t), ~AtCommit(t), Step(t),
         Stmt(t).op # "key", keys' = keys
  PROVE  KeysHeld'
<1> SUFFICES ASSUME NEW u \in Txn, NEW i \in 1..Len(Program[u]), i < pc'[u],
                    Statement(u, i).op = "key"
             PROVE Statement(u, i).key \in keys[u]
  BY DEF KeysHeld
<1>1. i < pc[u]
  <2>1. CASE u = t
    <3>1. pc'[t] = pc[t] + 1 /\ pc[t] \in 1..Len(Program[t]) /\ Stmt(t) = Statement(t, pc[t])
      BY StepTypes, CurrentStatement
    <3>2. i # pc[t]
      BY <2>1, <3>1
    <3> QED
      BY <2>1, <3>1, <3>2
  <2>2. CASE u # t
    BY <2>2, StepTypes
  <2> QED
    BY <2>1, <2>2
<1> QED
  BY <1>1 DEF KeysHeld

\* What a transaction checked stands until its debit is in.
LEMMA CheckStandsStep ==
  ASSUME TypeOK, CheckStands, NEW t \in Txn, Running(t), ~AtCommit(t), Step(t),
         Stmt(t).op \notin {"check", "key"}, balance' = balance,
         \A u \in Txn \ {t} : pend'[u] = pend[u]
  PROVE  CheckStands'
<1> SUFFICES ASSUME NEW u \in Txn, NEW i \in 1..Len(Program[u]), IsDebit(u, i),
                    pc'[u] \in {i - 1, i}
             PROVE balance[Statement(u, i).account] + pend'[u][Statement(u, i).account]
                     >= -Statement(u, i).amount
  BY DEF CheckStands, IsDebit
<1>1. u # t
  <2>1. Stmt(t) = Statement(t, pc[t])
    BY CurrentStatement
  <2> QED
    BY <2>1, NextDebit
<1>2. pc'[u] = pc[u] /\ pend'[u] = pend[u]
  BY <1>1, StepTypes
<1> QED
  BY <1>2 DEF CheckStands

\* InTx: opening a transaction preserves the invariant.
LEMMA BeginInv ==
  ASSUME Inv, NEW t \in Txn, Begin(t)
  PROVE  Inv'
<1> USE DEF Inv, Begin, books, locks
<1>0. \A u \in Txn : Len(Program[u]) \in Nat
  BY ProgramAssumption
<1>1. TypeOK'
  <2>1. pc' \in [Txn -> Nat] /\ runs' \in [Txn -> Nat]
    BY DEF TypeOK
  <2>2. \A u \in Txn : pc'[u] <= Len(Program[u]) + 1
    BY <1>0 DEF TypeOK
  <2>3. \A u \in Txn : runs'[u] <= MaxRuns[u]
    <3>1. \A u \in Txn : MaxRuns[u] \in Nat /\ runs[u] \in Nat /\ runs[u] <= MaxRuns[u]
      BY RunsAssumption DEF TypeOK
    <3>2. \A u \in Txn : runs'[u] = IF u = t THEN runs[u] + 1 ELSE runs[u]
      BY DEF TypeOK
    <3>3. runs[t] < MaxRuns[t]
      OBVIOUS
    <3> HIDE DEF Begin, Inv
    <3> QED
      BY <3>1, <3>2, <3>3
  <2> QED
    BY <2>1, <2>2, <2>3 DEF TypeOK
<1>2. LocksExclude' /\ EntriesHoldLocks' /\ EntriesHaveKeys' /\ KeysFresh' /\ Covered'
  BY DEF LocksExclude, EntriesHoldLocks, EntriesHaveKeys, KeysFresh, Covered
<1>3. LocksHeld' /\ KeysHeld'
  BY DEF LocksHeld, KeysHeld, TypeOK
<1>4. CheckStands'
  <2> SUFFICES ASSUME NEW u \in Txn, NEW i \in 1..Len(Program[u]), IsDebit(u, i),
                      pc'[u] \in {i - 1, i}
               PROVE balance[Statement(u, i).account] + pend[u][Statement(u, i).account]
                       >= -Statement(u, i).amount
    BY DEF CheckStands, IsDebit
  <2>1. u # t
    BY DebitShape DEF TypeOK
  <2> QED
    BY <2>1 DEF CheckStands, TypeOK
<1> QED
  BY <1>1, <1>2, <1>3, <1>4

\* ensureFunds: taking FOR UPDATE preserves the invariant.
LEMMA LockAccountInv ==
  ASSUME Inv, NEW t \in Txn, LockAccount(t)
  PROVE  Inv'
<1> DEFINE a == Stmt(t).account
<1> USE DEF Inv
<1>1. /\ Running(t) /\ ~AtCommit(t) /\ Step(t)
      /\ Stmt(t).op = "lock"
      /\ xlock' = [xlock EXCEPT ![a] = t]
      /\ UNCHANGED <<balance, posted, slock, pend, keys, result, runs>>
  BY DEF LockAccount, At, Stmt, books
<1>2. pc[t] \in 1..Len(Program[t]) /\ Stmt(t) = Statement(t, pc[t]) /\ a \in Account
  <2>1. pc[t] \in 1..Len(Program[t]) /\ Stmt(t) = Statement(t, pc[t])
    BY <1>1, CurrentStatement
  <2> QED
    BY <1>1, <2>1, StatementFields
<1>3. \A u \in Txn \ {t} : xlock[a] # u /\ u \notin slock[a]
  BY <1>1 DEF LockAccount, Blockers
<1>4. TypeOK'
  BY <1>1, <1>2, StepTypes DEF TypeOK
<1>5. LocksExclude'
  BY <1>1, <1>2, <1>3 DEF LocksExclude, TypeOK
<1>6. EntriesHoldLocks' /\ EntriesHaveKeys' /\ KeysFresh'
  BY <1>1 DEF EntriesHoldLocks, EntriesHaveKeys, KeysFresh
<1>7. LocksHeld'
  <2> SUFFICES ASSUME NEW u \in Txn, NEW i \in 1..Len(Program[u]), i < pc'[u],
                      Statement(u, i).op = "lock"
               PROVE xlock'[Statement(u, i).account] = u
    BY DEF LocksHeld
  <2>1. Statement(u, i).account \in Account
    BY StatementFields
  <2>2. CASE u # t
    <3>1. pc'[u] = pc[u]
      BY <1>1, <2>2, StepTypes
    <3>2. xlock[Statement(u, i).account] = u
      BY <3>1 DEF LocksHeld
    <3> QED
      BY <1>1, <1>2, <1>3, <2>1, <2>2, <3>2 DEF TypeOK
  <2>3. CASE u = t
    <3>1. i = pc[t] \/ i < pc[t]
      BY <1>1, <2>3, StepTypes DEF TypeOK
    <3> QED
      BY <1>1, <1>2, <2>1, <2>3, <3>1 DEF LocksHeld, TypeOK
  <2> QED
    BY <2>2, <2>3
<1>8. KeysHeld'
  BY <1>1, KeysHeldStep
<1>9. Covered'
  BY <1>1, <1>2, <1>3, ProgramAssumption DEF Covered, TypeOK
<1>10. CheckStands'
  BY <1>1, CheckStandsStep
<1> QED
  BY <1>4, <1>5, <1>6, <1>7, <1>8, <1>9, <1>10

\* ensureFunds: comparing the balance preserves the invariant.
LEMMA CheckFundsInv ==
  ASSUME Inv, NEW t \in Txn, CheckFunds(t)
  PROVE  Inv'
<1> USE DEF Inv
<1>1. /\ Running(t) /\ ~AtCommit(t) /\ Step(t)
      /\ Stmt(t).op = "check"
      /\ Funds(t) >= Stmt(t).amount
      /\ UNCHANGED <<balance, posted, xlock, slock, pend, keys, result, runs>>
  BY DEF CheckFunds, At, Stmt, books, locks
<1>2. TypeOK'
  BY <1>1, StepTypes DEF TypeOK
<1>3. LocksExclude' /\ EntriesHoldLocks' /\ EntriesHaveKeys' /\ KeysFresh' /\ Covered'
  BY <1>1 DEF LocksExclude, EntriesHoldLocks, EntriesHaveKeys, KeysFresh, Covered
<1>4. LocksHeld' /\ KeysHeld'
  BY <1>1, LocksHeldStep, KeysHeldStep
<1>5. CheckStands'
  <2> SUFFICES ASSUME NEW u \in Txn, NEW i \in 1..Len(Program[u]), IsDebit(u, i),
                      pc'[u] \in {i - 1, i}
               PROVE balance[Statement(u, i).account] + pend[u][Statement(u, i).account]
                       >= -Statement(u, i).amount
    BY <1>1 DEF CheckStands, IsDebit
  <2>1. CASE u = t
    <3>1. Stmt(t) = Statement(t, pc[t])
      BY <1>1, CurrentStatement
    <3>2. /\ Stmt(t).account = Statement(t, i).account
          /\ Stmt(t).amount = -Statement(t, i).amount
      BY <1>1, <2>1, <3>1, NextDebit
    <3> QED
      BY <1>1, <2>1, <3>2 DEF Funds
  <2>2. CASE u # t
    <3>1. pc'[u] = pc[u]
      BY <1>1, <2>2, StepTypes
    <3> QED
      BY <3>1 DEF CheckStands
  <2> QED
    BY <2>1, <2>2
<1> QED
  BY <1>2, <1>3, <1>4, <1>5

\* insert: writing a movement's key preserves the invariant.
LEMMA InsertKeyInv ==
  ASSUME Inv, NEW t \in Txn, InsertKey(t)
  PROVE  Inv'
<1> DEFINE k == Stmt(t).key
<1> USE DEF Inv
<1>1. /\ Running(t) /\ ~AtCommit(t) /\ Step(t)
      /\ Stmt(t).op = "key"
      /\ posted[k] = NoTxn
      /\ keys' = [keys EXCEPT ![t] = @ \cup {k}]
      /\ UNCHANGED <<balance, posted, xlock, slock, pend, result, runs>>
  BY DEF InsertKey, At, Stmt, books, locks
<1>2. pc[t] \in 1..Len(Program[t]) /\ Stmt(t) = Statement(t, pc[t]) /\ k \in Key
  <2>1. pc[t] \in 1..Len(Program[t]) /\ Stmt(t) = Statement(t, pc[t])
    BY <1>1, CurrentStatement
  <2> QED
    BY <1>1, <2>1, StatementFields
<1>3. \A u \in Txn \ {t} : k \notin keys[u]
  BY <1>1 DEF InsertKey, Blockers
<1>4. TypeOK'
  BY <1>1, <1>2, StepTypes DEF TypeOK
<1>5. LocksExclude' /\ EntriesHoldLocks' /\ Covered'
  BY <1>1 DEF LocksExclude, EntriesHoldLocks, Covered
<1>6. EntriesHaveKeys'
  BY <1>1 DEF EntriesHaveKeys, TypeOK
<1>7. LocksHeld'
  BY <1>1, LocksHeldStep
<1>8. KeysHeld'
  <2> SUFFICES ASSUME NEW u \in Txn, NEW i \in 1..Len(Program[u]), i < pc'[u],
                      Statement(u, i).op = "key"
               PROVE Statement(u, i).key \in keys'[u]
    BY DEF KeysHeld
  <2>1. CASE u = t
    <3>1. i < pc[t] \/ i = pc[t]
      BY <1>1, <2>1, StepTypes DEF TypeOK
    <3> QED
      BY <1>1, <1>2, <2>1, <3>1 DEF KeysHeld, TypeOK
  <2>2. CASE u # t
    <3>1. i < pc[u] /\ keys'[u] = keys[u]
      BY <1>1, <2>2, StepTypes DEF TypeOK
    <3> QED
      BY <3>1 DEF KeysHeld
  <2> QED
    BY <2>1, <2>2
<1>9. KeysFresh'
  BY <1>1, <1>3 DEF KeysFresh, TypeOK
<1>10. CheckStands'
  <2> SUFFICES ASSUME NEW u \in Txn, NEW i \in 1..Len(Program[u]), IsDebit(u, i),
                      pc'[u] \in {i - 1, i}
               PROVE balance[Statement(u, i).account] + pend[u][Statement(u, i).account]
                       >= -Statement(u, i).amount
    BY <1>1 DEF CheckStands, IsDebit
  <2>1. pc[u] \in {i - 1, i}
    <3>1. CASE u = t
      BY <1>1, <1>2, <3>1, NextDebit
    <3>2. CASE u # t
      BY <1>1, <3>2, StepTypes
    <3> QED
      BY <3>1, <3>2
  <2> QED
    BY <2>1 DEF CheckStands
<1> QED
  BY <1>4, <1>5, <1>6, <1>7, <1>8, <1>9, <1>10

\* insert: writing an entry, a checked debit included, preserves the invariant.
LEMMA InsertEntryInv ==
  ASSUME Inv, NEW t \in Txn, InsertEntry(t)
  PROVE  Inv'
<1> DEFINE a == Stmt(t).account
           n == Stmt(t).amount
<1> USE DEF Inv
<1>1. /\ Running(t) /\ ~AtCommit(t) /\ Step(t)
      /\ Stmt(t).op = "entry"
      /\ slock' = [slock EXCEPT ![a] = @ \cup {t}]
      /\ pend' = [pend EXCEPT ![t][a] = @ + n]
      /\ UNCHANGED <<balance, posted, xlock, keys, result, runs>>
  BY DEF InsertEntry, At, Stmt, books
<1>2. /\ pc[t] \in 1..Len(Program[t])
      /\ Stmt(t) = Statement(t, pc[t])
      /\ a \in Account
      /\ n \in Int
  <2>1. pc[t] \in 1..Len(Program[t]) /\ Stmt(t) = Statement(t, pc[t])
    BY <1>1, CurrentStatement
  <2> QED
    BY <1>1, <2>1, StatementFields
<1>3. \A u \in Txn \ {t} : xlock[a] # u
  BY <1>1 DEF InsertEntry, Blockers
<1>4. TypeOK'
  <2>1. pend' \in [Txn -> [Account -> Int]]
    BY <1>1, <1>2 DEF TypeOK
  <2>2. slock' \in [Account -> SUBSET Txn]
    BY <1>1, <1>2 DEF TypeOK
  <2> QED
    BY <1>1, <2>1, <2>2, StepTypes DEF TypeOK
<1>5. LocksExclude'
  BY <1>1, <1>2, <1>3 DEF LocksExclude, TypeOK
<1>6. EntriesHoldLocks'
  BY <1>1, <1>2 DEF EntriesHoldLocks, TypeOK
<1>7. EntriesHaveKeys'
  <2>1. PICK j \in 1..(pc[t] - 1) : Statement(t, j).op = "key"
    BY <1>1, <1>2, ProgramAssumption DEF Sound, EntriesAreKeyed, Statement
  <2>2. j \in 1..Len(Program[t]) /\ j < pc[t]
    <3>1. Len(Program[t]) \in Nat
      BY ProgramAssumption
    <3> QED
      BY <1>2, <3>1
  <2>3. keys[t] # {}
    BY <2>1, <2>2 DEF KeysHeld
  <2> QED
    BY <1>1, <1>2, <2>3 DEF EntriesHaveKeys, TypeOK
<1>8. LocksHeld' /\ KeysHeld'
  BY <1>1, LocksHeldStep, KeysHeldStep
<1>9. KeysFresh'
  BY <1>1 DEF KeysFresh
<1>10. Covered'
  <2> SUFFICES ASSUME NEW b \in Protected
               PROVE  /\ balance[b] >= 0
                      /\ \A u \in Txn : IF xlock[b] = u THEN balance[b] + pend'[u][b] >= 0
                                                        ELSE pend'[u][b] >= 0
    BY <1>1 DEF Covered
  <2>1. b \in Account
    BY ProgramAssumption
  <2>2. CASE b # a
    BY <1>1, <1>2, <2>1, <2>2 DEF Covered, TypeOK
  <2>3. CASE b = a /\ n >= 0
    BY <1>1, <1>2, <2>1, <2>3 DEF Covered, TypeOK
  <2>4. CASE b = a /\ n < 0
    <3>1. IsDebit(t, pc[t])
      BY <1>1, <1>2, <2>4 DEF IsDebit
    <3>2. xlock[b] = t
      BY <1>2, <2>4, <3>1, DebitIsLocked
    <3>3. balance[b] + pend[t][b] >= -n
      BY <1>2, <2>4, <3>1 DEF CheckStands
    <3> QED
      BY <1>1, <1>2, <2>1, <2>4, <3>2, <3>3 DEF Covered, TypeOK
  <2> QED
    BY <1>2, <2>2, <2>3, <2>4
<1>11. CheckStands'
  <2>1. \A u \in Txn \ {t} : pend'[u] = pend[u]
    BY <1>1, <1>2 DEF TypeOK
  <2> QED
    BY <1>1, <2>1, CheckStandsStep
<1> QED
  BY <1>4, <1>5, <1>6, <1>7, <1>8, <1>9, <1>10, <1>11

\* An unlocked read that goes on preserves the invariant.
LEMMA ReadInv ==
  ASSUME Inv, NEW t \in Txn, At(t, "held") \/ At(t, "seen"), Step(t),
         UNCHANGED <<books, locks, pend, keys, result, runs>>
  PROVE  Inv'
<1> USE DEF Inv
<1>1. /\ Running(t) /\ ~AtCommit(t)
      /\ Stmt(t).op \in {"held", "seen"}
      /\ UNCHANGED <<balance, posted, xlock, slock, pend, keys, result, runs>>
  BY DEF At, Stmt, books, locks
<1>2. TypeOK'
  BY <1>1, StepTypes DEF TypeOK
<1>3. LocksExclude' /\ EntriesHoldLocks' /\ EntriesHaveKeys' /\ KeysFresh' /\ Covered'
  BY <1>1 DEF LocksExclude, EntriesHoldLocks, EntriesHaveKeys, KeysFresh, Covered
<1>4. LocksHeld' /\ KeysHeld'
  BY <1>1, LocksHeldStep, KeysHeldStep
<1>5. CheckStands'
  BY <1>1, CheckStandsStep
<1> QED
  BY <1>2, <1>3, <1>4, <1>5

-----------------------------------------------------------------------------
(* Statements that end the transaction.                                    *)

\* What holds of the books when t ends: untouched, or t's entries and keys
\* applied.
LEMMA AppliedBooks ==
  ASSUME Inv, NEW t \in Txn, UNCHANGED books \/ Apply(t)
  PROVE  /\ balance' \in [Account -> Int]
         /\ posted' \in [Key -> Txn \cup {NoTxn}]
         /\ \A a \in Protected : balance'[a] >= 0
         /\ \A a \in Account : \A u \in Txn \ {t} :
              xlock[a] = u => balance'[a] = balance[a]
         /\ \A k \in Key : k \notin keys[t] => posted'[k] = posted[k]
<1>1. CASE UNCHANGED books
  BY <1>1 DEF books, Inv, TypeOK, Covered
<1>2. CASE Apply(t)
  <2>1. balance' \in [Account -> Int] /\ posted' \in [Key -> Txn \cup {NoTxn}]
    BY <1>2 DEF Apply, Inv, TypeOK
  <2>2. \A a \in Account : balance'[a] = balance[a] + pend[t][a]
    BY <1>2 DEF Apply
  <2>3. \A a \in Protected : balance'[a] >= 0
    <3> SUFFICES ASSUME NEW a \in Protected PROVE balance'[a] >= 0
      OBVIOUS
    <3>1. a \in Account
      BY ProgramAssumption
    <3>2. balance[a] \in Int /\ pend[t][a] \in Int
      BY <3>1 DEF Inv, TypeOK
    <3>3. balance[a] >= 0
      BY DEF Inv, Covered
    <3>4. CASE xlock[a] = t
      BY <2>2, <3>1, <3>4 DEF Inv, Covered
    <3>5. CASE xlock[a] # t
      <4>1. pend[t][a] >= 0
        BY <3>5 DEF Inv, Covered
      <4> QED
        BY <2>2, <3>1, <3>2, <3>3, <4>1
    <3> QED
      BY <3>4, <3>5
  <2>4. ASSUME NEW a \in Account, NEW u \in Txn \ {t}, xlock[a] = u
        PROVE  balance'[a] = balance[a]
    <3>1. t \notin slock[a]
      BY <2>4 DEF Inv, LocksExclude
    <3>2. pend[t][a] = 0
      BY <3>1 DEF Inv, EntriesHoldLocks
    <3>3. balance[a] \in Int
      BY DEF Inv, TypeOK
    <3> QED
      BY <2>2, <3>2, <3>3
  <2>5. \A k \in Key : k \notin keys[t] => posted'[k] = posted[k]
    BY <1>2 DEF Apply
  <2> QED
    BY <2>1, <2>3, <2>4, <2>5
<1> QED
  BY <1>1, <1>2

\* However a transaction ends, with its entries applied or dropped, the
\* invariant is preserved.
LEMMA CloseInv ==
  ASSUME Inv, NEW t \in Txn, NEW outcome \in Results, Close(t, outcome),
         UNCHANGED books \/ Apply(t)
  PROVE  Inv'
<1>1. /\ pc' = [pc EXCEPT ![t] = 0]
      /\ pend' = [pend EXCEPT ![t] = Nothing]
      /\ keys' = [keys EXCEPT ![t] = {}]
      /\ xlock' = [a \in Account |-> IF xlock[a] = t THEN NoTxn ELSE xlock[a]]
      /\ slock' = [a \in Account |-> slock[a] \ {t}]
      /\ result' = [result EXCEPT ![t] = outcome]
      /\ runs' = runs
  BY DEF Close
<1>2. /\ balance' \in [Account -> Int]
      /\ posted' \in [Key -> Txn \cup {NoTxn}]
      /\ \A a \in Protected : balance'[a] >= 0
      /\ \A a \in Account : \A u \in Txn \ {t} : xlock[a] = u => balance'[a] = balance[a]
      /\ \A k \in Key : k \notin keys[t] => posted'[k] = posted[k]
  BY AppliedBooks
<1>3. Nothing \in [Account -> Int] /\ NoTxn \notin Txn /\ Protected \subseteq Account
  BY ProgramAssumption DEF Nothing
<1>4. TypeOK
  BY DEF Inv
<1>5. TypeOK'
  <2>1. \A u \in Txn : Len(Program[u]) \in Nat
    BY ProgramAssumption
  <2>2. pc' \in [Txn -> Nat] /\ \A u \in Txn : pc'[u] <= Len(Program[u]) + 1
    BY <1>1, <1>4, <2>1 DEF TypeOK
  <2>3. pend' \in [Txn -> [Account -> Int]] /\ keys' \in [Txn -> SUBSET Key]
    BY <1>1, <1>3, <1>4 DEF TypeOK
  <2>4. xlock' \in [Account -> Txn \cup {NoTxn}] /\ slock' \in [Account -> SUBSET Txn]
    BY <1>1, <1>4 DEF TypeOK
  <2>5. result' \in [Txn -> Results] /\ runs' \in [Txn -> Nat]
          /\ \A u \in Txn : runs'[u] <= MaxRuns[u]
    BY <1>1, <1>4 DEF TypeOK
  <2> QED
    BY <1>2, <2>2, <2>3, <2>4, <2>5 DEF TypeOK
<1>6. LocksExclude'
  BY <1>1, <1>3 DEF Inv, LocksExclude
<1>7. EntriesHoldLocks'
  BY <1>1, <1>4 DEF Inv, EntriesHoldLocks, Nothing, TypeOK
<1>8. EntriesHaveKeys'
  BY <1>1, <1>4 DEF Inv, EntriesHaveKeys, Nothing, TypeOK
<1>9. \A u \in Txn : pc'[u] = IF u = t THEN 0 ELSE pc[u]
  BY <1>1, <1>4 DEF TypeOK
<1>10. LocksHeld'
  <2> SUFFICES ASSUME NEW u \in Txn, NEW i \in 1..Len(Program[u]), i < pc'[u],
                      Statement(u, i).op = "lock"
               PROVE xlock'[Statement(u, i).account] = u
    BY DEF LocksHeld
  <2>1. u # t /\ i < pc[u]
    BY <1>9
  <2>2. Statement(u, i).account \in Account /\ xlock[Statement(u, i).account] = u
    BY <2>1, StatementFields DEF Inv, LocksHeld
  <2> QED
    BY <1>1, <2>1, <2>2
<1>11. KeysHeld'
  <2> SUFFICES ASSUME NEW u \in Txn, NEW i \in 1..Len(Program[u]), i < pc'[u],
                      Statement(u, i).op = "key"
               PROVE Statement(u, i).key \in keys'[u]
    BY DEF KeysHeld
  <2>1. u # t /\ i < pc[u]
    BY <1>9
  <2> QED
    BY <1>1, <2>1 DEF Inv, KeysHeld
<1>12. KeysFresh'
  <2> SUFFICES ASSUME NEW u \in Txn, NEW k \in keys'[u]
               PROVE posted'[k] = NoTxn /\ \A v \in Txn \ {u} : k \notin keys'[v]
    BY DEF KeysFresh
  <2>1. u # t /\ k \in keys[u] /\ k \in Key
    BY <1>1, <1>4 DEF TypeOK
  <2>2. posted[k] = NoTxn /\ \A v \in Txn \ {u} : k \notin keys[v]
    BY <2>1 DEF Inv, KeysFresh
  <2> QED
    BY <1>1, <1>2, <1>4, <2>1, <2>2 DEF TypeOK
<1>13. Covered'
  <2> SUFFICES ASSUME NEW a \in Protected, NEW u \in Txn
               PROVE IF xlock'[a] = u THEN balance'[a] + pend'[u][a] >= 0
                                      ELSE pend'[u][a] >= 0
    BY <1>2 DEF Covered
  <2>1. a \in Account
    BY <1>3
  <2>2. CASE u = t
    <3>1. pend'[u][a] = 0 /\ xlock'[a] # u
      BY <1>1, <1>3, <1>4, <2>1, <2>2 DEF TypeOK, Nothing
    <3> QED
      BY <3>1
  <2>3. CASE u # t
    <3>1. pend'[u][a] = pend[u][a]
      BY <1>1, <1>4, <2>3 DEF TypeOK
    <3>2. xlock'[a] = u <=> xlock[a] = u
      BY <1>1, <1>3, <2>1, <2>3
    <3>3. IF xlock[a] = u THEN balance[a] + pend[u][a] >= 0 ELSE pend[u][a] >= 0
      BY DEF Inv, Covered
    <3> QED
      BY <1>2, <2>1, <2>3, <3>1, <3>2, <3>3
  <2> QED
    BY <2>2, <2>3
<1>14. CheckStands'
  <2> SUFFICES ASSUME NEW u \in Txn, NEW i \in 1..Len(Program[u]), IsDebit(u, i),
                      pc'[u] \in {i - 1, i}
               PROVE balance'[Statement(u, i).account] + pend'[u][Statement(u, i).account]
                       >= -Statement(u, i).amount
    BY DEF CheckStands, IsDebit
  <2>1. u # t
    BY <1>9, DebitShape
  <2>2. pc[u] \in {i - 1, i} /\ pend'[u] = pend[u]
    BY <1>1, <1>4, <1>9, <2>1 DEF TypeOK
  <2>3. xlock[Statement(u, i).account] = u
    BY <1>4, <2>2, DebitIsLocked DEF Inv
  <2>4. balance'[Statement(u, i).account] = balance[Statement(u, i).account]
    BY <1>2, <2>1, <2>3, StatementFields DEF IsDebit
  <2> QED
    BY <2>2, <2>4 DEF Inv, CheckStands
<1> QED
  BY <1>5, <1>6, <1>7, <1>8, <1>10, <1>11, <1>12, <1>13, <1>14 DEF Inv

-----------------------------------------------------------------------------
(* The theorems.                                                           *)

\* Every action ends a transaction, with the books left alone or the
\* transaction applied, or is one of the steps above.
LEMMA NextInv == Inv /\ [Next]_vars => Inv'
<1> SUFFICES ASSUME Inv, [Next]_vars PROVE Inv'
  OBVIOUS
<1>0. {"none", "committed", "declined", "duplicate", "error"} = Results
  BY DEF Results
<1>1. ASSUME NEW t \in Txn, Begin(t) PROVE Inv'
  BY <1>1, BeginInv
<1>2. ASSUME NEW t \in Txn, ReadHeld(t) PROVE Inv'
  <2>1. CASE balance[Stmt(t).account] = Stmt(t).amount
    BY <1>2, <2>1, ReadInv DEF ReadHeld
  <2>2. CASE balance[Stmt(t).account] # Stmt(t).amount
    BY <1>0, <1>2, <2>2, CloseInv DEF ReadHeld, Rollback
  <2> QED
    BY <2>1, <2>2
<1>3. ASSUME NEW t \in Txn, LockAccount(t) PROVE Inv'
  BY <1>3, LockAccountInv
<1>4. ASSUME NEW t \in Txn, CheckFunds(t) PROVE Inv'
  BY <1>4, CheckFundsInv
<1>5. ASSUME NEW t \in Txn, Decline(t) PROVE Inv'
  BY <1>0, <1>5, CloseInv DEF Decline
<1>6. ASSUME NEW t \in Txn, InsertKey(t) PROVE Inv'
  BY <1>6, InsertKeyInv
<1>7. ASSUME NEW t \in Txn, Duplicate(t) PROVE Inv'
  <2>1. Stmt(t).taken \in Results
    BY <1>7, CurrentStatement, StatementFields DEF Duplicate, At, Inv
  <2> QED
    BY <1>7, <2>1, CloseInv DEF Duplicate, Rollback
<1>8. ASSUME NEW t \in Txn, InsertEntry(t) PROVE Inv'
  BY <1>8, InsertEntryInv
<1>9. ASSUME NEW t \in Txn, Commit(t) PROVE Inv'
  BY <1>0, <1>9, CloseInv DEF Commit
<1>10. ASSUME NEW t \in Txn, DeadlockVictim(t) PROVE Inv'
  BY <1>0, <1>10, CloseInv DEF DeadlockVictim, Rollback
<1>11. ASSUME NEW t \in Txn, Interrupted(t) PROVE Inv'
  BY <1>0, <1>11, CloseInv DEF Interrupted, Rollback
<1>12. CASE UNCHANGED vars
  BY <1>12 DEF vars, Inv, TypeOK, LocksExclude, EntriesHoldLocks, EntriesHaveKeys,
               LocksHeld, KeysHeld, KeysFresh, Covered, CheckStands
<1>13. ASSUME NEW t \in Txn, LookUp(t) PROVE Inv'
  <2>1. CASE posted[Stmt(t).key] = NoTxn
    BY <1>13, <2>1, ReadInv DEF LookUp
  <2>2. CASE posted[Stmt(t).key] # NoTxn
    BY <1>0, <1>13, <2>2, CloseInv DEF LookUp, Rollback
  <2> QED
    BY <2>1, <2>2
<1> QED
  BY <1>1, <1>2, <1>3, <1>4, <1>5, <1>6, <1>7, <1>8, <1>9, <1>10, <1>11, <1>12, <1>13
     DEF Next, Progress

\* The inductive invariant holds of every behaviour of the ledger.
THEOREM Invariance == Spec => []Inv
<1> QED
  BY InitInv, NextInv, PTL DEF Spec

\* Every row, lock and local keeps its type.
THEOREM TypeCorrect == Spec => []TypeOK
<1>1. Inv => TypeOK
  BY DEF Inv
<1> QED
  BY <1>1, Invariance, PTL

\* No interleaving of any transactions spends a protected account twice.
THEOREM NeverNegative == Spec => []ProtectedNeverNegative
<1>1. Inv => ProtectedNeverNegative
  BY DEF Inv, Covered, ProtectedNeverNegative
<1> QED
  BY <1>1, Invariance, PTL

-----------------------------------------------------------------------------
(* All of it or nothing.                                                   *)

\* At its commit a transaction holds every key of its program.
LEMMA AllKeysHeld ==
  ASSUME Inv, NEW t \in Txn, Running(t), AtCommit(t)
  PROVE  ProgramKeys(t) \subseteq keys[t]
<1>1. Len(Program[t]) \in Nat
  BY ProgramAssumption
<1>2. \A i \in 1..Len(Program[t]) : i < pc[t]
  BY <1>1 DEF AtCommit
<1> QED
  BY <1>2 DEF ProgramKeys, Inv, KeysHeld

\* The books change only by a commit, or by a decline that keeps the rest.
LEMMA BooksChange ==
  ASSUME [Next]_vars
  PROVE  \/ UNCHANGED books
         \/ \E t \in Txn : /\ Apply(t)
                          /\ \/ t \in KeepsRest /\ At(t, "check")
                             \/ Running(t) /\ AtCommit(t)
<1>1. ASSUME NEW t \in Txn, Begin(t) \/ LockAccount(t) \/ CheckFunds(t) \/ InsertKey(t)
                              \/ InsertEntry(t)
      PROVE UNCHANGED books
  BY <1>1 DEF Begin, LockAccount, CheckFunds, InsertKey, InsertEntry, books
<1>2. ASSUME NEW t \in Txn, ReadHeld(t) \/ LookUp(t) \/ Duplicate(t) \/ DeadlockVictim(t)
                              \/ Interrupted(t)
      PROVE UNCHANGED books
  BY <1>2 DEF ReadHeld, LookUp, Duplicate, DeadlockVictim, Interrupted, Rollback, books
<1>3. ASSUME NEW t \in Txn, Decline(t)
      PROVE UNCHANGED books \/ (Apply(t) /\ t \in KeepsRest /\ At(t, "check"))
  BY <1>3 DEF Decline
<1>4. ASSUME NEW t \in Txn, Commit(t)
      PROVE Apply(t) /\ Running(t) /\ AtCommit(t)
  BY <1>4 DEF Commit
<1>5. CASE UNCHANGED vars
  BY <1>5 DEF vars, books
<1> QED
  BY <1>1, <1>2, <1>3, <1>4, <1>5 DEF Next, Progress

\* A commit posts every key of its own program and touches no other's.
LEMMA StepWhole == Inv /\ WholeOrNothing /\ [Next]_vars => WholeOrNothing'
<1> SUFFICES ASSUME Inv, WholeOrNothing, [Next]_vars PROVE WholeOrNothing'
  OBVIOUS
<1>1. CASE UNCHANGED books
  BY <1>1 DEF books, WholeOrNothing, Together
<1>2. ASSUME NEW t \in Txn, Apply(t), t \in KeepsRest \/ (Running(t) /\ AtCommit(t))
      PROVE WholeOrNothing'
  <2>1. /\ \A k \in Key : k \notin keys[t] => posted'[k] = posted[k]
        /\ \A k \in keys[t] : posted'[k] = t
    BY <1>2 DEF Apply, Inv, TypeOK
  <2> SUFFICES ASSUME NEW u \in Txn \ KeepsRest, NEW k \in ProgramKeys(u), posted'[k] = u,
                      NEW m \in ProgramKeys(u)
               PROVE posted'[m] = u
    BY DEF WholeOrNothing, Together
  <2>2. k \in Key /\ m \in Key
    BY StatementFields DEF ProgramKeys
  <2>3. CASE u = t
    BY <1>2, <2>1, <2>3, AllKeysHeld
  <2>4. CASE u # t
    <3>1. posted[k] = u
      BY <2>1, <2>2, <2>4
    <3>2. posted[m] = u
      BY <3>1 DEF WholeOrNothing, Together
    <3>3. m \notin keys[t]
      BY <3>2, ProgramAssumption DEF Inv, KeysFresh
    <3> QED
      BY <2>1, <2>2, <3>2, <3>3
  <2> QED
    BY <2>3, <2>4
<1> QED
  BY <1>1, <1>2, BooksChange

\* A transaction that does not keep the rest of a declined one posts all of its
\* movements, orders and redemptions, or none.
THEOREM Whole == Spec => []WholeOrNothing
<1>1. Init => WholeOrNothing
  <2> SUFFICES ASSUME Init, NEW t \in Txn, NEW k \in ProgramKeys(t), posted[k] = t
               PROVE FALSE
    BY DEF WholeOrNothing, Together
  <2>1. k \in Key
    BY StatementFields DEF ProgramKeys
  <2> QED
    BY <2>1, ProgramAssumption DEF Init
<1> QED
  BY <1>1, Invariance, StepWhole, PTL DEF Spec

-----------------------------------------------------------------------------
(* Told that it is done.                                                   *)

\* A key in flight is of a statement the transaction has executed.
KeysSoFar ==
  \A t \in Txn : \A k \in keys[t] : \E i \in 1..Len(Program[t]) :
    i < pc[t] /\ Statement(t, i).op = "key" /\ Statement(t, i).key = k

\* A posted key is one of its poster's.
PostedByOwner ==
  \A k \in Key : posted[k] # NoTxn => posted[k] \in Txn /\ k \in ProgramKeys(posted[k])

\* Only a caller told of an error presents a transaction again.
NotAgain == \A t \in Txn : Running(t) => result[t] \in {"none", "error"}

\* What kept only what preceded a decline is declined for good.
WholeOrDeclined == \A t \in Txn : Together(t) \/ result[t] = "declined"

Told ==
  /\ KeysSoFar
  /\ PostedByOwner
  /\ NotAgain
  /\ WholeOrDeclined
  /\ WholeOrNothing
  /\ DuplicateMeansDone

\* What a step does to the books, the keys in flight and the results of the
\* transactions other than t.
LEMMA OthersKeep ==
  ASSUME Inv, NEW t \in Txn, UNCHANGED books \/ Apply(t)
  PROVE  /\ \A k \in Key : posted'[k] = posted[k] \/ (k \in keys[t] /\ posted'[k] = t)
         /\ \A k \in Key : posted[k] # NoTxn => posted'[k] = posted[k]
         /\ \A u \in Txn \ {t} : Together(u) => Together(u)'
<1>1. CASE UNCHANGED books
  BY <1>1 DEF books, Together
<1>2. CASE Apply(t)
  <2>1. posted' = [k \in Key |-> IF k \in keys[t] THEN t ELSE posted[k]]
    BY <1>2 DEF Apply
  <2>2. \A k \in Key : posted[k] # NoTxn => posted'[k] = posted[k]
    BY <2>1 DEF Inv, KeysFresh
  <2>3. ASSUME NEW u \in Txn \ {t}, Together(u) PROVE Together(u)'
    <3> SUFFICES ASSUME NEW k \in ProgramKeys(u), posted'[k] = u,
                        NEW m \in ProgramKeys(u)
                 PROVE posted'[m] = u
      BY DEF Together
    <3>1. k \in Key /\ m \in Key
      BY StatementFields DEF ProgramKeys
    <3>2. posted[k] = u
      BY <2>1, <3>1
    <3>3. posted[m] = u /\ u # NoTxn
      BY <2>3, <3>2, ProgramAssumption DEF Together
    <3> QED
      BY <2>2, <3>1, <3>3
  <2> QED
    BY <2>1, <2>2, <2>3
<1> QED
  BY <1>1, <1>2

\* A statement that goes on, a key's insertion included, tells nobody anything.
LEMMA ToldStep ==
  ASSUME Inv, Told, NEW t \in Txn, Running(t), ~AtCommit(t), Step(t),
         UNCHANGED <<books, result>>,
         \/ keys' = keys
         \/ At(t, "key") /\ keys' = [keys EXCEPT ![t] = @ \cup {Stmt(t).key}]
  PROVE  Told'
<1>1. posted' = posted /\ result' = result
  BY DEF books
<1>2. /\ pc[t] \in 1..Len(Program[t])
      /\ Stmt(t) = Statement(t, pc[t])
      /\ pc'[t] = pc[t] + 1
      /\ \A u \in Txn \ {t} : pc'[u] = pc[u]
  BY CurrentStatement, StepTypes DEF Inv
<1>3. KeysSoFar'
  <2> SUFFICES ASSUME NEW u \in Txn, NEW k \in keys'[u]
               PROVE \E i \in 1..Len(Program[u]) :
                       i < pc'[u] /\ Statement(u, i).op = "key" /\ Statement(u, i).key = k
    BY DEF KeysSoFar
  <2>1. CASE k \in keys[u]
    <3>1. PICK i \in 1..Len(Program[u]) :
            i < pc[u] /\ Statement(u, i).op = "key" /\ Statement(u, i).key = k
      BY <2>1 DEF Told, KeysSoFar
    <3>2. pc[u] \in Nat
      BY DEF Inv, TypeOK
    <3>3. pc'[u] = pc[u] \/ pc'[u] = pc[u] + 1
      BY <1>2
    <3>4. i < pc'[u]
      BY <3>1, <3>2, <3>3
    <3> QED
      BY <3>1, <3>4
  <2>2. CASE k \notin keys[u]
    <3>1. u = t /\ At(t, "key") /\ k = Stmt(t).key
      BY <2>2 DEF Inv, TypeOK
    <3>2. Statement(u, pc[t]).op = "key" /\ Statement(u, pc[t]).key = k
      BY <1>2, <3>1 DEF At
    <3> QED
      BY <1>2, <3>1, <3>2
  <2> QED
    BY <2>1, <2>2
<1>4. PostedByOwner' /\ WholeOrDeclined' /\ WholeOrNothing' /\ DuplicateMeansDone'
  BY <1>1 DEF Told, PostedByOwner, WholeOrDeclined, WholeOrNothing, Together, DuplicateMeansDone
<1>5. NotAgain'
  <2> SUFFICES ASSUME NEW u \in Txn, Running(u)' PROVE result'[u] \in {"none", "error"}
    BY DEF NotAgain
  <2>1. Running(u)
    BY <1>2 DEF Running
  <2> QED
    BY <1>1, <2>1 DEF Told, NotAgain
<1> QED
  BY <1>3, <1>4, <1>5 DEF Told

\* pool.Begin: a caller that presents a transaction was told of no outcome.
LEMMA ToldBegin ==
  ASSUME Inv, Told, NEW t \in Txn, Begin(t)
  PROVE  Told'
<1>1. posted' = posted /\ result' = result /\ keys' = keys /\ result[t] \in {"none", "error"}
  BY DEF Begin, books
<1>2. /\ pc[t] = 0 /\ pc'[t] = 1
      /\ \A u \in Txn \ {t} : pc'[u] = pc[u]
  BY DEF Begin, Running, Inv, TypeOK
<1>3. KeysSoFar'
  <2> SUFFICES ASSUME NEW u \in Txn, NEW k \in keys[u]
               PROVE \E i \in 1..Len(Program[u]) :
                       i < pc'[u] /\ Statement(u, i).op = "key" /\ Statement(u, i).key = k
    BY <1>1 DEF KeysSoFar
  <2>1. PICK i \in 1..Len(Program[u]) :
          i < pc[u] /\ Statement(u, i).op = "key" /\ Statement(u, i).key = k
    BY DEF Told, KeysSoFar
  <2>2. u # t
    BY <1>2, <2>1
  <2> QED
    BY <1>2, <2>1, <2>2
<1>4. PostedByOwner' /\ WholeOrDeclined' /\ WholeOrNothing' /\ DuplicateMeansDone'
  BY <1>1 DEF Told, PostedByOwner, WholeOrDeclined, WholeOrNothing, Together, DuplicateMeansDone
<1>5. NotAgain'
  <2> SUFFICES ASSUME NEW u \in Txn, Running(u)' PROVE result'[u] \in {"none", "error"}
    BY DEF NotAgain
  <2>1. CASE u = t
    BY <1>1, <2>1
  <2>2. CASE u # t
    BY <1>1, <1>2, <2>2 DEF Told, NotAgain, Running
  <2> QED
    BY <2>1, <2>2
<1> QED
  BY <1>3, <1>4, <1>5 DEF Told

\* A transaction that ends tells the truth if what it says of duplicates is so.
LEMMA ToldEnd ==
  ASSUME Inv, Told, WholeOrNothing', NEW t \in Txn, Running(t), NEW outcome, Close(t, outcome),
         \/ UNCHANGED books
         \/ Apply(t) /\ (AtCommit(t) \/ outcome = "declined"),
         outcome = "duplicate" =>
           UNCHANGED books /\ \A k \in Named(t) : posted[k] # NoTxn
  PROVE  Told'
<1>1. /\ pc' = [pc EXCEPT ![t] = 0]
      /\ keys' = [keys EXCEPT ![t] = {}]
      /\ result' = [result EXCEPT ![t] = outcome]
  BY DEF Close
<1>2. /\ pc'[t] = 0 /\ keys'[t] = {} /\ result'[t] = outcome
      /\ \A u \in Txn \ {t} : pc'[u] = pc[u] /\ keys'[u] = keys[u] /\ result'[u] = result[u]
  BY <1>1 DEF Inv, TypeOK
<1>3. /\ \A k \in Key : posted'[k] = posted[k] \/ (k \in keys[t] /\ posted'[k] = t)
      /\ \A k \in Key : posted[k] # NoTxn => posted'[k] = posted[k]
      /\ \A u \in Txn \ {t} : Together(u) => Together(u)'
  BY OthersKeep
<1>4. KeysSoFar'
  <2> SUFFICES ASSUME NEW u \in Txn, NEW k \in keys'[u]
               PROVE \E i \in 1..Len(Program[u]) :
                       i < pc'[u] /\ Statement(u, i).op = "key" /\ Statement(u, i).key = k
    BY DEF KeysSoFar
  <2>1. u # t /\ k \in keys[u] /\ pc'[u] = pc[u]
    BY <1>2
  <2> QED
    BY <2>1 DEF Told, KeysSoFar
<1>5. PostedByOwner'
  <2> SUFFICES ASSUME NEW k \in Key, posted'[k] # NoTxn
               PROVE posted'[k] \in Txn /\ k \in ProgramKeys(posted'[k])
    BY DEF PostedByOwner
  <2>1. CASE posted'[k] = posted[k]
    BY <2>1 DEF Told, PostedByOwner
  <2>2. CASE k \in keys[t] /\ posted'[k] = t
    <3>0. PICK i \in 1..Len(Program[t]) :
            Statement(t, i).op = "key" /\ Statement(t, i).key = k
      BY <2>2 DEF Told, KeysSoFar
    <3>1. k \in ProgramKeys(t)
      BY <3>0 DEF ProgramKeys
    <3> QED
      BY <2>2, <3>1
  <2> QED
    BY <1>3, <2>1, <2>2
<1>6. NotAgain'
  BY <1>2 DEF Told, NotAgain, Running
<1>7. WholeOrDeclined'
  <2> SUFFICES ASSUME NEW u \in Txn PROVE Together(u)' \/ result'[u] = "declined"
    BY DEF WholeOrDeclined
  <2>1. CASE u # t
    BY <1>2, <1>3, <2>1 DEF Told, WholeOrDeclined
  <2>2. CASE u = t /\ UNCHANGED books
    <3>1. result[t] \in {"none", "error"}
      BY DEF Told, NotAgain
    <3>2. Together(t)
      BY <3>1 DEF Told, WholeOrDeclined
    <3> QED
      BY <2>2, <3>2 DEF Together, books
  <2>3. CASE u = t /\ Apply(t) /\ AtCommit(t)
    <3>1. ProgramKeys(t) \subseteq keys[t]
      BY <2>3, AllKeysHeld
    <3>2. \A k \in keys[t] : posted'[k] = t
      BY <2>3 DEF Apply, Inv, TypeOK
    <3> QED
      BY <2>3, <3>1, <3>2 DEF Together
  <2>4. CASE u = t /\ outcome = "declined"
    BY <1>2, <2>4
  <2> QED
    BY <2>1, <2>2, <2>3, <2>4
<1>8. DuplicateMeansDone'
  <2> SUFFICES ASSUME NEW u \in Txn, result'[u] = "duplicate", NEW k \in Named(u)
               PROVE posted'[k] # NoTxn
    BY DEF DuplicateMeansDone
  <2>1. k \in Key
    BY StatementFields DEF Named, ProgramKeys
  <2>2. posted[k] # NoTxn
    <3>1. CASE u = t
      BY <1>2, <3>1
    <3>2. CASE u # t
      BY <1>2, <3>2 DEF Told, DuplicateMeansDone
    <3> QED
      BY <3>1, <3>2
  <2> QED
    BY <1>3, <2>1, <2>2
<1> QED
  BY <1>4, <1>5, <1>6, <1>7, <1>8 DEF Told

\* A key found posted, by a statement that says so, was posted with all else
\* the transaction names.
LEMMA FoundIsDone ==
  ASSUME Inv, Told, NEW t \in Txn, Running(t), ~AtCommit(t), TellsDone(t, pc[t]),
         posted[Stmt(t).key] # NoTxn
  PROVE  \A k \in Named(t) : posted[k] # NoTxn
<1> DEFINE i == pc[t]
           m == Stmt(t).key
           u == posted[m]
<1>1. i \in 1..Len(Program[t]) /\ Stmt(t) = Statement(t, i)
  BY CurrentStatement DEF Inv
<1>2. m \in Key
  BY <1>1, StatementFields DEF TellsDone
<1>3. u \in Txn /\ m \in ProgramKeys(u) /\ u # NoTxn
  BY <1>2 DEF Told, PostedByOwner
<1>4. CASE u = t
  <2>1. result[t] \in {"none", "error"}
    BY DEF Told, NotAgain
  <2>2. Together(t)
    BY <2>1 DEF Told, WholeOrDeclined
  <2>3. \A k \in ProgramKeys(t) : posted[k] = t
    BY <1>3, <1>4, <2>2 DEF Together
  <2> QED
    BY <1>3, <1>4, <2>3 DEF Named
<1>5. CASE u # t
  <2> HIDE DEF u
  <2>1. /\ u \notin KeepsRest
        /\ \/ Named(t) \subseteq ProgramKeys(u)
           \/ \E j \in 1..(i - 1) :
                Statement(t, j).op = "key" /\ Statement(t, j).key \in ProgramKeys(u)
    BY <1>1, <1>3, <1>5, KeyAssumption DEF NamesIdentify
  <2>2. Together(u)
    BY <1>3, <2>1 DEF Told, WholeOrNothing
  <2>3. \A k \in ProgramKeys(u) : posted[k] = u
    <3>1. posted[m] = u
      BY DEF u
    <3> QED
      BY <1>3, <2>2, <3>1 DEF Together
  <2>4. CASE Named(t) \subseteq ProgramKeys(u)
    BY <1>3, <2>3, <2>4
  <2>5. ASSUME NEW j \in 1..(i - 1), Statement(t, j).op = "key",
               Statement(t, j).key \in ProgramKeys(u)
        PROVE FALSE
    <3>1. Len(Program[t]) \in Nat
      BY ProgramAssumption
    <3>2. j \in 1..Len(Program[t]) /\ j < pc[t]
      BY <1>1, <3>1
    <3>3. Statement(t, j).key \in keys[t]
      BY <2>5, <3>2 DEF Inv, KeysHeld
    <3>4. posted[Statement(t, j).key] = NoTxn
      BY <3>3 DEF Inv, KeysFresh
    <3> QED
      BY <1>3, <2>3, <2>5, <3>4
  <2> QED
    BY <2>1, <2>4, <2>5
<1> QED
  BY <1>4, <1>5

\* A transaction never finds its own key in flight: it has none twice.
LEMMA NotOwnKey ==
  ASSUME Inv, Told, NEW t \in Txn, At(t, "key")
  PROVE  Stmt(t).key \notin keys[t]
<1> SUFFICES ASSUME Stmt(t).key \in keys[t] PROVE FALSE
  OBVIOUS
<1>1. /\ pc[t] \in 1..Len(Program[t])
      /\ Statement(t, pc[t]).op = "key"
      /\ Statement(t, pc[t]).key = Stmt(t).key
  BY CurrentStatement DEF At, Inv
<1>2. PICK i \in 1..Len(Program[t]) :
        i < pc[t] /\ Statement(t, i).op = "key" /\ Statement(t, i).key = Stmt(t).key
  BY DEF Told, KeysSoFar
<1>3. i # pc[t]
  BY <1>1, <1>2
<1> QED
  BY <1>1, <1>2, <1>3, KeyAssumption DEF KeysDistinct

\* No statement tells a caller that what it named is done when it is not.
LEMMA StepTold == Inv /\ Told /\ [Next]_vars => Told'
<1> SUFFICES ASSUME Inv, Told, [Next]_vars PROVE Told'
  OBVIOUS
<1>0. WholeOrNothing'
  BY StepWhole DEF Told
<1>1. ASSUME NEW t \in Txn, Running(t), ~AtCommit(t), Step(t),
             UNCHANGED <<books, locks, pend, keys, result, runs>>
      PROVE Told'
  BY <1>1, ToldStep
<1>2. ASSUME NEW t \in Txn, Running(t), NEW outcome, outcome # "duplicate", Rollback(t, outcome)
      PROVE Told'
  BY <1>0, <1>2, ToldEnd DEF Rollback
<1>3. ASSUME NEW t \in Txn, Running(t), ~AtCommit(t), TellsDone(t, pc[t]),
             posted[Stmt(t).key] # NoTxn, Rollback(t, "duplicate")
      PROVE Told'
  BY <1>0, <1>3, FoundIsDone, ToldEnd DEF Rollback
<1>4. ASSUME NEW t \in Txn, Begin(t) PROVE Told'
  BY <1>4, ToldBegin
<1>5. ASSUME NEW t \in Txn, ReadHeld(t) PROVE Told'
  <2>1. CASE balance[Stmt(t).account] = Stmt(t).amount
    BY <1>1, <1>5, <2>1 DEF ReadHeld, At
  <2>2. CASE balance[Stmt(t).account] # Stmt(t).amount
    BY <1>2, <1>5, <2>2 DEF ReadHeld, At
  <2> QED
    BY <2>1, <2>2
<1>6. ASSUME NEW t \in Txn, LookUp(t) PROVE Told'
  <2>1. CASE posted[Stmt(t).key] = NoTxn
    BY <1>1, <1>6, <2>1 DEF LookUp, At
  <2>2. CASE posted[Stmt(t).key] # NoTxn
    BY <1>3, <1>6, <2>2 DEF LookUp, At, TellsDone
  <2> QED
    BY <2>1, <2>2
<1>7. ASSUME NEW t \in Txn, LockAccount(t) \/ CheckFunds(t) PROVE Told'
  BY <1>7, ToldStep DEF LockAccount, CheckFunds, At
<1>8. ASSUME NEW t \in Txn, Decline(t) PROVE Told'
  <2>1. Running(t) /\ Close(t, "declined") /\ (UNCHANGED books \/ Apply(t))
    BY <1>8 DEF Decline, At
  <2>2. "declined" # "duplicate"
    OBVIOUS
  <2> QED
    BY <1>0, <2>1, <2>2, ToldEnd
<1>9. ASSUME NEW t \in Txn, InsertKey(t) PROVE Told'
  BY <1>9, ToldStep DEF InsertKey, At
<1>10. ASSUME NEW t \in Txn, Duplicate(t) PROVE Told'
  <2>1. /\ At(t, "key") /\ Running(t) /\ ~AtCommit(t)
        /\ Rollback(t, Stmt(t).taken)
        /\ posted[Stmt(t).key] # NoTxn \/ Stmt(t).key \in keys[t]
    BY <1>10 DEF Duplicate, At
  <2>2. posted[Stmt(t).key] # NoTxn
    BY <2>1, NotOwnKey
  <2>3. CASE Stmt(t).taken = "duplicate"
    <3>1. TellsDone(t, pc[t])
      BY <2>1, <2>3 DEF TellsDone, At, Stmt
    <3> QED
      BY <1>3, <2>1, <2>2, <2>3, <3>1
  <2>4. CASE Stmt(t).taken # "duplicate"
    BY <1>2, <2>1, <2>4
  <2> QED
    BY <2>3, <2>4
<1>11. ASSUME NEW t \in Txn, InsertEntry(t) PROVE Told'
  BY <1>11, ToldStep DEF InsertEntry, At
<1>12. ASSUME NEW t \in Txn, Commit(t) PROVE Told'
  <2>1. PICK told \in {"committed", "error"} : Close(t, told)
    BY <1>12 DEF Commit
  <2>2. Running(t) /\ AtCommit(t) /\ Apply(t) /\ told # "duplicate"
    BY <1>12 DEF Commit
  <2> QED
    BY <1>0, <2>1, <2>2, ToldEnd
<1>13. ASSUME NEW t \in Txn, DeadlockVictim(t) PROVE Told'
  <2>1. Running(t)
    BY <1>13 DEF DeadlockVictim, Blockers, At
  <2>2. Rollback(t, "error") /\ "error" # "duplicate"
    BY <1>13 DEF DeadlockVictim
  <2> QED
    BY <1>2, <2>1, <2>2
<1>14. ASSUME NEW t \in Txn, Interrupted(t) PROVE Told'
  <2>1. Running(t) /\ Rollback(t, "error") /\ "error" # "duplicate"
    BY <1>14 DEF Interrupted
  <2> QED
    BY <1>2, <2>1
<1>15. CASE UNCHANGED vars
  BY <1>15 DEF vars, books, Told, KeysSoFar, PostedByOwner, NotAgain, Running, WholeOrDeclined,
               Together, WholeOrNothing, DuplicateMeansDone
<1> QED
  BY <1>4, <1>5, <1>6, <1>7, <1>8, <1>9, <1>10, <1>11, <1>12, <1>13, <1>14, <1>15
     DEF Next, Progress

\* A caller told "duplicate" may rely on everything it named being posted,
\* whoever posted it and whatever it raced with.
THEOREM DuplicateIsTrue == Spec => []DuplicateMeansDone
<1>1. Init => Told
  <2> SUFFICES ASSUME Init PROVE Told
    OBVIOUS
  <2>1. \A t \in Txn : ProgramKeys(t) \subseteq Key
    BY StatementFields DEF ProgramKeys
  <2>2. \A k \in Key : posted[k] = NoTxn /\ NoTxn \notin Txn
    BY ProgramAssumption DEF Init
  <2>3. \A t \in Txn : Together(t)
    BY <2>1, <2>2 DEF Together
  <2>4. KeysSoFar /\ PostedByOwner /\ NotAgain /\ DuplicateMeansDone
    BY <2>2 DEF Init, KeysSoFar, PostedByOwner, NotAgain, DuplicateMeansDone
  <2> QED
    BY <2>3, <2>4 DEF Told, WholeOrDeclined, WholeOrNothing
<1>2. Told => DuplicateMeansDone
  BY DEF Told
<1> QED
  BY <1>1, <1>2, Invariance, StepTold, PTL DEF Spec

-----------------------------------------------------------------------------
(* The books balance.                                                      *)

\* What a transaction has inserted so far is what its statements so far move.
PendingIsMoved ==
  \A t \in Txn : \A c \in Currencies :
    Total(Of(pend[t], c), Account) = Total(Legs(Program[t], c), 1..(pc[t] - 1))

\* A statement moves a whole amount, nothing unless it inserts an entry.
LEMMA LegsMove ==
  ASSUME NEW t \in Txn, NEW c \in Currencies, NEW i \in 1..Len(Program[t])
  PROVE  /\ Legs(Program[t], c)[i] \in Int
         /\ Legs(Program[t], c)[i] = IF Statement(t, i).op = "entry"
                               /\ Currency[Statement(t, i).account] = c
                            THEN Statement(t, i).amount ELSE 0
BY StatementFields DEF Legs, Statement

\* The next statement adds what it moves.
LEMMA LegsAdd ==
  ASSUME NEW t \in Txn, NEW c \in Currencies, NEW i \in 1..Len(Program[t])
  PROVE  Total(Legs(Program[t], c), 1..i) = Total(Legs(Program[t], c), 1..(i - 1)) + Legs(Program[t], c)[i]
<1> DEFINE f == Legs(Program[t], c)
           S == 1..(i - 1)
<1>1. Len(Program[t]) \in Nat
  BY ProgramAssumption
<1>2. IsFiniteSet(S)
  BY <1>1, FS_Interval
<1>3. i \notin S /\ 1..i = S \cup {i}
  BY <1>1
<1>4. f[i] \in Int /\ \A j \in S : f[j] \in Int
  BY <1>1, LegsMove
<1> HIDE DEF f, S
<1>5. Total(f, S \cup {i}) = Total(f, S) + f[i]
  BY <1>2, <1>3, <1>4, TotalAdd
<1> QED
  BY <1>3, <1>5 DEF f, S

\* What is inserted into one account is inserted into its currency.
LEMMA OfInt ==
  ASSUME NEW f \in [Account -> Int], NEW c
  PROVE  /\ \A a \in Account : Of(f, c)[a] \in Int
         /\ \A a \in Account : Of(f, c)[a] = IF Currency[a] = c THEN f[a] ELSE 0
         /\ Total(Of(f, c), Account) \in Int
<1>1. \A a \in Account : Of(f, c)[a] = IF Currency[a] = c THEN f[a] ELSE 0
  BY DEF Of
<1>2. \A a \in Account : Of(f, c)[a] \in Int
  BY <1>1
<1> QED
  BY <1>1, <1>2, OpeningAssumption, TotalInt

\* An account without entries adds nothing.
LEMMA NothingOf == ASSUME NEW c PROVE Total(Of(Nothing, c), Account) = 0
<1>1. \A a \in Account : Of(Nothing, c)[a] = 0
  BY DEF Of, Nothing
<1> QED
  BY <1>1, OpeningAssumption, TotalZero

\* insert: one more entry in one account.
LEMMA EntryAdds ==
  ASSUME NEW f \in [Account -> Int], NEW g \in [Account -> Int], NEW a \in Account,
         NEW n \in Int, g = [f EXCEPT ![a] = @ + n], NEW c
  PROVE  Total(Of(g, c), Account)
           = Total(Of(f, c), Account) + (IF Currency[a] = c THEN n ELSE 0)
<1> DEFINE F == Of(f, c)
           G == Of(g, c)
<1>1. \A b \in Account : F[b] \in Int /\ G[b] \in Int
  BY OfInt
<1>2. /\ F[a] = IF Currency[a] = c THEN f[a] ELSE 0
      /\ G[a] = IF Currency[a] = c THEN g[a] ELSE 0
  BY DEF Of
<1>3. g[a] = f[a] + n /\ f[a] \in Int
  OBVIOUS
<1>4. \A b \in Account \ {a} : G[b] = F[b]
  <2>1. \A b \in Account \ {a} : g[b] = f[b]
    OBVIOUS
  <2> QED
    BY <2>1 DEF Of
<1>5. Total(F, Account) \in Int
  BY OfInt
<1> HIDE DEF F, G
<1>6. Total(G, Account) = Total(F, Account) + G[a] - F[a]
  BY <1>1, <1>4, OpeningAssumption, TotalChange
<1>7. Total(G, Account) = Total(F, Account) + (IF Currency[a] = c THEN n ELSE 0)
  BY <1>2, <1>3, <1>5, <1>6
<1> QED
  BY <1>7 DEF F, G

\* A commit adds to the books what the transaction inserted.
LEMMA AppliedAdds ==
  ASSUME TypeOK, NEW t \in Txn, Apply(t), NEW c
  PROVE  Total(Of(balance', c), Account)
           = Total(Of(balance, c), Account) + Total(Of(pend[t], c), Account)
<1> DEFINE b == balance'
           f == Of(balance, c)
           g == Of(pend[t], c)
           h == Of(b, c)
<1>1. balance \in [Account -> Int] /\ pend[t] \in [Account -> Int]
  BY DEF TypeOK
<1>2. b \in [Account -> Int] /\ \A a \in Account : b[a] = balance[a] + pend[t][a]
  BY <1>1 DEF Apply
<1> HIDE DEF b
<1>3. \A a \in Account : f[a] \in Int /\ g[a] \in Int /\ h[a] = f[a] + g[a]
  <2> SUFFICES ASSUME NEW a \in Account
               PROVE f[a] \in Int /\ g[a] \in Int /\ h[a] = f[a] + g[a]
    OBVIOUS
  <2>1. balance[a] \in Int /\ pend[t][a] \in Int /\ b[a] = balance[a] + pend[t][a]
    BY <1>1, <1>2
  <2>2. /\ f[a] = IF Currency[a] = c THEN balance[a] ELSE 0
        /\ g[a] = IF Currency[a] = c THEN pend[t][a] ELSE 0
        /\ h[a] = IF Currency[a] = c THEN b[a] ELSE 0
    BY DEF Of
  <2> QED
    BY <2>1, <2>2
<1> HIDE DEF f, g, h
<1>4. Total(h, Account) = Total(f, Account) + Total(g, Account)
  BY <1>3, OpeningAssumption, TotalPlus
<1> QED
  BY <1>4 DEF b, f, g, h

\* Opening a transaction, or ending one, leaves nothing inserted and nothing moved.
LEMMA PendingAtEnd ==
  ASSUME TypeOK, PendingIsMoved, NEW t \in Txn, pc' = [pc EXCEPT ![t] = 0],
         pend' = [pend EXCEPT ![t] = Nothing]
  PROVE  PendingIsMoved'
<1> SUFFICES ASSUME NEW u \in Txn, NEW c \in Currencies
             PROVE Total(Of(pend'[u], c), Account) = Total(Legs(Program[u], c), 1..(pc'[u] - 1))
  BY DEF PendingIsMoved
<1>1. CASE u = t
  <2>1. pend'[u] = Nothing /\ pc'[u] = 0
    BY <1>1 DEF TypeOK
  <2>2. 1..(0 - 1) = {}
    OBVIOUS
  <2>3. Total(Legs(Program[u], c), {}) = 0
    BY TotalEmpty
  <2> QED
    BY <2>1, <2>2, <2>3, NothingOf
<1>2. CASE u # t
  <2>1. pend'[u] = pend[u] /\ pc'[u] = pc[u]
    BY <1>2 DEF TypeOK
  <2> QED
    BY <2>1 DEF PendingIsMoved
<1> QED
  BY <1>1, <1>2

\* pool.Begin: the first statement has nothing before it.
LEMMA PendingAtBegin ==
  ASSUME TypeOK, PendingIsMoved, NEW t \in Txn, Begin(t)
  PROVE  PendingIsMoved'
<1> SUFFICES ASSUME NEW u \in Txn, NEW c \in Currencies
             PROVE Total(Of(pend'[u], c), Account) = Total(Legs(Program[u], c), 1..(pc'[u] - 1))
  BY DEF PendingIsMoved
<1>1. pend' = pend /\ pc' = [pc EXCEPT ![t] = 1] /\ pc[t] = 0
  BY DEF Begin, Running, TypeOK
<1>2. CASE u = t
  <2>1. pc'[u] = 1 /\ pc[u] = 0
    BY <1>1, <1>2 DEF TypeOK
  <2>2. 1..(1 - 1) = 1..(0 - 1)
    OBVIOUS
  <2> QED
    BY <1>1, <2>1, <2>2 DEF PendingIsMoved
<1>3. CASE u # t
  <2>1. pc'[u] = pc[u]
    BY <1>1, <1>3 DEF TypeOK
  <2> QED
    BY <1>1, <2>1 DEF PendingIsMoved
<1> QED
  BY <1>2, <1>3

\* Any other statement inserts what it moves.
LEMMA PendingAtStep ==
  ASSUME TypeOK, PendingIsMoved, NEW t \in Txn, Running(t), ~AtCommit(t), Step(t),
         \/ Stmt(t).op # "entry" /\ pend' = pend
         \/ InsertEntry(t)
  PROVE  PendingIsMoved'
<1> SUFFICES ASSUME NEW u \in Txn, NEW c \in Currencies
             PROVE Total(Of(pend'[u], c), Account) = Total(Legs(Program[u], c), 1..(pc'[u] - 1))
  BY DEF PendingIsMoved
<1> DEFINE i == pc[t]
<1>1. i \in 1..Len(Program[t]) /\ Stmt(t) = Statement(t, i)
  BY CurrentStatement
<1>2. pc'[t] = i + 1 /\ \A v \in Txn \ {t} : pc'[v] = pc[v]
  BY StepTypes
<1>3. \A v \in Txn \ {t} : pend'[v] = pend[v]
  BY DEF InsertEntry, TypeOK
<1>4. CASE u # t
  BY <1>2, <1>3, <1>4 DEF PendingIsMoved
<1>5. CASE u = t
  <2>0. i \in Nat /\ (i + 1) - 1 = i
    BY DEF TypeOK
  <2>1. Total(Legs(Program[t], c), 1..i) = Total(Legs(Program[t], c), 1..(i - 1)) + Legs(Program[t], c)[i]
    BY <1>1, LegsAdd
  <2>2. Total(Of(pend[t], c), Account) = Total(Legs(Program[t], c), 1..(i - 1))
    BY DEF PendingIsMoved
  <2>3. pend[t] \in [Account -> Int] /\ Total(Of(pend[t], c), Account) \in Int
    <3>1. pend[t] \in [Account -> Int]
      BY DEF TypeOK
    <3> QED
      BY <3>1, OfInt
  <2>4. CASE Stmt(t).op # "entry" /\ pend' = pend
    <3>1. Legs(Program[t], c)[i] = 0
      BY <1>1, <2>4, LegsMove
    <3>2. Total(Legs(Program[t], c), 1..i) = Total(Of(pend[t], c), Account)
      BY <2>1, <2>2, <2>3, <3>1
    <3> QED
      BY <1>2, <1>5, <2>0, <2>4, <3>2
  <2>5. CASE InsertEntry(t)
    <3> DEFINE a == Stmt(t).account
               n == Stmt(t).amount
    <3>1. Stmt(t).op = "entry" /\ pend' = [pend EXCEPT ![t][a] = @ + n]
      BY <2>5 DEF InsertEntry, At, Stmt
    <3>2. a \in Account /\ n \in Int
      BY <1>1, <3>1, StatementFields
    <3>3. Legs(Program[t], c)[i] = IF Currency[a] = c THEN n ELSE 0
      BY <1>1, <3>1, LegsMove
    <3>4. pend'[t] = [pend[t] EXCEPT ![a] = @ + n] /\ pend'[t] \in [Account -> Int]
      BY <2>3, <3>1, <3>2 DEF TypeOK
    <3> HIDE DEF a, n
    <3> DEFINE p == pend'[t]
    <3>5. p = [pend[t] EXCEPT ![a] = @ + n] /\ p \in [Account -> Int]
      BY <3>4
    <3> HIDE DEF p
    <3>6. Total(Of(p, c), Account)
            = Total(Of(pend[t], c), Account) + (IF Currency[a] = c THEN n ELSE 0)
      BY <2>3, <3>2, <3>5, EntryAdds
    <3>7. Total(Of(p, c), Account) = Total(Legs(Program[t], c), 1..i)
      BY <2>1, <2>2, <3>3, <3>6
    <3> QED
      BY <1>2, <1>5, <2>0, <3>7 DEF p
  <2> QED
    BY <2>4, <2>5
<1> QED
  BY <1>4, <1>5

\* Every statement, and every way a transaction ends, keeps account of it.
LEMMA StepMoved == Inv /\ PendingIsMoved /\ [Next]_vars => PendingIsMoved'
<1> SUFFICES ASSUME Inv, PendingIsMoved, [Next]_vars PROVE PendingIsMoved'
  OBVIOUS
<1>0. TypeOK
  BY DEF Inv
<1>1. ASSUME NEW t \in Txn, NEW outcome, Close(t, outcome) PROVE PendingIsMoved'
  BY <1>0, <1>1, PendingAtEnd DEF Close
<1>2. ASSUME NEW t \in Txn, Begin(t) PROVE PendingIsMoved'
  BY <1>0, <1>2, PendingAtBegin
<1>3. ASSUME NEW t \in Txn, At(t, "held") \/ At(t, "seen") \/ At(t, "lock") \/ At(t, "check")
                              \/ At(t, "key"),
             Step(t), pend' = pend
      PROVE PendingIsMoved'
  BY <1>0, <1>3, PendingAtStep DEF At, Stmt
<1>4. ASSUME NEW t \in Txn, InsertEntry(t) PROVE PendingIsMoved'
  BY <1>0, <1>4, PendingAtStep DEF InsertEntry, At
<1>5. ASSUME NEW t \in Txn, ReadHeld(t) \/ LookUp(t) PROVE PendingIsMoved'
  BY <1>1, <1>3, <1>5 DEF ReadHeld, LookUp, Rollback
<1>6. ASSUME NEW t \in Txn, LockAccount(t) \/ CheckFunds(t) \/ InsertKey(t) PROVE PendingIsMoved'
  BY <1>3, <1>6 DEF LockAccount, CheckFunds, InsertKey
<1>7. ASSUME NEW t \in Txn, Decline(t) \/ Duplicate(t) \/ Commit(t) \/ DeadlockVictim(t)
                              \/ Interrupted(t)
      PROVE PendingIsMoved'
  BY <1>1, <1>7 DEF Decline, Duplicate, Commit, DeadlockVictim, Interrupted, Rollback
<1>8. CASE UNCHANGED vars
  BY <1>8 DEF vars, PendingIsMoved
<1> QED
  BY <1>2, <1>4, <1>5, <1>6, <1>7, <1>8 DEF Next, Progress

\* What is applied is made of whole movements.
LEMMA StepBalances == Inv /\ PendingIsMoved /\ BooksBalance /\ [Next]_vars => BooksBalance'
<1> SUFFICES ASSUME Inv, PendingIsMoved, BooksBalance, [Next]_vars, NEW c \in Currencies
             PROVE Total(Of(balance', c), Account) = 0
  BY DEF BooksBalance
<1>1. Total(Of(balance, c), Account) = 0
  BY DEF BooksBalance
<1>2. CASE UNCHANGED books
  BY <1>1, <1>2 DEF books
<1>3. ASSUME NEW t \in Txn, Apply(t), At(t, "check") \/ (Running(t) /\ AtCommit(t))
      PROVE Total(Of(balance', c), Account) = 0
  <2>1. TypeOK
    BY DEF Inv
  <2>2. Len(Program[t]) \in Nat
    BY ProgramAssumption
  <2>3. /\ pc[t] \in 1..(Len(Program[t]) + 1)
        /\ pc[t] = Len(Program[t]) + 1 \/ Statement(t, pc[t]).op # "entry"
    BY <1>3, <2>1, <2>2, CurrentStatement DEF At, AtCommit
  <2>4. Total(Legs(Program[t], c), 1..(pc[t] - 1)) = 0
    BY <2>3, ProgramAssumption DEF Sound, MovementsBalance, Statement
  <2>5. Total(Of(pend[t], c), Account) = 0
    BY <2>4 DEF PendingIsMoved
  <2> QED
    BY <1>1, <1>3, <2>1, <2>5, AppliedAdds
<1> QED
  BY <1>2, <1>3, BooksChange

\* Money is neither made nor lost in any currency, whatever races, is declined,
\* deadlocks or is interrupted between the legs of a movement.
THEOREM Balanced == Spec => []BooksBalance
<1>1. Init => PendingIsMoved /\ BooksBalance
  <2> SUFFICES ASSUME Init PROVE PendingIsMoved /\ BooksBalance
    OBVIOUS
  <2>1. BooksBalance
    BY OpeningAssumption DEF Init, BooksBalance
  <2>2. PendingIsMoved
    <3> SUFFICES ASSUME NEW t \in Txn, NEW c \in Currencies
                 PROVE Total(Of(pend[t], c), Account) = Total(Legs(Program[t], c), 1..(pc[t] - 1))
      BY DEF PendingIsMoved
    <3>1. pend[t] = Nothing /\ pc[t] = 0
      BY DEF Init
    <3>2. 1..(0 - 1) = {}
      OBVIOUS
    <3>3. Total(Legs(Program[t], c), {}) = 0
      BY TotalEmpty
    <3> QED
      BY <3>1, <3>2, <3>3, NothingOf
  <2> QED
    BY <2>1, <2>2
<1> QED
  BY <1>1, Invariance, StepMoved, StepBalances, PTL DEF Spec

-----------------------------------------------------------------------------
(* Somebody always moves.                                                  *)

\* Locks and keys are held by open transactions only.
HoldersRun ==
  \A t \in Txn : ~Running(t) =>
    keys[t] = {} /\ \A a \in Account : xlock[a] # t /\ t \notin slock[a]

\* While any transaction is open, some open one either waits for nobody or is
\* in a wait cycle, where the deadlock detector finds it.
SomeoneMoves ==
  (\E t \in Txn : Running(t)) =>
    \E t \in Txn : /\ Running(t)
                   /\ Blockers(t) = {} \/ \E S \in SUBSET Txn : t \in S /\ Cycle(S)

\* A transaction that ends releases all it held.
LEMMA CloseReleases ==
  ASSUME TypeOK, HoldersRun, NEW t \in Txn, NEW outcome, Close(t, outcome)
  PROVE  HoldersRun'
<1> SUFFICES ASSUME NEW u \in Txn, pc'[u] <= 0
             PROVE  keys'[u] = {} /\ \A a \in Account : xlock'[a] # u /\ u \notin slock'[a]
  BY DEF HoldersRun, Running, Close, TypeOK
<1>1. CASE u = t
  BY <1>1, ProgramAssumption DEF Close, TypeOK
<1>2. CASE u # t
  <2>1. pc[u] = pc'[u] /\ keys'[u] = keys[u]
    BY <1>2 DEF Close, TypeOK
  <2>2. ~Running(u)
    BY <2>1 DEF Running, TypeOK
  <2>3. keys[u] = {} /\ \A a \in Account : xlock[a] # u /\ u \notin slock[a]
    BY <2>2 DEF HoldersRun
  <2> QED
    BY <2>1, <2>3, ProgramAssumption DEF Close, TypeOK
<1> QED
  BY <1>1, <1>2

LEMMA StepHolders == TypeOK /\ HoldersRun /\ [Next]_vars => HoldersRun'
<1> SUFFICES ASSUME TypeOK, HoldersRun, [Next]_vars PROVE HoldersRun'
  OBVIOUS
<1>1. CASE UNCHANGED vars
  BY <1>1 DEF HoldersRun, Running, vars
<1>2. ASSUME NEW t \in Txn, NEW outcome, Close(t, outcome) PROVE HoldersRun'
  BY <1>2, CloseReleases
<1>3. ASSUME NEW t \in Txn, Step(t) \/ Begin(t), Running(t) \/ Begin(t),
             \A u \in Txn \ {t} : keys'[u] = keys[u],
             \A a \in Account : xlock'[a] # xlock[a] => xlock'[a] = t,
             \A a \in Account : \A u \in Txn \ {t} : u \in slock'[a] => u \in slock[a]
      PROVE  HoldersRun'
  <2>1. pc'[t] > 0 /\ \A u \in Txn \ {t} : pc'[u] = pc[u]
    BY <1>3 DEF Step, Begin, Running, TypeOK
  <2> QED
    BY <1>3, <2>1 DEF HoldersRun, Running
<1>4. ASSUME NEW t \in Txn, Begin(t) PROVE HoldersRun'
  BY <1>3, <1>4 DEF Begin, locks
<1>5. ASSUME NEW t \in Txn, LockAccount(t) PROVE HoldersRun'
  <2>1. Running(t) /\ Step(t)
    BY <1>5 DEF LockAccount, At
  <2>2. \A a \in Account : xlock'[a] # xlock[a] => xlock'[a] = t
    BY <1>5 DEF LockAccount, TypeOK
  <2>3. keys' = keys /\ slock' = slock
    BY <1>5 DEF LockAccount
  <2> QED
    BY <1>3, <2>1, <2>2, <2>3
<1>6. ASSUME NEW t \in Txn, InsertKey(t) PROVE HoldersRun'
  <2>1. Running(t) /\ Step(t)
    BY <1>6 DEF InsertKey, At
  <2>2. \A u \in Txn \ {t} : keys'[u] = keys[u]
    BY <1>6 DEF InsertKey, TypeOK
  <2>3. xlock' = xlock /\ slock' = slock
    BY <1>6 DEF InsertKey, locks
  <2> QED
    BY <1>3, <2>1, <2>2, <2>3
<1>7. ASSUME NEW t \in Txn, InsertEntry(t) PROVE HoldersRun'
  <2>1. Running(t) /\ Step(t)
    BY <1>7 DEF InsertEntry, At
  <2>2. \A a \in Account : \A u \in Txn \ {t} : u \in slock'[a] => u \in slock[a]
    BY <1>7 DEF InsertEntry, TypeOK
  <2>3. xlock' = xlock /\ keys' = keys
    BY <1>7 DEF InsertEntry
  <2> QED
    BY <1>3, <2>1, <2>2, <2>3
<1>8. ASSUME NEW t \in Txn, Running(t), Step(t), UNCHANGED <<locks, keys>> PROVE HoldersRun'
  BY <1>3, <1>8 DEF locks
<1>9. ASSUME NEW t \in Txn, ReadHeld(t) PROVE HoldersRun'
  BY <1>2, <1>8, <1>9 DEF ReadHeld, Rollback, At
<1>10. ASSUME NEW t \in Txn, LookUp(t) PROVE HoldersRun'
  BY <1>2, <1>8, <1>10 DEF LookUp, Rollback, At
<1>11. ASSUME NEW t \in Txn, CheckFunds(t) PROVE HoldersRun'
  BY <1>8, <1>11 DEF CheckFunds, At
<1>12. ASSUME NEW t \in Txn,
              Decline(t) \/ Duplicate(t) \/ Commit(t) \/ DeadlockVictim(t) \/ Interrupted(t)
       PROVE  HoldersRun'
  BY <1>2, <1>12 DEF Decline, Duplicate, Commit, DeadlockVictim, Interrupted, Rollback
<1> QED
  BY <1>1, <1>4, <1>5, <1>6, <1>7, <1>9, <1>10, <1>11, <1>12 DEF Next, Progress

\* Among finitely many, where each waits for another, some are in a cycle.
LEMMA CycleAmong ==
  ASSUME IsFiniteSet(Txn), NEW R \in SUBSET Txn, WaitSet(R)
  PROVE  \E S \in SUBSET R : S # {} /\ Cycle(S)
<1> DEFINE Bad == {S \in SUBSET R : WaitSet(S)}
<1>1. IsFiniteSet(R)
  BY FS_Subset
<1>2. Bad \subseteq SUBSET R /\ Bad # {}
  OBVIOUS
<1>3. \A S : S \in Bad <=> S \in SUBSET R /\ WaitSet(S)
  OBVIOUS
<1> HIDE DEF Bad
<1>4. PICK S \in Bad : \A U \in Bad : U \subseteq S => U = S
  BY <1>1, <1>2, Least
<1>5. S \in SUBSET R /\ S # {} /\ WaitSet(S)
  BY <1>3, <1>4 DEF WaitSet
<1>6. \A U \in SUBSET S : WaitSet(U) => U = S
  BY <1>3, <1>4, <1>5
<1> QED
  BY <1>5, <1>6 DEF Cycle

LEMMA HoldersMove ==
  ASSUME IsFiniteSet(Txn), HoldersRun, TypeOK
  PROVE  SomeoneMoves
<1> DEFINE R == {t \in Txn : Running(t)}
<1>1. ASSUME NEW t \in Txn PROVE Blockers(t) \subseteq R
  <2> SUFFICES ASSUME NEW u \in Blockers(t), ~Running(u) PROVE FALSE
    BY DEF Blockers
  <2>1. u \in Txn /\ keys[u] = {} /\ \A a \in Account : xlock[a] # u /\ u \notin slock[a]
    BY DEF HoldersRun, Blockers
  <2>2. At(t, "lock") \/ At(t, "entry") => Stmt(t).account \in Account
    BY CurrentStatement, StatementFields DEF At
  <2> QED
    BY <2>1, <2>2 DEF Blockers
<1> SUFFICES ASSUME NEW t \in Txn, Running(t), \A u \in Txn : Running(u) => Blockers(u) # {}
             PROVE  \E u \in Txn : Running(u) /\ \E S \in SUBSET Txn : u \in S /\ Cycle(S)
  BY DEF SomeoneMoves
<1>2. WaitSet(R)
  BY <1>1 DEF WaitSet
<1>3. R \in SUBSET Txn
  OBVIOUS
<1>4. PICK S \in SUBSET R : S # {} /\ Cycle(S)
  <2> HIDE DEF R
  <2> QED
    BY <1>2, <1>3, CycleAmong
<1> QED
  BY <1>4

\* No set of transactions stands still: while one is open, one can move or is
\* a victim Postgres may choose, so that no lock is left held by a transaction
\* that has ended and no wait is for one that will not.
THEOREM NobodyIsStuck ==
  ASSUME IsFiniteSet(Txn)
  PROVE  Spec => []SomeoneMoves
<1>1. Init => HoldersRun
  BY ProgramAssumption DEF Init, HoldersRun
<1>2. Inv => TypeOK
  BY DEF Inv
<1>3. HoldersRun /\ TypeOK => SomeoneMoves
  BY HoldersMove
<1> QED
  BY <1>1, <1>2, <1>3, StepHolders, Invariance, PTL DEF Spec

-----------------------------------------------------------------------------
(* The refinement.                                                         *)

\* Applying a transaction is the abstract commit of its keys.
LEMMA ApplyCommits ==
  ASSUME Inv, NEW t \in Txn, Apply(t)
  PROVE  [Abstract!Next]_Abstract!vars
<1>1. /\ balance' \in [Account -> Int]
      /\ posted' \in [Key -> Txn \cup {NoTxn}]
      /\ \A a \in Protected : balance'[a] >= 0
  BY AppliedBooks
<1>2. posted' = [k \in Key |-> IF k \in keys[t] THEN t ELSE posted[k]]
  BY DEF Apply
<1>3. CASE keys[t] = {}
  <2>1. \A a \in Account : pend[t][a] = 0
    BY <1>3 DEF Inv, EntriesHaveKeys
  <2>2. \A a \in Account : balance'[a] = balance[a]
    BY <2>1 DEF Apply, Inv, TypeOK
  <2>3. balance' = balance
    BY <1>1, <2>2 DEF Inv, TypeOK
  <2>4. posted' = posted
    BY <1>2, <1>3 DEF Inv, TypeOK
  <2> QED
    BY <2>3, <2>4 DEF Abstract!vars
<1>4. CASE keys[t] # {}
  <2>1. PICK m \in keys[t] : m \in Key
    BY <1>4 DEF Inv, TypeOK
  <2>2. \A k \in keys[t] : posted[k] = NoTxn
    BY DEF Inv, KeysFresh
  <2>3. posted'[m] = t /\ posted[m] = NoTxn /\ NoTxn # t
    BY <1>2, <2>1, <2>2, ProgramAssumption
  <2>4. \A k \in Key : posted'[k] # posted[k] => posted[k] = NoTxn /\ posted'[k] = t
    BY <1>2, <2>2
  <2>5. Abstract!Commit(t)
    BY <1>1, <2>3, <2>4 DEF Abstract!Commit
  <2> QED
    BY <2>5 DEF Abstract!Next
<1> QED
  BY <1>3, <1>4

\* Every step is a step of the abstract ledger or changes nothing of it.
LEMMA StepImplements == Inv /\ [Next]_vars => [Abstract!Next]_Abstract!vars
<1> SUFFICES ASSUME Inv, [Next]_vars PROVE [Abstract!Next]_Abstract!vars
  OBVIOUS
<1> USE DEF Abstract!vars
<1>1. CASE UNCHANGED books
  BY <1>1 DEF books
<1>2. ASSUME NEW t \in Txn, Apply(t) PROVE [Abstract!Next]_Abstract!vars
  BY <1>2, ApplyCommits
<1> QED
  BY <1>1, <1>2, BooksChange

\* Every interleaving of the statements implements the abstract ledger.
THEOREM Implements == Spec => ImplementsLedger
<1>1. Init => Abstract!Init
  BY OpeningAssumption DEF Init, Abstract!Init
<1> QED
  BY <1>1, Invariance, StepImplements, PTL DEF Spec, ImplementsLedger, Abstract!Spec

-----------------------------------------------------------------------------
(* The movements are sound: what ProgramAssumption asks of a program holds *)
(* of every movement in Movements, and of programs made of them.           *)

Entries == [op : {"entry"}, account : Account, amount : Int]

\* What s moves in currency c in all.
Entered(s, c) == Total(Legs(s, c), 1..Len(s))

\* No protected account is debited.
Harmless(e) == \A i \in 1..Len(e) : e[i].account \in Protected => e[i].amount >= 0

\* Each position moves an integer.
LEMMA LegsAreInt ==
  ASSUME NEW s \in Seq(Statements), NEW c, NEW i \in 1..Len(s)
  PROVE  /\ Legs(s, c)[i] \in Int
         /\ Legs(s, c)[i] = IF s[i].op = "entry" /\ Currency[s[i].account] = c
                            THEN s[i].amount ELSE 0
<1>1. s[i] \in Statements
  OBVIOUS
<1>2. s[i].op = "entry" => s[i].amount \in Int
  BY <1>1 DEF Statements
<1>3. Legs(s, c)[i] = IF s[i].op = "entry" /\ Currency[s[i].account] = c
                      THEN s[i].amount ELSE 0
  BY DEF Legs
<1> QED
  BY <1>2, <1>3

\* Where the statements of a concatenation are.
LEMMA Joined ==
  ASSUME NEW S, NEW s \in Seq(S), NEW r \in Seq(S)
  PROVE  /\ s \o r \in Seq(S)
         /\ Len(s \o r) = Len(s) + Len(r)
         /\ Len(s) \in Nat /\ Len(r) \in Nat
         /\ \A i \in 1..Len(s) : (s \o r)[i] = s[i]
         /\ \A j \in 1..Len(r) : (s \o r)[Len(s) + j] = r[j]
         /\ \A i \in 1..Len(s \o r) : i \in 1..Len(s) \/ i - Len(s) \in 1..Len(r)
OBVIOUS

\* A prefix moves what it moved.
LEMMA LegsWithin ==
  ASSUME NEW s \in Seq(Statements), NEW r \in Seq(Statements), NEW c, NEW k \in 0..Len(s)
  PROVE  Total(Legs(s \o r, c), 1..k) = Total(Legs(s, c), 1..k)
<1> DEFINE q == s \o r
           f == Legs(q, c)
           g == Legs(s, c)
<1>1. IsFiniteSet(1..k)
  BY FS_Interval
<1>2. \A i \in 1..k : i \in 1..Len(s) /\ i \in 1..Len(q) /\ q[i] = s[i]
  BY Joined
<1>3. \A i \in 1..k : f[i] = g[i]
  BY <1>2 DEF Legs
<1> HIDE DEF f, g
<1>4. Total(f, 1..k) = Total(g, 1..k)
  BY <1>1, <1>3, TotalSame
<1> QED
  BY <1>4 DEF f, g

\* What follows adds what it moves.
LEMMA LegsBeyond ==
  ASSUME NEW s \in Seq(Statements), NEW r \in Seq(Statements), NEW c, NEW k \in 0..Len(r)
  PROVE  Total(Legs(s \o r, c), 1..(Len(s) + k)) = Entered(s, c) + Total(Legs(r, c), 1..k)
<1> DEFINE q == s \o r
           f == Legs(q, c)
           g == Legs(r, c)
           m == Len(s)
           S == 1..k
           p == [j \in S |-> m + j]
           A == 1..m
           B == {p[j] : j \in S}
<1>1. /\ m \in Nat /\ Len(r) \in Nat /\ k \in Nat /\ k <= Len(r)
      /\ q \in Seq(Statements) /\ Len(q) = m + Len(r)
  BY Joined
<1>2. \A i \in 1..Len(q) : f[i] \in Int
  BY <1>1, LegsAreInt
<1>3. \A j \in S : g[j] \in Int /\ f[p[j]] = g[j]
  <2> SUFFICES ASSUME NEW j \in S PROVE g[j] \in Int /\ f[p[j]] = g[j]
    OBVIOUS
  <2>1. j \in 1..Len(r) /\ p[j] = m + j
    BY <1>1
  <2>2. m + j \in 1..Len(q) /\ q[m + j] = r[j]
    BY <1>1, <2>1, Joined
  <2>3. f[m + j] = g[j]
    BY <2>1, <2>2 DEF Legs
  <2> QED
    BY <2>1, <2>3, LegsAreInt
<1>4. Total(Legs(q, c), 1..m) = Total(Legs(s, c), 1..m)
  BY <1>1, LegsWithin
<1>5. \A x, y \in S : p[x] = p[y] => x = y
  BY <1>1
<1>6. A \cup B = 1..(m + k) /\ A \cap B = {}
  <2>1. \A i \in 1..(m + k) : i \in A \/ i \in B
    <3> SUFFICES ASSUME NEW i \in 1..(m + k), i \notin A PROVE i \in B
      OBVIOUS
    <3>1. i - m \in S /\ p[i - m] = i
      BY <1>1
    <3> QED
      BY <3>1
  <2>2. \A j \in S : p[j] \in 1..(m + k) /\ p[j] \notin A
    BY <1>1
  <2>3. A \subseteq 1..(m + k)
    BY <1>1
  <2> QED
    BY <2>1, <2>2, <2>3
<1>7. \A x \in A \cup B : f[x] \in Int
  BY <1>1, <1>2, <1>6
<1>8. IsFiniteSet(S) /\ IsFiniteSet(A)
  <2>1. IsFiniteSet(1..k)
    BY <1>1, FS_Interval
  <2>2. IsFiniteSet(1..m)
    BY <1>1, FS_Interval
  <2> QED
    BY <2>1, <2>2
<1>9. Carries(p, S, B, f, g)
  <2>1. (\A j \in S : p[j] \in B) /\ \A i \in B : \E j \in S : i = p[j]
    OBVIOUS
  <2> HIDE DEF q, f, g, m, A, B, S, p
  <2> QED
    BY <1>3, <1>5, <2>1 DEF Carries
<1> HIDE DEF q, f, g, m, A, B, S, p
<1>10. IsFiniteSet(B) /\ Total(f, B) = Total(g, S)
  BY <1>8, <1>9, TotalMoved
<1>11. Total(f, A \cup B) = Total(f, A) + Total(f, B)
  BY <1>6, <1>7, <1>8, <1>10, TotalUnion
<1>12. Total(f, A \cup B) = Total(f, A) + Total(g, S)
  BY <1>11, <1>10
<1>13. Total(f, 1..(m + k)) = Total(f, 1..m) + Total(g, 1..k)
  BY <1>6, <1>12 DEF A, S
<1>14. Total(f, 1..m) = Entered(s, c)
  BY <1>4 DEF f, m, Entered
<1>15. Total(f, 1..(m + k)) = Entered(s, c) + Total(g, 1..k)
  BY <1>13, <1>14
<1> QED
  BY <1>15 DEF q, f, g, m

\* The sum over a concatenation is the sum of the sums.
LEMMA EnteredJoin ==
  ASSUME NEW s \in Seq(Statements), NEW r \in Seq(Statements), NEW c
  PROVE  Entered(s \o r, c) = Entered(s, c) + Entered(r, c)
<1>1. Len(r) \in 0..Len(r) /\ Len(s \o r) = Len(s) + Len(r)
  BY Joined
<1> QED
  BY <1>1, LegsBeyond DEF Entered

\* Sums of movements are integers.
LEMMA EnteredInt ==
  ASSUME NEW s \in Seq(Statements), NEW c
  PROVE  Entered(s, c) \in Int
<1>1. IsFiniteSet(1..Len(s))
  BY FS_Interval
<1> QED
  BY <1>1, LegsAreInt, TotalInt DEF Entered

\* Statements that are no entries move nothing.
LEMMA Aside ==
  ASSUME NEW s \in Seq(Statements), \A i \in 1..Len(s) : s[i].op # "entry", NEW c,
         NEW k \in 0..Len(s)
  PROVE  Total(Legs(s, c), 1..k) = 0
<1>1. IsFiniteSet(1..k)
  BY FS_Interval
<1>2. \A i \in 1..k : Legs(s, c)[i] = 0
  BY LegsAreInt
<1> QED
  BY <1>1, <1>2, TotalZero

\* A single statement.
LEMMA EnteredOne ==
  ASSUME NEW x \in Statements, NEW c
  PROVE  /\ <<x>> \in Seq(Statements) /\ Len(<<x>>) = 1 /\ <<x>>[1] = x
         /\ Entered(<<x>>, c) = IF x.op = "entry" /\ Currency[x.account] = c
                                THEN x.amount ELSE 0
<1> DEFINE s == <<x>>
           f == Legs(s, c)
<1>1. s \in Seq(Statements) /\ Len(s) = 1 /\ s[1] = x
  OBVIOUS
<1>2. f[1] \in Int /\ f[1] = IF x.op = "entry" /\ Currency[x.account] = c THEN x.amount ELSE 0
  <2>1. 1 \in 1..Len(s)
    BY <1>1
  <2>2. f[1] = IF s[1].op = "entry" /\ Currency[s[1].account] = c THEN s[1].amount ELSE 0
    BY <2>1 DEF Legs
  <2>3. f[1] \in Int
    BY <1>1, <2>1, LegsAreInt
  <2> QED
    BY <1>1, <2>2, <2>3
<1>3. \A i \in 1..1 : f[i] \in Int
  BY <1>2
<1>4. 1 \in Nat /\ 1 > 0 /\ 1..(1 - 1) = {}
  OBVIOUS
<1> HIDE DEF f
<1>5. Total(f, 1..1) = Total(f, 1..(1 - 1)) + f[1]
  BY <1>3, <1>4, TotalLast
<1>6. Total(f, {}) = 0
  BY TotalEmpty
<1>7. Total(f, 1..1) = f[1]
  BY <1>2, <1>4, <1>5, <1>6
<1> QED
  BY <1>1, <1>2, <1>7 DEF Entered, f

\* What is sound one after the other is sound together.
LEMMA SoundJoin ==
  ASSUME NEW s, NEW r, Sound(s), Sound(r)
  PROVE  Sound(s \o r)
<1> DEFINE q == s \o r
           m == Len(s)
           n == Len(r)
<1>1. s \in Seq(Statements) /\ r \in Seq(Statements)
  BY DEF Sound
<1>2. /\ q \in Seq(Statements) /\ Len(q) = m + n /\ m \in Nat /\ n \in Nat
      /\ \A i \in 1..m : q[i] = s[i]
      /\ \A j \in 1..n : q[m + j] = r[j]
      /\ \A i \in 1..Len(q) : i \in 1..m \/ i - m \in 1..n
  BY <1>1, Joined
<1> HIDE DEF q, m, n
<1>3. DebitsAreChecked(q)
  <2> SUFFICES ASSUME NEW i \in 1..Len(q), q[i].op = "entry", q[i].account \in Protected,
                      q[i].amount < 0
               PROVE  /\ i > 3
                      /\ q[i - 1].op = "key"
                      /\ q[i - 2] = [op |-> "check", account |-> q[i].account,
                                     amount |-> -q[i].amount]
                      /\ q[i - 3] = [op |-> "lock", account |-> q[i].account]
    BY DEF DebitsAreChecked
  <2>1. CASE i \in 1..m
    <3>1. q[i] = s[i]
      BY <1>2, <2>1
    <3>2. /\ i > 3
          /\ s[i - 1].op = "key"
          /\ s[i - 2] = [op |-> "check", account |-> s[i].account, amount |-> -s[i].amount]
          /\ s[i - 3] = [op |-> "lock", account |-> s[i].account]
      BY <2>1, <3>1 DEF Sound, DebitsAreChecked, m
    <3>3. i - 1 \in 1..m /\ i - 2 \in 1..m /\ i - 3 \in 1..m
      BY <1>2, <2>1, <3>2
    <3> QED
      BY <1>2, <3>1, <3>2, <3>3
  <2>2. CASE i - m \in 1..n
    <3> DEFINE j == i - m
    <3>1. q[i] = r[j]
      <4>1. m + j = i
        BY <1>2
      <4> QED
        BY <1>2, <2>2, <4>1
    <3>2. /\ j > 3
          /\ r[j - 1].op = "key"
          /\ r[j - 2] = [op |-> "check", account |-> r[j].account, amount |-> -r[j].amount]
          /\ r[j - 3] = [op |-> "lock", account |-> r[j].account]
      BY <2>2, <3>1 DEF Sound, DebitsAreChecked, n
    <3>3. /\ j - 1 \in 1..n /\ j - 2 \in 1..n /\ j - 3 \in 1..n /\ i > 3
          /\ m + (j - 1) = i - 1 /\ m + (j - 2) = i - 2 /\ m + (j - 3) = i - 3
      BY <1>2, <2>2, <3>2
    <3>4. q[i - 1] = r[j - 1] /\ q[i - 2] = r[j - 2] /\ q[i - 3] = r[j - 3]
      BY <1>2, <3>3
    <3> QED
      BY <3>1, <3>2, <3>3, <3>4
  <2> QED
    BY <1>2, <2>1, <2>2
<1>4. EntriesAreKeyed(q)
  <2> SUFFICES ASSUME NEW i \in 1..Len(q), q[i].op = "entry"
               PROVE  \E j \in 1..(i - 1) : q[j].op = "key"
    BY DEF EntriesAreKeyed
  <2>1. CASE i \in 1..m
    <3>1. PICK j \in 1..(i - 1) : s[j].op = "key"
      BY <1>2, <2>1 DEF Sound, EntriesAreKeyed, m
    <3>2. j \in 1..m
      BY <1>2, <2>1
    <3> QED
      BY <1>2, <3>1, <3>2
  <2>2. CASE i - m \in 1..n
    <3>1. m + (i - m) = i
      BY <1>2
    <3>2. r[i - m].op = "entry"
      BY <1>2, <2>2, <3>1
    <3>3. PICK j \in 1..(i - m - 1) : r[j].op = "key"
      BY <2>2, <3>2 DEF Sound, EntriesAreKeyed, n
    <3>4. j \in 1..n /\ m + j \in 1..(i - 1)
      BY <1>2, <2>2
    <3>5. q[m + j].op = "key"
      BY <1>2, <3>3, <3>4
    <3> QED
      BY <3>4, <3>5
  <2> QED
    BY <1>2, <2>1, <2>2
<1>5. MovementsBalance(q)
  <2> SUFFICES ASSUME NEW c \in Currencies, NEW i \in 1..(Len(q) + 1),
                      i = Len(q) + 1 \/ q[i].op # "entry"
               PROVE  Total(Legs(q, c), 1..(i - 1)) = 0
    BY DEF MovementsBalance
  <2>1. CASE i \in 1..m
    <3>1. i - 1 \in 0..m /\ i # Len(q) + 1
      BY <1>2, <2>1
    <3>2. s[i].op # "entry"
      BY <1>2, <2>1, <3>1
    <3>3. i \in 1..(m + 1)
      BY <1>2, <2>1
    <3>4. Total(Legs(s, c), 1..(i - 1)) = 0
      BY <3>2, <3>3 DEF Sound, MovementsBalance, m
    <3> QED
      BY <1>1, <3>1, <3>4, LegsWithin DEF q, m
  <2>2. CASE i \notin 1..m
    <3> DEFINE k == i - 1 - m
    <3>1. k \in 0..n /\ k + 1 \in 1..(n + 1) /\ m + k = i - 1 /\ m + (k + 1) = i
          /\ (k + 1) - 1 = k
      BY <1>2, <2>2
    <3>2. k + 1 = n + 1 \/ r[k + 1].op # "entry"
      <4>1. CASE i = Len(q) + 1
        BY <1>2, <4>1
      <4>2. CASE i # Len(q) + 1
        <5>1. k + 1 \in 1..n
          BY <1>2, <2>2, <4>2
        <5>2. q[m + (k + 1)] = r[k + 1]
          BY <1>2, <5>1
        <5> QED
          BY <3>1, <4>2, <5>2
      <4> QED
        BY <4>1, <4>2
    <3>3. Total(Legs(r, c), 1..((k + 1) - 1)) = 0
      BY <3>1, <3>2 DEF Sound, MovementsBalance, n
    <3>4. Total(Legs(s, c), 1..((m + 1) - 1)) = 0
      <4>1. m + 1 \in 1..(m + 1)
        BY <1>2
      <4> QED
        BY <4>1 DEF Sound, MovementsBalance, m
    <3>5. Entered(s, c) = 0
      <4>1. (m + 1) - 1 = m
        BY <1>2
      <4> QED
        BY <3>4, <4>1 DEF Entered, m
    <3>6. Total(Legs(q, c), 1..(m + k)) = Entered(s, c) + Total(Legs(r, c), 1..k)
      BY <1>1, <3>1, LegsBeyond DEF q, m, n
    <3> QED
      BY <3>1, <3>3, <3>5, <3>6
  <2> QED
    BY <2>1, <2>2
<1> QED
  BY <1>2, <1>3, <1>4, <1>5 DEF Sound, q

\* A statement that is no entry is sound by itself.
LEMMA AsideSound ==
  ASSUME NEW x \in Statements, x.op # "entry"
  PROVE  Sound(<<x>>)
<1> DEFINE s == <<x>>
<1>1. s \in Seq(Statements) /\ Len(s) = 1 /\ \A i \in 1..Len(s) : s[i].op # "entry"
  OBVIOUS
<1>2. DebitsAreChecked(s) /\ EntriesAreKeyed(s)
  BY <1>1 DEF DebitsAreChecked, EntriesAreKeyed
<1>3. MovementsBalance(s)
  <2> SUFFICES ASSUME NEW c \in Currencies, NEW i \in 1..(Len(s) + 1)
               PROVE  Total(Legs(s, c), 1..(i - 1)) = 0
    BY DEF MovementsBalance
  <2>1. i - 1 \in 0..Len(s)
    BY <1>1
  <2> QED
    BY <1>1, <2>1, Aside
<1> QED
  BY <1>1, <1>2, <1>3 DEF Sound

\* Entries that balance, after what is none and has the key.
LEMMA MovementSound ==
  ASSUME NEW h \in Seq(Statements), \A i \in 1..Len(h) : h[i].op # "entry",
         \E i \in 1..Len(h) : h[i].op = "key",
         NEW e \in Seq(Statements), \A i \in 1..Len(e) : e[i].op = "entry",
         \A c \in Currencies : Entered(e, c) = 0,
         DebitsAreChecked(h \o e)
  PROVE  Sound(h \o e)
<1> DEFINE q == h \o e
           m == Len(h)
           n == Len(e)
<1>1. /\ q \in Seq(Statements) /\ Len(q) = m + n /\ m \in Nat /\ n \in Nat
      /\ \A i \in 1..m : q[i] = h[i]
      /\ \A j \in 1..n : q[m + j] = e[j]
      /\ \A i \in 1..Len(q) : i \in 1..m \/ i - m \in 1..n
  BY Joined
<1> HIDE DEF q, m, n
<1>2. EntriesAreKeyed(q)
  <2> SUFFICES ASSUME NEW i \in 1..Len(q), q[i].op = "entry"
               PROVE  \E j \in 1..(i - 1) : q[j].op = "key"
    BY DEF EntriesAreKeyed
  <2>1. i \notin 1..m
    BY <1>1 DEF m
  <2>2. PICK j \in 1..m : h[j].op = "key"
    BY DEF m
  <2>3. j \in 1..(i - 1)
    BY <1>1, <2>1
  <2> QED
    BY <1>1, <2>2, <2>3
<1>3. MovementsBalance(q)
  <2> SUFFICES ASSUME NEW c \in Currencies, NEW i \in 1..(Len(q) + 1),
                      i = Len(q) + 1 \/ q[i].op # "entry"
               PROVE  Total(Legs(q, c), 1..(i - 1)) = 0
    BY DEF MovementsBalance
  <2>1. CASE i - 1 \in 0..m
    <3>1. Total(Legs(h, c), 1..(i - 1)) = 0
      BY <2>1, Aside DEF m
    <3> QED
      BY <2>1, <3>1, LegsWithin DEF q, m
  <2>2. CASE i - 1 \notin 0..m
    <3>1. i = Len(q) + 1
      <4> SUFFICES ASSUME i # Len(q) + 1 PROVE FALSE
        OBVIOUS
      <4>1. i - m \in 1..n /\ m + (i - m) = i
        BY <1>1, <2>2
      <4>2. q[i] = e[i - m]
        BY <1>1, <4>1
      <4> QED
        BY <4>1, <4>2 DEF n
    <3>2. i - 1 = m + n /\ n \in 0..n
      BY <1>1, <3>1
    <3>3. Total(Legs(q, c), 1..(m + n)) = Entered(h, c) + Total(Legs(e, c), 1..n)
      BY <3>2, LegsBeyond DEF q, m, n
    <3>4. Entered(h, c) = 0
      <4>1. m \in 0..m
        BY <1>1
      <4> QED
        BY <4>1, Aside DEF Entered, m
    <3>5. Total(Legs(e, c), 1..n) = 0
      BY DEF Entered, n
    <3> QED
      BY <3>2, <3>3, <3>4, <3>5
  <2> QED
    BY <2>1, <2>2
<1> QED
  BY <1>1, <1>2, <1>3 DEF Sound, q

\* Only the entries of what is not a lone entry are statements of the ledger.
LEMMA EntriesAreStatements ==
  ASSUME NEW e \in Seq(Entries)
  PROVE  /\ e \in Seq(Statements)
         /\ \A i \in 1..Len(e) : e[i].op = "entry" /\ e[i].account \in Account
                                 /\ e[i].amount \in Int
<1>1. Entries \subseteq Statements
  BY DEF Entries, Statements
<1>2. \A i \in 1..Len(e) : e[i] \in Entries
  OBVIOUS
<1> QED
  BY <1>1, <1>2 DEF Entries

\* One leg.
LEMMA OneLeg ==
  ASSUME NEW a \in Account, NEW n \in Int
  PROVE  /\ <<Entry(a, n)>> \in Seq(Entries)
         /\ n >= 0 \/ a \notin Protected => Harmless(<<Entry(a, n)>>)
         /\ \A c : Entered(<<Entry(a, n)>>, c) = IF Currency[a] = c THEN n ELSE 0
<1> DEFINE x == Entry(a, n)
<1>1. x \in Entries /\ x.op = "entry" /\ x.account = a /\ x.amount = n
  BY DEF Entry, Entries
<1>2. x \in Statements
  BY <1>1 DEF Entries, Statements
<1> HIDE DEF x
<1>3. n >= 0 \/ a \notin Protected => Harmless(<<x>>)
  BY <1>1 DEF Harmless
<1>4. ASSUME NEW c PROVE Entered(<<x>>, c) = IF Currency[a] = c THEN n ELSE 0
  BY <1>1, <1>2, EnteredOne
<1>5. <<x>> \in Seq(Entries)
  BY <1>1
<1> QED
  BY <1>3, <1>4, <1>5 DEF x

\* Legs one after the other.
LEMMA LegsJoin ==
  ASSUME NEW e \in Seq(Entries), NEW d \in Seq(Entries)
  PROVE  /\ e \o d \in Seq(Entries)
         /\ Harmless(e) /\ Harmless(d) => Harmless(e \o d)
         /\ \A c : Entered(e \o d, c) = Entered(e, c) + Entered(d, c)
<1>1. e \in Seq(Statements) /\ d \in Seq(Statements)
  BY EntriesAreStatements
<1>2. ASSUME Harmless(e), Harmless(d) PROVE Harmless(e \o d)
  <2> DEFINE q == e \o d
             m == Len(e)
  <2>1. /\ \A i \in 1..m : q[i] = e[i]
        /\ \A j \in 1..Len(d) : q[m + j] = d[j]
        /\ \A i \in 1..Len(q) : i \in 1..m \/ i - m \in 1..Len(d)
        /\ m \in Nat /\ Len(q) \in Nat
    BY <1>1, Joined
  <2> HIDE DEF q, m
  <2> SUFFICES ASSUME NEW i \in 1..Len(q), q[i].account \in Protected PROVE q[i].amount >= 0
    BY DEF Harmless, q
  <2>2. CASE i \in 1..m
    BY <1>2, <2>1, <2>2 DEF Harmless, m
  <2>3. CASE i - m \in 1..Len(d)
    <3>1. m + (i - m) = i
      BY <2>1
    <3>2. q[i] = d[i - m]
      BY <2>1, <2>3, <3>1
    <3> QED
      BY <1>2, <2>3, <3>2 DEF Harmless
  <2> QED
    BY <2>1, <2>2, <2>3
<1>3. \A c : Entered(e \o d, c) = Entered(e, c) + Entered(d, c)
  BY <1>1, EnteredJoin
<1> QED
  BY <1>2, <1>3

\* Two legs.
LEMMA TwoLegs ==
  ASSUME NEW a \in Account, NEW n \in Int, NEW b \in Account, NEW o \in Int
  PROVE  /\ <<Entry(a, n), Entry(b, o)>> \in Seq(Entries)
         /\ (n >= 0 \/ a \notin Protected) /\ (o >= 0 \/ b \notin Protected)
              => Harmless(<<Entry(a, n), Entry(b, o)>>)
         /\ \A c : Entered(<<Entry(a, n), Entry(b, o)>>, c)
                     = (IF Currency[a] = c THEN n ELSE 0) + (IF Currency[b] = c THEN o ELSE 0)
<1> DEFINE x == <<Entry(a, n)>>
           y == <<Entry(b, o)>>
<1>1. <<Entry(a, n), Entry(b, o)>> = x \o y
  OBVIOUS
<1>2. /\ x \in Seq(Entries) /\ y \in Seq(Entries)
      /\ n >= 0 \/ a \notin Protected => Harmless(x)
      /\ o >= 0 \/ b \notin Protected => Harmless(y)
      /\ \A c : Entered(x, c) = IF Currency[a] = c THEN n ELSE 0
      /\ \A c : Entered(y, c) = IF Currency[b] = c THEN o ELSE 0
  BY OneLeg
<1> HIDE DEF x, y
<1>3. /\ x \o y \in Seq(Entries)
      /\ Harmless(x) /\ Harmless(y) => Harmless(x \o y)
      /\ \A c : Entered(x \o y, c) = Entered(x, c) + Entered(y, c)
  BY <1>2, LegsJoin
<1> QED
  BY <1>1, <1>2, <1>3

\* A leg that is left out when it is zero.
LEMMA OptionalLeg ==
  ASSUME NEW a \in Account, NEW n \in Nat
  PROVE  /\ IfPositive(a, n) \in Seq(Entries)
         /\ Harmless(IfPositive(a, n))
         /\ \A c : Entered(IfPositive(a, n), c) = IF Currency[a] = c THEN n ELSE 0
<1>1. CASE n > 0
  BY <1>1, OneLeg DEF IfPositive
<1>2. CASE n = 0
  <2>1. IfPositive(a, n) = << >>
    BY <1>2 DEF IfPositive
  <2>2. Harmless(<< >>)
    BY DEF Harmless
  <2>3. ASSUME NEW c PROVE Entered(<< >>, c) = 0
    <3>1. 1..Len(<< >>) = {}
      OBVIOUS
    <3> QED
      BY <3>1, TotalEmpty DEF Entered
  <2>4. << >> \in Seq(Entries)
    OBVIOUS
  <2>5. ASSUME NEW c PROVE Entered(IfPositive(a, n), c) = IF Currency[a] = c THEN n ELSE 0
    BY <1>2, <2>1, <2>3
  <2> QED
    BY <2>1, <2>2, <2>4, <2>5
<1> QED
  BY <1>1, <1>2

\* ledger.Post alone: legs that balance and debit no protected account.
LEMMA PostSound ==
  ASSUME NEW k \in Key, NEW e \in Seq(Entries), Harmless(e),
         \A c \in Currencies : Entered(e, c) = 0
  PROVE  Sound(Post(k, e))
<1> DEFINE x == IdemKey(k)
           h == <<x>>
           q == h \o e
<1>1. x \in Statements /\ x.op = "key"
  BY DEF IdemKey, Statements, Results
<1>2. h \in Seq(Statements) /\ Len(h) = 1 /\ h[1] = x
  BY <1>1
<1>3. /\ e \in Seq(Statements)
      /\ \A i \in 1..Len(e) : e[i].op = "entry" /\ e[i].account \in Account
                              /\ e[i].amount \in Int
  BY EntriesAreStatements
<1>4. DebitsAreChecked(q)
  <2>1. /\ \A i \in 1..Len(h) : q[i] = h[i]
        /\ \A j \in 1..Len(e) : q[Len(h) + j] = e[j]
        /\ \A i \in 1..Len(q) : i \in 1..Len(h) \/ i - Len(h) \in 1..Len(e)
    BY <1>2, <1>3, Joined
  <2> HIDE DEF q, h, x
  <2> SUFFICES ASSUME NEW i \in 1..Len(q), q[i].op = "entry", q[i].account \in Protected,
                      q[i].amount < 0
               PROVE  FALSE
    BY DEF DebitsAreChecked
  <2>2. CASE i = 1
    BY <1>1, <1>2, <2>1, <2>2
  <2>3. CASE i # 1
    <3>1. i - 1 \in 1..Len(e) /\ 1 + (i - 1) = i
      BY <1>2, <2>1, <2>3
    <3>2. q[i] = e[i - 1]
      BY <1>2, <2>1, <3>1
    <3> QED
      BY <1>3, <3>1, <3>2 DEF Harmless
  <2> QED
    BY <2>2, <2>3
<1>5. Sound(q)
  <2>1. \A i \in 1..Len(h) : h[i].op # "entry"
    BY <1>1, <1>2
  <2>2. \E i \in 1..Len(h) : h[i].op = "key"
    BY <1>1, <1>2
  <2> HIDE DEF q, h
  <2> QED
    BY <1>2, <1>3, <1>4, <2>1, <2>2, MovementSound DEF q
<1> QED
  BY <1>5 DEF Post

\* ensureFunds and ledger.Post: the first leg debits what was checked, and the
\* others credit as much.
LEMMA SpendSound ==
  ASSUME NEW a \in Account, NEW n \in Nat, NEW k \in Key, NEW e \in Seq(Entries), Harmless(e),
         \A c \in Currencies : Entered(e, c) = IF Currency[a] = c THEN n ELSE 0
  PROVE  Sound(Spend(a, n, k, e))
<1> DEFINE h == <<Lock(a), Check(a, n), IdemKey(k)>>
           d == <<Entry(a, -n)>> \o e
           q == h \o d
<1>1. /\ Lock(a) \in Statements /\ Check(a, n) \in Statements /\ IdemKey(k) \in Statements
      /\ Lock(a).op = "lock" /\ Check(a, n).op = "check" /\ IdemKey(k).op = "key"
  BY DEF Lock, Check, IdemKey, Statements, Results
<1>2. /\ h \in Seq(Statements) /\ Len(h) = 3
      /\ h[1] = Lock(a) /\ h[2] = Check(a, n) /\ h[3] = IdemKey(k)
  BY <1>1
<1>3. Spend(a, n, k, e) = q
  BY DEF Spend, EnsureFunds, Post
<1>4. -n \in Int
  OBVIOUS
<1>5. /\ <<Entry(a, -n)>> \in Seq(Entries)
      /\ \A c : Entered(<<Entry(a, -n)>>, c) = IF Currency[a] = c THEN -n ELSE 0
  BY <1>4, OneLeg
<1>6. d \in Seq(Entries) /\ \A c \in Currencies : Entered(d, c) = 0
  <2>1. d \in Seq(Entries)
    BY <1>5, LegsJoin
  <2>2. ASSUME NEW c \in Currencies PROVE Entered(d, c) = 0
    <3>1. Entered(d, c) = Entered(<<Entry(a, -n)>>, c) + Entered(e, c)
      BY <1>5, LegsJoin
    <3> QED
      BY <1>5, <3>1
  <2> QED
    BY <2>1, <2>2
<1>7. /\ d \in Seq(Statements)
      /\ \A i \in 1..Len(d) : d[i].op = "entry"
  BY <1>6, EntriesAreStatements
<1>8. DebitsAreChecked(q)
  <2>1. /\ d[1] = Entry(a, -n) /\ Len(d) = Len(e) + 1 /\ Len(e) \in Nat
        /\ \A j \in 1..Len(e) : d[1 + j] = e[j]
    BY <1>5, Joined
  <2>2. /\ \A i \in 1..Len(h) : q[i] = h[i]
        /\ \A j \in 1..Len(d) : q[Len(h) + j] = d[j]
        /\ \A i \in 1..Len(q) : i \in 1..Len(h) \/ i - Len(h) \in 1..Len(d)
    BY <1>2, <1>7, Joined
  <2>3. /\ q[1] = Lock(a) /\ q[2] = Check(a, n) /\ q[3] = IdemKey(k)
        /\ q[4] = Entry(a, -n)
        /\ \A j \in 1..Len(e) : q[4 + j] = e[j]
    <3>1. \A i \in 1..3 : q[i] = h[i]
      BY <1>2, <2>2
    <3>2. \A j \in 1..(Len(e) + 1) : q[3 + j] = d[j]
      BY <1>2, <2>1, <2>2
    <3>3. q[3 + 1] = d[1] /\ 3 + 1 = 4
      BY <2>1, <3>2
    <3>4. ASSUME NEW j \in 1..Len(e) PROVE q[4 + j] = e[j]
      <4>1. 1 + j \in 1..(Len(e) + 1) /\ 3 + (1 + j) = 4 + j
        BY <2>1
      <4> QED
        BY <2>1, <3>2, <4>1
    <3> QED
      BY <1>2, <2>1, <3>1, <3>3, <3>4
  <2>4. \A i \in 1..Len(q) : i \in 1..4 \/ i - 4 \in 1..Len(e)
    BY <1>2, <2>1, <2>2
  <2> HIDE DEF q, h, d
  <2> SUFFICES ASSUME NEW i \in 1..Len(q), q[i].op = "entry", q[i].account \in Protected,
                      q[i].amount < 0
               PROVE  /\ i > 3
                      /\ q[i - 1].op = "key"
                      /\ q[i - 2] = [op |-> "check", account |-> q[i].account,
                                     amount |-> -q[i].amount]
                      /\ q[i - 3] = [op |-> "lock", account |-> q[i].account]
    BY DEF DebitsAreChecked
  <2>5. i \notin 1..3
    BY <1>1, <2>3
  <2>6. i - 4 \notin 1..Len(e)
    <3> SUFFICES ASSUME i - 4 \in 1..Len(e) PROVE FALSE
      OBVIOUS
    <3>1. 4 + (i - 4) = i
      OBVIOUS
    <3>2. q[i] = e[i - 4]
      BY <2>3, <3>1
    <3>3. e[i - 4].amount \in Int
      BY EntriesAreStatements
    <3> QED
      BY <3>2, <3>3 DEF Harmless
  <2>7. i = 4
    BY <2>4, <2>5, <2>6
  <2>8. q[4].account = a /\ q[4].amount = -n /\ -(-n) = n
    BY <2>3 DEF Entry
  <2>9. q[4 - 1].op = "key" /\ q[4 - 2] = Check(a, n) /\ q[4 - 3] = Lock(a)
    BY <1>1, <2>3
  <2> QED
    BY <2>7, <2>8, <2>9 DEF Check, Lock
<1>9. Sound(q)
  <2>1. \A i \in 1..Len(h) : h[i].op # "entry"
    BY <1>1, <1>2
  <2>2. \E i \in 1..Len(h) : h[i].op = "key"
    BY <1>1, <1>2
  <2> HIDE DEF q, h, d
  <2> QED
    BY <1>2, <1>6, <1>7, <1>8, <2>1, <2>2, MovementSound DEF q
<1> QED
  BY <1>3, <1>9

\* An account carries its currency, and a movement's rows are the database's.
Denominated == \A a \in Account : Currency[a] = a[3]
Open(accounts, key) == accounts \subseteq Account /\ key \in Key

\* A checked debit credited to one account.
LEMMA TransferSound ==
  ASSUME NEW a \in Account, NEW b \in Account, Currency[a] = Currency[b],
         NEW n \in Nat, NEW k \in Key
  PROVE  Sound(Spend(a, n, k, <<Entry(b, n)>>))
<1> DEFINE e == <<Entry(b, n)>>
<1>1. n \in Int /\ n >= 0
  OBVIOUS
<1>2. /\ e \in Seq(Entries) /\ Harmless(e)
      /\ \A c : Entered(e, c) = IF Currency[b] = c THEN n ELSE 0
  BY <1>1, OneLeg
<1> HIDE DEF e
<1> QED
  BY <1>2, SpendSound DEF e

\* A checked debit credited to one account and, when there is one, a fee's.
LEMMA SplitSound ==
  ASSUME NEW a \in Account, NEW b \in Account, NEW r \in Account,
         Currency[a] = Currency[b], Currency[a] = Currency[r],
         NEW n \in Nat, NEW fee \in 0..n, NEW k \in Key
  PROVE  Sound(Spend(a, n, k, <<Entry(b, n - fee)>> \o IfPositive(r, fee)))
<1> DEFINE net == n - fee
           x == <<Entry(b, net)>>
           y == IfPositive(r, fee)
           e == x \o y
<1>1. net \in Int /\ net >= 0 /\ fee \in Nat /\ net + fee = n
  OBVIOUS
<1> HIDE DEF net
<1>2. /\ x \in Seq(Entries) /\ Harmless(x)
      /\ \A c : Entered(x, c) = IF Currency[b] = c THEN net ELSE 0
  BY <1>1, OneLeg
<1>3. /\ y \in Seq(Entries) /\ Harmless(y)
      /\ \A c : Entered(y, c) = IF Currency[r] = c THEN fee ELSE 0
  BY <1>1, OptionalLeg
<1> HIDE DEF x, y
<1>4. /\ e \in Seq(Entries) /\ Harmless(e)
      /\ \A c : Entered(e, c) = Entered(x, c) + Entered(y, c)
  BY <1>2, <1>3, LegsJoin
<1>5. \A c : Entered(e, c) = IF Currency[a] = c THEN n ELSE 0
  BY <1>1, <1>2, <1>3, <1>4
<1> HIDE DEF e
<1>6. Sound(Spend(a, n, k, e))
  BY <1>4, <1>5, SpendSound
<1> QED
  BY <1>6 DEF e, x, y, net

\* An unchecked debit of an account that may go negative, either leg first.
LEMMA MoveSound ==
  ASSUME NEW a \in Account, a \notin Protected, NEW b \in Account, Currency[a] = Currency[b],
         NEW n \in Nat, NEW k \in Key
  PROVE  /\ Sound(Post(k, <<Entry(a, -n), Entry(b, n)>>))
         /\ Sound(Post(k, <<Entry(b, n), Entry(a, -n)>>))
<1> DEFINE d == <<Entry(a, -n), Entry(b, n)>>
           e == <<Entry(b, n), Entry(a, -n)>>
<1>1. n \in Int /\ -n \in Int /\ n >= 0 /\ -n + n = 0 /\ n + (-n) = 0
  OBVIOUS
<1>2. /\ d \in Seq(Entries) /\ Harmless(d)
      /\ \A c : Entered(d, c) = (IF Currency[a] = c THEN -n ELSE 0)
                                  + (IF Currency[b] = c THEN n ELSE 0)
  BY <1>1, TwoLegs
<1>3. /\ e \in Seq(Entries) /\ Harmless(e)
      /\ \A c : Entered(e, c) = (IF Currency[b] = c THEN n ELSE 0)
                                  + (IF Currency[a] = c THEN -n ELSE 0)
  BY <1>1, TwoLegs
<1> HIDE DEF d, e
<1>4. \A c : Entered(d, c) = 0 /\ Entered(e, c) = 0
  BY <1>1, <1>2, <1>3
<1>5. Sound(Post(k, d))
  BY <1>2, <1>4, PostSound
<1>6. Sound(Post(k, e))
  BY <1>3, <1>4, PostSound
<1> QED
  BY <1>5, <1>6 DEF d, e

\* Every transfer that checks its funds (deposit.go, settlement.go, agent.go,
\* cash.go) is sound: its one debit is of the account it locked and checked,
\* and its credit is as much, in the same currency.
THEOREM TransfersAreSound ==
  ASSUME Denominated, NEW who, NEW whom, NEW c, NEW n \in Nat, NEW id, NEW try
  PROVE
    /\ Open({Available(who, c), System("external", c)}, <<"deposit_reversed", id>>)
         => Sound(DepositReversed(who, c, n, id))
    /\ Open({MerchantPayable(who, c), System("payable", c)}, <<"merchant_payout", id>>)
         => Sound(MerchantSettled(who, c, n, id))
    /\ Open({System("payable", c), MerchantPayable(who, c)}, <<"merchant_payout_returned", id>>)
         => Sound(MerchantPayoutReturned(who, c, n, id))
    /\ Open({MerchantPayable(who, c), System("external", c)}, <<"merchant_settled_onchain", id, try>>)
         => Sound(MerchantSettledOnChain(who, c, n, id, try))
    /\ Open({MerchantPayable(who, c), System("external", c)}, <<"merchant_settled_wallet", id, try>>)
         => Sound(MerchantSettledFromWallet(who, c, n, id, try))
    /\ Open({System("treasury", c), AgentFloat(who, c)}, <<"agent_allocation", id>>)
         => Sound(AllocateFloat(who, c, n, id))
    /\ Open({AgentFloat(who, c), System("treasury", c)}, <<"agent_return", id>>)
         => Sound(ReturnFloat(who, c, n, id))
    /\ Open({AgentFloat(who, c), Escrow(who, c)}, <<"handover_lock", id>>)
         => Sound(LockAgentFloat(who, c, n, id))
    /\ Open({Escrow(who, c), AgentFloat(who, c)}, <<"handover_release", id>>)
         => Sound(ReleaseAgentFloat(who, c, n, id))
    /\ Open({Escrow(who, c), Available(whom, c)}, <<"handover_settle", id>>)
         => Sound(SettleHandover(who, whom, c, n, id))
<1>1. ASSUME Open({Available(who, c), System("external", c)}, <<"deposit_reversed", id>>)
     PROVE  Sound(DepositReversed(who, c, n, id))
  <2> DEFINE a == Available(who, c)
             b == System("external", c)
  <2>1. a \in Account /\ b \in Account /\ <<"deposit_reversed", id>> \in Key
    BY <1>1 DEF Open
  <2>2. Currency[a] = Currency[b]
    BY <2>1 DEF Denominated, Available, System
  <2> HIDE DEF a, b
  <2>3. Sound(Spend(a, n, <<"deposit_reversed", id>>, <<Entry(b, n)>>))
    BY <2>1, <2>2, TransferSound
  <2> QED
    BY <2>3 DEF DepositReversed, a, b
<1>2. ASSUME Open({MerchantPayable(who, c), System("payable", c)}, <<"merchant_payout", id>>)
     PROVE  Sound(MerchantSettled(who, c, n, id))
  <2> DEFINE a == MerchantPayable(who, c)
             b == System("payable", c)
  <2>1. a \in Account /\ b \in Account /\ <<"merchant_payout", id>> \in Key
    BY <1>2 DEF Open
  <2>2. Currency[a] = Currency[b]
    BY <2>1 DEF Denominated, MerchantPayable, System
  <2> HIDE DEF a, b
  <2>3. Sound(Spend(a, n, <<"merchant_payout", id>>, <<Entry(b, n)>>))
    BY <2>1, <2>2, TransferSound
  <2> QED
    BY <2>3 DEF MerchantSettled, a, b
<1>3. ASSUME Open({System("payable", c), MerchantPayable(who, c)}, <<"merchant_payout_returned", id>>)
     PROVE  Sound(MerchantPayoutReturned(who, c, n, id))
  <2> DEFINE a == System("payable", c)
             b == MerchantPayable(who, c)
  <2>1. a \in Account /\ b \in Account /\ <<"merchant_payout_returned", id>> \in Key
    BY <1>3 DEF Open
  <2>2. Currency[a] = Currency[b]
    BY <2>1 DEF Denominated, MerchantPayable, System
  <2> HIDE DEF a, b
  <2>3. Sound(Spend(a, n, <<"merchant_payout_returned", id>>, <<Entry(b, n)>>))
    BY <2>1, <2>2, TransferSound
  <2> QED
    BY <2>3 DEF MerchantPayoutReturned, a, b
<1>4. ASSUME Open({MerchantPayable(who, c), System("external", c)}, <<"merchant_settled_onchain", id, try>>)
     PROVE  Sound(MerchantSettledOnChain(who, c, n, id, try))
  <2> DEFINE a == MerchantPayable(who, c)
             b == System("external", c)
  <2>1. a \in Account /\ b \in Account /\ <<"merchant_settled_onchain", id, try>> \in Key
    BY <1>4 DEF Open
  <2>2. Currency[a] = Currency[b]
    BY <2>1 DEF Denominated, MerchantPayable, System
  <2> HIDE DEF a, b
  <2>3. Sound(Spend(a, n, <<"merchant_settled_onchain", id, try>>, <<Entry(b, n)>>))
    BY <2>1, <2>2, TransferSound
  <2> QED
    BY <2>3 DEF MerchantSettledOnChain, a, b
<1>5. ASSUME Open({MerchantPayable(who, c), System("external", c)}, <<"merchant_settled_wallet", id, try>>)
     PROVE  Sound(MerchantSettledFromWallet(who, c, n, id, try))
  <2> DEFINE a == MerchantPayable(who, c)
             b == System("external", c)
  <2>1. a \in Account /\ b \in Account /\ <<"merchant_settled_wallet", id, try>> \in Key
    BY <1>5 DEF Open
  <2>2. Currency[a] = Currency[b]
    BY <2>1 DEF Denominated, MerchantPayable, System
  <2> HIDE DEF a, b
  <2>3. Sound(Spend(a, n, <<"merchant_settled_wallet", id, try>>, <<Entry(b, n)>>))
    BY <2>1, <2>2, TransferSound
  <2> QED
    BY <2>3 DEF MerchantSettledFromWallet, a, b
<1>6. ASSUME Open({System("treasury", c), AgentFloat(who, c)}, <<"agent_allocation", id>>)
     PROVE  Sound(AllocateFloat(who, c, n, id))
  <2> DEFINE a == System("treasury", c)
             b == AgentFloat(who, c)
  <2>1. a \in Account /\ b \in Account /\ <<"agent_allocation", id>> \in Key
    BY <1>6 DEF Open
  <2>2. Currency[a] = Currency[b]
    BY <2>1 DEF Denominated, System, AgentFloat
  <2> HIDE DEF a, b
  <2>3. Sound(Spend(a, n, <<"agent_allocation", id>>, <<Entry(b, n)>>))
    BY <2>1, <2>2, TransferSound
  <2> QED
    BY <2>3 DEF AllocateFloat, a, b
<1>7. ASSUME Open({AgentFloat(who, c), System("treasury", c)}, <<"agent_return", id>>)
     PROVE  Sound(ReturnFloat(who, c, n, id))
  <2> DEFINE a == AgentFloat(who, c)
             b == System("treasury", c)
  <2>1. a \in Account /\ b \in Account /\ <<"agent_return", id>> \in Key
    BY <1>7 DEF Open
  <2>2. Currency[a] = Currency[b]
    BY <2>1 DEF Denominated, System, AgentFloat
  <2> HIDE DEF a, b
  <2>3. Sound(Spend(a, n, <<"agent_return", id>>, <<Entry(b, n)>>))
    BY <2>1, <2>2, TransferSound
  <2> QED
    BY <2>3 DEF ReturnFloat, a, b
<1>8. ASSUME Open({AgentFloat(who, c), Escrow(who, c)}, <<"handover_lock", id>>)
     PROVE  Sound(LockAgentFloat(who, c, n, id))
  <2> DEFINE a == AgentFloat(who, c)
             b == Escrow(who, c)
  <2>1. a \in Account /\ b \in Account /\ <<"handover_lock", id>> \in Key
    BY <1>8 DEF Open
  <2>2. Currency[a] = Currency[b]
    BY <2>1 DEF Denominated, AgentFloat, Escrow
  <2> HIDE DEF a, b
  <2>3. Sound(Spend(a, n, <<"handover_lock", id>>, <<Entry(b, n)>>))
    BY <2>1, <2>2, TransferSound
  <2> QED
    BY <2>3 DEF LockAgentFloat, a, b
<1>9. ASSUME Open({Escrow(who, c), AgentFloat(who, c)}, <<"handover_release", id>>)
     PROVE  Sound(ReleaseAgentFloat(who, c, n, id))
  <2> DEFINE a == Escrow(who, c)
             b == AgentFloat(who, c)
  <2>1. a \in Account /\ b \in Account /\ <<"handover_release", id>> \in Key
    BY <1>9 DEF Open
  <2>2. Currency[a] = Currency[b]
    BY <2>1 DEF Denominated, AgentFloat, Escrow
  <2> HIDE DEF a, b
  <2>3. Sound(Spend(a, n, <<"handover_release", id>>, <<Entry(b, n)>>))
    BY <2>1, <2>2, TransferSound
  <2> QED
    BY <2>3 DEF ReleaseAgentFloat, a, b
<1>10. ASSUME Open({Escrow(who, c), Available(whom, c)}, <<"handover_settle", id>>)
     PROVE  Sound(SettleHandover(who, whom, c, n, id))
  <2> DEFINE a == Escrow(who, c)
             b == Available(whom, c)
  <2>1. a \in Account /\ b \in Account /\ <<"handover_settle", id>> \in Key
    BY <1>10 DEF Open
  <2>2. Currency[a] = Currency[b]
    BY <2>1 DEF Denominated, Available, Escrow
  <2> HIDE DEF a, b
  <2>3. Sound(Spend(a, n, <<"handover_settle", id>>, <<Entry(b, n)>>))
    BY <2>1, <2>2, TransferSound
  <2> QED
    BY <2>3 DEF SettleHandover, a, b
<1> QED
  BY <1>1, <1>2, <1>3, <1>4, <1>5, <1>6, <1>7, <1>8, <1>9, <1>10

\* Every movement that posts with no funds check is sound as long as the
\* account it debits is one that may go negative: those of the rails and of
\* the platform's own books.
THEOREM UncheckedMovementsAreSound ==
  ASSUME Denominated, NEW who, NEW c, NEW n \in Nat, NEW id, NEW try
  PROVE
    /\ Open({System("payable", c), System("external", c)}, <<"settlement", id>>)
       /\ System("payable", c) \notin Protected
         => Sound(Settled(c, n, id))
    /\ Open({System("payable", c), Available(who, c)}, <<"withdrawal_returned", id>>)
       /\ System("payable", c) \notin Protected
         => Sound(Returned(who, c, n, id))
    /\ Open({System("external", c), MerchantPayable(who, c)}, <<"merchant_settlement_refunded", id, try>>)
       /\ System("external", c) \notin Protected
         => Sound(MerchantSettlementRefunded(who, c, n, id, try))
    /\ Open({System("external", c), MerchantPayable(who, c)}, <<"merchant_wallet_settlement_returned", id, try>>)
       /\ System("external", c) \notin Protected
         => Sound(MerchantWalletSettlementReturned(who, c, n, id, try))
    /\ Open({System("revenue", c), System("external", c)}, <<"rail_fees_paid", id, try>>)
       /\ System("revenue", c) \notin Protected
         => Sound(RailFeesPaid(c, n, id, try))
    /\ Open({System("revenue", c), System("external", c)}, <<"gas", id>>)
       /\ System("revenue", c) \notin Protected
         => Sound(GasSpent(c, n, id))
    /\ Open({System("external", c), Available(who, c)}, <<"deposit", id>>)
       /\ System("external", c) \notin Protected
         => Sound(Deposit(who, c, n, id))
    /\ Open({System("external", c), System("treasury", c)}, <<"treasury_funding", id>>)
       /\ System("external", c) \notin Protected
         => Sound(FundTreasury(c, n, id))
<1>1. ASSUME Open({System("payable", c), System("external", c)}, <<"settlement", id>>),
            System("payable", c) \notin Protected
     PROVE  Sound(Settled(c, n, id))
  <2> DEFINE a == System("payable", c)
             b == System("external", c)
  <2>1. a \in Account /\ a \notin Protected /\ b \in Account /\ <<"settlement", id>> \in Key
    BY <1>1 DEF Open
  <2>2. Currency[a] = Currency[b]
    BY <2>1 DEF Denominated, System
  <2> HIDE DEF a, b
  <2>3. Sound(Post(<<"settlement", id>>, <<Entry(a, -n), Entry(b, n)>>))
    BY <2>1, <2>2, MoveSound
  <2> QED
    BY <2>3 DEF Settled, a, b
<1>2. ASSUME Open({System("payable", c), Available(who, c)}, <<"withdrawal_returned", id>>),
            System("payable", c) \notin Protected
     PROVE  Sound(Returned(who, c, n, id))
  <2> DEFINE a == System("payable", c)
             b == Available(who, c)
  <2>1. a \in Account /\ a \notin Protected /\ b \in Account /\ <<"withdrawal_returned", id>> \in Key
    BY <1>2 DEF Open
  <2>2. Currency[a] = Currency[b]
    BY <2>1 DEF Denominated, Available, System
  <2> HIDE DEF a, b
  <2>3. Sound(Post(<<"withdrawal_returned", id>>, <<Entry(a, -n), Entry(b, n)>>))
    BY <2>1, <2>2, MoveSound
  <2> QED
    BY <2>3 DEF Returned, a, b
<1>3. ASSUME Open({System("external", c), MerchantPayable(who, c)}, <<"merchant_settlement_refunded", id, try>>),
            System("external", c) \notin Protected
     PROVE  Sound(MerchantSettlementRefunded(who, c, n, id, try))
  <2> DEFINE a == System("external", c)
             b == MerchantPayable(who, c)
  <2>1. a \in Account /\ a \notin Protected /\ b \in Account /\ <<"merchant_settlement_refunded", id, try>> \in Key
    BY <1>3 DEF Open
  <2>2. Currency[a] = Currency[b]
    BY <2>1 DEF Denominated, MerchantPayable, System
  <2> HIDE DEF a, b
  <2>3. Sound(Post(<<"merchant_settlement_refunded", id, try>>, <<Entry(a, -n), Entry(b, n)>>))
    BY <2>1, <2>2, MoveSound
  <2> QED
    BY <2>3 DEF MerchantSettlementRefunded, a, b
<1>4. ASSUME Open({System("external", c), MerchantPayable(who, c)}, <<"merchant_wallet_settlement_returned", id, try>>),
            System("external", c) \notin Protected
     PROVE  Sound(MerchantWalletSettlementReturned(who, c, n, id, try))
  <2> DEFINE a == System("external", c)
             b == MerchantPayable(who, c)
  <2>1. a \in Account /\ a \notin Protected /\ b \in Account /\ <<"merchant_wallet_settlement_returned", id, try>> \in Key
    BY <1>4 DEF Open
  <2>2. Currency[a] = Currency[b]
    BY <2>1 DEF Denominated, MerchantPayable, System
  <2> HIDE DEF a, b
  <2>3. Sound(Post(<<"merchant_wallet_settlement_returned", id, try>>, <<Entry(a, -n), Entry(b, n)>>))
    BY <2>1, <2>2, MoveSound
  <2> QED
    BY <2>3 DEF MerchantWalletSettlementReturned, a, b
<1>5. ASSUME Open({System("revenue", c), System("external", c)}, <<"rail_fees_paid", id, try>>),
            System("revenue", c) \notin Protected
     PROVE  Sound(RailFeesPaid(c, n, id, try))
  <2> DEFINE a == System("revenue", c)
             b == System("external", c)
  <2>1. a \in Account /\ a \notin Protected /\ b \in Account /\ <<"rail_fees_paid", id, try>> \in Key
    BY <1>5 DEF Open
  <2>2. Currency[a] = Currency[b]
    BY <2>1 DEF Denominated, System
  <2> HIDE DEF a, b
  <2>3. Sound(Post(<<"rail_fees_paid", id, try>>, <<Entry(a, -n), Entry(b, n)>>))
    BY <2>1, <2>2, MoveSound
  <2> QED
    BY <2>3 DEF RailFeesPaid, a, b
<1>6. ASSUME Open({System("revenue", c), System("external", c)}, <<"gas", id>>),
            System("revenue", c) \notin Protected
     PROVE  Sound(GasSpent(c, n, id))
  <2> DEFINE a == System("revenue", c)
             b == System("external", c)
  <2>1. a \in Account /\ a \notin Protected /\ b \in Account /\ <<"gas", id>> \in Key
    BY <1>6 DEF Open
  <2>2. Currency[a] = Currency[b]
    BY <2>1 DEF Denominated, System
  <2> HIDE DEF a, b
  <2>3. Sound(Post(<<"gas", id>>, <<Entry(a, -n), Entry(b, n)>>))
    BY <2>1, <2>2, MoveSound
  <2> QED
    BY <2>3 DEF GasSpent, a, b
<1>7. ASSUME Open({System("external", c), Available(who, c)}, <<"deposit", id>>),
            System("external", c) \notin Protected
     PROVE  Sound(Deposit(who, c, n, id))
  <2> DEFINE a == System("external", c)
             b == Available(who, c)
  <2>1. a \in Account /\ a \notin Protected /\ b \in Account /\ <<"deposit", id>> \in Key
    BY <1>7 DEF Open
  <2>2. Currency[a] = Currency[b]
    BY <2>1 DEF Denominated, Available, System
  <2> HIDE DEF a, b
  <2>3. Sound(Post(<<"deposit", id>>, <<Entry(b, n), Entry(a, -n)>>))
    BY <2>1, <2>2, MoveSound
  <2> QED
    BY <2>3 DEF Deposit, a, b
<1>8. ASSUME Open({System("external", c), System("treasury", c)}, <<"treasury_funding", id>>),
            System("external", c) \notin Protected
     PROVE  Sound(FundTreasury(c, n, id))
  <2> DEFINE a == System("external", c)
             b == System("treasury", c)
  <2>1. a \in Account /\ a \notin Protected /\ b \in Account /\ <<"treasury_funding", id>> \in Key
    BY <1>8 DEF Open
  <2>2. Currency[a] = Currency[b]
    BY <2>1 DEF Denominated, System
  <2> HIDE DEF a, b
  <2>3. Sound(Post(<<"treasury_funding", id>>, <<Entry(b, n), Entry(a, -n)>>))
    BY <2>1, <2>2, MoveSound
  <2> QED
    BY <2>3 DEF FundTreasury, a, b
<1> QED
  BY <1>1, <1>2, <1>3, <1>4, <1>5, <1>6, <1>7, <1>8

\* What a conversion credits for what it takes: the desk's position in the sold
\* currency, and in the bought one the buyer and the spread, out of the desk's.
Exchanged(p, q, b, r, sold, bought, spread) ==
  <<Entry(p, sold), Entry(q, -(bought + spread)), Entry(b, bought)>> \o IfPositive(r, spread)

Desk(p, q, b, r) ==
  /\ p \in Account /\ q \in Account \ Protected /\ b \in Account /\ r \in Account
  /\ Currency[q] = Currency[b] /\ Currency[q] = Currency[r]

LEMMA ConversionLegs ==
  ASSUME NEW p, NEW q, NEW b, NEW r, Desk(p, q, b, r),
         NEW sold \in Nat, NEW bought \in Nat, NEW spread \in Nat
  PROVE  LET e == Exchanged(p, q, b, r, sold, bought, spread)
         IN  /\ e \in Seq(Entries) /\ Harmless(e)
             /\ \A c : Entered(e, c) = IF Currency[p] = c THEN sold ELSE 0
<1> DEFINE paid == -(bought + spread)
           x == <<Entry(p, sold), Entry(q, paid)>>
           y == <<Entry(b, bought)>>
           z == IfPositive(r, spread)
<1> USE DEF Desk
<1>1. /\ sold \in Int /\ sold >= 0 /\ paid \in Int /\ bought \in Int /\ bought >= 0
      /\ spread \in Int /\ paid + bought + spread = 0
  OBVIOUS
<1> HIDE DEF paid
<1>2. /\ x \in Seq(Entries) /\ Harmless(x)
      /\ \A c : Entered(x, c) = (IF Currency[p] = c THEN sold ELSE 0)
                                  + (IF Currency[q] = c THEN paid ELSE 0)
  <2>1. sold >= 0 \/ p \notin Protected
    BY <1>1
  <2>2. paid >= 0 \/ q \notin Protected
    OBVIOUS
  <2> QED
    BY <1>1, <2>1, <2>2, TwoLegs
<1>3. /\ y \in Seq(Entries) /\ Harmless(y)
      /\ \A c : Entered(y, c) = IF Currency[b] = c THEN bought ELSE 0
  BY <1>1, OneLeg
<1>4. /\ z \in Seq(Entries) /\ Harmless(z)
      /\ \A c : Entered(z, c) = IF Currency[r] = c THEN spread ELSE 0
  BY OptionalLeg
<1>5. <<Entry(p, sold), Entry(q, -(bought + spread)), Entry(b, bought)>> = x \o y
  BY DEF paid
<1> HIDE DEF x, y, z
<1>6. /\ x \o y \in Seq(Entries) /\ Harmless(x \o y)
      /\ \A c : Entered(x \o y, c) = Entered(x, c) + Entered(y, c)
  BY <1>2, <1>3, LegsJoin
<1> DEFINE d == x \o y
<1> HIDE DEF d
<1>7. /\ d \o z \in Seq(Entries) /\ Harmless(d \o z)
      /\ \A c : Entered(d \o z, c) = Entered(d, c) + Entered(z, c)
  BY <1>4, <1>6, LegsJoin DEF d
<1>8. \A c : Entered(d \o z, c) = Entered(x, c) + Entered(y, c) + Entered(z, c)
  BY <1>6, <1>7 DEF d
<1>9. \A c : Entered(d \o z, c) = IF Currency[p] = c THEN sold ELSE 0
  <2> SUFFICES ASSUME NEW c PROVE Entered(d \o z, c) = IF Currency[p] = c THEN sold ELSE 0
    OBVIOUS
  <2> DEFINE in == IF Currency[p] = c THEN sold ELSE 0
             own == IF Currency[q] = c THEN paid ELSE 0
             gets == IF Currency[q] = c THEN bought ELSE 0
             keeps == IF Currency[q] = c THEN spread ELSE 0
  <2>1. Entered(x, c) = in + own /\ Entered(y, c) = gets /\ Entered(z, c) = keeps
    BY <1>2, <1>3, <1>4
  <2>2. in \in Int /\ own \in Int /\ own + gets + keeps = 0 /\ gets \in Int /\ keeps \in Int
    BY <1>1
  <2>3. Entered(d \o z, c) = Entered(x, c) + Entered(y, c) + Entered(z, c)
    BY <1>8
  <2> HIDE DEF in, own, gets, keeps
  <2>4. Entered(d \o z, c) = in
    BY <2>1, <2>2, <2>3
  <2> QED
    BY <2>4 DEF in
<1> QED
  BY <1>5, <1>7, <1>9 DEF d, z, Exchanged

\* The rows of each movement that has a fee or a spread.
TapRows(user, merchant, c, tap) ==
  Open({Available(user, c), MerchantPayable(merchant, c), System("revenue", c)}, <<"tap", tap>>)
WithdrawRows(user, c, id) ==
  Open({Available(user, c), System("payable", c), System("revenue", c)}, <<"withdrawal", id>>)
ConvertRows(user, from, to, quote) ==
  /\ Open({Available(user, from), System("fx_position", from), System("fx_position", to),
           Available(user, to), System("revenue", to)}, <<"fx", quote>>)
  /\ System("fx_position", to) \notin Protected

\* A tap, a withdrawal and a conversion (tap.go, deposit.go, fx.go) are sound
\* whatever the fee or the spread: what the payer gives up is checked first,
\* and what the others get of it adds up in each currency. A tap's reversal
\* withdraws the merchant's claim and the fee unchecked, so both must be
\* accounts that may go negative.
THEOREM SpendingIsSound ==
  ASSUME Denominated, NEW user, NEW merchant, NEW c, NEW to, NEW id,
         NEW n \in Nat, NEW fee \in 0..n, NEW bought \in Nat, NEW spread \in Nat
  PROVE
    /\ TapRows(user, merchant, c, id) => Sound(Tap(user, merchant, c, n, fee, id))
    /\ WithdrawRows(user, c, id) => Sound(Withdraw(user, c, n, fee, id))
    /\ ConvertRows(user, c, to, id) => Sound(Convert(user, c, n, to, bought, spread, id))
    /\ Open({MerchantPayable(merchant, c), Available(user, c), System("revenue", c)},
            <<"tap_reversal", id>>)
       /\ MerchantPayable(merchant, c) \notin Protected
       /\ System("revenue", c) \notin Protected
         => Sound(TapReversal(user, merchant, c, n, fee, id))
<1>1. ASSUME TapRows(user, merchant, c, id)
     PROVE  Sound(Tap(user, merchant, c, n, fee, id))
  <2> DEFINE a == Available(user, c)
             b == MerchantPayable(merchant, c)
             r == System("revenue", c)
  <2>1. a \in Account /\ b \in Account /\ r \in Account /\ <<"tap", id>> \in Key
    BY <1>1 DEF TapRows, Open
  <2>2. Currency[a] = Currency[b] /\ Currency[a] = Currency[r]
    BY <2>1 DEF Denominated, Available, MerchantPayable, System
  <2> HIDE DEF a, b, r
  <2>3. Sound(Spend(a, n, <<"tap", id>>, <<Entry(b, n - fee)>> \o IfPositive(r, fee)))
    BY <2>1, <2>2, SplitSound
  <2> QED
    BY <2>3 DEF Tap, a, b, r
<1>2. ASSUME WithdrawRows(user, c, id)
     PROVE  Sound(Withdraw(user, c, n, fee, id))
  <2> DEFINE a == Available(user, c)
             b == System("payable", c)
             r == System("revenue", c)
  <2>1. a \in Account /\ b \in Account /\ r \in Account /\ <<"withdrawal", id>> \in Key
    BY <1>2 DEF WithdrawRows, Open
  <2>2. Currency[a] = Currency[b] /\ Currency[a] = Currency[r]
    BY <2>1 DEF Denominated, Available, System
  <2> HIDE DEF a, b, r
  <2>3. Sound(Spend(a, n, <<"withdrawal", id>>, <<Entry(b, n - fee)>> \o IfPositive(r, fee)))
    BY <2>1, <2>2, SplitSound
  <2> QED
    BY <2>3 DEF Withdraw, a, b, r
<1>3. ASSUME ConvertRows(user, c, to, id)
     PROVE  Sound(Convert(user, c, n, to, bought, spread, id))
  <2> DEFINE a == Available(user, c)
             p == System("fx_position", c)
             q == System("fx_position", to)
             b == Available(user, to)
             r == System("revenue", to)
             e == Exchanged(p, q, b, r, n, bought, spread)
  <2>1. /\ a \in Account /\ p \in Account /\ q \in Account /\ b \in Account /\ r \in Account
        /\ <<"fx", id>> \in Key /\ q \notin Protected
    BY <1>3 DEF ConvertRows, Open
  <2>2. Currency[a] = Currency[p] /\ Currency[q] = Currency[b] /\ Currency[q] = Currency[r]
    BY <2>1 DEF Denominated, Available, System
  <2> HIDE DEF a, p, q, b, r
  <2>3. Desk(p, q, b, r)
    BY <2>1, <2>2 DEF Desk
  <2>4. /\ e \in Seq(Entries) /\ Harmless(e)
        /\ \A d : Entered(e, d) = IF Currency[p] = d THEN n ELSE 0
    BY <2>3, ConversionLegs
  <2> HIDE DEF e
  <2>5. Sound(Spend(a, n, <<"fx", id>>, e))
    BY <2>1, <2>2, <2>4, SpendSound
  <2> QED
    BY <2>5 DEF Convert, Exchanged, a, p, q, b, r, e
<1>4. ASSUME Open({MerchantPayable(merchant, c), Available(user, c), System("revenue", c)},
                  <<"tap_reversal", id>>),
             MerchantPayable(merchant, c) \notin Protected,
             System("revenue", c) \notin Protected
      PROVE  Sound(TapReversal(user, merchant, c, n, fee, id))
  <2> DEFINE b == MerchantPayable(merchant, c)
             a == Available(user, c)
             r == System("revenue", c)
             net == fee - n
             back == -fee
             x == <<Entry(b, net), Entry(a, n)>>
             y == IF fee > 0 THEN <<Entry(r, back)>> ELSE << >>
             e == x \o y
  <2>1. /\ b \in Account /\ a \in Account /\ r \in Account /\ <<"tap_reversal", id>> \in Key
        /\ b \notin Protected /\ r \notin Protected
    BY <1>4 DEF Open
  <2>2. Currency[b] = Currency[a] /\ Currency[b] = Currency[r]
    BY <2>1 DEF Denominated, Available, MerchantPayable, System
  <2>3. net \in Int /\ back \in Int /\ n \in Int /\ n >= 0 /\ net + n + back = 0
    OBVIOUS
  <2> HIDE DEF a, b, r, net, back
  <2>4. /\ x \in Seq(Entries) /\ Harmless(x)
        /\ \A d : Entered(x, d) = (IF Currency[b] = d THEN net ELSE 0)
                                    + (IF Currency[a] = d THEN n ELSE 0)
    BY <2>1, <2>3, TwoLegs
  <2>5. /\ y \in Seq(Entries) /\ Harmless(y)
        /\ \A d : Entered(y, d) = IF Currency[r] = d THEN back ELSE 0
    <3>1. CASE fee > 0
      BY <2>1, <2>3, <3>1, OneLeg
    <3>2. CASE fee = 0
      <4>1. y = << >> /\ back = 0
        <5>1. ~(fee > 0)
          BY <3>2
        <5>2. -fee \in Int /\ -fee + fee = 0
          OBVIOUS
        <5>3. y = << >>
          BY <5>1
        <5>4. back + 0 = 0 /\ back \in Int
          BY <2>3, <3>2, <5>2 DEF back
        <5>5. back = 0
          BY <5>4
        <5> QED
          BY <5>3, <5>5
      <4>2. << >> \in Seq(Entries) /\ Harmless(<< >>)
        BY DEF Harmless
      <4>3. ASSUME NEW d PROVE Entered(<< >>, d) = 0
        <5>1. 1..Len(<< >>) = {}
          OBVIOUS
        <5> QED
          BY <5>1, TotalEmpty DEF Entered
      <4> HIDE DEF y
      <4>4. ASSUME NEW d PROVE Entered(y, d) = IF Currency[r] = d THEN back ELSE 0
        BY <4>1, <4>3
      <4> QED
        BY <4>1, <4>2, <4>4
    <3> QED
      BY <3>1, <3>2
  <2> HIDE DEF x, y
  <2>6. /\ e \in Seq(Entries) /\ Harmless(e)
        /\ \A d : Entered(e, d) = Entered(x, d) + Entered(y, d)
    BY <2>4, <2>5, LegsJoin
  <2>7. \A d : Entered(e, d) = 0
    BY <2>2, <2>3, <2>4, <2>5, <2>6
  <2> HIDE DEF e
  <2>8. Sound(Post(<<"tap_reversal", id>>, e))
    BY <2>1, <2>6, <2>7, PostSound
  <2> QED
    BY <2>8 DEF TapReversal, a, b, r, net, back, x, y, e
<1> QED
  BY <1>1, <1>2, <1>3, <1>4

\* The transactions the services build of them (card/tap record.go and debit.go,
\* orders.go, rates.go) are sound: a read, a redemption or a key of their own
\* between two sound movements disturbs neither.
THEOREM TransactionsAreSound ==
  ASSUME Denominated, NEW user, NEW merchant, NEW from, NEW to, NEW id, NEW quote, NEW own,
         NEW n \in Nat, NEW bought \in Nat, NEW spread \in Nat, NEW held \in 0..n,
         NEW fee \in 0..n
  PROVE
    /\ ConvertRows(user, from, to, quote) /\ <<"quote", quote>> \in Key
         => Sound(QuotedConversion(user, from, n, to, bought, spread, quote))
    /\ WithdrawRows(user, from, id) /\ <<"order", own>> \in Key
         => Sound(Order(user, from, n, id, own))
    /\ ConvertRows(user, from, to, quote) /\ <<"quote", quote>> \in Key
       /\ WithdrawRows(user, to, id) /\ <<"order", own>> \in Key
         => Sound(QuotedOrder(user, from, n, to, bought, spread, quote, id, own))
    /\ ConvertRows(user, from, to, id) /\ TapRows(user, merchant, to, id)
         => Sound(FundedTap(user, merchant, to, n, fee, held, from, bought, spread, id))
<1>1. ASSUME <<"quote", quote>> \in Key PROVE Sound(<<Redeem(quote)>>)
  <2>1. Redeem(quote) \in Statements /\ Redeem(quote).op # "entry"
    BY <1>1 DEF Redeem, Statements, Results
  <2> QED
    BY <2>1, AsideSound
<1>2. ASSUME ConvertRows(user, from, to, quote), <<"quote", quote>> \in Key
      PROVE  Sound(QuotedConversion(user, from, n, to, bought, spread, quote))
  <2> DEFINE m == Convert(user, from, n, to, bought, spread, quote)
  <2>1. 0 \in 0..n
    OBVIOUS
  <2>2. Sound(m)
    BY <1>2, <2>1, SpendingIsSound
  <2> HIDE DEF m
  <2>3. Sound(<<Redeem(quote)>> \o m)
    BY <1>1, <1>2, <2>2, SoundJoin
  <2> QED
    BY <2>3 DEF QuotedConversion, m
<1>3. ASSUME <<"order", own>> \in Key PROVE Sound(<<Seen(<<"order", own>>)>>)
  <2>1. Seen(<<"order", own>>) \in Statements /\ Seen(<<"order", own>>).op # "entry"
    BY <1>3 DEF Seen, Statements
  <2> QED
    BY <2>1, AsideSound
<1>4. ASSUME NEW c, NEW k \in Nat, WithdrawRows(user, c, id), <<"order", own>> \in Key
      PROVE  Sound(Raise(user, c, k, id, own))
  <2> DEFINE x == [op |-> "key", key |-> <<"order", own>>, taken |-> "error"]
             m == Withdraw(user, c, k, 0, id)
  <2>1. x \in Statements /\ x.op # "entry"
    BY <1>4 DEF Statements, Results
  <2>2. Sound(<<x>>)
    BY <2>1, AsideSound
  <2>3. 0 \in 0..k
    OBVIOUS
  <2>4. Sound(m)
    BY <1>4, <2>3, SpendingIsSound
  <2> HIDE DEF x, m
  <2>5. Sound(m \o <<x>>)
    BY <2>2, <2>4, SoundJoin
  <2> QED
    BY <2>5 DEF Raise, x, m
<1>5. ASSUME WithdrawRows(user, from, id), <<"order", own>> \in Key
      PROVE  Sound(Order(user, from, n, id, own))
  BY <1>3, <1>4, <1>5, SoundJoin DEF Order
<1>6. ASSUME ConvertRows(user, from, to, quote), <<"quote", quote>> \in Key,
             WithdrawRows(user, to, id), <<"order", own>> \in Key
      PROVE  Sound(QuotedOrder(user, from, n, to, bought, spread, quote, id, own))
  <2> DEFINE x == <<Seen(<<"order", own>>)>>
             m == QuotedConversion(user, from, n, to, bought, spread, quote)
             r == Raise(user, to, bought, id, own)
  <2>1. Sound(x) /\ Sound(m) /\ Sound(r)
    BY <1>2, <1>3, <1>4, <1>6
  <2> HIDE DEF x, m, r
  <2>2. Sound(x \o m)
    BY <2>1, SoundJoin
  <2>3. Sound((x \o m) \o r)
    BY <2>1, <2>2, SoundJoin
  <2> QED
    BY <2>3 DEF QuotedOrder, x, m, r
<1>7. ASSUME ConvertRows(user, from, to, id), TapRows(user, merchant, to, id)
      PROVE  Sound(FundedTap(user, merchant, to, n, fee, held, from, bought, spread, id))
  <2> DEFINE a == Available(user, to)
             x == <<Held(a, held)>>
             m == Convert(user, from, bought, to, n - held, spread, id)
             r == Tap(user, merchant, to, n, fee, id)
  <2>1. a \in Account /\ held \in Int
    BY <1>7 DEF TapRows, Open
  <2>2. Held(a, held) \in Statements /\ Held(a, held).op # "entry"
    BY <2>1 DEF Held, Statements
  <2>3. Sound(x)
    BY <2>2, AsideSound
  <2>4. n - held \in Nat /\ 0 \in 0..bought
    OBVIOUS
  <2>5. Sound(m)
    BY <1>7, <2>4, SpendingIsSound
  <2>6. Sound(r)
    BY <1>7, <2>4, SpendingIsSound
  <2> HIDE DEF x, m, r
  <2>7. Sound(x \o m)
    BY <2>3, <2>5, SoundJoin
  <2>8. Sound((x \o m) \o r)
    BY <2>6, <2>7, SoundJoin
  <2> QED
    BY <2>8 DEF FundedTap, a, x, m, r
<1> QED
  BY <1>2, <1>5, <1>6, <1>7
=============================================================================
