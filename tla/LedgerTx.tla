------------------------------ MODULE LedgerTx ------------------------------
(***************************************************************************)
(* The ledger as Postgres runs it: concurrent database transactions that   *)
(* each issue the statements of one or more movements (see Movements),     *)
(* under Read Committed.                                                   *)
(*                                                                         *)
(* Row locks on ledger_accounts decide who waits:                          *)
(*   - SELECT ... FOR UPDATE (ensureFunds) excludes every other lock;      *)
(*   - the foreign key entry_currency_matches_account makes an INSERT into *)
(*     ledger_entries take FOR KEY SHARE on the account's row, which       *)
(*     conflicts with FOR UPDATE and with nothing else.                    *)
(* The unique index on idem_key makes a second INSERT of a key wait for    *)
(* the transaction that holds it in flight, then fail if it committed.     *)
(* A wait cycle is broken by Postgres aborting one transaction in it.      *)
(***************************************************************************)
EXTENDS Sequences, Sums

CONSTANTS
  Account, Key, Txn, NoTxn, Protected,
  Currency,   \* the currency column of each account
  Program,    \* Txn -> the sequence of statements of its movements
  Opening,    \* opening balance of each account
  KeepsRest,  \* transactions that commit what precedes a declined check
  Fresh,      \* keys made afresh on every attempt, which no caller can name
  MaxRuns     \* how often the caller presents each transaction

Statement(t, i) == Program[t][i]

\* What a caller can be told.
Results == {"none", "committed", "declined", "duplicate", "error"}

Statements ==
  [op : {"lock"}, account : Account]
    \cup [op : {"check", "entry", "held"}, account : Account, amount : Int]
    \cup [op : {"key"}, key : Key, taken : Results]
    \cup [op : {"seen"}, key : Key]

\* A debit of a protected account is checked, keyed and posted in a row: the
\* shape every spending movement has.
DebitsAreChecked(s) ==
  \A i \in 1..Len(s) :
    (s[i].op = "entry" /\ s[i].account \in Protected /\ s[i].amount < 0) =>
      /\ i > 3
      /\ s[i - 1].op = "key"
      /\ s[i - 2] = [op |-> "check", account |-> s[i].account, amount |-> -s[i].amount]
      /\ s[i - 3] = [op |-> "lock", account |-> s[i].account]

\* ledger.Post inserts a movement's key before its entries.
EntriesAreKeyed(s) ==
  \A i \in 1..Len(s) : s[i].op = "entry" => \E j \in 1..(i - 1) : s[j].op = "key"

Currencies == {Currency[a] : a \in Account}

\* What each statement moves in currency c.
Legs(s, c) ==
  [i \in 1..Len(s) |->
     IF s[i].op = "entry" /\ Currency[s[i].account] = c THEN s[i].amount ELSE 0]

\* ledger.Post refuses entries that do not sum to zero in every currency, and
\* writes those it takes in a row: before any other statement, and at the end,
\* what precedes balances.
MovementsBalance(s) ==
  \A c \in Currencies : \A i \in 1..(Len(s) + 1) :
    (i = Len(s) + 1 \/ s[i].op # "entry") => Total(Legs(s, c), 1..(i - 1)) = 0

\* What the ledger lets a transaction issue.
Sound(s) ==
  /\ s \in Seq(Statements)
  /\ DebitsAreChecked(s)
  /\ EntriesAreKeyed(s)
  /\ MovementsBalance(s)

ASSUME ProgramAssumption ==
  /\ NoTxn \notin Txn
  /\ Protected \subseteq Account
  /\ Program \in [Txn -> Seq(Statements)]
  /\ \A t \in Txn : Sound(Program[t])

\* The keys t takes, and those of them its caller can name again.
ProgramKeys(t) ==
  {Statement(t, i).key : i \in {j \in 1..Len(Program[t]) : Statement(t, j).op = "key"}}
Named(t) == ProgramKeys(t) \ Fresh

\* A movement's key is its kind and the row it is for, so that a transaction
\* has no key twice.
KeysDistinct ==
  \A t \in Txn : \A i, j \in 1..Len(Program[t]) :
    (i # j /\ Statement(t, i).op = "key" /\ Statement(t, j).op = "key")
      => Statement(t, i).key # Statement(t, j).key

\* A statement that, on finding its key, tells the caller that all is done.
TellsDone(t, i) ==
  \/ Statement(t, i).op = "seen"
  \/ Statement(t, i).op = "key" /\ Statement(t, i).taken = "duplicate"

\* Another transaction that inserts such a key does all that t names, as the
\* two Creates of one order do; or it shares an earlier key of t's, as the two
\* redemptions of one quote do, and t goes no further than that one.
NamesIdentify ==
  \A t \in Txn : \A u \in Txn \ {t} : \A i \in 1..Len(Program[t]) :
    (TellsDone(t, i) /\ Statement(t, i).key \in ProgramKeys(u)) =>
      /\ u \notin KeepsRest
      /\ \/ Named(t) \subseteq ProgramKeys(u)
         \/ \E j \in 1..(i - 1) :
              Statement(t, j).op = "key" /\ Statement(t, j).key \in ProgramKeys(u)

ASSUME KeyAssumption == Fresh \subseteq Key /\ KeysDistinct /\ NamesIdentify

\* What f gives to the accounts of currency c.
Of(f, c) == [a \in Account |-> IF Currency[a] = c THEN f[a] ELSE 0]

\* The books start balanced, as a database without entries does.
ASSUME OpeningAssumption ==
  /\ IsFiniteSet(Account)
  /\ Opening \in [Account -> Int]
  /\ \A c \in Currencies : Total(Of(Opening, c), Account) = 0
  /\ \A a \in Protected : Opening[a] >= 0
ASSUME RunsAssumption == MaxRuns \in [Txn -> Nat] /\ KeepsRest \subseteq Txn

VARIABLES
  balance,    \* committed balance of each account
  posted,     \* which transaction committed each idempotency key, or NoTxn
  pc,         \* next statement of each transaction; 0 when none is open
  pend,       \* entries a transaction has inserted and not committed
  keys,       \* keys a transaction has inserted and not committed
  xlock,      \* who holds an account's row FOR UPDATE, or NoTxn
  slock,      \* who holds an account's row FOR KEY SHARE
  result,     \* what the caller was last told
  runs        \* how many times the caller has presented the transaction

books == <<balance, posted>>
locks == <<xlock, slock>>
vars == <<balance, posted, pc, pend, keys, xlock, slock, result, runs>>

Nothing == [a \in Account |-> 0]
\* Every row, lock and local has the type its column or variable has.
TypeOK ==
  /\ balance \in [Account -> Int]
  /\ posted \in [Key -> Txn \cup {NoTxn}]
  /\ pc \in [Txn -> Nat]
  /\ \A t \in Txn : pc[t] <= Len(Program[t]) + 1
  /\ pend \in [Txn -> [Account -> Int]]
  /\ keys \in [Txn -> SUBSET Key]
  /\ xlock \in [Account -> Txn \cup {NoTxn}]
  /\ slock \in [Account -> SUBSET Txn]
  /\ result \in [Txn -> Results]
  /\ runs \in [Txn -> Nat]
  /\ \A t \in Txn : runs[t] <= MaxRuns[t]

Init ==
  /\ balance = Opening
  /\ posted = [k \in Key |-> NoTxn]
  /\ pc = [t \in Txn |-> 0]
  /\ pend = [t \in Txn |-> Nothing]
  /\ keys = [t \in Txn |-> {}]
  /\ xlock = [a \in Account |-> NoTxn]
  /\ slock = [a \in Account |-> {}]
  /\ result = [t \in Txn |-> "none"]
  /\ runs = [t \in Txn |-> 0]

-----------------------------------------------------------------------------
(* Who waits for whom.                                                     *)

Running(t) == pc[t] > 0
AtCommit(t) == pc[t] = Len(Program[t]) + 1
At(t, op) == Running(t) /\ ~AtCommit(t) /\ Statement(t, pc[t]).op = op
Stmt(t) == Statement(t, pc[t])

\* The transactions whose locks keep t's next statement waiting.
Blockers(t) ==
  {u \in Txn \ {t} :
     \/ At(t, "lock")  /\ (xlock[Stmt(t).account] = u \/ u \in slock[Stmt(t).account])
     \/ At(t, "entry") /\ xlock[Stmt(t).account] = u
     \/ At(t, "key")   /\ Stmt(t).key \in keys[u]}

\* A set of transactions each of which waits for another of them.
WaitSet(S) == S # {} /\ \A t \in S : Blockers(t) \cap S # {}

\* A wait cycle: the smallest such sets are the cycles of the waits-for graph.
Cycle(S) == WaitSet(S) /\ \A R \in SUBSET S : WaitSet(R) => R = S

-----------------------------------------------------------------------------
(* Statements.                                                             *)

Step(t) == pc' = [pc EXCEPT ![t] = @ + 1]

\* pool.Begin: the caller presents the transaction, again if it was told of an
\* error and cannot tell whether the commit went through.
Begin(t) ==
  /\ ~Running(t)
  /\ result[t] \in {"none", "error"}
  /\ runs[t] < MaxRuns[t]
  /\ runs' = [runs EXCEPT ![t] = @ + 1]
  /\ pc' = [pc EXCEPT ![t] = 1]
  /\ UNCHANGED <<books, locks, pend, keys, result>>

\* Mutant: the row locks outlive the transaction.
CloseKeepingLocks(t, outcome) ==
  /\ pc' = [pc EXCEPT ![t] = 0]
  /\ pend' = [pend EXCEPT ![t] = Nothing]
  /\ keys' = [keys EXCEPT ![t] = {}]
  /\ result' = [result EXCEPT ![t] = outcome]
  /\ UNCHANGED <<locks, runs>>

\* The transaction ends and its locks and uncommitted rows go with it.
Close(t, outcome) ==
  /\ pc' = [pc EXCEPT ![t] = 0]
  /\ pend' = [pend EXCEPT ![t] = Nothing]
  /\ keys' = [keys EXCEPT ![t] = {}]
  /\ xlock' = [a \in Account |-> IF xlock[a] = t THEN NoTxn ELSE xlock[a]]
  /\ slock' = [a \in Account |-> slock[a] \ {t}]
  /\ result' = [result EXCEPT ![t] = outcome]
  /\ UNCHANGED runs

\* Mutant: the entries are written and the key that names them is not.
ApplyWithoutKeys(t) ==
  /\ balance' = [a \in Account |-> balance[a] + pend[t][a]]
  /\ posted' = posted

\* What a commit makes visible.
Apply(t) ==
  /\ balance' = [a \in Account |-> balance[a] + pend[t][a]]
  /\ posted' = [k \in Key |-> IF k \in keys[t] THEN t ELSE posted[k]]

\* Mutant: what was written before the failure is committed.
RollbackKeepingEntries(t, outcome) == Close(t, outcome) /\ Apply(t)

\* defer tx.Rollback: what InTx does on any error out of its closure.
Rollback(t, outcome) == Close(t, outcome) /\ UNCHANGED books

\* An unlocked read decided what the rest of the transaction posts. The plan
\* is this program's only when the balance read is the one it was made for.
ReadHeld(t) ==
  /\ At(t, "held")
  /\ IF balance[Stmt(t).account] = Stmt(t).amount
     THEN Step(t) /\ UNCHANGED <<books, locks, pend, keys, result, runs>>
     ELSE Rollback(t, "declined")

\* An unlocked look for a row under a key: what is there is returned.
LookUp(t) ==
  /\ At(t, "seen")
  /\ IF posted[Stmt(t).key] = NoTxn
     THEN Step(t) /\ UNCHANGED <<books, locks, pend, keys, result, runs>>
     ELSE Rollback(t, "duplicate")

\* Mutant: the account is read without FOR UPDATE.
LockNothing(t) ==
  /\ At(t, "lock")
  /\ Step(t)
  /\ UNCHANGED <<books, locks, pend, keys, result, runs>>

\* ensureFunds, first statement: SELECT id ... FOR UPDATE.
LockAccount(t) ==
  /\ At(t, "lock")
  /\ Blockers(t) = {}
  /\ xlock' = [xlock EXCEPT ![Stmt(t).account] = t]
  /\ Step(t)
  /\ UNCHANGED <<books, slock, pend, keys, result, runs>>

\* ensureFunds, second statement: the sum of the account's entries, its own
\* uncommitted ones included, against what the movement needs.
Funds(t) == balance[Stmt(t).account] + pend[t][Stmt(t).account]

CheckFunds(t) ==
  /\ At(t, "check")
  /\ Funds(t) >= Stmt(t).amount
  /\ Step(t)
  /\ UNCHANGED <<books, locks, pend, keys, result, runs>>

\* ErrInsufficientFunds. Most callers roll back; the card debit returns the
\* refusal out of its closure and commits what came before.
Decline(t) ==
  /\ At(t, "check")
  /\ Funds(t) < Stmt(t).amount
  /\ Close(t, "declined")
  /\ IF t \in KeepsRest THEN Apply(t) ELSE UNCHANGED books

\* Mutant: no unique index on the key.
InsertAnyKey(t) ==
  /\ At(t, "key")
  /\ keys' = [keys EXCEPT ![t] = @ \cup {Stmt(t).key}]
  /\ Step(t)
  /\ UNCHANGED <<books, locks, pend, result, runs>>

\* INSERT under a unique index, or a quote's conditional UPDATE: waits for a
\* transaction that has the key in flight, fails on one already committed.
InsertKey(t) ==
  /\ At(t, "key")
  /\ Blockers(t) = {}
  /\ posted[Stmt(t).key] = NoTxn /\ Stmt(t).key \notin keys[t]
  /\ keys' = [keys EXCEPT ![t] = @ \cup {Stmt(t).key}]
  /\ Step(t)
  /\ UNCHANGED <<books, locks, pend, result, runs>>

\* Mutant: whatever has the key, the caller is told that it is done.
DuplicateIsDone(t) ==
  /\ At(t, "key")
  /\ Blockers(t) = {}
  /\ posted[Stmt(t).key] # NoTxn \/ Stmt(t).key \in keys[t]
  /\ Rollback(t, "duplicate")

\* A unique violation (ErrDuplicate for a movement), or a quote that is used:
\* the transaction cannot continue.
Duplicate(t) ==
  /\ At(t, "key")
  /\ Blockers(t) = {}
  /\ posted[Stmt(t).key] # NoTxn \/ Stmt(t).key \in keys[t]
  /\ Rollback(t, Stmt(t).taken)

\* INSERT INTO ledger_entries: the foreign key takes the account FOR KEY SHARE.
InsertEntry(t) ==
  /\ At(t, "entry")
  /\ Blockers(t) = {}
  /\ slock' = [slock EXCEPT ![Stmt(t).account] = @ \cup {t}]
  /\ pend' = [pend EXCEPT ![t][Stmt(t).account] = @ + Stmt(t).amount]
  /\ Step(t)
  /\ UNCHANGED <<books, xlock, keys, result, runs>>

\* Mutant: the commit leaves the transaction open.
CommitAndStay(t) == Running(t) /\ AtCommit(t) /\ Apply(t) /\ Step(t)
                    /\ UNCHANGED <<locks, pend, keys, result, runs>>

\* tx.Commit. The reply may be lost, and then the caller sees an error.
Commit(t) ==
  /\ Running(t) /\ AtCommit(t)
  /\ Apply(t)
  /\ \E told \in {"committed", "error"} : Close(t, told)

\* The connection, the process or the request's context goes away.
Interrupted(t) == Running(t) /\ Rollback(t, "error")

\* Postgres breaks a wait cycle by aborting one transaction in it.
DeadlockVictim(t) ==
  /\ Blockers(t) # {}
  /\ \E S \in SUBSET {u \in Txn : Running(u)} : t \in S /\ Cycle(S)
  /\ Rollback(t, "error")

Progress(t) ==
  \/ ReadHeld(t) \/ LookUp(t) \/ LockAccount(t) \/ CheckFunds(t) \/ Decline(t)
  \/ InsertKey(t) \/ Duplicate(t) \/ InsertEntry(t) \/ Commit(t)
  \/ DeadlockVictim(t)

Next == \E t \in Txn : Begin(t) \/ Progress(t) \/ Interrupted(t)

Spec == Init /\ [][Next]_vars

\* The server keeps executing statements of the open transactions and its
\* deadlock detector runs; nothing makes a caller begin one. No transaction is
\* promised a turn: the others are presented a bounded number of times.
Fairness == WF_vars(\E t \in Txn : Progress(t))

-----------------------------------------------------------------------------
(* Properties.                                                             *)

\* A protected account never goes negative, whichever transactions race for
\* its last unit: the double spend ensureFunds exists to prevent (funds.go).
ProtectedNeverNegative == \A a \in Protected : balance[a] >= 0

\* What a transaction does is posted by it, all of it or nothing, whatever it
\* races with and however often it is presented again (orders.go, Create: an
\* order that debits without a payout "is money taken and not sent"; rates,
\* Redeem: two conversions at one price "would be a free option").
Together(t) ==
  (\E k \in ProgramKeys(t) : posted[k] = t) => \A k \in ProgramKeys(t) : posted[k] = t

WholeOrNothing == \A t \in Txn \ KeepsRest : Together(t)

\* "duplicate" is "treated as already done" (ledger.go, ErrDuplicate; orders.go,
\* Create): a caller told so may rely on all it named being posted. A key in
\* flight, whose transaction may yet roll back, is no duplicate.
DuplicateMeansDone ==
  \A t \in Txn : result[t] = "duplicate" => \A k \in Named(t) : posted[k] # NoTxn

\* Every currency's books sum to zero, whatever interleaves, declines or is cut
\* short: an entry is committed only with the rest of its movement, so the
\* deferred trigger ledger_entries_balanced never refuses a commit.
BooksBalance == \A c \in Currencies : Total(Of(balance, c), Account) = 0

\* Every database transaction that is begun ends: no lock order, and no error
\* path that forgets to roll back, leaves one waiting for ever. Callers present
\* each a bounded number of times, so that in the end none is open.
EveryTransactionEnds == []<>(\A t \in Txn : ~Running(t))

\* The keys of t's movements in the ledger.
MovementKeys(t) ==
  {Statement(t, i).key : i \in {j \in 1..Len(Program[t]) :
                                  Statement(t, j).op = "key" /\ Statement(t, j).taken = "duplicate"}}

\* debit.go: "a conversion that commits without its tap would leave somebody's
\* dollars exchanged for naira they never agreed to spend". A transaction's
\* movements are posted together or not at all, whatever else it commits.
MovementsCommitTogether ==
  \A t \in Txn : \A k, l \in MovementKeys(t) : posted[k] = t => posted[l] = t

\* What every interleaving of statements implements.
Abstract == INSTANCE Ledger WITH balance <- balance, posted <- posted
ImplementsLedger == Abstract!Spec
=============================================================================
