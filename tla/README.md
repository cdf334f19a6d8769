# TLA+ models of tapp-platform

Formal models of the settlement back end in `src/apps/api`: what the Go code and its SQL do when
several requests, workers, webhooks and operators act at once, and when a call to a bank rail is
lost, late or repeated. TLC checks the models on small instances; TLAPS proves the results that
matter most for every instance.

Paths below are relative to `src/apps/api/internal` unless they start with another directory.

## 1. The system

A cardholder's balance is held in a double-entry ledger in Postgres. They fund it by a bank deposit,
with cash handed to an agent, or in USDC on Base; they spend it by tapping a card at a merchant or
sending it to a bank account. "The ledger is the authorization boundary": a movement is posted first,
and the outside world (a Nigerian bank rail, a chain, a ticketing back end called equity) is told
afterwards by background workers, each with a row per thing to deliver.

```
 card tap --+                                   +-- naira leg worker ---> bank rail --webhook--+
 deposit  --+--> movements --> ledger (SQL) <---+-- bank payout worker -> bank rail            |
 cash     --+      (one database transaction)   +-- on-chain settler ---> off-ramp contract    |
 orders   --+                                   +-- equity outbox ------> equity               |
                                    ^-----------------------------------------------------------+
```

### Inventory

| Component | State | Operations | Interacts with | What makes it correct |
|---|---|---|---|---|
| ledger (`ledger/`) | accounts, transactions with a unique `idem_key`, entries; balances are sums of entries | `Post`, `AccountFor`, balances, history | every writer, in its own database transaction | entries balance per currency; a key is posted once; `ErrDuplicate` means it is posted |
| movements (`ledger/movements/`) | none of its own | one function per business event: `Tap`, `Withdraw`, `Convert`, `LockAgentFloat`, ... over `ensureFunds` and `Post` | ledger, orders, quotes | no protected account below zero; composed movements commit together; no transaction waits for ever |
| naira leg (`settlement/naira/`) | `card_tap_ngn_settlements`: queued, submitted, settled, failed; attempts, sweep and rail references | `Record`, `Tick` (pay queued, chase stale), `ApplyWebhook`, `Retry` | rail (sweep, transfer, lookup, webhook), merchant_payable, tap reversal | the books follow the row; the bank is credited at most once; every submitted leg is answered |
| bank payouts (`settlement/`) | `payouts`: pending, submitting, unknown, sent, confirmed, failed | `Open`, `Tick` (submit, chase), `Abandon`, `PayMerchants` | rail, `payable`, the operator's command | discharged only when delivered; delivered once; nobody both paid and refunded |
| bank rail (`services/baas/`) | outside: transfers by reference | name enquiry, transfer, sweep, lookup, webhook | both workers | a reference names one live transfer |
| card tap (`card/tap/`) | card, tap, nonce, PIN counters, pending token | `Debit`, `Acknowledge`, `Reverse` | movements, naira leg, on-chain settlement, equity | a nonce or a tap is charged once; limits hold; a refusal moves nothing |
| card token, PIN, link (`card/token`, `card/auth`, `card/link`) | token hash, PIN hash, link rows | rotate, verify, link | card tap, the till that writes the chip | the card's token and the server's agree; wrong answers are counted |
| on-chain settlement (`chain/offramp/`) | `card_tap_settlements`: pending, submitted, fulfilled, failed; attempts, rounds | `Record`, `Tick`, `Track` | off-ramp contract, merchant_payable, equity | an order is opened once per round; a refunded round is owed again |
| equity outbox (`equity/`) | outbox rows: held, queued, delivered, failed, cancelled | `EnqueueTap`, `RecordReversal`, `ReleaseIfSettled`, `Tick` | taps, both settlement legs, equity | a tap is announced only when all its legs are paid, a reversal only after its tap |
| cash (`cash/`) | pledges with notes, handovers | pledge, `Match`, confirm, sweep of expired rows | agents' float and escrow | a note backs one handover; float is released or settled, never both |
| agents (`agents/`) | registry, positions | register, allocate and return float | cash | float movements |
| Base chain (`chain/base/`) | the watcher's position, seen deposits, withdrawals, sweeps, treasury | watch, credit, withdraw, sweep | chain, CDP, ledger | a deposit is credited once after enough confirmations; a withdrawal is sent or returned |
| smart accounts, gas (`chain/cdp`, `chain/gas`) | clients and cost policy | create account, price, post gas | chain, ledger | gas is booked once per transaction |
| rates and quotes (`rates/`) | quotes with expiry | `Offer`, `Redeem` | orders, conversions | a quote is redeemed once, and not consumed for nothing |
| orders, checkout (`orders/`, `checkout/`) | orders, checkout sessions | `Create`, `Sync`; pay a checkout | quotes, movements, payouts | debit and payout together or neither; one order per key |
| money (`money/`) | none | amounts, currencies, banknotes | everything | exact integer arithmetic, checked currency |
| risk, limits (`risk/`, `identity/limits`) | events, thresholds | score, check | tap | limits on identity |
| transactions (`transactions/`) | none (read model) | list | ledger | |
| API v1 (`api/v1`), operator commands (`cmd/`) | none | handlers and wiring | all of the above | |
| liquidity-provider back end (`services/`, `tasks/`, `controllers/`) | Redis queues, ent entities | match, reassign, reconcile | its own | inherited and dormant (section 5) |
| front ends (`src/apps/merchant`, `src/apps/pwa`, ...) | the till's pending write | write a token, acknowledge it; else user interfaces | API | |
| ent, `imports/` | generated code, ported source | | | |

### Behaviours that are hard

* Read Committed transactions interleave statement by statement: a balance read without a lock is
  stale, and inserting an entry takes a lock too (the foreign key's `FOR KEY SHARE`).
* A worker reads a row, calls the rail, and writes what it learned later, while a webhook, a retry, an
  operator's command or a reversal of the tap changes the row.
* A rail call may be lost, taken without an answer, or taken long after its caller gave up. Webhooks
  repeat and arrive in any order. Every attempt of a leg carries the same reference.
* A process dies between the claim, the call and the write. Nothing but the row survives.
* Conditional updates, unique keys and `FOR UPDATE` are the only mutual exclusion; several UPDATEs of
  the bank payout worker, of the card's row and of the on-chain settler are not conditional.
* An order on chain is refunded and sold again, a block is replaced after it was read, a token is
  written to a chip whose acknowledgement is lost: the outside and the row disagree for a while.

`PROJECT.json` lists each of these at its line under `hazards`, with the properties that cover it.

## 2. Modules

| Module | Models | Kind |
|---|---|---|
| `Movements` | each function of `ledger/movements`, a quote's redemption and an order's row, as the sequence of SQL statements issued | operators |
| `Ledger` | what the ledger promises: movements are posted at most once, and never overdraw | abstract specification |
| `LedgerTx` | Postgres executing concurrent transactions made of those statements: locks, key waits, deadlock detection, aborts, lost replies | specification, implements `Ledger` |
| `Claims` | what settling a merchant promises, whichever rail does it | abstract specification |
| `NairaLeg` | the naira leg worker, webhook and retry, the rail, the tap's reversal | specification, implements `Claims` |
| `BankPayout` | the payout worker, `Abandon`, the rail | specification |
| `CashHandover` | pledges and their notes, `Match`, confirmations, the sweeper | specification |
| `TapSettlement` | after a tap: both legs, the on-chain settler, the outbox, the reversal | specification, implements `Claims` |
| `CardTap` | one card: challenges, debits statement by statement, PIN, token rotation, the till | specification |
| `BaseChain` | one cardholder's USDC: the watcher, deposits, withdrawals, reorganisations | specification |
| `Sums` | the sum of a function over a finite set, used by balances, limits and solvency | operator |
| `MC*` | instances for TLC; `MCLedgerTx` has scenarios built from `Movements` | TLC |
| `*_proofs` | proofs; `Sums_proofs` holds the lemmas on sums that four others use | TLAPS |

`TapSettlement` composes the settler, the naira leg seen from outside, the outbox and the reversal, because
they meet in `merchant_payable` and in the event's release. `Claims` is what `NairaLeg` (inside) and the
naira actions of `TapSettlement` (outside) have in common: both implement it.

### Correspondence

**LedgerTx.** A transaction is a program: the statements of one or more movements, in the order the Go
code issues them (`lock`, `check` from `ensureFunds`; `key`, `entry` from `Post`; `held` for a balance
read without a lock that decides what follows; `seen` for `byIdemKey`, which ends the transaction early).
`pc` is the next statement; `pend` and `keys` are its uncommitted rows; `xlock` and `slock` the row locks
`FOR UPDATE` and `FOR KEY SHARE`. `LockAccount`, `CheckFunds`, `InsertKey`, `InsertEntry`, `ReadHeld` and
`LookUp` execute a statement when nobody blocks it; `Duplicate` is a key that was taken, and ends as
that key's `taken` says; `Decline` a failed check, which rolls back unless the caller turns it into a value
(`KeepsRest`: `Debit` in `card/tap`); `Commit` may lose its reply; `Interrupted` is a cancelled context or a
dead process; `DeadlockVictim` is Postgres's detector. The caller may present a transaction again when
told of an error. Whatever can be taken once is a key: a movement's `idem_key` (taken: a duplicate), a
quote's `used_at IS NULL` (`Redeem`, taken: declined), an order's unique key (`Raise`, taken: an error).
What a program may be
is `Sound`: a debit of a protected account follows lock and check of that amount (`DebitsAreChecked`:
`ensureFunds` then `Post`), a movement's key precedes its entries (`EntriesAreKeyed`), and its entries, written
in a row, sum to zero in each currency (`MovementsBalance`: `Post` refuses others). `KeyAssumption` is what
idempotency rests on: a transaction has no key twice (`KeysDistinct`), and one that inserts a key under which
another looks for its own work does what the other named (`NamesIdentify`); keys made afresh on each attempt,
as a payout's id or a tap's, are named by nobody (`Fresh`). TLC evaluates all of this on the programs built from
`Movements`. `MCLedgerTx` builds three casts of transactions (those that spend one cardholder's money, a
deposit with its redelivery and an order that spends it, and the float of one agent) and plays one at a time
(`OneCast`), of the spenders four at a time: two casts share only system accounts, which no one locks
`FOR UPDATE`, so beside each other they would add interleavings and no waits. What stops a tap presented twice
is its challenge (`Consume`, `nonce.go`), as its ledger key is made anew on each attempt (`debit.go:180`).

**NairaLeg.** `row` is `card_tap_ngn_settlements`; `discharged`, `returned` and `fees` are the
ledger movements posted for each attempt; `payable` is `merchant_payable`; `proc[p]` is what a row in
hand or a webhook request is about to do and the copy of the row it read. The actions are the
statements and calls of `worker.go` in its order: `PickQueued`, `Unresolved`, `FailQueued`, `Claim`,
`NotClaimed`, `Enquire`, `AskRail`/`RailRefuses`/`NoAnswer` (sweep and bank), `RecordSweep`, then
`NoteReference`, `Settle` or `Fail` (`apply`); `PickStale`, `ChaseNotFound`, `ChaseAnswered`,
`ChaseUnanswered` (`chase`); `Webhook`, `Retry`, `ReverseTap`, `Crash`.

**BankPayout.** `row` is `payouts`; `settled` and `returned` are the movements posted; `payable` the
system account. `Open`, `Claim`, `Enquire`, `Transfer`/`Refuse`/`NoAnswer`, `Confirm`, `Fail`,
`MarkSent`, `MarkUnknown`, `MarkTemporary` are `worker.go` and `outcomes.go`; `PickStale`,
`SendAgain`, `ChaseAnswered` are `chaseStale`; `Abandon` is the operator's command. `NoAnswer` ends as
`recordFailure` classes the error: a timeout is unknown, a 5xx temporary, and any other, a connection reset or
an answer cut short among them, goes to `fail` like a refusal.

**CashHandover.** `pledge` and `handovers` are the rows of `cash_pledges` and `cash_handovers`;
`claimed` the pledges whose `pledged_notes` are not released; `float` and `escrow` the agents' two
accounts. `OpenPledge` and `RefusePledge` are `pledge.go`. `Match` reads in `Load` (`matching[m]` is the
pledge it has in hand and the agents left to try) and writes in `Propose`, `NextAgent` or
`AlreadyMatched`. `BeginConfirm` locks the handover's row and checks the clock; `ConfirmOne`, `Settle` or
`ConfirmFails` ends that transaction. The sweeper reads in `FindExpired`, then runs a transaction for
each handover (`ReleaseExpired`, `AlreadyClosed`, `ReleaseFails`), one for the pledges (`ExpirePledges`)
and one for the notes (`FreeNotes`). `HandoverRunsOut` and `PledgeRunsOut` are the clock.

**TapSettlement.** `usdc` is `card_tap_settlements`, `naira` the state of `card_tap_ngn_settlements`,
`outbox` the `equity_outbox` rows of each kind, `payable` `merchant_payable`. `settler` is where the one
settler goroutine is: the batch it read (`ReadDue`), the row it priced and counted (`Try`, `Unpriced`), the
call (`Create`, `CreateRefused`, `CreateUnanswered`) and what it wrote (`RecordOrder`, `RecordRefused`).
`chain[t, r]` is what the signer's idempotency key, tap and round, names: an operation that is void, or an
open order that the Gateway fills or refunds (`GatewayDecides`). Every try asks for a price of its own and
writes it to the row (`Try`, `sell`); an operation keeps the one it was made at, and `repriced` records that its
key was presented for another since. `Track` is `LearnOrder`, `NotCreated`,
`Refunded`, `Fulfilled`. The outbox is `ReleaseSettled`, `Deliver` (locks the row), the market's answer,
`CommitDelivery`. `Charge` and `Reverse` are what `card/tap` writes into all of them.

**CardTap.** `card` is the row of `tapp_cards`, `challenge` the nonces, `taps` charged and reversed taps,
`chip` the token on the card, `ack` what the till still has to do with the token it was given. A debit
executes `ClaimNonce` (`consumeNonce`), `LoadCard` (`loadCard`, `usable`, `refuseRepeat`, `Verify`: the row
is read here, without a lock), `SatisfyTier` or `RefusePIN` or `RefuseToken`, `CheckLimit` (`matches`,
`spentToday`), `Charge` (`movements.Tap`), `Commit` (`recordTap`, `issuePendingToken`). Refusals on the
merits commit (`Refuse`), others roll back (`Abort`). `WriteToken`, `WriteFails`, `Forgo`, `AckWritten`,
`AckLost` and `AckFailed` are `useTapCard.ts` and `Acknowledge`. Two history variables record what nothing
locks: `crossed`, that debits, or a debit and the till of another, overlapped, and `overtaken`, the debits that
had summed the day's taps (`Weighed`) when another was charged.

**BaseChain.** `poll` is one `Watcher.Poll`: `ReadHead`, `FilterLogs`, `Record` per log, `Advance`,
`Credit` per due row. `deposit` is keyed by transfer and log index, as `base_deposits` is. `Open`, `Claim`,
the send and its answer, `MarkSent` and `Refund` are `withdrawals.go`; `sends` counts how often each moved
money. On a first start `From` is the configured block or the head itself (`watcher.go:84-94`), which nothing
remembers until a poll advances; `first` is the block that poll began from. `Mine` and `Reorganise` are the chain.

**The rail** is outside `src`; both workers rely on the same of it, which is the assumption here: a
payment reference names one transfer while that transfer is pending or has succeeded, and presented
again it is answered with that transfer (`naira.go:76-83`) or refused as a duplicate
(`services/baas/baas.go:303-305`); under a reference whose last transfer failed a new one is opened,
which is what `Retry` is for; a lookup finds what it has; a request may be taken late; a pending
transfer may succeed or fail at any time. **The signer** of on-chain orders answers a key it has taken with
the operation it named (`settler.go:285-295`). **The market** takes an event it has already taken again
(`outbox.go:340`). **CDP**, which sends withdrawals, promises nothing about a repeated send, and the code
repeats none.

Abstracted throughout: text of errors and reasons, fees' amounts (except the scheme fee and spread in
`Movements`), dust in a sweep, hashing and encryption, and time: a row may be stale, a backoff over, a
window or an expiry passed at any moment, so whatever the delays are is covered.

## 3. What TLC checks

| Run | Instance | Properties | Shows |
|---|---|---|---|
| `ledger_tap` | a tap presented twice that converts its shortfall first; an order and its retry under the same key; an order and a conversion redeeming one quote; a deposit, its redelivery and an order that spends it; lock, release and settlement of one agent's float | `TypeOK`, `ProtectedNeverNegative`, `DuplicateMeansDone`, `WholeOrNothing`, `BooksBalance`, `ImplementsLedger`, `EveryTransactionEnds` | no overdraft, no half or double posting, one order per key, one use per challenge and quote, and a refinement of `Ledger`, at every interleaving of statements; wait cycles are broken and no transaction stays open |
| `naira_leg` | one leg, the worker, two webhook requests, two attempts, three faults | `TypeOK`, `BooksFollowTheRow`, `FeesBookedOnce`, `SettledIsDelivered`, `DeliveredOnce`, `PaidOnlyAfterSweep`, `ImplementsClaims`, `EveryLegIsAnswered` | every race of tick, chase, webhooks, retry and reversal leaves the books with the row and one credit; a submitted leg is settled or failed in the end |
| `bank_payout` | a merchant's and a user's payout, one worker, one operator, three claims, two faults | `DischargedIsDelivered`, `DeliveredOnce`, `FinalStateIsBooked`, `ConfirmedIsFinal` | the settlement is posted only for a delivered transfer, and final rows agree with the books |
| `cash_handover` | two pledges of the same photograph, one agent whose float covers either but not both, two `Match` requests, a sweeper, two handovers, one fault | `EscrowIsLocked`, `PaidByBothOnly`, `MatchedIsLocked`, `EveryMeetingEnds`, `ExpiredFreesNotes` | float is released or settled once whoever races; nobody is paid on one confirmation; a meeting ends and notes come free even when a sweep fails half way |
| `tap_settlement` | a tap paid for on both rails, two prices, three rounds, three attempts, two refusals, two faults; a merchant owed more, exactly the difference, or nothing else | `ResoldOnlyRepriced`, `FulfilledIsFilled`, `HeardIsPaid`, `NoCrossing`, `ImplementsClaims`, `SettledReachesMarket`, `ReversalFollows` | through lost answers, refunds and retries, only an order priced anew under its old key can be sold again; the market hears of a tap when the last leg is paid, and of its reversal after it |
| `card_tap` | two debits, two challenges, three tiers, a limit and a balance that two debits can exceed, two PIN attempts, two mismatches, one fault | `ChallengeHonoured`, `CardKeepsWorking`, `WithinDaily`, `WrongsAreCounted`, `EveryDebitEnds` | what is charged was challenged and answered, once; only a debit whose sum another has outdated passes the limit; the chip keeps a token the server knows; waits are broken |
| `base_chain` | a stranger's transfer and one of the platform's own, a first start at the head, two withdrawals, two confirmations, windows of two blocks, one reorganisation, one fault | `CreditedIsConfirmed`, `Solvent`, `EveryDepositCredited`, `EveryWithdrawalEnds` | deposits are credited once and old enough, whatever poll dies where, and none after the first block read is skipped; debits are sent once or returned; the accounts fall short only by what a replaced block and a lost answer explain |

Every property has a mutant in `PROJECT.json`: a definition with a plausible bug (an UPDATE that lost
its condition, a lock not taken, a reference made per attempt) under which TLC finds it violated.

Distinct states, in thousands: `ledger_tap` 54, `naira_leg` 87, `bank_payout` 988, `cash_handover` 89,
`tap_settlement` 239, `card_tap` 630, `base_chain` 333.

Two of `CardTap`'s properties, `CardKeepsWorking` and `WrongsAreCounted`, ask that debits of the card do not
overlap (`crossed`): with overlap they are false of the code, in the ways listed below, and the check is of what
remains true between them: refusals, rollbacks, reversals, repeats and lost connections in any order.
`WithinDaily` asks for no such thing: it leaves out the debits that were overtaken and bounds the rest, however
many are under way; that the others do pass the limit is the run `card_over_limit`. `Solvent` holds in every
state: it gives the two losses the code can suffer as amounts (`Undone`, `Mistaken`) and bounds the shortfall by
them. `CreditedIsConfirmed`, `EveryDepositCredited` and `ReversalFollows` name their exceptions as history
variables, each of the one transfer or tap concerned.

### Where the code and its comments disagree

Checked, with a counterexample found by TLC:

| Run | Comment | What the code does |
|---|---|---|
| `ledger_tap_atomic` | `debit.go:163`: a conversion must not commit without its tap | a decline after the conversion is returned as a value, so the transaction commits |
| `naira_reversed` | `worker.go:122`: "A reversed tap is never paid" | a tap reversed between the read and `claim` is paid from the merchant's other earnings |
| `bank_paid_twice` | `outcomes.go:50`: fail means "the provider refused on the merits and no money moved"; `settlement.go:36`: an unknown payout is "CHASED ... rather than retried" | an error that cannot be classed is failed at once; a row without a provider reference, or a 5xx, goes back to pending and the next submission may be refused. Either way the reservation is returned although the first transfer was delivered |
| `tap_sold_twice` | `settler.go:213-220`: the attempt count and the key on the tap keep the next tick from selling "the cardholder's money a second time" | each try is priced anew under the old key (`settler.go:190-211`); the receipt of the first order does not show the new amount, so the row is put back and the next round sells the tap beside it |
| `card_over_limit` | `record.go:61`: a sum computed inside the debit transaction "cannot be raced" | the day's total is read (`debit.go:122`) before anything both debits lock: both find room and both are charged |

Met while modelling; the models have the behaviour, and the properties above are stated so that they hold
beside it:

| Where | What |
|---|---|
| `ledger/movements/funds.go:62` | "deadlock is impossible by construction": `LockAgentFloat` holds float `FOR UPDATE` and inserts into escrow, `ReleaseAgentFloat` the reverse, and the foreign key's `FOR KEY SHARE` waits for `FOR UPDATE`. Postgres aborts one, its caller does not retry |
| `settlement/naira/worker.go:513` | "no money moved": a failure event of attempt 1, applied to attempt 2, fails a leg the bank has been credited for |
| `cash/handover.go:89` | the row count of `Match`'s conditional update is not looked at: a pledge expired between its read and its transaction gets a live handover and locked float, and its notes are free for another pledge, although `0007_cash.sql:41` calls an expired pledge one whose "agent's float was released" |
| `orders/orders.go:132` | a retry that overlaps the first request is told of an error (a unique violation, or `quote_used`), not given the order; only a later retry is. `State` stays `paying`: nothing calls `Sync` |
| `card/tap/debit.go:307`, `:332` | counts of wrong PINs and unknown tokens are written from the row as it was read: two at once count once, and a debit that read a live card writes "locked" over "revoked" |
| `card/tap/repeat.go:32` | two challenges for one amount open at once: both debits may read before either has charged |
| `card/tap/ack.go:46` | an acknowledgement that comes late promotes or drops the token of a later tap; one that is lost is reported by the till as a failed write (`useTapCard.ts:299`) and the server forgets the token on the chip |
| `chain/offramp/settler.go:144` | a row whose last attempt was refunded stays pending and is never due again |
| `chain/offramp/settler.go:265` | an account that no longer bears the claim aborts the record of an order that is on chain |
| `chain/offramp/settler.go:129` | the reversal is looked at when the batch is read: a tap reversed after that is sold |
| `equity/outbox.go:46` | attempts without an answer count towards the refusals that give a row up |
| `equity/outbox.go:111` | "no third outcome": an event whose answer was lost is queued, is cancelled by a reversal, and the market keeps it |
| `chain/base/withdrawals.go:192` | any error refunds a withdrawal, one whose answer was lost too |
| `chain/base/watcher.go:83` | on a first start without a configured block, the head the watcher begins at is stored only when a poll advances; when the first polls fail, the blocks between are not read |
| `chain/base/watcher.go:70` | a reorganisation after the record is not noticed; included again under another log index, the transfer gets a second row |

### Bounds

* `ledger_tap` has the fewest actors that can race: two transactions for a lock cycle and a third beside
  them on one agent's float; a tap, a rival order, its retry and a quote's two takers, four at a time, so that
  any two meet. Amounts are such that the rival's spending makes the tap's plan too small, and the dollars
  suffice for one conversion. The tap may be presented twice, which covers a lost reply followed by a
  repetition (its nonce stops it), and so may the deposit, whose own key does (`ErrDuplicate`,
  `ngn_deposits.go:411`).
* Retries stop at `MaxAttempts = 2` for naira legs: an event of one attempt meeting the next is the case
  that matters, and the proofs cover any number. Claims of a payout stop at 3 with the code's
  `MaxAttempts` set to 2, so the attempt budget is reached and exceeded.
* One worker in `naira_leg`, because `main.go:136` starts one, and two webhook requests, so that an event may
  meet its repetition or one of another attempt; the theorems cover any number of either.
* `MaxFaults` counts lost, late and unanswered calls and crashes in a behaviour: three in `naira_leg`, where
  losing the sweep, the transfer and the chase are different cases, two in `bank_payout` and `tap_settlement`,
  one in `cash_handover`, `card_tap` and `base_chain`.
* Two handovers in `cash_handover`: a pledge reopened and matched again, or two pledges sharing the
  agent's escrow. Amounts are 2 and 1 out of a float of 2, so that one request takes the float another
  has seen. Both pledges show one photograph, so a confirmation of a closed pledge may meet its
  successor. The sweep's `LIMIT 200` (`cash/sweep.go:31`) is left out: no instance approaches it.
* One tap in `tap_settlement`, because taps meet only in `payable`, and what the merchant is owed for
  others is `Earned`, in three amounts that decide which of the two legs and the reversal find it enough.
  Three rounds and three attempts, counted over all rounds, make both budgets reachable. Two prices: enough
  for a try to cost another amount than the one before, or the same.
* Two debits in `card_tap`: each hazard of `debit.go` and `ack.go` needs two. Amounts 1, 2 and 3 stand
  for the three tiers; 2 and 2 exceed the limit of 3, 3 and 2 the balance of 4.
* A chain of five blocks in `base_chain` with two confirmations and windows of two blocks: a poll
  starts behind the head, catches up, and credits what a later poll confirms. `Mine` includes transfers
  early enough to be confirmed before the bound. `StartBlock` is 0, the default: the watcher begins at the
  head; the theorems are for any.
* `CHECK_DEADLOCK FALSE` everywhere: with every payout, leg, tap or deposit final and the bounds used up
  there is nothing left to do, and the system may stop.

### Fairness

`MCLedgerTx!FairStagedSpec`: while transactions are open, some statement is executed or the deadlock
detector aborts one (`LedgerTx!Fairness`): Postgres schedules its back ends, and `deadlock_timeout` is on.
Nothing promises any one transaction its turn; the others are presented a bounded number of times. No
fairness on `Begin`.

`NairaLeg!FairSpec`: `WF(Work(p))`, because `Run` ticks at an interval for as long as the process
lives and every tick chases what is stale; `WF(RailDecides(k))`, because a bank transfer does not stay
pending for ever. Nothing makes a webhook arrive, an operator retry, or a late request be taken.

`CashHandover!FairSpec`: `WF(Sweep(s))`, because `RunSweeper` sweeps on a timer; a confirmation that
holds a row ends, as its transaction does; and time passes for each handover. Nobody has to pledge, to
match or to confirm.

`TapSettlement!FairSpec`: the settler's and the outbox's loops keep ticking (`Run` in both), the Gateway
decides each order. `SF(Track(t))`, because `Run` calls `Track` after every `Tick` that ends without an
error, and an error costs an attempt or a fault, of which there are boundedly many: between two ticks the settler
is idle and the row is tracked, though it is not idle all the time. `SF(Deliver(t, k))`, because a
tick takes every due row and not the same one for ever. Nothing makes the naira rail pay, an operator
retry, or a till reverse.

`CardTap!FairSpec`: a debit that reached the server is served, or aborted by the deadlock detector.
Nobody has to ask, to approve, to write a token or to acknowledge it.

`BaseChain!FairSpec`: blocks are added, both timers tick (`Run`), and a call to CDP returns.

`BankPayout` is checked for safety only, with one worker: `main.go:70` says "exactly one worker
instance should ever run against a database". With two, the unconditional UPDATEs of `outcomes.go`
would undo a confirmed row, which is why `ConfirmedIsFinal` names that deployment.

## 4. What is proved

All theorems hold for every value of the constants under the named assumptions of the module.

**`LedgerTx_proofs`** (assuming `ProgramAssumption`, `KeyAssumption`, `OpeningAssumption`,
`RunsAssumption`): for any set of transactions, any sound programs, and any number of retries,

* `TypeCorrect`: `TypeOK`;
* `NeverNegative`: no protected account is ever negative;
* `Whole`: a transaction that rolls back on a decline has posted all its keys or none;
* `Balanced`: `BooksBalance`, every currency's accounts sum to zero;
* `DuplicateIsTrue`: `DuplicateMeansDone`, who is told "duplicate" has all it named posted;
* `NobodyIsStuck`: while transactions are open (finitely many), one of them waits for nobody or is in a wait
  cycle that the detector finds (`SomeoneMoves`, defined beside its proof);
* `Implements`: `LedgerTx` implements `Ledger`: each step posts fresh keys or changes nothing.

`ProtectedNeverNegative` is not inductive: a debit lands several statements after its check. The
invariant adds what makes the check stand. Who is past a `lock` still holds it (`LocksHeld`); beside
`FOR UPDATE` nobody else has `FOR KEY SHARE` (`LocksExclude`), and an uncommitted entry implies one
(`EntriesHoldLocks`), so nobody else's entry is in flight on that account; hence the sum stands between
check and debit (`CheckStands`), and the balance stays covered whichever transaction commits next
(`Covered`). `KeysHeld`, `KeysFresh` and `EntriesHaveKeys` give the refinement: a commit that changes
a balance posts keys, all new.

`Balanced` needs `PendingIsMoved`: what a transaction has not committed is what the statements behind it
move, in each currency. Wherever a commit can fall, at the end or at a declined check, those balance.
`DuplicateIsTrue` needs that a transaction holds only keys of statements behind it (`KeysSoFar`), that
what is posted is posted whole or by one that was declined half way (`WholeOrDeclined`), and that who runs
has not been told it was done (`NotAgain`): then the key found belongs to another transaction, which
`NamesIdentify` and `Whole` make answer for all the caller named. `NobodyIsStuck` needs `HoldersRun`:
locks and keys belong to open transactions, so a wait is always for one that is open, and among finitely
many that all wait there is a least set closed under waiting, which is a cycle.

What `ProgramAssumption` asks, that programs are `Sound`, is itself proved of the code's movements, for any
amounts (`KeyAssumption`, which is about the keys callers choose, is evaluated on the scenarios only):

* `TransfersAreSound`: the ten that check their funds and credit one account;
* `UncheckedMovementsAreSound`: the eight that post without a check, if the account debited is not protected
  (`external`, `payable`, `revenue`);
* `SpendingIsSound`: `Tap`, `TapReversal`, `Withdraw`, `Convert`, with whatever fee and spread;
* `TransactionsAreSound`: `QuotedConversion`, `Order`, `QuotedOrder`, `FundedTap`.

They ask that each account's currency is the one it names (`Denominated`) and that the accounts and keys are
the database's (`Open`). `TapReversal` shows where this bites: it withdraws a merchant's claim without a check, so
it is sound only where `merchant_payable` may go negative.

**`Sums_proofs`**: a sum over a finite set is an integer, depends only on the values, splits over disjoint
sets, follows the change of one term, and is preserved by a bijection. The fold of the community modules is a
recursive function on subsets; each fact is proved by taking a least subset for which it fails (`Least`, from
the well-foundedness of strict inclusion), since the library's induction theorems take a predicate that the
provers cannot supply.

**`NairaLeg_proofs`** (assuming `NairaAssumption`): for any number of legs, workers, webhooks, retries
and faults,

* `TypeCorrect`: `TypeOK`;
* `BooksFollow`: each attempt was discharged once, and all but the standing one were returned;
* `FeesOnce`: the rail's fees are booked exactly when the leg settles, once;
* `SettledStays`: a settled leg never changes;
* `Implements`: the leg implements `Claims`;
* `Settled`: a row reads settled only when the merchant's bank was credited;
* `Once`: the bank is credited at most once for a leg;
* `SweptFirst`: no bank is asked to be paid for a leg whose sweep the rail never took.

The step that needs care is `Fail` on a stale copy. `CopiesWereClaimed` says a process acts on an
attempt that has been claimed; all of those but the standing one are in `returned`, so a stale return
is a duplicate key, and the duplicate aborts the row's update with it. `ClaimedFirst` says nothing
reaches the rail, hence no webhook exists, before a claim.

The last three are about the rail. Copies and rows go stale, but the transfers under a reference only grow,
and a success stays one (`Grow`). So what a process (`CopyOK`) or a row (`RowOK`) learnt of the rail remains
so, and each step only has to show that what it adds is so. All attempts share a reference (`RailOK`), under
which every transfer but the last has failed.

**`BankPayout_proofs`** (assuming `PayoutAssumption`): for any payouts, workers, operators and faults,

* `TypeCorrect`: `TypeOK`;
* `Discharged`: a settlement is posted only for a payout whose account was credited;
* `Once`: an account is credited once for a payout, however often it is sent;
* `FinalBooked`: final rows agree with the books;
* `Confirmed`: for one worker, a confirmed payout stays confirmed.

The rail keeps its transfers in a sequence per reference. `RailFollows` says that all of a payout's are in
one sequence, under its own reference, and that each but the last has failed: a request sent again meets
the transfer that stands and opens none. `ReferencesFollow` says that a reference in a row or in hand
names one of them, and `CreditFollows` that whoever is about to confirm has seen one succeed. `Confirmed`
needs `HeldIsOpen`: what the one worker has in hand is not confirmed, because nobody else confirms.

**`TapSettlement_proofs`** (assuming `SettlementAssumption`): for any taps, prices, budgets and faults,

* `TypeCorrect`: `TypeOK`;
* `Filled`, `Heard`, `Crossing`: `FulfilledIsFilled`, `HeardIsPaid`, `NoCrossing`;
* `Implements`: both legs of every tap implement `Claims`;
* `Sold`: `ResoldOnlyRepriced`, whatever the prices: two orders of a tap pay the merchant, or may, only if the
  key of the earlier one was presented again for another amount.

`RowsFollow` says what a row's transaction, order and round are in each state; `BatchIsPending` that what
the settler read is still pending, because it is the only writer of these rows, which is what lets its
unconditional updates stand; `RowsComeWithTap` that rows are written in the tap's own transaction;
`EventsFollow` and `HeardIsRecorded` tie an event's state to the legs and to what the market knows. `Sold`
adds `RoundsFollow`: behind a row's round every operation is void or refunded or its key was presented for
another amount, ahead of it there is none, and the order of a submitted row is of the row's amount or repriced.
That is all the key gives: `SoldOnce`, which the comments promise, is refuted by `tap_sold_twice`.

**`BaseChain_proofs`** (assuming `BaseAssumption`): for any transfers, windows, polls that die, and
reorganisations,

* `TypeCorrect`: `TypeOK`;
* `Confirmed`: what is credited is in the chain, old enough, once, and not the platform's own, for every
  transfer that was not reorganised after the watcher read it;
* `Returned`: a withdrawal is sent at most once, is returned only if it was not sent, or the answer was lost,
  and its row reads sent only if it was (`SentAsTold`, defined beside its proof);
* `SolventAlways`: `Solvent`. In every state, reorganisations of recorded blocks and lost answers included,
  what the ledger owes and what is still to be sent exceeds what is on chain by at most what was credited of
  transfers reorganised after they were read (`Undone`) and what was returned after a lost answer (`Mistaken`).

`RowsAgree` and `LogsAgree` say that rows and logs in hand of a transfer no reorganisation touched still
say where it is; `DueIsConfirmed` that a row about to be credited was old enough at the head the poll
read, and no poll has seen more of the chain than there is. `SolventAlways` rests on `BooksAgree`, which no
reorganisation touches: the ledger's balance is the sum of what was credited less the sum of what was debited
and not refunded, because what a poll is about to credit has no credit yet (`DueIsSeen`), so that a credit adds
one term, once. Then each side is compared with the chain term by term: what was paid for a transfer arrived or
is in `Undone` (`PaidArrived`), what left or will leave for a withdrawal was debited or is in `Mistaken`
(`TakenDebited`).

**`CardTap_proofs`** (assuming `CardAssumption`): for any requests, challenges, tiers, tills and faults,

* `TypeCorrect`: `TypeOK`;
* `Honoured`: a challenge is charged at most once, for its amount, as its tier requires;
* `KeepsWorking`: the chip holds a token the server accepts, if debits of the card do not overlap;
* `Counts`: every wrong answer costs an attempt, under the same condition;
* `Within`: `WithinDaily`, for any number of debits at once: the taps of a day that stand are within the limit,
  those that were overtaken aside.

`NoncesHeld` says a debit past its claim has its challenge to itself, open, and as approved as it saw it;
`ChecksStand` that what it has passed was deserved; `AccountHeld` that one debit at a time has the account
and that it covers the charge. Together they carry `Honoured` however requests overlap. A debit acts on the
card's row as it read it, with nothing holding that row, so the other two need a second invariant,
`Undisturbed`: until `crossed` is set, one debit is under way, the row is as it read it, and the chip's
token is the one the till's part so far calls for. `Within` has no such
condition and needs `WithinLimit`: what stands of debits never overtaken, and what stands at all with what a
weighed debit will add unless it has been overtaken, is within the limit. A charge adds what its debit weighed,
and by the same step overtakes every other that has weighed.

**`CashHandover_proofs`** (assuming `CashAssumption`): for any pledges, agents, sweepers and crashes,

* `TypeCorrect`: `TypeOK`, and with it that no agent's balance is negative;
* `Matched`: a matched or handed-over pledge has a live meeting, an open one has none;
* `PaidByBoth`: a trader has been paid for each meeting both sides confirmed, and for nothing else;
* `Locked`: `EscrowIsLocked`, an agent's escrow is the sum of what its live meetings lock.

`OneLive` is the index `cash_handovers_live`; with it the meeting that a sweep or a confirmation closes is
the pledge's only one. `MeetingsFollow` ties a meeting's state to who has confirmed, and says that a
confirmation that holds the row may still take its step; `PledgedFirst` that nothing is matched before it
is pledged. For `Locked`, each step changes one term of the sum or none: a proposal adds a live meeting, a
release or a settlement ends one, and the escrow moves by that meeting's amount.

**Model-checked only.** No safety invariant: each one a passing run checks is proved.
The liveness properties stay with TLC: TLAPS does not reason about liveness under fairness or about
`ENABLED`. The provers
cannot see through `RECURSIVE` operators either; no module here has one. Of the runs that expect a violation
nothing is proved, as what they check is false.

## 5. Not modelled, and why

`Record` in `NairaLeg` is the initial state (one row per tap, in the tap's own transaction). Account
creation on first use, history and audit queries of the ledger have no bearing on the properties.
`PayMerchants` (`settlement/merchants.go`) is called by its tests alone. Refunds of a sweep whose bank hop
then fails are an operator's `unsweep`, one movement.

*Dormant code.* The liquidity-provider protocol (`services/`, `tasks/`, `controllers/`) looks like the
largest part of the back end, but nothing outside tests creates the orders it works on;
`StartCronJobs` (`tasks/cron.go`) schedules only the fiat reconciliation and the gas accounts' watch and
postings; and the subscriber that reassigns stale requests returns at a provision bucket whose currency
it does not load. Likewise `orders.Sync`, and `Cancel` and `Expire` of the checkout, have no caller, and
nothing starts the sweeper of `chain/base`. A model of them would have no environment to be right about.

*Thin code.* Handlers of `api/v1`, the read models, agents' registry, risk scores and limits are single
reads or single movements; smart accounts, gas, rates, arbitrage and the EVM client are requests to
services outside; `money` is arithmetic that unit tests reach. Hashing of PINs and tokens, the form that
links a card, and the front ends apart from the till's part in a tap are left out.

*Generated code.* `ent/` is most of the repository's lines and is written by a generator from the schema.

Each component's row in `PROJECT.json` has its status and reason.

## 6. Plan

Done: the ledger and its movements with orders and quotes; both settlement workers; what follows a tap;
the tap itself; cash; the Base wallet; the proofs above.

Left, in this order:

1. A liveness run of `BankPayout`: a payout abandoned and then put back in the queue is retried for ever,
   and `chaseStale`, which returns at the first error, starves the rest of its batch.
2. An abstract specification for `CashHandover`: a meeting is agreed, then exactly one of settled and
   released; and one for a withdrawal of `BaseChain`.
3. `PayMerchants`, `orders.Sync` and the sweeper, when something calls them.
