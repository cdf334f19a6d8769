----------------------------- MODULE MCLedgerTx -----------------------------
(***************************************************************************)
(* Instances of LedgerTx for TLC. Each scenario is a program per           *)
(* transaction, built from the movements the code posts.                   *)
(***************************************************************************)
EXTENDS LedgerTx, Movements, FiniteSetsExt, Functions, TLC

AllStatements(prog) == UNION {Range(prog[t]) : t \in DOMAIN prog}
EntryAccounts(prog) == {s.account : s \in {r \in AllStatements(prog) : r.op = "entry"}}
AccountsOf(prog) ==
  EntryAccounts(prog) \cup {System("external", a[3]) : a \in EntryAccounts(prog)}
KeysOf(prog) == {s.key : s \in {r \in AllStatements(prog) : r.op = "key"}}

\* An opening position funded from outside: the books start balanced. The
\* accounts held at the start are those ensureFunds protects.
OpeningWith(prog, held) ==
  [a \in AccountsOf(prog) |->
     IF a \in DOMAIN held THEN held[a]
     ELSE IF a[1] = "external"
     THEN -MapThenSumSet(LAMBDA b : IF b[3] = a[3] THEN held[b] ELSE 0, DOMAIN held)
     ELSE 0]

Scenario(prog, held) ==
  [program |-> prog, txn |-> DOMAIN prog, account |-> AccountsOf(prog),
   key |-> KeysOf(prog), protected |-> DOMAIN held, opening |-> OpeningWith(prog, held)]

CurrencyOf(scenario) == [a \in scenario.account |-> a[3]]

-----------------------------------------------------------------------------
\* One agent's float: a handover is locked while a release and a settlement race
\* for the escrow of another.
Float ==
  "lock"    :> LockAgentFloat("g", "NGN", 5, "h2") @@
  "release" :> ReleaseAgentFloat("g", "NGN", 5, "h1") @@
  "settle"  :> SettleHandover("g", "u", "NGN", 5, "h0")

\* A tap funded by converting the shortfall, an order for the naira its plan
\* counts on and the integrator's retry of that order, and a quote redeemed by
\* an order and by a conversion; the dollars suffice for one conversion.
Spending ==
  "tap"     :> <<Consume("n1")>> \o FundedTap("u", "m", "NGN", 10, 1, 4, "USD", 3, 1, "t1") @@
  "order"   :> Order("u", "NGN", 4, "p1", "o1") @@
  "again"   :> Order("u", "NGN", 4, "p2", "o1") @@
  "quoted"  :> QuotedOrder("u", "USD", 3, "NGN", 5, 1, "q1", "p3", "o2") @@
  "convert" :> QuotedConversion("u", "USD", 3, "NGN", 5, 1, "q1")

\* A naira deposit, the redelivery of its webhook, and an order that spends it.
Crediting ==
  "deposit"     :> Deposit("v", "NGN", 2, "d1") @@
  "redelivered" :> Deposit("v", "NGN", 2, "d1") @@
  "spend"       :> Order("v", "NGN", 2, "p4", "o3")

\* The three meet only in system accounts, where each takes FOR KEY SHARE and so
\* waits for nobody, and are played one at a time; of those that spend, four at
\* a time, so that any two meet.
Casts ==
  {{"tap", "order", "again", "quoted"}, {"tap", "order", "quoted", "convert"},
   {"order", "again", "quoted", "convert"}, DOMAIN Crediting, DOMAIN Float}
OneCast == \E cast \in Casts : \A t \in Txn : runs[t] > 0 => t \in cast
StagedSpec == Init /\ [][Next /\ OneCast']_vars
FairStagedSpec == StagedSpec /\ Fairness

Till ==
  Scenario(Spending @@ Crediting @@ Float,
    Available("u", "NGN") :> 4 @@ Available("u", "USD") :> 5 @@ Available("v", "NGN") :> 0 @@
    AgentFloat("g", "NGN") :> 5 @@ Escrow("g", "NGN") :> 5)

TapProgram == Till.program
TapTxn == Till.txn
TapAccount == Till.account
TapCurrency == CurrencyOf(Till)
TapKey == Till.key
\* The ids of payouts and of taps are made on every attempt.
TapFresh == {k \in TapKey : k[2] \in {"t1", "p1", "p2", "p3", "p4"}}
TapProtected == Till.protected
TapOpening == Till.opening
\* A till presents its challenge again when told of an error, and so do a webhook
\* its deposit and the sides of a handover. An order's retry is a transaction of
\* its own.
TapRuns == [t \in TapTxn |->
              IF t \in {"tap", "deposit", "redelivered"} \cup DOMAIN Float THEN 2 ELSE 1]
\* card/tap Debit returns the refusal out of its closure as a value.
TapKeepsRest == {"tap"}
=============================================================================
