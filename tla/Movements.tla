------------------------------ MODULE Movements ------------------------------
(***************************************************************************)
(* The business vocabulary of the ledger: package                          *)
(* internal/ledger/movements, one operator per movement.                   *)
(*                                                                         *)
(* A movement is the sequence of SQL statements the Go function issues     *)
(* inside its database transaction, in the order it issues them, because   *)
(* the order is what decides who waits for whom:                           *)
(*                                                                         *)
(*   lock   SELECT ... FROM ledger_accounts ... FOR UPDATE  (ensureFunds)  *)
(*   check  SELECT SUM(amount_minor) ..., compared with what is needed     *)
(*   key    INSERT of a row under a unique key (a movement's idem_key, an  *)
(*          order's), or the UPDATE that takes what is given once (a       *)
(*          challenge, a quote); "taken" is what the caller is told when   *)
(*          somebody has it                                                *)
(*   entry  INSERT INTO ledger_entries, whose foreign key takes the        *)
(*          account row FOR KEY SHARE                                      *)
(*   held   an unlocked read of a balance that decided what follows        *)
(*   seen   an unlocked look for a row by its key, done if there is one    *)
(*                                                                         *)
(* An account is <<kind, owner, currency>>, a key is                       *)
(* <<movement, reference...>>; amounts are integer minor units.            *)
(***************************************************************************)
EXTENDS Integers, Sequences

Available(user, c)           == <<"available", user, c>>
Escrow(agent, c)             == <<"escrow", agent, c>>
AgentFloat(agent, c)         == <<"agent_float", agent, c>>
MerchantPayable(merchant, c) == <<"merchant_payable", merchant, c>>
System(kind, c)              == <<kind, "system", c>>

Lock(a)         == [op |-> "lock",  account |-> a]
Check(a, n)     == [op |-> "check", account |-> a, amount |-> n]
Entry(a, n)     == [op |-> "entry", account |-> a, amount |-> n]
IdemKey(k)      == [op |-> "key",   key |-> k, taken |-> "duplicate"]
Held(a, n)      == [op |-> "held",  account |-> a, amount |-> n]
Seen(k)         == [op |-> "seen",  key |-> k]

\* ensureFunds: the spending account's row lock first, then its balance.
EnsureFunds(a, n) == <<Lock(a), Check(a, n)>>

\* ledger.Post inside a transaction: the key's row, then one row per leg.
Post(key, entries) == <<IdemKey(key)>> \o entries

\* A spending movement: ensureFunds on the account it debits, then Post with
\* that debit as the first leg. Every guarded movement has this shape.
Spend(from, n, key, credits) ==
  EnsureFunds(from, n) \o Post(key, <<Entry(from, -n)>> \o credits)

\* A leg that is posted only when its amount is positive (fees, spreads).
IfPositive(a, n) == IF n > 0 THEN <<Entry(a, n)>> ELSE << >>

-----------------------------------------------------------------------------
(* Tap, deposit, withdrawal and conversion.                                *)

Tap(user, merchant, c, amount, fee, tap) ==
  Spend(Available(user, c), amount, <<"tap", tap>>,
        <<Entry(MerchantPayable(merchant, c), amount - fee)>>
          \o IfPositive(System("revenue", c), fee))

\* The claim is withdrawn with no funds check: it may already have been paid.
TapReversal(user, merchant, c, amount, fee, tap) ==
  Post(<<"tap_reversal", tap>>,
       <<Entry(MerchantPayable(merchant, c), fee - amount),
         Entry(Available(user, c), amount)>>
         \o (IF fee > 0 THEN <<Entry(System("revenue", c), -fee)>> ELSE << >>))

Deposit(user, c, amount, ref) ==
  Post(<<"deposit", ref>>,
       <<Entry(Available(user, c), amount), Entry(System("external", c), -amount)>>)

DepositReversed(user, c, amount, ref) ==
  Spend(Available(user, c), amount, <<"deposit_reversed", ref>>,
        <<Entry(System("external", c), amount)>>)

Withdraw(user, c, amount, fee, id) ==
  Spend(Available(user, c), amount, <<"withdrawal", id>>,
        <<Entry(System("payable", c), amount - fee)>>
          \o IfPositive(System("revenue", c), fee))

Convert(user, from, sold, to, bought, spread, quote) ==
  Spend(Available(user, from), sold, <<"fx", quote>>,
        <<Entry(System("fx_position", from), sold),
          Entry(System("fx_position", to), -(bought + spread)),
          Entry(Available(user, to), bought)>>
          \o IfPositive(System("revenue", to), spread))

\* consumeNonce, the first statement of a debit: a challenge is claimed once.
Consume(nonce) == [op |-> "key", key |-> <<"nonce", nonce>>, taken |-> "declined"]

\* A tap whose spend is bought first (card/tap fundTap): an unlocked read of
\* what is held, the conversion of the shortfall, the tap.
FundedTap(user, merchant, c, amount, fee, held, from, sold, spread, tap) ==
  <<Held(Available(user, c), held)>>
    \o Convert(user, from, sold, c, amount - held, spread, tap)
    \o Tap(user, merchant, c, amount, fee, tap)

-----------------------------------------------------------------------------
(* Quotes and orders (packages rates and orders).                          *)

\* Quoter.Redeem: the UPDATE of an unused quote waits for whoever is redeeming
\* it, and finds nothing once they have.
Redeem(quote) == [op |-> "key", key |-> <<"quote", quote>>, taken |-> "declined"]

\* A conversion the cardholder asked for (POST /me/convert).
QuotedConversion(user, from, sold, to, bought, spread, quote) ==
  <<Redeem(quote)>> \o Convert(user, from, sold, to, bought, spread, quote)

\* Service.Create: the order of this key is returned if it is there; else the
\* payout is opened, under an id of its own, and the order's row inserted.
Raise(user, c, amount, payout, key) ==
  Withdraw(user, c, amount, 0, payout)
    \o <<[op |-> "key", key |-> <<"order", key>>, taken |-> "error"]>>

Order(user, c, amount, payout, key) ==
  <<Seen(<<"order", key>>)>> \o Raise(user, c, amount, payout, key)

\* The same for a payout in another currency, at a quoted price.
QuotedOrder(user, from, sold, to, bought, spread, quote, payout, key) ==
  <<Seen(<<"order", key>>)>>
    \o QuotedConversion(user, from, sold, to, bought, spread, quote)
    \o Raise(user, to, bought, payout, key)

-----------------------------------------------------------------------------
(* Settlement of what is owed to merchants and senders.                    *)

Settled(c, amount, ref) ==
  Post(<<"settlement", ref>>,
       <<Entry(System("payable", c), -amount), Entry(System("external", c), amount)>>)

Returned(user, c, amount, id) ==
  Post(<<"withdrawal_returned", id>>,
       <<Entry(System("payable", c), -amount), Entry(Available(user, c), amount)>>)

MerchantSettled(merchant, c, amount, id) ==
  Spend(MerchantPayable(merchant, c), amount, <<"merchant_payout", id>>,
        <<Entry(System("payable", c), amount)>>)

MerchantPayoutReturned(merchant, c, amount, id) ==
  Spend(System("payable", c), amount, <<"merchant_payout_returned", id>>,
        <<Entry(MerchantPayable(merchant, c), amount)>>)

MerchantSettledOnChain(merchant, c, amount, tap, round) ==
  Spend(MerchantPayable(merchant, c), amount,
        <<"merchant_settled_onchain", tap, round>>,
        <<Entry(System("external", c), amount)>>)

MerchantSettlementRefunded(merchant, c, amount, tap, round) ==
  Post(<<"merchant_settlement_refunded", tap, round>>,
       <<Entry(System("external", c), -amount),
         Entry(MerchantPayable(merchant, c), amount)>>)

MerchantSettledFromWallet(merchant, c, amount, tap, attempt) ==
  Spend(MerchantPayable(merchant, c), amount,
        <<"merchant_settled_wallet", tap, attempt>>,
        <<Entry(System("external", c), amount)>>)

MerchantWalletSettlementReturned(merchant, c, amount, tap, attempt) ==
  Post(<<"merchant_wallet_settlement_returned", tap, attempt>>,
       <<Entry(System("external", c), -amount),
         Entry(MerchantPayable(merchant, c), amount)>>)

RailFeesPaid(c, fees, tap, attempt) ==
  Post(<<"rail_fees_paid", tap, attempt>>,
       <<Entry(System("revenue", c), -fees), Entry(System("external", c), fees)>>)

GasSpent(c, cost, hash) ==
  Post(<<"gas", hash>>,
       <<Entry(System("revenue", c), -cost), Entry(System("external", c), cost)>>)

-----------------------------------------------------------------------------
(* Agents, their float and cash handovers.                                 *)

FundTreasury(c, amount, ref) ==
  Post(<<"treasury_funding", ref>>,
       <<Entry(System("treasury", c), amount), Entry(System("external", c), -amount)>>)

AllocateFloat(agent, c, amount, ref) ==
  Spend(System("treasury", c), amount, <<"agent_allocation", ref>>,
        <<Entry(AgentFloat(agent, c), amount)>>)

ReturnFloat(agent, c, amount, ref) ==
  Spend(AgentFloat(agent, c), amount, <<"agent_return", ref>>,
        <<Entry(System("treasury", c), amount)>>)

LockAgentFloat(agent, c, amount, handover) ==
  Spend(AgentFloat(agent, c), amount, <<"handover_lock", handover>>,
        <<Entry(Escrow(agent, c), amount)>>)

ReleaseAgentFloat(agent, c, amount, handover) ==
  Spend(Escrow(agent, c), amount, <<"handover_release", handover>>,
        <<Entry(AgentFloat(agent, c), amount)>>)

SettleHandover(agent, trader, c, amount, handover) ==
  Spend(Escrow(agent, c), amount, <<"handover_settle", handover>>,
        <<Entry(Available(trader, c), amount)>>)
=============================================================================
