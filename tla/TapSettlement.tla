--------------------------- MODULE TapSettlement ---------------------------
(***************************************************************************)
(* What happens to a card tap after it is charged: packages chain/offramp  *)
(* (the Settler, which sells the cardholder's USDC for the merchant's      *)
(* naira on chain), settlement/naira (seen from outside; NairaLeg has its  *)
(* inside), equity (the outbox that tells the market) and the reversal of  *)
(* a tap (card/tap), which crosses all of them.                            *)
(*                                                                         *)
(* The Settler is one goroutine. It reads a batch of due rows and takes    *)
(* them one by one, waiting for each operation to be mined, while taps are *)
(* reversed and the other workers go on. The outbox worker holds a row     *)
(* locked while it talks to the market.                                    *)
(*                                                                         *)
(* Each step is one database transaction or one call. Time is abstracted:  *)
(* a retry's delay or backoff may always have passed.                      *)
(***************************************************************************)
EXTENDS Integers, FiniteSets

CONSTANTS
  Tap,          \* taps of one merchant
  Share,        \* what each leg delivers, 0 for no leg: [usdc, naira]
  NoTap,
  Earned,       \* what the merchant may be owed for other taps
  Price,        \* what the provider may ask for one order, in USDC, try by try
  MaxAttempts,  \* the code's: orders tried for a tap, all rounds together
  MaxRounds,    \* the code's: orders refunded before the settler gives up
  MaxRefusals,  \* the code's: refusals an outbox row survives
  MaxFaults     \* bound: lost answers and crashes

ASSUME SettlementAssumption ==
  /\ NoTap \notin Tap
  /\ Share \in [Tap -> [{"usdc", "naira"} -> Nat]]
  /\ \A t \in Tap : Share[t]["usdc"] + Share[t]["naira"] > 0
  /\ Earned \subseteq Nat
  /\ Price # {} /\ Price \subseteq Nat \ {0}
  /\ MaxAttempts \in Nat \ {0} /\ MaxRounds \in Nat \ {0}
  /\ MaxRefusals \in Nat \ {0} /\ MaxFaults \in Nat

VARIABLES
  tap,      \* "none", "charged" or "reversed": card_taps, card_tap_reversals
  usdc,     \* card_tap_settlements
  naira,    \* card_tap_ngn_settlements.state, "none" for no row
  payable,  \* merchant_payable: what the merchant is still owed
  chain,    \* what became of each round's operation, and what it sold; history:
            \* whether its key was presented again for another amount
  settler,  \* the Settler: where it is, the batch it read, the tap in hand
  outbox,   \* equity_outbox: the rows of each kind of each tap
  call,     \* the outbox row being delivered, locked, and the answer
  market,   \* what the market holds of each tap
  lost,     \* history: taps of which an answer of the market was lost
  faults

legs == <<usdc, naira, payable, chain, settler>>
events == <<outbox, call, market, lost>>
vars == <<tap, legs, events, faults>>

Round == 0..(MaxRounds - 1)
Kind == {"tap", "reverse"}

\* tx and order name the round whose operation they belong to, from 1; 0 is
\* NULL.
Leg == [state : {"none", "pending", "submitted", "fulfilled", "failed"}, sell : Nat,
        attempts : Nat, round : 0..MaxRounds, tx : 0..MaxRounds, order : 0..MaxRounds]
Operation == [state : {"none", "void", "open", "fulfilled", "refunded"}, sell : Nat,
              repriced : BOOLEAN]
Delivery == [state : {"none", "held", "queued", "delivered", "failed", "cancelled"},
             attempts : 0..MaxRefusals]

\* Rows, balances and what each worker has in hand are well typed.
TypeOK ==
  /\ tap \in [Tap -> {"none", "charged", "reversed"}]
  /\ usdc \in [Tap -> Leg]
  /\ naira \in [Tap -> {"none", "queued", "submitted", "settled", "failed"}]
  /\ payable \in Int
  /\ chain \in [Tap \X Round -> Operation]
  /\ settler \in [at : {"idle", "next", "create", "record", "refused"},
                  due : SUBSET Tap, tap : Tap \cup {NoTap}]
  /\ settler.at \in {"create", "record", "refused"} => settler.tap \in Tap
  /\ outbox \in [Tap -> [Kind -> Delivery]]
  /\ call \in [tap : Tap \cup {NoTap}, kind : Kind,
               answer : {"none", "ok", "refused", "lost"}]
  /\ market \in [Tap -> {"unknown", "heard", "unwound"}]
  /\ lost \subseteq Tap
  /\ faults \in 0..MaxFaults

NoLeg == [state |-> "none", sell |-> 0, attempts |-> 0, round |-> 0, tx |-> 0, order |-> 0]
Resting == [at |-> "idle", due |-> {}, tap |-> NoTap]
NoCall == [tap |-> NoTap, kind |-> "tap", answer |-> "none"]
NoRow == [state |-> "none", attempts |-> 0]
NoOperation == [state |-> "none", sell |-> 0, repriced |-> FALSE]

Init ==
  /\ tap = [t \in Tap |-> "none"]
  /\ usdc = [t \in Tap |-> NoLeg]
  /\ naira = [t \in Tap |-> "none"]
  /\ payable \in Earned
  /\ chain = [k \in Tap \X Round |-> NoOperation]
  /\ settler = Resting
  /\ outbox = [t \in Tap |-> [k \in Kind |-> NoRow]]
  /\ call = NoCall
  /\ market = [t \in Tap |-> "unknown"]
  /\ lost = {}
  /\ faults = 0

Fault == faults < MaxFaults /\ faults' = faults + 1
Net(t) == Share[t]["usdc"] + Share[t]["naira"]

-----------------------------------------------------------------------------
(* The tap and its reversal.                                               *)

\* Debit's transaction: the movement, a row for each leg (RecordTapSettlement)
\* and the event, held until the legs are paid (EnqueueTap).
Charge(t) ==
  /\ tap[t] = "none"
  /\ tap' = [tap EXCEPT ![t] = "charged"]
  /\ payable' = payable + Net(t)
  /\ IF Share[t]["usdc"] > 0
     THEN \E p \in Price : usdc' = [usdc EXCEPT ![t].state = "pending", ![t].sell = p]
     ELSE UNCHANGED usdc
  /\ naira' = IF Share[t]["naira"] > 0 THEN [naira EXCEPT ![t] = "queued"] ELSE naira
  /\ outbox' = [outbox EXCEPT ![t]["tap"].state = "held"]
  /\ UNCHANGED <<chain, settler, call, market, lost, faults>>

\* Mutant: the reversal does not wait for the delivery in flight.
ReverseUnlocked(t) ==
  /\ tap[t] = "charged"
  /\ tap' = [tap EXCEPT ![t] = "reversed"]
  /\ payable' = payable - Net(t)
  /\ outbox' = IF outbox[t]["tap"].state \in {"held", "queued"}
               THEN [outbox EXCEPT ![t]["tap"].state = "cancelled"]
               ELSE [outbox EXCEPT ![t]["reverse"].state = "queued"]
  /\ UNCHANGED <<usdc, naira, chain, settler, call, market, lost, faults>>

\* Reverse: the claim is withdrawn whatever became of the legs, and the event
\* is cancelled if the market cannot have heard of it, else unwound
\* (RecordReversal, whose UPDATE waits for a delivery that holds the row).
Reverse(t) ==
  /\ tap[t] = "charged"
  /\ call.tap # t
  /\ tap' = [tap EXCEPT ![t] = "reversed"]
  /\ payable' = payable - Net(t)
  /\ outbox' = IF outbox[t]["tap"].state \in {"held", "queued"}
               THEN [outbox EXCEPT ![t]["tap"].state = "cancelled"]
               ELSE [outbox EXCEPT ![t]["reverse"].state = "queued"]
  /\ UNCHANGED <<usdc, naira, chain, settler, call, market, lost, faults>>

-----------------------------------------------------------------------------
(* The release of a tap's event, when its last leg is paid.                *)

\* Mutant: one leg paid is enough.
AnyLegPaid(sold, paid) == sold = "fulfilled" \/ paid = "settled"

\* releaseSQL: the tap has a leg, and every leg it has is in its paid state.
LegsPaid(sold, paid) ==
  /\ {sold, paid} # {"none"}
  /\ sold \in {"none", "fulfilled"} /\ paid \in {"none", "settled"}

\* The outbox once tap t's event is released, given the legs' states.
ReleaseIfSettled(t, sold, paid) ==
  IF outbox[t]["tap"].state = "held" /\ LegsPaid(sold, paid)
  THEN [outbox EXCEPT ![t]["tap"].state = "queued"]
  ELSE outbox

\* Mutant: the sweep is left out; the legs' own release is relied on.
SweepNothing(t) == FALSE /\ UNCHANGED vars

\* Tick's first statement, for a row whose leg settled without releasing it.
ReleaseSettled(t) ==
  /\ outbox[t]["tap"].state = "held" /\ LegsPaid(usdc[t].state, naira[t])
  /\ outbox' = ReleaseIfSettled(t, usdc[t].state, naira[t])
  /\ UNCHANGED <<tap, legs, call, market, lost, faults>>

-----------------------------------------------------------------------------
(* The naira leg from outside.                                             *)

\* claim: the leg is discharged as it is submitted, or failed if the merchant
\* is no longer owed it. The reversal was looked at when the row was read.
NairaSubmit(t) ==
  /\ naira[t] = "queued"
  /\ IF payable >= Share[t]["naira"]
     THEN /\ naira' = [naira EXCEPT ![t] = "submitted"]
          /\ payable' = payable - Share[t]["naira"]
     ELSE naira' = [naira EXCEPT ![t] = "failed"] /\ UNCHANGED payable
  /\ UNCHANGED <<tap, usdc, chain, settler, events, faults>>

\* settle commits, and then tells the outbox (OnLegSettled), whose failure is
\* logged and no more.
NairaSettle(t) ==
  /\ naira[t] = "submitted"
  /\ naira' = [naira EXCEPT ![t] = "settled"]
  /\ \/ outbox' = ReleaseIfSettled(t, usdc[t].state, "settled") /\ UNCHANGED faults
     \/ UNCHANGED outbox /\ Fault
  /\ UNCHANGED <<tap, usdc, payable, chain, settler, call, market, lost>>

NairaFail(t) ==
  /\ naira[t] = "submitted"
  /\ naira' = [naira EXCEPT ![t] = "failed"]
  /\ payable' = payable + Share[t]["naira"]
  /\ UNCHANGED <<tap, usdc, chain, settler, events, faults>>

\* An operator's retry.
NairaRetry(t) ==
  /\ naira[t] = "failed"
  /\ naira' = [naira EXCEPT ![t] = "queued"]
  /\ UNCHANGED <<tap, usdc, payable, chain, settler, events, faults>>

-----------------------------------------------------------------------------
(* Settler.Tick.                                                           *)

Held == settler.tap
Key(t) == <<t, usdc[t].round>>

\* "A reversed tap is never sold."
Due(t) == /\ usdc[t].state = "pending" /\ usdc[t].attempts < MaxAttempts
          /\ tap[t] # "reversed"

\* One read finds every due row. Only the Settler writes these rows, so what
\* it read of one is what the row still says when its turn comes.
ReadDue ==
  /\ settler.at = "idle"
  /\ {t \in Tap : Due(t)} # {}
  /\ settler' = [settler EXCEPT !.at = "next", !.due = {t \in Tap : Due(t)}]
  /\ UNCHANGED <<tap, usdc, naira, payable, chain, events, faults>>

\* The order is priced, the price written to the row, and the attempt counted
\* before the call.
Try(t) ==
  /\ settler.at = "next" /\ t \in settler.due
  /\ \E p \in Price : usdc' = [usdc EXCEPT ![t].sell = p, ![t].attempts = @ + 1]
  /\ settler' = [at |-> "create", due |-> settler.due \ {t}, tap |-> t]
  /\ UNCHANGED <<tap, naira, payable, chain, events, faults>>

\* The provider cannot quote: the row is left for another tick.
Unpriced(t) ==
  /\ settler.at = "next" /\ t \in settler.due
  /\ settler' = [settler EXCEPT !.due = @ \ {t}]
  /\ UNCHANGED <<tap, usdc, naira, payable, chain, events, faults>>

EndTick ==
  /\ settler.at = "next" /\ settler.due = {}
  /\ settler' = Resting
  /\ UNCHANGED <<tap, usdc, naira, payable, chain, events, faults>>

\* Orders.Create. Not under src/: the signer's idempotency key is the tap and
\* the round, so a key it has taken is answered with the operation it named,
\* whatever this request says. A new one is mined with or without its order.
Taken(k, p) ==
  IF chain[k].state # "none"
  THEN {[chain EXCEPT ![k].repriced = @ \/ chain[k].sell # p]}
  ELSE {[chain EXCEPT ![k] = [state |-> s, sell |-> p, repriced |-> FALSE]] :
          s \in {"open", "void"}}

Create ==
  /\ settler.at = "create"
  /\ chain' \in Taken(Key(Held), usdc[Held].sell)
  /\ settler' = [settler EXCEPT !.at = "record"]
  /\ UNCHANGED <<tap, usdc, naira, payable, events, faults>>

\* Refused, or the provider's key cannot be fetched: nothing is sold.
CreateRefused ==
  /\ settler.at = "create"
  /\ settler' = [settler EXCEPT !.at = "refused"]
  /\ UNCHANGED <<tap, usdc, naira, payable, chain, events, faults>>

\* The operation was taken and its answer was lost.
CreateUnanswered ==
  /\ settler.at = "create"
  /\ Fault
  /\ chain' \in Taken(Key(Held), usdc[Held].sell)
  /\ settler' = [settler EXCEPT !.at = "refused"]
  /\ UNCHANGED <<tap, usdc, naira, payable, events>>

\* An error: back to pending, or failed when the attempts are used up.
RecordRefused ==
  /\ settler.at = "refused"
  /\ usdc' = [usdc EXCEPT ![Held].state =
                IF usdc[Held].attempts >= MaxAttempts THEN "failed" ELSE "pending"]
  /\ settler' = [settler EXCEPT !.at = "next", !.tap = NoTap]
  /\ UNCHANGED <<tap, naira, payable, chain, events, faults>>

\* Mutant: the order is on chain, so the row is submitted in any case.
RecordOrderUnchecked ==
  /\ settler.at = "record"
  /\ usdc' = [usdc EXCEPT ![Held].state = "submitted", ![Held].tx = usdc[Held].round + 1]
  /\ payable' = payable - Share[Held]["usdc"]
  /\ settler' = [settler EXCEPT !.at = "next", !.tap = NoTap]
  /\ UNCHANGED <<tap, naira, chain, events, faults>>

\* Submitted and discharged in one transaction. An account that no longer
\* holds the claim aborts it and ends the tick, the order on chain or not.
RecordOrder ==
  /\ settler.at = "record"
  /\ IF payable >= Share[Held]["usdc"]
     THEN /\ usdc' = [usdc EXCEPT ![Held].state = "submitted",
                                  ![Held].tx = usdc[Held].round + 1]
          /\ payable' = payable - Share[Held]["usdc"]
          /\ settler' = [settler EXCEPT !.at = "next", !.tap = NoTap]
     ELSE UNCHANGED <<usdc, payable>> /\ settler' = Resting
  /\ UNCHANGED <<tap, naira, chain, events, faults>>

\* The process dies, or a statement fails, at any point of the tick.
CrashSettler ==
  /\ settler.at # "idle"
  /\ Fault
  /\ settler' = Resting
  /\ UNCHANGED <<tap, usdc, naira, payable, chain, events>>

-----------------------------------------------------------------------------
(* Settler.Track, and the Gateway it asks.                                 *)

\* A provider fills an order, or the Gateway refunds it.
GatewayDecides(k) ==
  /\ chain[k].state = "open"
  /\ \E s \in {"fulfilled", "refunded"} : chain' = [chain EXCEPT ![k].state = s]
  /\ UNCHANGED <<tap, usdc, naira, payable, settler, events, faults>>

Tracked(t) == settler.at = "idle" /\ usdc[t].state = "submitted"
Mined(t) == chain[<<t, usdc[t].tx - 1>>]

\* Mutant: an order on chain that was not refunded is taken for filled.
AskedUnlessRefunded(t) ==
  IF chain[<<t, usdc[t].order - 1>>].state = "refunded" THEN "refunded" ELSE "fulfilled"

\* What the Gateway says of the order the row names.
Asked(t) == chain[<<t, usdc[t].order - 1>>].state

\* The transaction shows an order of this account's, of the amount on the row.
Shown(t) == Mined(t).state # "void" /\ Mined(t).sell = usdc[t].sell

\* First sight of the order: its id is learned from the transaction.
LearnOrder(t) ==
  /\ Tracked(t) /\ usdc[t].order = 0 /\ Shown(t)
  /\ usdc' = [usdc EXCEPT ![t].order = usdc[t].tx]
  /\ UNCHANGED <<tap, naira, payable, chain, settler, events, faults>>

\* Mutant: the next round goes on asking about the refunded order.
RefundKeepingOrder(t) ==
  LET n == usdc[t].round + 1 IN
  /\ usdc' = [usdc EXCEPT ![t].state = IF n >= MaxRounds THEN "failed" ELSE "pending",
                          ![t].round = n, ![t].tx = 0]
  /\ payable' = payable + Share[t]["usdc"]
  /\ UNCHANGED <<tap, naira, chain, settler, events, faults>>

\* refunded: the claim comes back, and the tap is sold again or given up.
Refund(t) ==
  LET n == usdc[t].round + 1 IN
  /\ usdc' = [usdc EXCEPT ![t].state = IF n >= MaxRounds THEN "failed" ELSE "pending",
                          ![t].round = n, ![t].tx = 0, ![t].order = 0]
  /\ payable' = payable + Share[t]["usdc"]
  /\ UNCHANGED <<tap, naira, chain, settler, events, faults>>

\* "Nothing was sold": a refund in everything but the event.
NotCreated(t) == Tracked(t) /\ usdc[t].order = 0 /\ ~Shown(t) /\ Refund(t)

Refunded(t) == Tracked(t) /\ usdc[t].order > 0 /\ Asked(t) = "refunded" /\ Refund(t)

\* fulfilled: the leg is paid, and the tap's event released if it was the last.
Fulfilled(t) ==
  /\ Tracked(t) /\ usdc[t].order > 0 /\ Asked(t) = "fulfilled"
  /\ usdc' = [usdc EXCEPT ![t].state = "fulfilled"]
  /\ outbox' = ReleaseIfSettled(t, "fulfilled", naira[t])
  /\ UNCHANGED <<tap, naira, payable, chain, settler, call, market, lost, faults>>

-----------------------------------------------------------------------------
(* The outbox worker and the market.                                       *)

\* A due row is locked and found queued still. A reversal waits until the tap
\* it reverses has been delivered.
Deliver(t, k) ==
  /\ call = NoCall
  /\ outbox[t][k].state = "queued"
  /\ k = "reverse" => outbox[t]["tap"].state = "delivered"
  /\ call' = [tap |-> t, kind |-> k, answer |-> "none"]
  /\ UNCHANGED <<tap, legs, outbox, market, lost, faults>>

Hears(t, k) == [market EXCEPT ![t] = IF k = "tap" THEN "heard" ELSE "unwound"]
Calling == call.tap # NoTap /\ call.answer = "none"

MarketAccepts ==
  /\ Calling
  /\ market' = Hears(call.tap, call.kind)
  /\ call' = [call EXCEPT !.answer = "ok"]
  /\ UNCHANGED <<tap, legs, outbox, lost, faults>>

\* A 4xx: the market does not take the event, unless it already has.
MarketRefuses ==
  /\ Calling
  /\ market # Hears(call.tap, call.kind)
  /\ call' = [call EXCEPT !.answer = "refused"]
  /\ UNCHANGED <<tap, legs, outbox, market, lost, faults>>

\* No answer: the market heard, or it did not.
MarketSilent ==
  /\ Calling
  /\ Fault
  /\ market' \in {market, Hears(call.tap, call.kind)}
  /\ call' = [call EXCEPT !.answer = "lost"]
  /\ lost' = lost \cup {call.tap}
  /\ UNCHANGED <<tap, legs, outbox>>

\* markDelivered and markFailed. Attempts of every kind are counted, and a
\* refusal is the last when the count has reached the limit.
Answered(row) ==
  LET n == IF row.attempts < MaxRefusals THEN row.attempts + 1 ELSE MaxRefusals IN
  [attempts |-> n,
   state |-> CASE call.answer = "ok" -> "delivered"
               [] call.answer = "refused" /\ n = MaxRefusals -> "failed"
               [] OTHER -> "queued"]

CommitDelivery ==
  /\ call.tap # NoTap /\ call.answer # "none"
  /\ outbox' = [outbox EXCEPT ![call.tap][call.kind] = Answered(@)]
  /\ call' = NoCall
  /\ UNCHANGED <<tap, legs, market, lost, faults>>

\* The process dies or the commit fails, after the call or before it: the lock
\* is gone and the row is as it was.
CrashDelivery ==
  /\ call.tap # NoTap
  /\ Fault
  /\ call' = NoCall
  /\ lost' = lost \cup {call.tap}
  /\ UNCHANGED <<tap, legs, outbox, market>>

-----------------------------------------------------------------------------
Tick == ReadDue \/ (\E t \in Tap : Try(t) \/ Unpriced(t)) \/ EndTick
          \/ Create \/ CreateRefused \/ CreateUnanswered \/ RecordRefused \/ RecordOrder
Track(t) == LearnOrder(t) \/ NotCreated(t) \/ Refunded(t) \/ Fulfilled(t)
NairaWorker(t) == NairaSubmit(t) \/ NairaSettle(t) \/ NairaFail(t) \/ NairaRetry(t)
Outbox == (\E t \in Tap, k \in Kind : Deliver(t, k))
            \/ MarketAccepts \/ MarketRefuses \/ MarketSilent \/ CommitDelivery

Next ==
  \/ \E t \in Tap : Charge(t) \/ Reverse(t) \/ ReleaseSettled(t)
  \/ \E t \in Tap : NairaWorker(t) \/ Track(t)
  \/ Tick \/ CrashSettler
  \/ Outbox \/ CrashDelivery
  \/ \E k \in Tap \X Round : GatewayDecides(k)

Spec == Init /\ [][Next]_vars

\* Both workers keep ticking and the Gateway decides. A tick without an error
\* is followed by Track, and one with an error costs an attempt or a fault, so
\* tracking is not starved by a row that keeps failing. Nothing makes the rail
\* pay, an operator retry or a till reverse.
FairSpec ==
  /\ Spec
  /\ WF_vars(Tick)
  /\ \A t \in Tap : SF_vars(Track(t)) /\ WF_vars(ReleaseSettled(t))
  /\ WF_vars(Outbox)
  /\ \A t \in Tap, k \in Kind : SF_vars(Deliver(t, k))
  /\ \A k \in Tap \X Round : WF_vars(GatewayDecides(k))

-----------------------------------------------------------------------------
(* Properties.                                                             *)

\* The order of round r pays the merchant, or may yet.
Live(t, r) == chain[<<t, r>>].state \in {"open", "fulfilled"}

\* What Tick's comment says of its attempt count and its idempotency key: they
\* keep a retry from selling "the cardholder's money a second time". False: an
\* order whose answer or record was lost is priced anew, its receipt does not
\* show the new amount, and the next round sells the tap beside it.
SoldOnce == \A t \in Tap : \A r, q \in Round : Live(t, r) /\ Live(t, q) => r = q

\* That is the only way: however answers are lost, orders refunded and rows
\* tried again, at any prices, a tap is sold again beside an order that may
\* still pay only if that order's key was presented for another amount since.
ResoldOnlyRepriced ==
  \A t \in Tap : \A r, q \in Round :
    r < q /\ Live(t, r) /\ Live(t, q) => chain[<<t, r>>].repriced

\* A leg reads fulfilled only when the Gateway says so of the order sold in
\* its present round, never of one refunded before (fulfilled, refunded).
FulfilledIsFilled ==
  \A t \in Tap : usdc[t].state = "fulfilled" => chain[Key(t)].state = "fulfilled"

\* "Nothing is sent to the market until that payment has landed": it hears of
\* a tap only when every leg the tap has is paid, whichever was paid last.
HeardIsPaid ==
  \A t \in Tap : market[t] # "unknown" => /\ usdc[t].state \in {"none", "fulfilled"}
                                         /\ naira[t] \in {"none", "settled"}

\* The row's lock keeps a reversal and a delivery from crossing: an event is
\* cancelled only while the market cannot have heard of it, unless an answer
\* of the market was lost (RecordReversal, deliverOne).
NoCrossing ==
  \A t \in Tap \ lost : outbox[t]["tap"].state = "cancelled" => market[t] = "unknown"

\* A settled tap's event does not stay held or queued although a release was
\* lost: the market takes it, refuses it for good, or the tap is reversed.
SettledReachesMarket ==
  \A t \in Tap : (tap[t] = "charged" /\ LegsPaid(usdc[t].state, naira[t]))
                   ~> (outbox[t]["tap"].state \in {"delivered", "failed"} \/ tap[t] = "reversed")

\* A market that has heard of a tap since reversed is told, or refuses for
\* good to be told, whichever of delivery and reversal came first; unless the
\* delivery's answer was lost.
ReversalFollows ==
  \A t \in Tap : (tap[t] = "reversed" /\ market[t] = "heard")
                   ~> \/ market[t] = "unwound" \/ outbox[t]["reverse"].state = "failed"
                      \/ t \in lost

\* What a leg's state says of the merchant's claim.
Standing(s) ==
  CASE s = "none" -> "none"
    [] s \in {"pending", "queued", "failed"} -> "owed"
    [] s = "submitted" -> "covered"
    [] s \in {"fulfilled", "settled"} -> "paid"

ClaimOf(t) ==
  [l \in {"usdc", "naira"} |->
     IF l = "usdc" THEN Standing(usdc[t].state) ELSE Standing(naira[t])]

Claimed == [t \in Tap |-> ClaimOf(t)]
Reversed == {t \in Tap : tap[t] = "reversed"}

Promise == INSTANCE Claims WITH claim <- Claimed, withdrawn <- Reversed

\* Each leg is covered by a payment on its way exactly while it is submitted,
\* and paid when its rail said so; see Claims.
ImplementsClaims == Promise!Spec
=============================================================================
