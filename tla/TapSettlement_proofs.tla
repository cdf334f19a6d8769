------------------------- MODULE TapSettlement_proofs -------------------------
(***************************************************************************)
(* For any taps, prices, budgets and faults: both legs of a tap keep what  *)
(* Claims promises, the market hears only of what was paid, and a tap is   *)
(* sold again beside a live order only where a price has changed.          *)
(*                                                                         *)
(* Two facts carry most of it. The Settler is the only writer of its rows, *)
(* so a row it has in hand is still pending whatever else happened since   *)
(* it was read; and what a round sold stays on chain under that round's    *)
(* key, so a row forgets a live order only when it is for another amount.  *)
(***************************************************************************)
EXTENDS TapSettlement, TLAPS

Paid(t) == usdc[t].state \in {"none", "fulfilled"} /\ naira[t] \in {"none", "settled"}
Busy == {"create", "record", "refused"}

\* What a row's references say, by its state.
RowsFollow ==
  \A t \in Tap :
    /\ usdc[t].state \in {"none", "pending", "submitted", "fulfilled"} => usdc[t].round \in Round
    /\ usdc[t].state \in {"none", "pending"} => usdc[t].tx = 0 /\ usdc[t].order = 0
    /\ usdc[t].state = "submitted" => /\ usdc[t].tx = usdc[t].round + 1
                                      /\ usdc[t].order \in {0, usdc[t].tx}
    /\ usdc[t].state = "fulfilled" => chain[Key(t)].state = "fulfilled"

\* What the Settler read is still so.
BatchIsPending ==
  /\ \A t \in settler.due : usdc[t].state = "pending"
  /\ settler.at = "idle" => settler.due = {}
  /\ settler.at \in Busy => usdc[Held].state = "pending" /\ Held \notin settler.due
  /\ settler.at = "record" => chain[Key(Held)].state # "none"

\* A tap has its rows from the moment it is charged, and none before.
RowsComeWithTap ==
  \A t \in Tap :
    /\ tap[t] = "none" => /\ usdc[t].state = "none" /\ naira[t] = "none"
                          /\ market[t] = "unknown"
                          /\ \A k \in Kind : outbox[t][k].state = "none"
    /\ tap[t] # "none" => /\ Share[t]["usdc"] > 0 => usdc[t].state # "none"
                          /\ Share[t]["naira"] > 0 => naira[t] # "none"

\* The market has heard, or may hear, only of taps that are paid.
EventsFollow ==
  /\ \A t \in Tap : outbox[t]["tap"].state \in {"queued", "delivered"} \/ market[t] # "unknown"
                      => Paid(t)
  /\ call.tap # NoTap => /\ outbox[call.tap][call.kind].state = "queued"
                         /\ call.kind = "reverse" => outbox[call.tap]["tap"].state = "delivered"
  /\ call.answer = "lost" => call.tap \in lost

\* What the market has heard of is on record as delivered, or about to be.
HeardIsRecorded ==
  \A t \in Tap \ lost : market[t] # "unknown" =>
    \/ outbox[t]["tap"].state = "delivered"
    \/ call.tap = t /\ call.kind = "tap" /\ call.answer = "ok"

Inv ==
  /\ TypeOK
  /\ RowsFollow /\ BatchIsPending /\ RowsComeWithTap
  /\ EventsFollow /\ HeardIsRecorded

-----------------------------------------------------------------------------
\* The constants are numbers.
LEMMA Numbers ==
  /\ NoTap \notin Tap
  /\ \A t \in Tap : /\ Share[t]["usdc"] \in Nat /\ Share[t]["naira"] \in Nat
                    /\ Share[t]["usdc"] + Share[t]["naira"] > 0 /\ Net(t) \in Nat
  /\ \A p \in Price : p \in Nat
  /\ MaxAttempts \in Nat /\ MaxRounds \in Nat \ {0}
  /\ MaxRefusals \in Nat /\ MaxFaults \in Nat
<1>1. \A t \in Tap : Share[t]["usdc"] \in Nat /\ Share[t]["naira"] \in Nat
  BY SettlementAssumption
<1> QED
  BY <1>1, SettlementAssumption DEF Net

\* A fault is counted within its bound.
LEMMA FaultType == TypeOK /\ Fault => faults' \in 0..MaxFaults
BY Numbers DEF TypeOK, Fault

OutboxOK == outbox \in [Tap -> [Kind -> Delivery]]

\* One row of the outbox changes its state.
LEMMA OneEvent ==
  ASSUME OutboxOK, NEW t \in Tap, NEW k \in Kind,
         NEW st \in {"none", "held", "queued", "delivered", "failed", "cancelled"},
         outbox' = [outbox EXCEPT ![t][k].state = st]
  PROVE  /\ OutboxOK' /\ outbox'[t][k].state = st
         /\ \A u \in Tap, j \in Kind : u # t \/ j # k => outbox'[u][j] = outbox[u][j]
<1> DEFINE row == [outbox[t][k] EXCEPT !.state = st]
<1>1. row \in Delivery /\ row.state = st
  BY DEF OutboxOK, Delivery
<1>2. outbox' = [outbox EXCEPT ![t] = [outbox[t] EXCEPT ![k] = row]]
  BY DEF OutboxOK
<1>3. outbox[t] \in [Kind -> Delivery]
  BY DEF OutboxOK
<1> HIDE DEF row
<1> DEFINE rows == [outbox[t] EXCEPT ![k] = row]
<1>5. /\ rows \in [Kind -> Delivery] /\ rows[k] = row
      /\ \A j \in Kind \ {k} : rows[j] = outbox[t][j]
  BY <1>1, <1>3
<1>6. outbox' = [outbox EXCEPT ![t] = rows]
  BY <1>2
<1> HIDE DEF rows
<1>7. outbox'[t] = rows /\ \A u \in Tap \ {t} : outbox'[u] = outbox[u]
  BY <1>6 DEF OutboxOK
<1>8. OutboxOK'
  BY <1>5, <1>6 DEF OutboxOK
<1>9. outbox'[t][k].state = st
  BY <1>1, <1>5, <1>7
<1>10. \A u \in Tap, j \in Kind : u # t \/ j # k => outbox'[u][j] = outbox[u][j]
  BY <1>5, <1>7
<1> QED
  BY <1>8, <1>9, <1>10

\* The release of a tap's event, or none.
LEMMA ReleaseEffect ==
  ASSUME OutboxOK, NEW t \in Tap, NEW sold, NEW paid,
         outbox' = ReleaseIfSettled(t, sold, paid)
  PROVE  /\ OutboxOK'
         /\ \A u \in Tap, j \in Kind : outbox'[u][j] = outbox[u][j] \/
              (/\ u = t /\ j = "tap" /\ outbox[t]["tap"].state = "held"
               /\ outbox'[t]["tap"].state = "queued" /\ LegsPaid(sold, paid))
<1>1. "tap" \in Kind
  BY DEF Kind
<1>2. CASE outbox[t]["tap"].state = "held" /\ LegsPaid(sold, paid)
  <2>1. outbox' = [outbox EXCEPT ![t]["tap"].state = "queued"]
    BY <1>2 DEF ReleaseIfSettled
  <2>2. /\ OutboxOK' /\ outbox'[t]["tap"].state = "queued"
        /\ \A u \in Tap, j \in Kind : u # t \/ j # "tap" => outbox'[u][j] = outbox[u][j]
    BY <1>1, <2>1, OneEvent
  <2> QED
    BY <1>2, <2>2
<1>3. CASE ~(outbox[t]["tap"].state = "held" /\ LegsPaid(sold, paid))
  BY <1>3 DEF ReleaseIfSettled, OutboxOK
<1> QED
  BY <1>2, <1>3

RowsOK == usdc \in [Tap -> Leg]

\* One row of card_tap_settlements is written.
LEMMA OneRow ==
  ASSUME RowsOK, NEW t \in Tap, NEW leg \in Leg, usdc' = [usdc EXCEPT ![t] = leg]
  PROVE  /\ RowsOK' /\ usdc'[t] = leg
         /\ \A u \in Tap \ {t} : usdc'[u] = usdc[u]
BY DEF RowsOK

\* What holds of a tap that is written holds of all, when it held before.
LEMMA RowsFollowOne ==
  ASSUME RowsFollow, RowsOK, NEW t \in Tap, NEW leg \in Leg,
         usdc' = [usdc EXCEPT ![t] = leg], UNCHANGED chain,
         leg.state \in {"none", "pending", "submitted", "fulfilled"} => leg.round \in Round,
         leg.state \in {"none", "pending"} => leg.tx = 0 /\ leg.order = 0,
         leg.state = "submitted" => leg.tx = leg.round + 1 /\ leg.order \in {0, leg.tx},
         leg.state = "fulfilled" => chain[<<t, leg.round>>].state = "fulfilled"
  PROVE  RowsFollow'
<1> SUFFICES ASSUME NEW u \in Tap
    PROVE  /\ usdc'[u].state \in {"none", "pending", "submitted", "fulfilled"}
                => usdc'[u].round \in Round
           /\ usdc'[u].state \in {"none", "pending"} => usdc'[u].tx = 0 /\ usdc'[u].order = 0
           /\ usdc'[u].state = "submitted" => /\ usdc'[u].tx = usdc'[u].round + 1
                                              /\ usdc'[u].order \in {0, usdc'[u].tx}
           /\ usdc'[u].state = "fulfilled" => chain'[<<u, usdc'[u].round>>].state = "fulfilled"
  BY DEF RowsFollow, Key
<1>1. CASE u = t
  BY <1>1, OneRow
<1>2. CASE u # t
  <2>1. usdc'[u] = usdc[u]
    BY <1>2, OneRow
  <2> QED
    BY <2>1 DEF RowsFollow, Key
<1> QED
  BY <1>1, <1>2

-----------------------------------------------------------------------------
(* Each action keeps the invariant.                                        *)

\* A charge writes rows and an event where there were none.
LEMMA ChargeInv ==
  ASSUME Inv, NEW t \in Tap, Charge(t)
  PROVE  Inv'
<1>1. /\ tap[t] = "none" /\ usdc[t].state = "none" /\ naira[t] = "none"
      /\ market[t] = "unknown" /\ \A k \in Kind : outbox[t][k].state = "none"
  BY DEF Charge, Inv, RowsComeWithTap
<1>2. /\ OutboxOK' /\ outbox'[t]["tap"].state = "held"
      /\ \A u \in Tap, j \in Kind : u # t \/ j # "tap" => outbox'[u][j] = outbox[u][j]
  <2>1. OutboxOK /\ "tap" \in Kind
    BY DEF Inv, TypeOK, OutboxOK, Kind
  <2>2. outbox' = [outbox EXCEPT ![t]["tap"].state = "held"]
    BY DEF Charge
  <2> QED
    BY <2>1, <2>2, OneEvent
<1>3. PICK leg \in Leg : /\ usdc' = [usdc EXCEPT ![t] = leg]
                         /\ leg.state \in {"none", "pending"}
                         /\ Share[t]["usdc"] > 0 => leg.state = "pending"
                         /\ leg.round = usdc[t].round /\ leg.tx = usdc[t].tx
                         /\ leg.order = usdc[t].order
  <2>1. usdc[t] \in Leg
    BY DEF Inv, TypeOK
  <2>2. CASE Share[t]["usdc"] > 0
    <3>1. PICK p \in Price : usdc' = [usdc EXCEPT ![t].state = "pending", ![t].sell = p]
      BY <2>2 DEF Charge
    <3> DEFINE leg == [usdc[t] EXCEPT !.state = "pending", !.sell = p]
    <3>2. leg \in Leg /\ leg.state = "pending" /\ leg.round = usdc[t].round
            /\ leg.tx = usdc[t].tx /\ leg.order = usdc[t].order
      BY <2>1, Numbers DEF Leg
    <3>3. usdc' = [usdc EXCEPT ![t] = leg]
      BY <3>1 DEF Inv, TypeOK
    <3> QED
      BY <3>2, <3>3
  <2>3. CASE ~(Share[t]["usdc"] > 0)
    <3>1. usdc' = [usdc EXCEPT ![t] = usdc[t]]
      BY <2>3 DEF Charge, Inv, TypeOK
    <3> QED
      BY <1>1, <2>1, <2>3, <3>1
  <2> QED
    BY <2>2, <2>3
<1>4. RowsOK' /\ usdc'[t] = leg /\ \A u \in Tap \ {t} : usdc'[u] = usdc[u]
  BY <1>3, OneRow DEF Inv, TypeOK, RowsOK
<1>5. TypeOK'
  <2>1. payable' \in Int
    BY Numbers DEF Charge, Inv, TypeOK
  <2>2. tap' \in [Tap -> {"none", "charged", "reversed"}]
    BY DEF Charge, Inv, TypeOK
  <2>3. naira' \in [Tap -> {"none", "queued", "submitted", "settled", "failed"}]
    BY DEF Charge, Inv, TypeOK
  <2> QED
    BY <1>2, <1>4, <2>1, <2>2, <2>3 DEF Charge, Inv, TypeOK, RowsOK, OutboxOK
<1>6. RowsFollow'
  <2>1. usdc[t].round \in Round /\ usdc[t].tx = 0 /\ usdc[t].order = 0
    BY <1>1 DEF Inv, RowsFollow
  <2> QED
    BY <1>3, <2>1, RowsFollowOne DEF Inv, TypeOK, RowsOK, Charge
<1>7. BatchIsPending'
  <2>1. t \notin settler.due /\ ~(settler.at \in Busy /\ Held = t)
    BY <1>1 DEF Inv, BatchIsPending
  <2>2. UNCHANGED <<settler, chain>>
    BY DEF Charge
  <2>3. settler.due \subseteq Tap /\ (settler.at \in Busy => Held \in Tap)
    BY DEF Inv, TypeOK, Busy, Held
  <2> QED
    BY <1>4, <2>1, <2>2, <2>3 DEF Inv, BatchIsPending, Busy, Key, Held
<1>8. RowsComeWithTap'
  <2> SUFFICES ASSUME NEW u \in Tap
      PROVE  /\ tap'[u] = "none" => /\ usdc'[u].state = "none" /\ naira'[u] = "none"
                                    /\ market'[u] = "unknown"
                                    /\ \A k \in Kind : outbox'[u][k].state = "none"
             /\ tap'[u] # "none" => /\ Share[u]["usdc"] > 0 => usdc'[u].state # "none"
                                    /\ Share[u]["naira"] > 0 => naira'[u] # "none"
    BY DEF RowsComeWithTap
  <2>1. CASE u = t
    BY <1>3, <1>4, <2>1 DEF Charge, Inv, TypeOK
  <2>2. CASE u # t
    BY <1>2, <1>4, <2>2 DEF Charge, Inv, TypeOK, RowsComeWithTap
  <2> QED
    BY <2>1, <2>2
<1>9. EventsFollow'
  <2>1. UNCHANGED <<call, market, lost>>
    BY DEF Charge
  <2>2. ~(call.tap = t)
    BY <1>1, Numbers DEF Inv, EventsFollow, TypeOK
  <2>3. \A u \in Tap \ {t} : Paid(u)' = Paid(u)
    BY <1>4 DEF Paid, Charge, Inv, TypeOK
  <2>4. \A u \in Tap : outbox'[u]["tap"].state \in {"queued", "delivered"} \/ market'[u] # "unknown"
                        => Paid(u)'
    <3>1. outbox'[t]["tap"].state = "held" /\ market'[t] = "unknown"
      BY <1>1, <1>2, <2>1
    <3>2. \A u \in Tap \ {t} : outbox'[u]["tap"] = outbox[u]["tap"] /\ market'[u] = market[u]
      BY <1>2, <2>1 DEF Kind
    <3> QED
      BY <2>3, <3>1, <3>2 DEF Inv, EventsFollow
  <2>5. call.tap # NoTap => call.tap \in Tap /\ call.kind \in Kind /\ "tap" \in Kind
    BY DEF Inv, TypeOK, Kind
  <2>6. call.tap # NoTap => /\ outbox'[call.tap][call.kind] = outbox[call.tap][call.kind]
                            /\ outbox'[call.tap]["tap"] = outbox[call.tap]["tap"]
    BY <1>2, <2>2, <2>5
  <2> QED
    BY <2>1, <2>4, <2>6 DEF Inv, EventsFollow
<1>10. HeardIsRecorded'
  <2>1. UNCHANGED <<call, market, lost>> /\ "tap" \in Kind
    BY DEF Charge, Kind
  <2>2. \A u \in Tap \ {t} : outbox'[u]["tap"] = outbox[u]["tap"]
    BY <1>2, <2>1
  <2> QED
    BY <1>1, <2>1, <2>2 DEF Inv, HeardIsRecorded
<1> QED
  BY <1>5, <1>6, <1>7, <1>8, <1>9, <1>10 DEF Inv

\* A step of the Settler that writes no row.
LEMMA SettlerInv ==
  ASSUME Inv, \/ ReadDue \/ EndTick \/ CreateRefused \/ CrashSettler
              \/ \E t \in Tap : Unpriced(t)
  PROVE  Inv'
<1>1. UNCHANGED <<tap, usdc, naira, payable, chain, events>>
  BY DEF ReadDue, EndTick, CreateRefused, CrashSettler, Unpriced
<1>2. faults' \in 0..MaxFaults
  BY FaultType DEF Inv, TypeOK, ReadDue, EndTick, CreateRefused, CrashSettler, Unpriced
<1>3. PICK at, due, held : settler' = [at |-> at, due |-> due, tap |-> held]
                           /\ \/ at = "idle" /\ due = {} /\ held = NoTap
                              \/ at = "next" /\ due \subseteq Tap /\ held = settler.tap
                                 /\ \A t \in due : usdc[t].state = "pending"
                              \/ at = "refused" /\ settler.at = "create"
                                 /\ due = settler.due /\ held = settler.tap
  <2>1. CASE ReadDue
    <3> DEFINE found == {t \in Tap : Due(t)}
    <3>1. settler' = [settler EXCEPT !.at = "next", !.due = found]
      BY <2>1 DEF ReadDue
    <3>2. found \subseteq Tap /\ \A t \in found : usdc[t].state = "pending"
      BY DEF Due
    <3> HIDE DEF found
    <3>3. settler' = [at |-> "next", due |-> found, tap |-> settler.tap]
      BY <3>1 DEF Inv, TypeOK
    <3> QED
      BY <3>2, <3>3
  <2>2. CASE EndTick \/ CrashSettler
    BY <2>2 DEF EndTick, CrashSettler, Resting
  <2>3. CASE CreateRefused
    <3>1. settler' = [at |-> "refused", due |-> settler.due, tap |-> settler.tap]
      BY <2>3 DEF CreateRefused, Inv, TypeOK
    <3> QED
      BY <2>3, <3>1 DEF CreateRefused
  <2>4. ASSUME NEW t \in Tap, Unpriced(t)
        PROVE  /\ settler' = [at |-> "next", due |-> settler.due \ {t}, tap |-> settler.tap]
               /\ settler.due \subseteq Tap
               /\ \A u \in settler.due \ {t} : usdc[u].state = "pending"
    BY <2>4 DEF Unpriced, Inv, TypeOK, BatchIsPending
  <2>5. CASE \E t \in Tap : Unpriced(t)
    BY <2>4, <2>5
  <2> QED
    BY <2>1, <2>2, <2>3, <2>5
<1>4. TypeOK'
  <2>1. /\ settler' \in [at : {"idle", "next", "create", "record", "refused"},
                         due : SUBSET Tap, tap : Tap \cup {NoTap}]
        /\ settler'.at \in {"create", "record", "refused"} => settler'.tap \in Tap
    BY <1>3 DEF Inv, TypeOK
  <2> QED
    BY <1>1, <1>2, <2>1 DEF Inv, TypeOK, events
<1>5. BatchIsPending'
  <2>1. settler'.at = at /\ settler'.due = due /\ settler'.tap = held
    BY <1>3
  <2> QED
    BY <1>1, <1>3, <2>1 DEF Inv, BatchIsPending, Held, Busy
<1>6. RowsFollow' /\ RowsComeWithTap' /\ EventsFollow' /\ HeardIsRecorded'
  BY <1>1 DEF Inv, RowsFollow, Key, RowsComeWithTap, EventsFollow, Paid, HeardIsRecorded, events
<1> QED
  BY <1>4, <1>5, <1>6 DEF Inv

\* The chain takes an operation under a key that had none, or answers again.
LEMMA TakenEffect ==
  ASSUME Inv, NEW k \in Tap \X Round, NEW p \in Nat, chain' \in Taken(k, p)
  PROVE  /\ chain' \in [Tap \X Round -> Operation] /\ chain'[k].state # "none"
         /\ \A j \in Tap \X Round : chain[j].state # "none" => chain'[j].state = chain[j].state
<1>1. chain \in [Tap \X Round -> Operation]
  BY DEF Inv, TypeOK
<1>2. CASE chain[k].state # "none"
  <2> DEFINE again == chain[k].repriced \/ chain[k].sell # p
             op == [chain[k] EXCEPT !.repriced = again]
  <2>1. chain' = [chain EXCEPT ![k].repriced = @ \/ chain[k].sell # p]
    BY <1>2 DEF Taken
  <2>2. chain' = [chain EXCEPT ![k] = op]
    BY <2>1
  <2>3. again \in BOOLEAN /\ chain[k] \in Operation
    BY <1>1 DEF Operation
  <2> HIDE DEF again
  <2>4. op \in Operation /\ op.state = chain[k].state
    BY <2>3 DEF Operation
  <2> HIDE DEF op
  <2> QED
    BY <1>1, <1>2, <2>2, <2>4
<1>3. CASE chain[k].state = "none"
  <2>1. PICK s \in {"open", "void"} :
          chain' = [chain EXCEPT ![k] = [state |-> s, sell |-> p, repriced |-> FALSE]]
    BY <1>3 DEF Taken
  <2> DEFINE op == [state |-> s, sell |-> p, repriced |-> FALSE]
  <2>2. op \in Operation /\ op.state # "none"
    BY DEF Operation
  <2>3. chain' = [chain EXCEPT ![k] = op]
    BY <2>1
  <2> HIDE DEF op
  <2> QED
    BY <1>1, <1>3, <2>2, <2>3
<1> QED
  BY <1>2, <1>3

\* Orders.Create, answered or not.
LEMMA CreateInv ==
  ASSUME Inv, Create \/ CreateUnanswered
  PROVE  Inv'
<1>1. /\ settler.at = "create" /\ Held \in Tap /\ usdc[Held].state = "pending"
      /\ Held \notin settler.due /\ usdc[Held].sell \in Nat /\ usdc[Held].round \in Round
  <2>1. settler.at = "create"
    BY DEF Create, CreateUnanswered
  <2>2. Held \in Tap /\ usdc[Held].state = "pending" /\ Held \notin settler.due
    BY <2>1 DEF Inv, TypeOK, BatchIsPending, Busy, Held
  <2> QED
    BY <2>1, <2>2 DEF Inv, TypeOK, RowsFollow, Leg
<1>2. /\ chain' \in [Tap \X Round -> Operation] /\ chain'[Key(Held)].state # "none"
      /\ \A j \in Tap \X Round : chain[j].state # "none" => chain'[j].state = chain[j].state
  <2>1. Key(Held) \in Tap \X Round
    BY <1>1 DEF Key
  <2>2. chain' \in Taken(Key(Held), usdc[Held].sell)
    BY DEF Create, CreateUnanswered
  <2> QED
    BY <1>1, <2>1, <2>2, TakenEffect
<1>3. UNCHANGED <<tap, usdc, naira, payable, events>>
  BY DEF Create, CreateUnanswered
<1>4. PICK at \in {"record", "refused"} : settler' = [settler EXCEPT !.at = at]
  BY DEF Create, CreateUnanswered
<1>5. TypeOK'
  <2>1. faults' \in 0..MaxFaults
    BY FaultType DEF Inv, TypeOK, Create, CreateUnanswered
  <2> QED
    BY <1>1, <1>2, <1>3, <1>4, <2>1 DEF Inv, TypeOK, Held, events
<1>6. RowsFollow'
  <2>1. \A t \in Tap : usdc[t].state = "fulfilled" => chain'[Key(t)].state = "fulfilled"
    BY <1>2 DEF Inv, RowsFollow, Key
  <2> QED
    BY <1>3, <2>1 DEF Inv, RowsFollow, Key
<1>7. BatchIsPending'
  <2>1. /\ settler'.due = settler.due /\ settler'.tap = settler.tap /\ settler'.at = at
    BY <1>4 DEF Inv, TypeOK
  <2> QED
    BY <1>1, <1>2, <1>3, <2>1 DEF Inv, BatchIsPending, Held, Busy, Key
<1>8. RowsComeWithTap' /\ EventsFollow' /\ HeardIsRecorded'
  BY <1>3 DEF Inv, RowsComeWithTap, EventsFollow, Paid, HeardIsRecorded, events
<1> QED
  BY <1>5, <1>6, <1>7, <1>8 DEF Inv

\* The Gateway decides an open order; a row that is paid has a decided one.
LEMMA GatewayInv ==
  ASSUME Inv, NEW k \in Tap \X Round, GatewayDecides(k)
  PROVE  Inv'
<1>1. PICK s \in {"fulfilled", "refunded"} : chain' = [chain EXCEPT ![k].state = s]
  BY DEF GatewayDecides
<1>2. chain \in [Tap \X Round -> Operation] /\ chain[k].state = "open"
  BY DEF GatewayDecides, Inv, TypeOK
<1>3. /\ chain' \in [Tap \X Round -> Operation] /\ chain'[k].state = s
      /\ \A j \in Tap \X Round \ {k} : chain'[j] = chain[j]
  BY <1>1, <1>2 DEF Operation
<1>4. UNCHANGED <<tap, usdc, naira, payable, settler, events, faults>>
  BY DEF GatewayDecides
<1>5. TypeOK'
  BY <1>3, <1>4 DEF Inv, TypeOK, events
<1>6. RowsFollow'
  <2>1. \A t \in Tap : usdc[t].state = "fulfilled" => chain'[Key(t)].state = "fulfilled"
    <3> SUFFICES ASSUME NEW t \in Tap, usdc[t].state = "fulfilled"
        PROVE  chain'[Key(t)].state = "fulfilled"
      OBVIOUS
    <3>1. chain[Key(t)].state = "fulfilled" /\ Key(t) \in Tap \X Round
      BY DEF Inv, RowsFollow, Key
    <3> QED
      BY <1>2, <1>3, <3>1
  <2> QED
    BY <1>4, <2>1 DEF Inv, RowsFollow, Key
<1>7. BatchIsPending'
  <2>1. settler.at = "record" => chain'[Key(Held)].state # "none"
    <3> SUFFICES ASSUME settler.at = "record" PROVE chain'[Key(Held)].state # "none"
      OBVIOUS
    <3>1. Held \in Tap /\ usdc[Held].state = "pending" /\ chain[Key(Held)].state # "none"
      BY DEF Inv, TypeOK, BatchIsPending, Busy, Held
    <3>2. Key(Held) \in Tap \X Round
      BY <3>1 DEF Inv, RowsFollow, Key
    <3> QED
      BY <1>3, <3>1, <3>2
  <2> QED
    BY <1>4, <2>1 DEF Inv, BatchIsPending, Held, Busy, Key
<1>8. RowsComeWithTap' /\ EventsFollow' /\ HeardIsRecorded'
  BY <1>4 DEF Inv, RowsComeWithTap, EventsFollow, Paid, HeardIsRecorded, events
<1> QED
  BY <1>5, <1>6, <1>7, <1>8 DEF Inv

\* A write to a row that is not paid, and leaves it a row, disturbs no event.
LEMMA UnpaidRow ==
  ASSUME Inv, NEW t \in Tap, NEW leg \in Leg, usdc' = [usdc EXCEPT ![t] = leg],
         usdc[t].state \in {"pending", "submitted"}, leg.state # "none",
         UNCHANGED <<tap, naira, call, market, lost>>,
         \A u \in Tap, j \in Kind : outbox'[u][j] = outbox[u][j] \/
              (/\ u = t /\ j = "tap" /\ outbox[t]["tap"].state = "held"
               /\ outbox'[t]["tap"].state = "queued" /\ LegsPaid(leg.state, naira[t]))
  PROVE  RowsComeWithTap' /\ EventsFollow' /\ HeardIsRecorded'
<1>1. usdc'[t] = leg /\ \A u \in Tap \ {t} : usdc'[u] = usdc[u]
  BY OneRow DEF Inv, TypeOK, RowsOK
<1>2. /\ ~Paid(t) /\ market[t] = "unknown" /\ tap[t] # "none"
      /\ outbox[t]["tap"].state \notin {"queued", "delivered"}
  BY DEF Inv, EventsFollow, RowsComeWithTap, TypeOK, Paid
<1>3. call.tap # t
  BY <1>2, Numbers DEF Inv, EventsFollow, TypeOK, Kind
<1>4. /\ \A u \in Tap \ {t}, j \in Kind : outbox'[u][j] = outbox[u][j]
      /\ outbox'[t]["reverse"] = outbox[t]["reverse"]
      /\ \A u \in Tap \ {t} : outbox'[u]["tap"] = outbox[u]["tap"]
  BY DEF Kind
<1>5. RowsComeWithTap'
  BY <1>1, <1>2, <1>4 DEF Inv, RowsComeWithTap
<1>6. EventsFollow'
  <2>1. ASSUME NEW u \in Tap, outbox'[u]["tap"].state \in {"queued", "delivered"} \/ market'[u] # "unknown"
        PROVE  Paid(u)'
    <3>1. CASE u = t
      <4>1. outbox'[t]["tap"] # outbox[t]["tap"]
        BY <1>2, <2>1, <3>1
      <4>2. LegsPaid(leg.state, naira[t])
        BY <4>1 DEF Kind
      <4> QED
        BY <1>1, <3>1, <4>2 DEF LegsPaid, Paid
    <3>2. CASE u # t
      BY <1>1, <1>4, <2>1, <3>2 DEF Inv, EventsFollow, Paid
    <3> QED
      BY <3>1, <3>2
  <2>2. call.tap # NoTap => /\ outbox'[call.tap][call.kind] = outbox[call.tap][call.kind]
                            /\ outbox'[call.tap]["tap"] = outbox[call.tap]["tap"]
    BY <1>3, <1>4 DEF Inv, TypeOK
  <2> QED
    BY <2>1, <2>2 DEF Inv, EventsFollow
<1>7. HeardIsRecorded'
  BY <1>2, <1>4 DEF Inv, HeardIsRecorded
<1> QED
  BY <1>5, <1>6, <1>7

\* A row the Settler does not hold is written while the Settler rests.
LEMMA TrackedBatch ==
  ASSUME Inv, settler.at = "idle", UNCHANGED settler
  PROVE  BatchIsPending'
BY DEF Inv, BatchIsPending, Busy, Held

\* The Settler prices an order and counts the attempt.
LEMMA TryInv ==
  ASSUME Inv, NEW t \in Tap, Try(t)
  PROVE  Inv'
<1>1. settler.at = "next" /\ t \in settler.due /\ usdc[t].state = "pending" /\ usdc[t] \in Leg
  BY DEF Try, Inv, BatchIsPending, TypeOK
<1>2. UNCHANGED <<tap, naira, payable, chain, events, faults>>
  BY DEF Try
<1>3. PICK p \in Price : usdc' = [usdc EXCEPT ![t].sell = p, ![t].attempts = @ + 1]
  BY DEF Try
<1> DEFINE leg == [usdc[t] EXCEPT !.sell = p, !.attempts = @ + 1]
<1>4. leg \in Leg /\ leg.state = "pending" /\ leg.round = usdc[t].round
        /\ leg.tx = usdc[t].tx /\ leg.order = usdc[t].order
  <2>1. p \in Nat /\ usdc[t].attempts + 1 \in Nat
    BY <1>1, Numbers DEF Leg
  <2> QED
    BY <1>1, <2>1 DEF Leg
<1>5. usdc' = [usdc EXCEPT ![t] = leg]
  BY <1>3 DEF Inv, TypeOK
<1> HIDE DEF leg
<1>6. RowsOK' /\ usdc'[t] = leg /\ \A u \in Tap \ {t} : usdc'[u] = usdc[u]
  BY <1>4, <1>5, OneRow DEF Inv, TypeOK, RowsOK
<1>7. settler' = [at |-> "create", due |-> settler.due \ {t}, tap |-> t]
  BY DEF Try
<1>8. TypeOK'
  BY <1>2, <1>6, <1>7 DEF Inv, TypeOK, RowsOK, events
<1>9. RowsFollow'
  <2>1. usdc[t].round \in Round /\ usdc[t].tx = 0 /\ usdc[t].order = 0
    BY <1>1 DEF Inv, RowsFollow
  <2> QED
    BY <1>2, <1>4, <1>5, <2>1, RowsFollowOne DEF Inv, TypeOK, RowsOK
<1>10. BatchIsPending'
  BY <1>1, <1>4, <1>6, <1>7 DEF Inv, TypeOK, BatchIsPending, Held
<1>11. RowsComeWithTap' /\ EventsFollow' /\ HeardIsRecorded'
  BY <1>1, <1>2, <1>4, <1>5, UnpaidRow DEF events
<1> QED
  BY <1>8, <1>9, <1>10, <1>11 DEF Inv

\* The Settler writes down what became of its call.
LEMMA RecordInv ==
  ASSUME Inv, RecordRefused \/ RecordOrder
  PROVE  Inv'
<1> DEFINE t == Held
<1>1. /\ settler.at \in {"record", "refused"} /\ t \in Tap /\ usdc[t].state = "pending"
      /\ usdc[t] \in Leg /\ t \notin settler.due
      /\ usdc[t].round \in Round /\ usdc[t].tx = 0 /\ usdc[t].order = 0
  <2>1. settler.at \in {"record", "refused"}
    BY DEF RecordRefused, RecordOrder
  <2>2. t \in Tap /\ usdc[t].state = "pending" /\ t \notin settler.due
    BY <2>1 DEF Inv, TypeOK, BatchIsPending, Busy, Held
  <2> QED
    BY <2>1, <2>2 DEF Inv, TypeOK, RowsFollow
<1>2. UNCHANGED <<tap, naira, chain, events, faults>>
  BY DEF RecordRefused, RecordOrder
<1>3. payable' \in Int
  <2>1. payable' = payable \/ payable' = payable - Share[t]["usdc"]
    BY DEF RecordRefused, RecordOrder
  <2> QED
    BY <1>1, <2>1, Numbers DEF Inv, TypeOK
<1>4. CASE UNCHANGED usdc /\ settler' = Resting
  <2>1. TypeOK'
    BY <1>2, <1>3, <1>4 DEF Inv, TypeOK, Resting, events
  <2>2. BatchIsPending'
    BY <1>4 DEF BatchIsPending, Resting, Busy
  <2>3. RowsFollow' /\ RowsComeWithTap' /\ EventsFollow' /\ HeardIsRecorded'
    BY <1>2, <1>4 DEF Inv, RowsFollow, Key, RowsComeWithTap, EventsFollow, Paid,
                      HeardIsRecorded, events
  <2> QED
    BY <2>1, <2>2, <2>3 DEF Inv
<1>5. ASSUME NEW leg \in Leg, usdc' = [usdc EXCEPT ![t] = leg],
             settler' = [settler EXCEPT !.at = "next", !.tap = NoTap],
             leg.state \in {"pending", "submitted", "failed"}, leg.round = usdc[t].round,
             leg.order = 0, leg.tx = IF leg.state = "submitted" THEN leg.round + 1 ELSE 0
      PROVE  Inv'
  <2>1. RowsOK' /\ usdc'[t] = leg /\ \A u \in Tap \ {t} : usdc'[u] = usdc[u]
    BY <1>1, <1>5, OneRow DEF Inv, TypeOK, RowsOK
  <2>2. settler' = [at |-> "next", due |-> settler.due, tap |-> NoTap]
    BY <1>5 DEF Inv, TypeOK
  <2>3. TypeOK'
    BY <1>2, <1>3, <2>1, <2>2 DEF Inv, TypeOK, RowsOK, events
  <2>4. RowsFollow'
    BY <1>1, <1>2, <1>5, RowsFollowOne DEF Inv, TypeOK, RowsOK
  <2>5. BatchIsPending'
    BY <1>1, <2>1, <2>2 DEF Inv, TypeOK, BatchIsPending, Busy
  <2>6. RowsComeWithTap' /\ EventsFollow' /\ HeardIsRecorded'
    BY <1>1, <1>2, <1>5, UnpaidRow DEF events
  <2> QED
    BY <2>3, <2>4, <2>5, <2>6 DEF Inv
<1>6. CASE RecordRefused
  <2> DEFINE leg == [usdc[t] EXCEPT !.state =
                       IF usdc[t].attempts >= MaxAttempts THEN "failed" ELSE "pending"]
  <2>1. leg \in Leg /\ leg.state \in {"pending", "failed"} /\ leg.round = usdc[t].round
          /\ leg.order = 0 /\ leg.tx = 0
    BY <1>1 DEF Leg
  <2>2. usdc' = [usdc EXCEPT ![t] = leg]
    BY <1>6 DEF RecordRefused, Inv, TypeOK
  <2>3. settler' = [settler EXCEPT !.at = "next", !.tap = NoTap]
    BY <1>6 DEF RecordRefused
  <2> HIDE DEF leg
  <2> QED
    BY <1>5, <2>1, <2>2, <2>3
<1>7. CASE RecordOrder /\ payable >= Share[t]["usdc"]
  <2> DEFINE leg == [usdc[t] EXCEPT !.state = "submitted", !.tx = usdc[t].round + 1]
  <2>1. leg \in Leg /\ leg.state = "submitted" /\ leg.round = usdc[t].round
          /\ leg.order = 0 /\ leg.tx = leg.round + 1
    <3>1. usdc[t].round + 1 \in 0..MaxRounds
      BY <1>1, Numbers DEF Round
    <3> QED
      BY <1>1, <3>1 DEF Leg
  <2>2. usdc' = [usdc EXCEPT ![t].state = "submitted", ![t].tx = usdc[t].round + 1]
    BY <1>7 DEF RecordOrder
  <2>3. usdc' = [usdc EXCEPT ![t] = leg]
    BY <2>2 DEF Inv, TypeOK
  <2>4. settler' = [settler EXCEPT !.at = "next", !.tap = NoTap]
    BY <1>7 DEF RecordOrder
  <2> HIDE DEF leg
  <2> QED
    BY <1>5, <2>1, <2>3, <2>4
<1>8. CASE RecordOrder /\ ~(payable >= Share[t]["usdc"])
  BY <1>4, <1>8 DEF RecordOrder
<1> QED
  BY <1>6, <1>7, <1>8

\* Track: the order's id is learned, or the order asked about.
LEMMA TrackInv ==
  ASSUME Inv, NEW t \in Tap, Track(t)
  PROVE  Inv'
<1>1. /\ settler.at = "idle" /\ usdc[t].state = "submitted" /\ usdc[t] \in Leg
      /\ usdc[t].round \in Round /\ usdc[t].tx = usdc[t].round + 1
      /\ usdc[t].order \in {0, usdc[t].tx}
  <2>1. settler.at = "idle" /\ usdc[t].state = "submitted"
    BY DEF Track, LearnOrder, NotCreated, Refunded, Fulfilled, Tracked
  <2> QED
    BY <2>1 DEF Inv, TypeOK, RowsFollow
<1>2. UNCHANGED <<tap, naira, chain, settler, call, market, lost, faults>>
  BY DEF Track, LearnOrder, NotCreated, Refunded, Fulfilled, Refund, events
<1>3. BatchIsPending'
  <2>1. settler.due = {}
    BY <1>1 DEF Inv, BatchIsPending
  <2> QED
    BY <1>1, <1>2, <2>1 DEF BatchIsPending, Busy, Held
<1>4. ASSUME NEW leg \in Leg, usdc' = [usdc EXCEPT ![t] = leg],
             payable' \in Int, OutboxOK',
             \A u \in Tap, j \in Kind : outbox'[u][j] = outbox[u][j] \/
              (/\ u = t /\ j = "tap" /\ outbox[t]["tap"].state = "held"
               /\ outbox'[t]["tap"].state = "queued" /\ LegsPaid(leg.state, naira[t])),
             leg.state # "none",
             leg.state \in {"none", "pending", "submitted", "fulfilled"} => leg.round \in Round,
             leg.state \in {"none", "pending"} => leg.tx = 0 /\ leg.order = 0,
             leg.state = "submitted" => leg.tx = leg.round + 1 /\ leg.order \in {0, leg.tx},
             leg.state = "fulfilled" => chain[<<t, leg.round>>].state = "fulfilled"
      PROVE  Inv'
  <2>1. RowsOK' /\ usdc'[t] = leg /\ \A u \in Tap \ {t} : usdc'[u] = usdc[u]
    BY <1>1, <1>4, OneRow DEF Inv, TypeOK, RowsOK
  <2>2. TypeOK'
    BY <1>2, <1>4, <2>1 DEF Inv, TypeOK, RowsOK, OutboxOK
  <2>3. RowsFollow'
    BY <1>1, <1>2, <1>4, RowsFollowOne DEF Inv, TypeOK, RowsOK
  <2>4. RowsComeWithTap' /\ EventsFollow' /\ HeardIsRecorded'
    BY <1>1, <1>2, <1>4, UnpaidRow
  <2> QED
    BY <1>3, <2>2, <2>3, <2>4 DEF Inv
<1>5. CASE LearnOrder(t)
  <2> DEFINE leg == [usdc[t] EXCEPT !.order = usdc[t].tx]
  <2>1. leg \in Leg /\ leg.state = "submitted" /\ leg.round = usdc[t].round
          /\ leg.tx = usdc[t].tx /\ leg.order = leg.tx
    BY <1>1 DEF Leg
  <2>2. usdc' = [usdc EXCEPT ![t] = leg]
    BY <1>5 DEF LearnOrder, Inv, TypeOK
  <2>3. payable' \in Int /\ OutboxOK' /\ outbox' = outbox
    BY <1>5 DEF LearnOrder, Inv, TypeOK, OutboxOK, events
  <2> HIDE DEF leg
  <2> QED
    BY <1>1, <1>4, <2>1, <2>2, <2>3
<1>6. CASE Refund(t)
  <2> DEFINE n == usdc[t].round + 1
             st == IF n >= MaxRounds THEN "failed" ELSE "pending"
             leg == [usdc[t] EXCEPT !.state = st, !.round = n, !.tx = 0, !.order = 0]
  <2>1. n \in 0..MaxRounds /\ st \in {"pending", "failed"} /\ (st = "pending" => n \in Round)
    BY <1>1, Numbers DEF Round
  <2>2. usdc' = [usdc EXCEPT ![t].state = st, ![t].round = n, ![t].tx = 0, ![t].order = 0]
    BY <1>6 DEF Refund
  <2>3. payable' \in Int /\ OutboxOK' /\ outbox' = outbox
    <3>1. payable' = payable + Share[t]["usdc"] /\ outbox' = outbox
      BY <1>6 DEF Refund, events
    <3> QED
      BY <3>1, Numbers DEF Inv, TypeOK, OutboxOK
  <2> HIDE DEF n, st
  <2>4. leg \in Leg /\ leg.state = st /\ leg.round = n /\ leg.tx = 0 /\ leg.order = 0
    <3>1. /\ 0 \in 0..MaxRounds /\ n \in 0..MaxRounds
          /\ st \in {"none", "pending", "submitted", "fulfilled", "failed"}
      BY <2>1, Numbers
    <3> QED
      BY <1>1, <3>1 DEF Leg
  <2>5. usdc' = [usdc EXCEPT ![t] = leg]
    BY <2>2 DEF Inv, TypeOK
  <2> HIDE DEF leg
  <2> QED
    BY <1>4, <2>1, <2>3, <2>4, <2>5
<1>7. CASE Fulfilled(t)
  <2> DEFINE leg == [usdc[t] EXCEPT !.state = "fulfilled"]
  <2>1. leg \in Leg /\ leg.state = "fulfilled" /\ leg.round = usdc[t].round
    BY <1>1 DEF Leg
  <2>2. usdc' = [usdc EXCEPT ![t] = leg]
    BY <1>7 DEF Fulfilled, Inv, TypeOK
  <2>3. payable' \in Int
    BY <1>7 DEF Fulfilled, Inv, TypeOK
  <2>4. chain[<<t, usdc[t].round>>].state = "fulfilled"
    <3>1. usdc[t].order > 0 /\ Asked(t) = "fulfilled"
      BY <1>7 DEF Fulfilled
    <3>2. usdc[t].order - 1 = usdc[t].round
      BY <1>1, <3>1, Numbers DEF Round
    <3> QED
      BY <3>1, <3>2 DEF Asked
  <2>5. outbox' = ReleaseIfSettled(t, "fulfilled", naira[t])
    BY <1>7 DEF Fulfilled
  <2>6. OutboxOK
    BY DEF Inv, TypeOK, OutboxOK
  <2>7. /\ OutboxOK'
        /\ \A u \in Tap, j \in Kind : outbox'[u][j] = outbox[u][j] \/
              (/\ u = t /\ j = "tap" /\ outbox[t]["tap"].state = "held"
               /\ outbox'[t]["tap"].state = "queued" /\ LegsPaid("fulfilled", naira[t]))
    BY <2>5, <2>6, ReleaseEffect
  <2> HIDE DEF leg
  <2> QED
    BY <1>1, <1>4, <2>1, <2>2, <2>3, <2>4, <2>7
<1> QED
  BY <1>5, <1>6, <1>7 DEF Track, NotCreated, Refunded

\* A reversal: an event still to come is cancelled, one gone out is unwound.
LEMMA ReverseInv ==
  ASSUME Inv, NEW t \in Tap, Reverse(t)
  PROVE  Inv'
<1>1. tap[t] = "charged" /\ call.tap # t /\ payable' = payable - Net(t)
        /\ tap' = [tap EXCEPT ![t] = "reversed"]
        /\ UNCHANGED <<usdc, naira, chain, settler, call, market, lost, faults>>
  BY DEF Reverse
<1>2. PICK k \in Kind, st \in {"queued", "cancelled"} :
        /\ outbox' = [outbox EXCEPT ![t][k].state = st]
        /\ k = "tap" => st = "cancelled" /\ outbox[t]["tap"].state \in {"held", "queued"}
  <2>1. CASE outbox[t]["tap"].state \in {"held", "queued"}
    BY <2>1 DEF Reverse, Kind
  <2>2. CASE outbox[t]["tap"].state \notin {"held", "queued"}
    BY <2>2 DEF Reverse, Kind
  <2> QED
    BY <2>1, <2>2
<1>3. /\ OutboxOK' /\ outbox'[t][k].state = st
      /\ \A u \in Tap, j \in Kind : u # t \/ j # k => outbox'[u][j] = outbox[u][j]
  <2>1. OutboxOK /\ st \in {"none", "held", "queued", "delivered", "failed", "cancelled"}
    BY DEF Inv, TypeOK, OutboxOK
  <2>2. outbox' = [outbox EXCEPT ![t][k].state = st]
    BY <1>2
  <2> QED
    BY <2>1, <2>2, OneEvent
<1>4. /\ \A u \in Tap \ {t}, j \in Kind : outbox'[u][j] = outbox[u][j]
      /\ \/ outbox'[t]["tap"] = outbox[t]["tap"]
         \/ /\ outbox'[t]["tap"].state = "cancelled"
            /\ outbox[t]["tap"].state \in {"held", "queued"}
      /\ "tap" \in Kind
  <2>1. "tap" \in Kind
    BY DEF Kind
  <2>2. \A u \in Tap \ {t}, j \in Kind : outbox'[u][j] = outbox[u][j]
    BY <1>3
  <2>3. k = "tap" => /\ outbox'[t]["tap"].state = "cancelled"
                     /\ outbox[t]["tap"].state \in {"held", "queued"}
    BY <1>2, <1>3
  <2>4. k # "tap" => outbox'[t]["tap"] = outbox[t]["tap"]
    BY <1>3, <2>1
  <2> QED
    BY <2>1, <2>2, <2>3, <2>4
<1>5. TypeOK'
  <2>1. payable' \in Int /\ tap' \in [Tap -> {"none", "charged", "reversed"}]
    BY <1>1, Numbers DEF Inv, TypeOK
  <2> QED
    BY <1>1, <1>3, <2>1 DEF Inv, TypeOK, OutboxOK
<1>6. RowsFollow' /\ BatchIsPending'
  BY <1>1 DEF Inv, RowsFollow, BatchIsPending, Key, Busy, Held
<1>7. RowsComeWithTap'
  <2>1. tap'[t] = "reversed" /\ \A u \in Tap \ {t} : tap'[u] = tap[u]
    BY <1>1 DEF Inv, TypeOK
  <2> QED
    BY <1>1, <1>4, <2>1 DEF Inv, RowsComeWithTap
<1>8. EventsFollow'
  <2>1. \A u \in Tap : outbox'[u]["tap"].state \in {"queued", "delivered"} \/ market'[u] # "unknown"
                        => Paid(u)'
    BY <1>1, <1>4 DEF Inv, EventsFollow, Paid
  <2>2. call.tap # NoTap => /\ outbox'[call.tap][call.kind] = outbox[call.tap][call.kind]
                            /\ outbox'[call.tap]["tap"] = outbox[call.tap]["tap"]
    BY <1>1, <1>4 DEF Inv, TypeOK
  <2> QED
    BY <1>1, <2>1, <2>2 DEF Inv, EventsFollow
<1>9. HeardIsRecorded'
  <2> SUFFICES ASSUME NEW u \in Tap \ lost, market[u] # "unknown"
      PROVE  \/ outbox'[u]["tap"].state = "delivered"
             \/ call.tap = u /\ call.kind = "tap" /\ call.answer = "ok"
    BY <1>1 DEF HeardIsRecorded
  <2>1. \/ outbox[u]["tap"].state = "delivered"
        \/ call.tap = u /\ call.kind = "tap" /\ call.answer = "ok"
    BY DEF Inv, HeardIsRecorded
  <2> QED
    BY <1>1, <1>4, <2>1
<1> QED
  BY <1>5, <1>6, <1>7, <1>8, <1>9 DEF Inv

\* The outbox's sweep releases the event of a tap that is paid.
LEMMA SweepInv ==
  ASSUME Inv, NEW t \in Tap, ReleaseSettled(t)
  PROVE  Inv'
<1>1. UNCHANGED <<tap, legs, call, market, lost, faults>>
  BY DEF ReleaseSettled
<1>2. /\ OutboxOK'
      /\ \A u \in Tap, j \in Kind : outbox'[u][j] = outbox[u][j] \/
              (/\ u = t /\ j = "tap" /\ outbox[t]["tap"].state = "held"
               /\ outbox'[t]["tap"].state = "queued" /\ LegsPaid(usdc[t].state, naira[t]))
  BY ReleaseEffect DEF ReleaseSettled, Inv, TypeOK, OutboxOK
<1>3. /\ \A u \in Tap : outbox'[u]["reverse"] = outbox[u]["reverse"]
      /\ \A u \in Tap : outbox'[u]["tap"] = outbox[u]["tap"] \/
           (/\ u = t /\ outbox[t]["tap"].state = "held" /\ outbox'[t]["tap"].state = "queued"
            /\ Paid(t))
  BY <1>2 DEF Kind, LegsPaid, Paid
<1>4. tap[t] # "none" \/ outbox'[t]["tap"] = outbox[t]["tap"]
  BY <1>3 DEF Inv, RowsComeWithTap, Kind
<1>5. TypeOK' /\ RowsFollow' /\ BatchIsPending'
  BY <1>1, <1>2 DEF Inv, TypeOK, OutboxOK, RowsFollow, BatchIsPending, Key, Busy, Held, legs
<1>6. RowsComeWithTap'
  BY <1>1, <1>3, <1>4 DEF Inv, RowsComeWithTap, legs, Kind
<1>7. EventsFollow'
  <2>1. \A u \in Tap : outbox'[u]["tap"].state \in {"queued", "delivered"} \/ market'[u] # "unknown"
                        => Paid(u)'
    BY <1>1, <1>3 DEF Inv, EventsFollow, Paid, legs
  <2>2. call.tap # NoTap =>
          /\ outbox'[call.tap][call.kind].state = "queued"
          /\ call.kind = "reverse" => outbox'[call.tap]["tap"].state = "delivered"
    BY <1>3 DEF Inv, EventsFollow, TypeOK, Kind
  <2> QED
    BY <1>1, <2>1, <2>2 DEF Inv, EventsFollow
<1>8. HeardIsRecorded'
  <2> SUFFICES ASSUME NEW u \in Tap \ lost, market[u] # "unknown"
      PROVE  \/ outbox'[u]["tap"].state = "delivered"
             \/ call.tap = u /\ call.kind = "tap" /\ call.answer = "ok"
    BY <1>1 DEF HeardIsRecorded
  <2>1. \/ outbox[u]["tap"].state = "delivered"
        \/ call.tap = u /\ call.kind = "tap" /\ call.answer = "ok"
    BY DEF Inv, HeardIsRecorded
  <2> QED
    BY <1>3, <2>1
<1> QED
  BY <1>5, <1>6, <1>7, <1>8 DEF Inv

\* The naira worker moves a leg that is not settled, and releases the event of
\* a tap it has paid in full.
LEMMA NairaInv ==
  ASSUME Inv, NEW t \in Tap, NairaWorker(t)
  PROVE  Inv'
<1>1. naira[t] \in {"queued", "submitted", "failed"}
        /\ UNCHANGED <<tap, usdc, chain, settler, call, market, lost>>
  BY DEF NairaWorker, NairaSubmit, NairaSettle, NairaFail, NairaRetry, events
<1>2. PICK st \in {"queued", "submitted", "settled", "failed"} :
        /\ naira' = [naira EXCEPT ![t] = st]
        /\ outbox' \in {outbox, ReleaseIfSettled(t, usdc[t].state, st)}
  <2>1. CASE NairaSubmit(t)
    BY <2>1 DEF NairaSubmit, events
  <2>2. CASE NairaSettle(t)
    BY <2>2 DEF NairaSettle
  <2>3. CASE NairaFail(t) \/ NairaRetry(t)
    BY <2>3 DEF NairaFail, NairaRetry, events
  <2> QED
    BY <2>1, <2>2, <2>3 DEF NairaWorker
<1>3. payable' \in Int /\ faults' \in 0..MaxFaults
  <2>1. payable' \in {payable, payable - Share[t]["naira"], payable + Share[t]["naira"]}
    BY DEF NairaWorker, NairaSubmit, NairaSettle, NairaFail, NairaRetry
  <2>2. faults' = faults \/ Fault
    BY DEF NairaWorker, NairaSubmit, NairaSettle, NairaFail, NairaRetry
  <2> QED
    BY <2>1, <2>2, Numbers, FaultType DEF Inv, TypeOK
<1>4. /\ OutboxOK'
      /\ \A u \in Tap, j \in Kind : outbox'[u][j] = outbox[u][j] \/
              (/\ u = t /\ j = "tap" /\ outbox[t]["tap"].state = "held"
               /\ outbox'[t]["tap"].state = "queued" /\ LegsPaid(usdc[t].state, st))
  <2>1. OutboxOK
    BY DEF Inv, TypeOK, OutboxOK
  <2>2. CASE outbox' = outbox
    BY <2>1, <2>2 DEF OutboxOK
  <2>3. CASE outbox' = ReleaseIfSettled(t, usdc[t].state, st)
    BY <2>1, <2>3, ReleaseEffect
  <2> QED
    BY <1>2, <2>2, <2>3
<1>5. /\ naira' \in [Tap -> {"none", "queued", "submitted", "settled", "failed"}]
      /\ naira'[t] = st /\ \A u \in Tap \ {t} : naira'[u] = naira[u]
  BY <1>2 DEF Inv, TypeOK
<1>6. /\ ~Paid(t) /\ market[t] = "unknown" /\ tap[t] # "none"
      /\ outbox[t]["tap"].state \notin {"queued", "delivered"}
  BY <1>1 DEF Inv, EventsFollow, RowsComeWithTap, Paid
<1>7. call.tap # t
  BY <1>6, Numbers DEF Inv, EventsFollow, TypeOK, Kind
<1>8. /\ \A u \in Tap \ {t}, j \in Kind : outbox'[u][j] = outbox[u][j]
      /\ \A u \in Tap \ {t} : outbox'[u]["tap"] = outbox[u]["tap"]
      /\ outbox'[t]["tap"] = outbox[t]["tap"] \/ LegsPaid(usdc[t].state, st)
  BY <1>4 DEF Kind
<1>9. TypeOK' /\ RowsFollow' /\ BatchIsPending'
  BY <1>1, <1>3, <1>4, <1>5 DEF Inv, TypeOK, OutboxOK, RowsFollow, BatchIsPending, Key, Busy, Held
<1>10. RowsComeWithTap'
  BY <1>1, <1>5, <1>6, <1>8 DEF Inv, RowsComeWithTap
<1>11. EventsFollow'
  <2>1. ASSUME NEW u \in Tap, outbox'[u]["tap"].state \in {"queued", "delivered"} \/ market'[u] # "unknown"
        PROVE  Paid(u)'
    <3>1. CASE u = t
      BY <1>1, <1>5, <1>6, <1>8, <2>1, <3>1 DEF LegsPaid, Paid
    <3>2. CASE u # t
      BY <1>1, <1>5, <1>8, <2>1, <3>2 DEF Inv, EventsFollow, Paid
    <3> QED
      BY <3>1, <3>2
  <2>2. call.tap # NoTap => /\ outbox'[call.tap][call.kind] = outbox[call.tap][call.kind]
                            /\ outbox'[call.tap]["tap"] = outbox[call.tap]["tap"]
    BY <1>7, <1>8 DEF Inv, TypeOK
  <2> QED
    BY <1>1, <2>1, <2>2 DEF Inv, EventsFollow
<1>12. HeardIsRecorded'
  BY <1>1, <1>6, <1>8 DEF Inv, HeardIsRecorded
<1> QED
  BY <1>9, <1>10, <1>11, <1>12 DEF Inv

\* A call to the market is made, answered, or lost: the rows are as they were.
LEMMA CallInv ==
  ASSUME Inv, \/ \E t \in Tap, k \in Kind : Deliver(t, k)
              \/ MarketAccepts \/ MarketRefuses \/ MarketSilent \/ CrashDelivery
  PROVE  Inv'
<1>1. UNCHANGED <<tap, legs, outbox>>
  BY DEF Deliver, MarketAccepts, MarketRefuses, MarketSilent, CrashDelivery
<1>2. TypeOK' /\ RowsFollow' /\ BatchIsPending'
  <2>1. faults' \in 0..MaxFaults
    BY FaultType DEF Inv, TypeOK, Deliver, MarketAccepts, MarketRefuses, MarketSilent, CrashDelivery
  <2>2. call' \in [tap : Tap \cup {NoTap}, kind : Kind,
                   answer : {"none", "ok", "refused", "lost"}]
    BY DEF Inv, TypeOK, Deliver, MarketAccepts, MarketRefuses, MarketSilent, CrashDelivery,
           NoCall, Kind
  <2>3. lost' \subseteq Tap
    BY DEF Inv, TypeOK, Deliver, MarketAccepts, MarketRefuses, MarketSilent, CrashDelivery, Calling
  <2>4. market' \in [Tap -> {"unknown", "heard", "unwound"}]
    BY DEF Inv, TypeOK, Deliver, MarketAccepts, MarketRefuses, MarketSilent, CrashDelivery,
           Hears
  <2> QED
    BY <1>1, <2>1, <2>2, <2>3, <2>4 DEF Inv, TypeOK, RowsFollow, BatchIsPending, Key, Busy,
                                       Held, legs
<1>3. \A t \in Tap : market'[t] # market[t] =>
        /\ call.tap = t /\ Calling /\ outbox[t]["tap"].state \in {"queued", "delivered"}
        /\ t \in lost' \/ call' = [call EXCEPT !.answer = "ok"]
  <2> SUFFICES ASSUME NEW t \in Tap, market'[t] # market[t]
      PROVE  /\ call.tap = t /\ Calling /\ outbox[t]["tap"].state \in {"queued", "delivered"}
             /\ t \in lost' \/ call' = [call EXCEPT !.answer = "ok"]
    OBVIOUS
  <2>1. (MarketAccepts \/ MarketSilent) /\ market' = Hears(call.tap, call.kind)
    BY DEF Deliver, MarketAccepts, MarketRefuses, MarketSilent, CrashDelivery
  <2>2. call.tap = t /\ Calling
    BY <2>1 DEF Hears, Inv, TypeOK, MarketAccepts, MarketSilent
  <2>3. outbox[t]["tap"].state \in {"queued", "delivered"}
    BY <2>2, Numbers DEF Inv, EventsFollow, TypeOK, Kind
  <2>4. t \in lost' \/ call' = [call EXCEPT !.answer = "ok"]
    BY <2>1, <2>2 DEF MarketAccepts, MarketSilent
  <2> QED
    BY <2>1, <2>2, <2>3, <2>4
<1>4. RowsComeWithTap'
  <2>1. \A t \in Tap : tap[t] = "none" => market'[t] = "unknown"
    BY <1>3 DEF Inv, RowsComeWithTap, Kind
  <2> QED
    BY <1>1, <2>1 DEF Inv, RowsComeWithTap, legs
<1>5. EventsFollow'
  <2>1. \A t \in Tap : outbox'[t]["tap"].state \in {"queued", "delivered"} \/ market'[t] # "unknown"
                        => Paid(t)'
    BY <1>1, <1>3 DEF Inv, EventsFollow, Paid, legs
  <2>2. call'.tap # NoTap => /\ outbox'[call'.tap][call'.kind].state = "queued"
                             /\ call'.kind = "reverse" => outbox'[call'.tap]["tap"].state = "delivered"
    <3>1. CASE \E t \in Tap, k \in Kind : Deliver(t, k)
      BY <3>1 DEF Deliver
    <3>2. CASE CrashDelivery
      BY <3>2 DEF CrashDelivery, NoCall
    <3>3. CASE MarketAccepts \/ MarketRefuses \/ MarketSilent
      <4>1. call'.tap = call.tap /\ call'.kind = call.kind
        BY <3>3 DEF MarketAccepts, MarketRefuses, MarketSilent, Inv, TypeOK
      <4> QED
        BY <1>1, <4>1 DEF Inv, EventsFollow
    <3> QED
      BY <3>1, <3>2, <3>3
  <2>3. call'.answer = "lost" => call'.tap \in lost'
    BY DEF Deliver, MarketAccepts, MarketRefuses, MarketSilent, CrashDelivery, NoCall, Inv, TypeOK
  <2> QED
    BY <2>1, <2>2, <2>3 DEF EventsFollow
<1>6. HeardIsRecorded'
  <2> SUFFICES ASSUME NEW t \in Tap \ lost', market'[t] # "unknown"
      PROVE  \/ outbox[t]["tap"].state = "delivered"
             \/ call'.tap = t /\ call'.kind = "tap" /\ call'.answer = "ok"
    BY <1>1 DEF HeardIsRecorded
  <2>1. t \notin lost
    BY DEF Deliver, MarketAccepts, MarketRefuses, MarketSilent, CrashDelivery
  <2>2. CASE market'[t] # market[t]
    <3>1. call.tap = t /\ call' = [call EXCEPT !.answer = "ok"]
      BY <1>3, <2>2
    <3>2. call'.tap = t /\ call'.kind = call.kind /\ call'.answer = "ok"
      BY <3>1 DEF Inv, TypeOK
    <3>3. call.kind = "reverse" => outbox[t]["tap"].state = "delivered"
      BY <3>1, Numbers DEF Inv, EventsFollow
    <3> QED
      BY <3>2, <3>3 DEF Inv, TypeOK, Kind
  <2>3. CASE market'[t] = market[t]
    <3>1. \/ outbox[t]["tap"].state = "delivered"
          \/ call.tap = t /\ call.kind = "tap" /\ call.answer = "ok"
      BY <2>1, <2>3 DEF Inv, HeardIsRecorded
    <3>2. CASE call.tap = t /\ call.kind = "tap" /\ call.answer = "ok"
      <4>1. call.tap # NoTap
        BY <3>2, Numbers
      <4>2. ~Calling /\ call # NoCall /\ ~CrashDelivery
        BY <2>1, <3>2, <4>1 DEF Calling, NoCall, CrashDelivery
      <4> QED
        BY <4>2 DEF Deliver, MarketAccepts, MarketRefuses, MarketSilent
    <3> QED
      BY <3>1, <3>2
  <2> QED
    BY <2>2, <2>3
<1> QED
  BY <1>2, <1>4, <1>5, <1>6 DEF Inv

\* The answer is written to the row, and the lock released.
LEMMA CommitInv ==
  ASSUME Inv, CommitDelivery
  PROVE  Inv'
<1> DEFINE t == call.tap
           k == call.kind
           row == Answered(outbox[t][k])
<1>1. t \in Tap /\ k \in Kind /\ call.answer \in {"ok", "refused", "lost"}
  BY DEF CommitDelivery, Inv, TypeOK
<1>2. UNCHANGED <<tap, legs, market, lost, faults>> /\ call' = NoCall
  BY DEF CommitDelivery
<1>3. /\ row \in Delivery /\ row.state \in {"delivered", "failed", "queued"}
      /\ call.answer = "ok" => row.state = "delivered"
  <2>1. outbox[t][k] \in Delivery
    BY <1>1 DEF Inv, TypeOK
  <2> QED
    BY <1>1, <2>1, Numbers DEF Answered, Delivery
<1>4. outbox' = [outbox EXCEPT ![t] = [outbox[t] EXCEPT ![k] = row]]
  BY <1>1 DEF CommitDelivery, Inv, TypeOK
<1>5. outbox[t][k].state = "queued" /\ (k = "reverse" => outbox[t]["tap"].state = "delivered")
  BY <1>1, Numbers DEF Inv, EventsFollow
<1>6. tap[t] # "none"
  BY <1>1, <1>5 DEF Inv, RowsComeWithTap
<1> HIDE DEF row
<1>7. OutboxOK' /\ outbox'[t][k] = row
        /\ \A u \in Tap, j \in Kind : u # t \/ j # k => outbox'[u][j] = outbox[u][j]
  <2> DEFINE rows == [outbox[t] EXCEPT ![k] = row]
  <2>1. rows \in [Kind -> Delivery] /\ rows[k] = row /\ \A j \in Kind \ {k} : rows[j] = outbox[t][j]
    BY <1>1, <1>3 DEF Inv, TypeOK
  <2>2. outbox' = [outbox EXCEPT ![t] = rows]
    BY <1>4
  <2> HIDE DEF rows
  <2>3. outbox'[t] = rows /\ \A u \in Tap \ {t} : outbox'[u] = outbox[u]
    BY <1>1, <2>2 DEF Inv, TypeOK
  <2>4. OutboxOK'
    BY <1>1, <2>1, <2>2 DEF Inv, TypeOK, OutboxOK
  <2> QED
    BY <1>1, <2>1, <2>3, <2>4
<1>8. TypeOK' /\ RowsFollow' /\ BatchIsPending'
  BY <1>2, <1>7 DEF Inv, TypeOK, OutboxOK, RowsFollow, BatchIsPending, Key, Busy, Held, legs,
                    NoCall, Kind
<1>9. RowsComeWithTap'
  BY <1>2, <1>6, <1>7 DEF Inv, RowsComeWithTap, legs
<1>10. Paid(t)
  <2>1. "tap" \in Kind
    BY DEF Kind
  <2> QED
    BY <1>1, <1>5, <2>1 DEF Inv, EventsFollow, Kind
<1>11. EventsFollow'
  <2>1. \A u \in Tap \ {t} : outbox'[u]["tap"] = outbox[u]["tap"]
    BY <1>7 DEF Kind
  <2>2. \A u \in Tap : Paid(u)' = Paid(u)
    BY <1>2 DEF Paid, legs
  <2> QED
    BY <1>2, <1>10, <2>1, <2>2 DEF Inv, EventsFollow, NoCall
<1>12. HeardIsRecorded'
  <2> SUFFICES ASSUME NEW u \in Tap \ lost, market[u] # "unknown"
      PROVE  outbox'[u]["tap"].state = "delivered"
    BY <1>2 DEF HeardIsRecorded
  <2>1. \/ outbox[u]["tap"].state = "delivered"
        \/ call.tap = u /\ call.kind = "tap" /\ call.answer = "ok"
    BY DEF Inv, HeardIsRecorded
  <2>2. "tap" \in Kind
    BY DEF Kind
  <2>3. CASE u = t /\ k = "tap"
    BY <1>3, <1>5, <1>7, <2>1, <2>3
  <2>4. CASE ~(u = t /\ k = "tap")
    <3>1. outbox'[u]["tap"] = outbox[u]["tap"]
      BY <1>7, <2>2, <2>4
    <3> QED
      BY <2>1, <2>4, <3>1
  <2> QED
    BY <2>3, <2>4
<1> QED
  BY <1>8, <1>9, <1>11, <1>12 DEF Inv

-----------------------------------------------------------------------------
\* The invariant holds at the start.
LEMMA InitInv == Init => Inv
<1> SUFFICES ASSUME Init PROVE Inv
  OBVIOUS
<1>1. NoLeg \in Leg /\ NoRow \in Delivery /\ 0 \in Round
  BY Numbers DEF NoLeg, Leg, NoRow, Delivery, Round
<1>2. TypeOK
  <2>1. outbox \in [Tap -> [Kind -> Delivery]]
    BY <1>1 DEF Init
  <2>2. chain \in [Tap \X Round -> Operation]
    BY DEF Init, Operation, NoOperation
  <2>3. payable \in Int /\ 0 \in 0..MaxFaults
    BY Numbers, SettlementAssumption DEF Init
  <2> QED
    BY <1>1, <2>1, <2>2, <2>3 DEF Init, TypeOK, Resting, NoCall, Kind
<1>3. RowsFollow
  BY <1>1 DEF Init, RowsFollow, NoLeg
<1>4. BatchIsPending
  BY DEF Init, BatchIsPending, Resting, Busy
<1>5. RowsComeWithTap
  BY DEF Init, RowsComeWithTap, NoLeg, NoRow
<1>6. EventsFollow /\ HeardIsRecorded
  <2>1. "tap" \in Kind
    BY DEF Kind
  <2> QED
    BY <2>1 DEF Init, EventsFollow, HeardIsRecorded, NoCall, NoRow
<1> QED
  BY <1>2, <1>3, <1>4, <1>5, <1>6 DEF Inv

\* Every step keeps the invariant.
LEMMA NextInv == Inv /\ [Next]_vars => Inv'
<1> SUFFICES ASSUME Inv, [Next]_vars PROVE Inv'
  OBVIOUS
<1>1. CASE UNCHANGED vars
  BY <1>1 DEF vars, legs, events, Inv, TypeOK, RowsFollow, BatchIsPending, RowsComeWithTap,
              EventsFollow, HeardIsRecorded, Paid, Key, Busy, Held
<1>2. CASE Tick \/ CrashSettler
  BY <1>2, SettlerInv, TryInv, CreateInv, RecordInv DEF Tick
<1>3. CASE Outbox \/ CrashDelivery
  BY <1>3, CallInv, CommitInv DEF Outbox
<1> QED
  BY <1>1, <1>2, <1>3, ChargeInv, ReverseInv, SweepInv, NairaInv, TrackInv, GatewayInv DEF Next

\* The invariant holds throughout.
LEMMA Invariance == Spec => []Inv
BY InitInv, NextInv, PTL DEF Spec

-----------------------------------------------------------------------------
\* Every row, balance and worker is well typed, whatever the constants.
THEOREM TypeCorrect == Spec => []TypeOK
<1>1. Inv => TypeOK
  BY DEF Inv
<1> QED
  BY <1>1, Invariance, PTL

\* A leg reads fulfilled only when the Gateway says so of the order of its
\* present round (Settler.fulfilled, refunded).
THEOREM Filled == Spec => []FulfilledIsFilled
<1>1. Inv => FulfilledIsFilled
  BY DEF Inv, RowsFollow, FulfilledIsFilled
<1> QED
  BY <1>1, Invariance, PTL

\* The market hears of a tap only when every leg it has is paid, whichever of
\* the rails was last, and whatever was lost on the way (releaseSQL).
THEOREM Heard == Spec => []HeardIsPaid
<1>1. Inv => HeardIsPaid
  BY DEF Inv, EventsFollow, Paid, HeardIsPaid
<1> QED
  BY <1>1, Invariance, PTL

\* An event is cancelled only while the market cannot have heard of it, unless
\* an answer was lost (RecordReversal, deliverOne).
THEOREM Crossing == Spec => []NoCrossing
<1>1. Inv => NoCrossing
  <2> SUFFICES ASSUME Inv, NEW t \in Tap \ lost, outbox[t]["tap"].state = "cancelled"
      PROVE  market[t] = "unknown"
    BY DEF NoCrossing
  <2>1. call.tap = t /\ call.kind = "tap" => outbox[t]["tap"].state = "queued"
    BY Numbers DEF Inv, EventsFollow
  <2> QED
    BY <2>1 DEF Inv, HeardIsRecorded
<1> QED
  BY <1>1, Invariance, PTL

-----------------------------------------------------------------------------
(* Both legs implement Claims.                                             *)

\* A step that changes no leg's standing, and neither account nor reversals.
LEMMA ClaimsStutter ==
  ASSUME UNCHANGED <<payable, tap>>, \A t \in Tap : ClaimOf(t)' = ClaimOf(t)
  PROVE  UNCHANGED Promise!vars
<1>1. Claimed' = Claimed
  BY DEF Claimed
<1>2. Reversed' = Reversed
  BY DEF Reversed
<1> QED
  BY <1>1, <1>2 DEF Promise!vars

Pair(a, b) == [l \in Promise!Leg |-> IF l = "usdc" THEN a ELSE b]

\* A pair of standings, and one of them changed.
LEMMA PairIs ==
  ASSUME NEW a, NEW b, NEW new
  PROVE  /\ Pair(a, b)["usdc"] = a /\ Pair(a, b)["naira"] = b
         /\ [Pair(a, b) EXCEPT !["usdc"] = new] = Pair(new, b)
         /\ [Pair(a, b) EXCEPT !["naira"] = new] = Pair(a, new)
         /\ Promise!Leg = {"usdc", "naira"}
BY DEF Pair, Promise!Leg

\* A tap's claims are its legs' standings.
LEMMA ClaimIs ==
  ASSUME NEW t \in Tap
  PROVE  /\ Claimed[t] = Pair(Standing(usdc[t].state), Standing(naira[t]))
         /\ Claimed'[t] = Pair(Standing(usdc'[t].state), Standing(naira'[t]))
<1>1. ClaimOf(t) = Pair(Standing(usdc[t].state), Standing(naira[t]))
  BY DEF ClaimOf, Pair, Promise!Leg
<1>2. ClaimOf(t)' = Pair(Standing(usdc'[t].state), Standing(naira'[t]))
  BY DEF ClaimOf, Pair, Promise!Leg, Standing
<1> QED
  BY <1>1, <1>2 DEF Claimed

\* One leg of one tap changes its standing: the claims change in one place.
LEMMA ClaimsMove ==
  ASSUME NEW t \in Tap, NEW l \in Promise!Leg, NEW new,
         l = "usdc" => new = Standing(usdc'[t].state) /\ naira'[t] = naira[t],
         l = "naira" => new = Standing(naira'[t]) /\ usdc'[t] = usdc[t],
         \A u \in Tap \ {t} : usdc'[u] = usdc[u] /\ naira'[u] = naira[u]
  PROVE  Claimed' = [Claimed EXCEPT ![t][l] = new]
<1>1. Claimed'[t] = [Claimed[t] EXCEPT ![l] = new]
  BY ClaimIs, PairIs
<1>2. \A u \in Tap \ {t} : Claimed'[u] = Claimed[u]
  BY ClaimIs
<1>3. Claimed' = [u \in Tap |-> Claimed'[u]] /\ Claimed = [u \in Tap |-> Claimed[u]]
  BY DEF Claimed
<1> QED
  BY <1>1, <1>2, <1>3

\* Debit claims both legs.
LEMMA ChargeClaims ==
  ASSUME Inv, NEW t \in Tap, Charge(t)
  PROVE  Promise!Next
<1>1. tap[t] = "none" /\ usdc[t].state = "none" /\ naira[t] = "none"
  BY DEF Charge, Inv, RowsComeWithTap
<1>2. /\ usdc'[t].state = IF Share[t]["usdc"] > 0 THEN "pending" ELSE "none"
      /\ \A u \in Tap \ {t} : usdc'[u] = usdc[u]
  <2>1. usdc \in [Tap -> Leg]
    BY DEF Inv, TypeOK
  <2>2. CASE Share[t]["usdc"] > 0
    <3>1. PICK p \in Price : usdc' = [usdc EXCEPT ![t].state = "pending", ![t].sell = p]
      BY <2>2 DEF Charge
    <3> QED
      BY <2>1, <2>2, <3>1 DEF Leg
  <2>3. CASE ~(Share[t]["usdc"] > 0)
    BY <1>1, <2>3 DEF Charge
  <2> QED
    BY <2>2, <2>3
<1>3. /\ naira'[t] = IF Share[t]["naira"] > 0 THEN "queued" ELSE "none"
      /\ \A u \in Tap \ {t} : naira'[u] = naira[u]
  BY <1>1 DEF Charge, Inv, TypeOK
<1>4. Claimed[t] = Promise!Unclaimed
  BY <1>1, ClaimIs DEF Standing, Promise!Unclaimed, Pair
<1>5. Claimed'[t] = Promise!Recorded(t)
  <2>1. /\ Standing(usdc'[t].state) = IF Share[t]["usdc"] > 0 THEN "owed" ELSE "none"
        /\ Standing(naira'[t]) = IF Share[t]["naira"] > 0 THEN "owed" ELSE "none"
    BY <1>2, <1>3 DEF Standing
  <2>2. Claimed'[t] = Pair(Standing(usdc'[t].state), Standing(naira'[t]))
    BY ClaimIs
  <2> QED
    BY <2>1, <2>2, PairIs DEF Promise!Recorded, Pair
<1>6. Claimed' = [Claimed EXCEPT ![t] = Promise!Recorded(t)]
  <2>1. \A u \in Tap \ {t} : Claimed'[u] = Claimed[u]
    BY <1>2, <1>3, ClaimIs
  <2>2. Claimed' = [u \in Tap |-> Claimed'[u]] /\ Claimed = [u \in Tap |-> Claimed[u]]
    BY DEF Claimed
  <2> QED
    BY <1>5, <2>1, <2>2
<1>7. Reversed' = Reversed
  BY DEF Reversed, Charge, Inv, TypeOK
<1>8. Promise!Charge(t)
  BY <1>4, <1>6, <1>7 DEF Charge, Net, Promise!Charge, Promise!Net
<1> QED
  BY <1>8 DEF Promise!Next

\* A reversal withdraws them.
LEMMA ReverseWithdraws ==
  ASSUME Inv, NEW t \in Tap, Reverse(t)
  PROVE  Promise!Next
<1>1. tap[t] = "charged" /\ tap \in [Tap -> {"none", "charged", "reversed"}]
  BY DEF Reverse, Inv, TypeOK
<1>2. t \notin Reversed
  BY <1>1 DEF Reversed
<1>3. Claimed[t] # Promise!Unclaimed
  <2>1. Share[t]["usdc"] > 0 \/ Share[t]["naira"] > 0
    BY Numbers
  <2>2. usdc[t].state # "none" \/ naira[t] # "none"
    BY <1>1, <2>1 DEF Inv, RowsComeWithTap
  <2>3. Standing(usdc[t].state) # "none" \/ Standing(naira[t]) # "none"
    <3>1. usdc[t].state \in {"none", "pending", "submitted", "fulfilled", "failed"}
      BY DEF Inv, TypeOK, Leg
    <3>2. naira[t] \in {"none", "queued", "submitted", "settled", "failed"}
      BY DEF Inv, TypeOK
    <3> QED
      BY <2>2, <3>1, <3>2 DEF Standing
  <2>4. /\ Claimed[t]["usdc"] = Standing(usdc[t].state)
        /\ Claimed[t]["naira"] = Standing(naira[t])
    BY ClaimIs, PairIs
  <2>5. Promise!Unclaimed["usdc"] = "none" /\ Promise!Unclaimed["naira"] = "none"
    BY DEF Promise!Unclaimed, Promise!Leg
  <2> QED
    BY <2>3, <2>4, <2>5
<1>4. Reversed' = Reversed \cup {t}
  BY <1>1 DEF Reversed, Reverse
<1>5. Claimed' = Claimed
  BY DEF Claimed, ClaimOf, Reverse
<1>6. Promise!Withdraw(t)
  BY <1>2, <1>3, <1>4, <1>5 DEF Reverse, Net, Promise!Withdraw, Promise!Net
<1> QED
  BY <1>6 DEF Promise!Next

\* The naira worker covers, restores or pays a leg, or changes nothing of it.
LEMMA NairaImplements ==
  ASSUME Inv, NEW t \in Tap, NairaWorker(t)
  PROVE  Promise!Next \/ UNCHANGED Promise!vars
<1>1. /\ naira \in [Tap -> {"none", "queued", "submitted", "settled", "failed"}]
      /\ "naira" \in Promise!Leg /\ Claimed[t]["naira"] = Standing(naira[t])
      /\ UNCHANGED <<tap, usdc>>
  <2>1. UNCHANGED <<tap, usdc>>
    BY DEF NairaWorker, NairaSubmit, NairaSettle, NairaFail, NairaRetry
  <2> QED
    BY <2>1, ClaimIs, PairIs DEF Inv, TypeOK
<1>2. Reversed' = Reversed
  BY <1>1 DEF Reversed
<1>3. ASSUME NEW st, naira' = [naira EXCEPT ![t] = st]
      PROVE  Claimed' = [Claimed EXCEPT ![t]["naira"] = Standing(st)]
  <2>1. naira'[t] = st /\ \A u \in Tap \ {t} : naira'[u] = naira[u]
    BY <1>1, <1>3
  <2> QED
    BY <1>1, <2>1, ClaimsMove
<1>4. ASSUME NEW st, naira' = [naira EXCEPT ![t] = st], Standing(st) = Standing(naira[t]),
             UNCHANGED payable
      PROVE  UNCHANGED Promise!vars
  <2>1. \A u \in Tap : ClaimOf(u)' = ClaimOf(u)
    <3>1. \A u \in Tap : Standing(naira'[u]) = Standing(naira[u])
      BY <1>1, <1>4
    <3>2. \A u \in Tap : Claimed'[u] = Claimed[u]
      BY <1>1, <3>1, ClaimIs
    <3> QED
      BY <3>2 DEF Claimed
  <2> QED
    BY <1>1, <1>4, <2>1, ClaimsStutter
<1>5. CASE NairaSubmit(t) /\ payable >= Share[t]["naira"]
  <2>1. naira[t] = "queued" /\ naira' = [naira EXCEPT ![t] = "submitted"]
          /\ payable' = payable - Share[t]["naira"]
    BY <1>5 DEF NairaSubmit
  <2>2. Claimed' = [Claimed EXCEPT ![t]["naira"] = "covered"] /\ Claimed[t]["naira"] = "owed"
    BY <1>1, <1>3, <2>1 DEF Standing
  <2>3. Promise!Cover(t, "naira")
    BY <1>2, <1>5, <2>1, <2>2 DEF Promise!Cover
  <2> QED
    BY <1>1, <2>3 DEF Promise!Next
<1>6. CASE NairaSubmit(t) /\ ~(payable >= Share[t]["naira"])
  <2>1. naira[t] = "queued" /\ naira' = [naira EXCEPT ![t] = "failed"] /\ UNCHANGED payable
    BY <1>6 DEF NairaSubmit
  <2> QED
    BY <1>4, <2>1 DEF Standing
<1>7. CASE NairaSettle(t)
  <2>1. naira[t] = "submitted" /\ naira' = [naira EXCEPT ![t] = "settled"] /\ UNCHANGED payable
    BY <1>7 DEF NairaSettle
  <2>2. Claimed' = [Claimed EXCEPT ![t]["naira"] = "paid"] /\ Claimed[t]["naira"] = "covered"
    BY <1>1, <1>3, <2>1 DEF Standing
  <2>3. Promise!Pay(t, "naira")
    BY <1>2, <2>1, <2>2 DEF Promise!Pay
  <2> QED
    BY <1>1, <2>3 DEF Promise!Next
<1>8. CASE NairaFail(t)
  <2>1. naira[t] = "submitted" /\ naira' = [naira EXCEPT ![t] = "failed"]
          /\ payable' = payable + Share[t]["naira"]
    BY <1>8 DEF NairaFail
  <2>2. Claimed' = [Claimed EXCEPT ![t]["naira"] = "owed"] /\ Claimed[t]["naira"] = "covered"
    BY <1>1, <1>3, <2>1 DEF Standing
  <2>3. Promise!Restore(t, "naira")
    BY <1>2, <2>1, <2>2 DEF Promise!Restore
  <2> QED
    BY <1>1, <2>3 DEF Promise!Next
<1>9. CASE NairaRetry(t)
  <2>1. naira[t] = "failed" /\ naira' = [naira EXCEPT ![t] = "queued"] /\ UNCHANGED payable
    BY <1>9 DEF NairaRetry
  <2> QED
    BY <1>4, <2>1 DEF Standing
<1> QED
  BY <1>5, <1>6, <1>7, <1>8, <1>9 DEF NairaWorker

\* One row's state is written, and nothing of the naira leg.
LEMMA UsdcMoves ==
  ASSUME NEW t \in Tap, NEW st, usdc'[t].state = st,
         \A u \in Tap \ {t} : usdc'[u] = usdc[u], UNCHANGED <<tap, naira>>
  PROVE  /\ Claimed[t]["usdc"] = Standing(usdc[t].state) /\ "usdc" \in Promise!Leg
         /\ Claimed' = [Claimed EXCEPT ![t]["usdc"] = Standing(st)]
         /\ Reversed' = Reversed
         /\ Standing(st) = Standing(usdc[t].state) /\ UNCHANGED payable
              => UNCHANGED Promise!vars
<1>2. "usdc" \in Promise!Leg /\ Claimed[t]["usdc"] = Standing(usdc[t].state)
  BY ClaimIs, PairIs
<1>3. Claimed' = [Claimed EXCEPT ![t]["usdc"] = Standing(st)]
  BY <1>2, ClaimsMove
<1>4. Reversed' = Reversed
  BY DEF Reversed
<1>5. ASSUME Standing(st) = Standing(usdc[t].state), UNCHANGED payable
      PROVE  UNCHANGED Promise!vars
  <2>1. \A u \in Tap : Claimed'[u] = Claimed[u]
    <3>1. \A u \in Tap : Standing(usdc'[u].state) = Standing(usdc[u].state)
      BY <1>5
    <3> QED
      BY <3>1, ClaimIs
  <2>2. \A u \in Tap : ClaimOf(u)' = ClaimOf(u)
    BY <2>1 DEF Claimed
  <2> QED
    BY <1>5, <2>2, ClaimsStutter
<1> QED
  BY <1>2, <1>3, <1>4, <1>5

\* The Settler's record of an order covers the leg; its other writes leave the
\* leg owed.
LEMMA RecordImplements ==
  ASSUME Inv, NEW t \in Tap, Try(t) \/ (t = Held /\ (RecordRefused \/ RecordOrder))
  PROVE  Promise!Next \/ UNCHANGED Promise!vars
<1>1. usdc \in [Tap -> Leg] /\ usdc[t].state = "pending"
  <2>1. Try(t) => t \in settler.due
    BY DEF Try
  <2>2. RecordRefused \/ RecordOrder => settler.at \in Busy
    BY DEF RecordRefused, RecordOrder, Busy
  <2> QED
    BY <2>1, <2>2 DEF Inv, TypeOK, BatchIsPending
<1>2. UNCHANGED <<tap, naira>>
  BY DEF Try, RecordRefused, RecordOrder
<1>3. CASE Try(t)
  <2>1. PICK p \in Price : usdc' = [usdc EXCEPT ![t].sell = p, ![t].attempts = @ + 1]
    BY <1>3 DEF Try
  <2>2. usdc'[t].state = "pending" /\ \A u \in Tap \ {t} : usdc'[u] = usdc[u]
    BY <1>1, <2>1 DEF Leg
  <2>3. UNCHANGED payable
    BY <1>3 DEF Try
  <2> QED
    BY <1>1, <1>2, <2>2, <2>3, UsdcMoves
<1>4. CASE t = Held /\ RecordRefused
  <2> DEFINE st == IF usdc[t].attempts >= MaxAttempts THEN "failed" ELSE "pending"
  <2>1. usdc' = [usdc EXCEPT ![t].state = st] /\ UNCHANGED payable
    BY <1>4 DEF RecordRefused
  <2>2. st \in {"failed", "pending"}
    OBVIOUS
  <2> HIDE DEF st
  <2>3. usdc'[t].state = st /\ \A u \in Tap \ {t} : usdc'[u] = usdc[u]
    BY <1>1, <2>1 DEF Leg
  <2>4. Standing(st) = Standing(usdc[t].state)
    BY <1>1, <2>2 DEF Standing
  <2> QED
    BY <1>2, <2>1, <2>3, <2>4, UsdcMoves
<1>5. CASE t = Held /\ RecordOrder /\ payable >= Share[t]["usdc"]
  <2>1. /\ usdc' = [usdc EXCEPT ![t].state = "submitted", ![t].tx = usdc[t].round + 1]
        /\ payable' = payable - Share[t]["usdc"]
    BY <1>5 DEF RecordOrder
  <2>2. usdc'[t].state = "submitted" /\ \A u \in Tap \ {t} : usdc'[u] = usdc[u]
    BY <1>1, <2>1 DEF Leg
  <2>3. /\ Claimed[t]["usdc"] = "owed" /\ "usdc" \in Promise!Leg
        /\ Claimed' = [Claimed EXCEPT ![t]["usdc"] = "covered"]
        /\ Reversed' = Reversed
    BY <1>1, <1>2, <2>2, UsdcMoves DEF Standing
  <2>4. Promise!Cover(t, "usdc")
    BY <1>5, <2>1, <2>3 DEF Promise!Cover
  <2> QED
    BY <2>3, <2>4 DEF Promise!Next
<1>6. CASE t = Held /\ RecordOrder /\ ~(payable >= Share[t]["usdc"])
  <2>1. UNCHANGED <<usdc, payable>>
    BY <1>6 DEF RecordOrder
  <2> QED
    BY <1>2, <2>1, UsdcMoves
<1> QED
  BY <1>3, <1>4, <1>5, <1>6

\* Track pays a covered leg, restores it, or learns its order's id.
LEMMA TrackImplements ==
  ASSUME Inv, NEW t \in Tap, Track(t)
  PROVE  Promise!Next \/ UNCHANGED Promise!vars
<1>1. usdc \in [Tap -> Leg] /\ usdc[t].state = "submitted" /\ UNCHANGED <<tap, naira>>
  BY DEF Track, LearnOrder, NotCreated, Refunded, Fulfilled, Tracked, Refund, Inv, TypeOK
<1>2. CASE LearnOrder(t)
  <2>1. usdc' = [usdc EXCEPT ![t].order = usdc[t].tx] /\ UNCHANGED payable
    BY <1>2 DEF LearnOrder
  <2>2. usdc'[t].state = "submitted" /\ \A u \in Tap \ {t} : usdc'[u] = usdc[u]
    BY <1>1, <2>1 DEF Leg
  <2> QED
    BY <1>1, <2>1, <2>2, UsdcMoves
<1>3. CASE Refund(t)
  <2> DEFINE n == usdc[t].round + 1
             st == IF n >= MaxRounds THEN "failed" ELSE "pending"
  <2>1. /\ usdc' = [usdc EXCEPT ![t].state = st, ![t].round = n, ![t].tx = 0, ![t].order = 0]
        /\ payable' = payable + Share[t]["usdc"]
    BY <1>3 DEF Refund
  <2>2. st \in {"failed", "pending"}
    OBVIOUS
  <2> HIDE DEF n, st
  <2>3. usdc'[t].state = st /\ \A u \in Tap \ {t} : usdc'[u] = usdc[u]
    BY <1>1, <2>1 DEF Leg
  <2>4. Standing(st) = "owed" /\ Standing(usdc[t].state) = "covered"
    BY <1>1, <2>2 DEF Standing
  <2>5. /\ Claimed[t]["usdc"] = "covered" /\ "usdc" \in Promise!Leg
        /\ Claimed' = [Claimed EXCEPT ![t]["usdc"] = "owed"]
        /\ Reversed' = Reversed
    BY <1>1, <2>3, <2>4, UsdcMoves
  <2>6. Promise!Restore(t, "usdc")
    BY <2>1, <2>5 DEF Promise!Restore
  <2> QED
    BY <2>5, <2>6 DEF Promise!Next
<1>4. CASE Fulfilled(t)
  <2>1. usdc' = [usdc EXCEPT ![t].state = "fulfilled"] /\ UNCHANGED payable
    BY <1>4 DEF Fulfilled
  <2>2. usdc'[t].state = "fulfilled" /\ \A u \in Tap \ {t} : usdc'[u] = usdc[u]
    BY <1>1, <2>1 DEF Leg
  <2>3. /\ Claimed[t]["usdc"] = "covered" /\ "usdc" \in Promise!Leg
        /\ Claimed' = [Claimed EXCEPT ![t]["usdc"] = "paid"]
        /\ Reversed' = Reversed
    BY <1>1, <2>2, UsdcMoves DEF Standing
  <2>4. Promise!Pay(t, "usdc")
    BY <2>1, <2>3 DEF Promise!Pay
  <2> QED
    BY <2>3, <2>4 DEF Promise!Next
<1> QED
  BY <1>2, <1>3, <1>4 DEF Track, NotCreated, Refunded

\* Every other step leaves rows, account and reversals alone.
LEMMA OthersStutter ==
  ASSUME UNCHANGED <<tap, usdc, naira, payable>>
  PROVE  UNCHANGED Promise!vars
<1>1. Claimed' = Claimed
  BY DEF Claimed, ClaimOf
<1>2. Reversed' = Reversed
  BY DEF Reversed
<1> QED
  BY <1>1, <1>2 DEF Promise!vars

\* For any taps, prices, refunds, retries, reversals and faults, both legs do
\* what Claims promises: covered only out of what the merchant is owed, paid
\* only while covered, restored in full otherwise.
THEOREM Implements == Spec => ImplementsClaims
<1>1. Init => Promise!Init
  <2> SUFFICES ASSUME Init PROVE Promise!Init
    OBVIOUS
  <2>1. ASSUME NEW t \in Tap PROVE Claimed[t] = Promise!Unclaimed
    <3>1. usdc[t].state = "none" /\ naira[t] = "none"
      BY <2>1 DEF Init, NoLeg
    <3> QED
      BY <2>1, <3>1, ClaimIs DEF Standing, Pair, Promise!Unclaimed
  <2>2. Reversed = {}
    BY DEF Init, Reversed
  <2> QED
    BY <2>1, <2>2, SettlementAssumption DEF Init, Promise!Init
<1>2. Inv /\ [Next]_vars => [Promise!Next]_(Promise!vars)
  <2> SUFFICES ASSUME Inv, [Next]_vars PROVE [Promise!Next]_(Promise!vars)
    OBVIOUS
  <2>1. RecordRefused \/ RecordOrder => Held \in Tap
    BY DEF RecordRefused, RecordOrder, Held, Inv, TypeOK
  <2>2. \/ UNCHANGED <<tap, usdc, naira, payable>>
        \/ \E t \in Tap : Charge(t) \/ Reverse(t) \/ NairaWorker(t) \/ Track(t) \/ Try(t)
        \/ RecordRefused \/ RecordOrder
    BY DEF Next, Tick, CrashSettler, Outbox, CrashDelivery, GatewayDecides, ReleaseSettled,
           ReadDue, Unpriced, EndTick, Create, CreateRefused, CreateUnanswered, Deliver,
           MarketAccepts, MarketRefuses, MarketSilent, CommitDelivery, legs, vars
  <2> QED
    BY <2>1, <2>2, OthersStutter, ChargeClaims, ReverseWithdraws, NairaImplements,
       TrackImplements, RecordImplements
<1> QED
  BY <1>1, <1>2, Invariance, PTL DEF Spec, ImplementsClaims, Promise!Spec

-----------------------------------------------------------------------------
(* A tap is sold again beside a live order only where a price has changed.  *)

\* The operation of the row's round is for the amount on the row, or its key
\* was presented for another.
Quoted(t) == chain[Key(t)].repriced \/ chain[Key(t)].sell = usdc[t].sell

\* What the rounds of a tap leave on chain: behind the row's, nothing live that
\* was not presented at two prices; ahead of it, nothing at all.
RoundsOf(t) ==
  /\ usdc[t].state = "submitted" => chain[Key(t)].state # "none" /\ Quoted(t)
  /\ \A r \in Round :
       /\ r < usdc[t].round /\ Live(t, r) => chain[<<t, r>>].repriced
       /\ r > usdc[t].round => chain[<<t, r>>].state = "none"

RoundsFollow ==
  /\ settler.at = "record" => Quoted(Held)
  /\ \A t \in Tap : RoundsOf(t)

\* Rounds are numbers, those of rows and those of operations.
LEMMA RoundsAreInts ==
  ASSUME Inv, NEW t \in Tap
  PROVE  usdc[t].round \in Int /\ \A r \in Round : r \in Int
<1>1. usdc[t] \in Leg
  BY DEF Inv, TypeOK
<1> QED
  BY <1>1, Numbers DEF Leg, Round

\* A write that leaves the row in its round, by a step that records nothing or
\* records what the Settler has in hand.
LEMMA SameRound ==
  ASSUME Inv, RoundsFollow, NEW t \in Tap, NEW leg, usdc' = [usdc EXCEPT ![t] = leg],
         leg.round = usdc[t].round, UNCHANGED chain,
         leg.state = "submitted" => /\ leg.sell = usdc[t].sell
                                    /\ chain[Key(t)].state # "none" /\ Quoted(t),
         settler'.at = "record" => UNCHANGED settler /\ Held # t
  PROVE  RoundsFollow'
<1>1. usdc'[t] = leg /\ \A u \in Tap \ {t} : usdc'[u] = usdc[u]
  BY DEF Inv, TypeOK
<1>2. \A u \in Tap : usdc'[u].round = usdc[u].round /\ Key(u)' = Key(u)
  BY <1>1 DEF Key
<1>3. ASSUME NEW u \in Tap PROVE RoundsOf(u)'
  <2>1. RoundsOf(u)
    BY DEF RoundsFollow
  <2>2. CASE u = t
    BY <1>1, <1>2, <2>1, <2>2 DEF RoundsOf, Quoted, Live
  <2>3. CASE u # t
    BY <1>1, <1>2, <2>1, <2>3 DEF RoundsOf, Quoted, Live
  <2> QED
    BY <2>2, <2>3
<1>4. settler'.at = "record" => Quoted(Held)'
  <2> SUFFICES ASSUME settler'.at = "record" PROVE Quoted(Held)'
    OBVIOUS
  <2>1. UNCHANGED settler /\ Held # t /\ Held \in Tap
    BY DEF Inv, TypeOK, Held
  <2>2. Quoted(Held) /\ Key(Held)' = Key(Held) /\ usdc'[Held] = usdc[Held] /\ Held' = Held
    BY <1>1, <1>2, <2>1 DEF RoundsFollow, Held
  <2> QED
    BY <2>2 DEF Quoted, Key
<1> QED
  BY <1>3, <1>4 DEF RoundsFollow

\* The row of a tap charged, tried, recorded, learned or filled.
LEMMA WriteFollows ==
  ASSUME Inv, RoundsFollow, NEW t \in Tap,
         \/ Charge(t) \/ Try(t) \/ LearnOrder(t) \/ Fulfilled(t)
         \/ t = Held /\ (RecordRefused \/ RecordOrder)
  PROVE  RoundsFollow'
<1>1. usdc \in [Tap -> Leg] /\ usdc[t] \in Leg /\ UNCHANGED chain
  BY DEF Inv, TypeOK, Charge, Try, LearnOrder, Fulfilled, RecordRefused, RecordOrder
<1>2. usdc[t].state = "submitted" => chain[Key(t)].state # "none" /\ Quoted(t)
  BY DEF RoundsFollow, RoundsOf
<1>3. settler'.at = "record" => UNCHANGED settler /\ Held # t
  <2>1. CASE Charge(t)
    <3>1. UNCHANGED settler /\ usdc[t].state = "none"
      BY <2>1 DEF Charge, Inv, RowsComeWithTap
    <3>2. settler.at = "record" => usdc[Held].state = "pending"
      BY DEF Inv, BatchIsPending, Busy
    <3> QED
      BY <3>1, <3>2
  <2>2. CASE Try(t)
    BY <2>2 DEF Try
  <2>3. CASE LearnOrder(t) \/ Fulfilled(t)
    BY <2>3 DEF LearnOrder, Fulfilled, Tracked
  <2>4. CASE RecordRefused \/ RecordOrder
    <3>1. settler'.at # "record"
      <4>1. settler \in [at : {"idle", "next", "create", "record", "refused"},
                         due : SUBSET Tap, tap : Tap \cup {NoTap}]
        BY DEF Inv, TypeOK
      <4> QED
        <5>1. \/ settler' = [settler EXCEPT !.at = "next", !.tap = NoTap]
              \/ settler' = Resting
          BY <2>4 DEF RecordRefused, RecordOrder
        <5>2. CASE settler' = Resting
          BY <5>2 DEF Resting
        <5>3. CASE settler' = [settler EXCEPT !.at = "next", !.tap = NoTap]
          <6>1. settler'.at = "next"
            BY <4>1, <5>3
          <6> QED
            BY <6>1
        <5> QED
          BY <5>1, <5>2, <5>3
    <3> QED
      BY <3>1
  <2> QED
    BY <2>1, <2>2, <2>3, <2>4
<1>4. CASE UNCHANGED usdc
  <2>1. usdc' = [usdc EXCEPT ![t] = usdc[t]]
    BY <1>1, <1>4
  <2> QED
    BY <1>1, <1>2, <1>3, <2>1, SameRound
<1>5. CASE Charge(t) /\ ~UNCHANGED usdc
  <2>1. PICK p \in Price : usdc' = [usdc EXCEPT ![t].state = "pending", ![t].sell = p]
    BY <1>5 DEF Charge
  <2> DEFINE leg == [usdc[t] EXCEPT !.state = "pending", !.sell = p]
  <2>2. usdc' = [usdc EXCEPT ![t] = leg]
    BY <1>1, <2>1
  <2>3. leg.round = usdc[t].round /\ leg.state = "pending"
    BY <1>1 DEF Leg
  <2> HIDE DEF leg
  <2> QED
    BY <1>1, <1>3, <2>2, <2>3, SameRound
<1>6. CASE Try(t)
  <2>1. PICK p \in Price : usdc' = [usdc EXCEPT ![t].sell = p, ![t].attempts = @ + 1]
    BY <1>6 DEF Try
  <2>2. usdc[t].state = "pending"
    BY <1>6 DEF Try, Inv, BatchIsPending
  <2> DEFINE leg == [usdc[t] EXCEPT !.sell = p, !.attempts = @ + 1]
  <2>3. usdc' = [usdc EXCEPT ![t] = leg]
    BY <1>1, <2>1
  <2>4. leg.round = usdc[t].round /\ leg.state = "pending"
    BY <1>1, <2>2 DEF Leg
  <2> HIDE DEF leg
  <2> QED
    BY <1>1, <1>3, <2>3, <2>4, SameRound
<1>7. CASE LearnOrder(t)
  <2> DEFINE leg == [usdc[t] EXCEPT !.order = usdc[t].tx]
  <2>1. usdc' = [usdc EXCEPT ![t] = leg]
    BY <1>1, <1>7 DEF LearnOrder
  <2>2. leg.round = usdc[t].round /\ leg.sell = usdc[t].sell /\ leg.state = usdc[t].state
    BY <1>1 DEF Leg
  <2> HIDE DEF leg
  <2> QED
    BY <1>1, <1>2, <1>3, <2>1, <2>2, SameRound
<1>8. CASE Fulfilled(t)
  <2> DEFINE leg == [usdc[t] EXCEPT !.state = "fulfilled"]
  <2>1. usdc' = [usdc EXCEPT ![t] = leg]
    BY <1>1, <1>8 DEF Fulfilled
  <2>2. leg.round = usdc[t].round /\ leg.state = "fulfilled"
    BY <1>1 DEF Leg
  <2> HIDE DEF leg
  <2> QED
    BY <1>1, <1>3, <2>1, <2>2, SameRound
<1>9. CASE t = Held /\ RecordRefused
  <2> DEFINE st == IF usdc[t].attempts >= MaxAttempts THEN "failed" ELSE "pending"
             leg == [usdc[t] EXCEPT !.state = st]
  <2>1. usdc' = [usdc EXCEPT ![t] = leg]
    BY <1>1, <1>9 DEF RecordRefused
  <2>2. leg.round = usdc[t].round /\ leg.state # "submitted"
    BY <1>1 DEF Leg
  <2> HIDE DEF leg
  <2> QED
    BY <1>1, <1>3, <2>1, <2>2, SameRound
<1>10. CASE t = Held /\ RecordOrder /\ ~UNCHANGED usdc
  <2> DEFINE leg == [usdc[t] EXCEPT !.state = "submitted", !.tx = usdc[t].round + 1]
  <2>1. usdc' = [usdc EXCEPT ![t].state = "submitted", ![t].tx = usdc[t].round + 1]
    BY <1>10 DEF RecordOrder
  <2>2. usdc' = [usdc EXCEPT ![t] = leg]
    BY <1>1, <2>1
  <2>3. leg.round = usdc[t].round /\ leg.sell = usdc[t].sell
    BY <1>1 DEF Leg
  <2>4. chain[Key(t)].state # "none" /\ Quoted(t)
    BY <1>10 DEF RecordOrder, Inv, BatchIsPending, RoundsFollow
  <2> HIDE DEF leg
  <2> QED
    BY <1>1, <1>3, <2>2, <2>3, <2>4, SameRound
<1> QED
  BY <1>4, <1>5, <1>6, <1>7, <1>8, <1>9, <1>10

\* A round is left only when its operation made no order, or a refunded one, or
\* one that was presented at two prices.
LEMMA RefundFollows ==
  ASSUME Inv, RoundsFollow, NEW t \in Tap, NotCreated(t) \/ Refunded(t)
  PROVE  RoundsFollow'
<1>1. /\ usdc \in [Tap -> Leg] /\ usdc[t] \in Leg /\ usdc[t].state = "submitted"
      /\ UNCHANGED <<chain, settler>> /\ settler.at = "idle" /\ Refund(t)
  BY DEF Inv, TypeOK, NotCreated, Refunded, Tracked, Refund
<1>2. usdc[t].round \in Nat /\ usdc[t].round \in Round /\ usdc[t].tx - 1 = usdc[t].round
  BY <1>1, Numbers DEF Inv, RowsFollow, Round
<1>3. RoundsOf(t) /\ Quoted(t)
  BY <1>1 DEF RoundsFollow, RoundsOf
<1>4. Live(t, usdc[t].round) => chain[<<t, usdc[t].round>>].repriced
  <2>1. CASE NotCreated(t)
    BY <1>1, <1>2, <1>3, <2>1 DEF NotCreated, Shown, Mined, Key, Quoted, Live
  <2>2. CASE Refunded(t)
    <3>1. usdc[t].order = usdc[t].tx
      BY <1>1, <2>2 DEF Refunded, Inv, RowsFollow
    <3> QED
      BY <1>2, <2>2, <3>1 DEF Refunded, Asked, Live
  <2> QED
    BY <2>1, <2>2
<1> DEFINE n == usdc[t].round + 1
           st == IF n >= MaxRounds THEN "failed" ELSE "pending"
<1>5. usdc' = [usdc EXCEPT ![t].state = st, ![t].round = n, ![t].tx = 0, ![t].order = 0]
  BY <1>1 DEF Refund
<1>6. st \in {"failed", "pending"}
  OBVIOUS
<1> HIDE DEF st
<1>7. /\ usdc'[t].round = n /\ usdc'[t].state # "submitted"
      /\ \A u \in Tap \ {t} : usdc'[u] = usdc[u]
  <2> HIDE DEF n
  <2> QED
    BY <1>1, <1>5, <1>6 DEF Leg
<1>8. ASSUME NEW r \in Round
      PROVE  /\ r < n /\ Live(t, r) => chain[<<t, r>>].repriced
             /\ r > n => chain[<<t, r>>].state = "none"
  <2>1. r \in Int
    BY Numbers DEF Round
  <2>2. CASE r = usdc[t].round
    BY <1>2, <1>4, <2>1, <2>2
  <2>3. CASE r < usdc[t].round
    BY <1>2, <1>3, <1>8, <2>1, <2>3 DEF RoundsOf
  <2>4. CASE r > usdc[t].round
    BY <1>2, <1>3, <1>8, <2>1, <2>4 DEF RoundsOf
  <2> QED
    BY <1>2, <2>1, <2>2, <2>3, <2>4
<1>9. ASSUME NEW u \in Tap PROVE RoundsOf(u)'
  <2>1. CASE u = t
    BY <1>1, <1>7, <1>8, <2>1 DEF RoundsOf, Live
  <2>2. CASE u # t
    <3>1. usdc'[u] = usdc[u] /\ RoundsOf(u)
      BY <1>7, <2>2 DEF RoundsFollow
    <3> QED
      BY <1>1, <3>1 DEF RoundsOf, Key, Quoted, Live
  <2> QED
    BY <2>1, <2>2
<1> QED
  BY <1>1, <1>9 DEF RoundsFollow

\* A step on the chain, of one operation: the Settler creates, or presents the
\* key again, in its row's round alone, and the Gateway decides what is open.
LEMMA OneOperation ==
  ASSUME Inv, RoundsFollow, NEW t \in Tap, NEW q \in Round, NEW op \in Operation,
         chain' = [chain EXCEPT ![<<t, q>>] = op], UNCHANGED usdc,
         op.state # "none",
         chain[<<t, q>>].state # "none" /\ chain[<<t, q>>].repriced => op.repriced,
         op.repriced \/ chain[<<t, q>>].state = "none" \/ op.sell = chain[<<t, q>>].sell,
         q = usdc[t].round \/ (Live(t, q) /\ chain[<<t, q>>].state # "none"),
         usdc[t].state = "submitted" => chain[<<t, q>>].state # "none" \/ q # usdc[t].round
  PROVE  \A u \in Tap : RoundsOf(u)'
<1>1. chain \in [Tap \X Round -> Operation]
  BY DEF Inv, TypeOK
<1>2. /\ chain'[<<t, q>>] = op
      /\ \A j \in Tap \X Round \ {<<t, q>>} : chain'[j] = chain[j]
  BY <1>1
<1>3. \A u \in Tap, r \in Round : ~(u = t /\ r = q) => chain'[<<u, r>>] = chain[<<u, r>>]
  BY <1>2
<1> SUFFICES ASSUME NEW u \in Tap PROVE RoundsOf(u)'
  OBVIOUS
<1>4. RoundsOf(u) /\ Key(u)' = Key(u)
  BY DEF RoundsFollow, Key
<1>5. ASSUME NEW r \in Round
      PROVE  /\ r < usdc[u].round /\ Live(u, r)' => chain'[<<u, r>>].repriced
             /\ r > usdc[u].round => chain'[<<u, r>>].state = "none"
  <2>1. CASE u = t /\ r = q
    <3>1. usdc[u].round \in Int /\ r \in Int
      BY RoundsAreInts
    <3>2. r < usdc[u].round => op.repriced
      BY <1>4, <2>1, <3>1 DEF RoundsOf, Live
    <3>3. ~(r > usdc[u].round)
      BY <1>4, <2>1, <3>1 DEF RoundsOf
    <3> QED
      BY <1>2, <2>1, <3>2, <3>3
  <2>2. CASE ~(u = t /\ r = q)
    BY <1>3, <1>4, <2>2 DEF RoundsOf, Live
  <2> QED
    BY <2>1, <2>2
<1>6. ASSUME usdc[u].state = "submitted"
      PROVE  chain'[Key(u)].state # "none" /\ Quoted(u)'
  <2>1. chain[Key(u)].state # "none" /\ Quoted(u) /\ usdc[u].round \in Round
    BY <1>4, <1>6 DEF RoundsOf, Inv, RowsFollow
  <2>2. CASE u = t /\ usdc[u].round = q
    BY <1>2, <1>4, <1>6, <2>1, <2>2 DEF Key, Quoted
  <2>3. CASE ~(u = t /\ usdc[u].round = q)
    <3>1. chain'[Key(u)] = chain[Key(u)]
      BY <1>3, <2>1, <2>3 DEF Key
    <3> QED
      BY <1>4, <2>1, <3>1 DEF Quoted
  <2> QED
    BY <2>2, <2>3
<1> QED
  BY <1>4, <1>5, <1>6 DEF RoundsOf

LEMMA ChainFollows ==
  ASSUME Inv, RoundsFollow,
         Create \/ CreateUnanswered \/ \E k \in Tap \X Round : GatewayDecides(k)
  PROVE  RoundsFollow'
<1>1. chain \in [Tap \X Round -> Operation] /\ UNCHANGED usdc
  BY DEF Inv, TypeOK, Create, CreateUnanswered, GatewayDecides
<1>2. CASE Create \/ CreateUnanswered
  <2> DEFINE k == Key(Held)
             p == usdc[Held].sell
             q == usdc[Held].round
  <2>1. /\ Held \in Tap /\ usdc[Held].state = "pending" /\ q \in Round
        /\ chain' \in Taken(k, p) /\ k = <<Held, q>> /\ chain[k] \in Operation /\ p \in Nat
    <3>1. settler.at = "create"
      BY <1>2 DEF Create, CreateUnanswered
    <3>2. Held \in Tap /\ usdc[Held].state = "pending"
      BY <3>1 DEF Inv, TypeOK, BatchIsPending, Busy, Held
    <3>3. q \in Round /\ p \in Nat
      BY <3>2 DEF Inv, TypeOK, RowsFollow, Leg
    <3> QED
      BY <1>1, <1>2, <3>2, <3>3 DEF Create, CreateUnanswered, Key
  <2>2. PICK op \in Operation :
          /\ chain' = [chain EXCEPT ![k] = op]
          /\ op.state # "none"
          /\ chain[k].state # "none" /\ chain[k].repriced => op.repriced
          /\ op.repriced \/ chain[k].state = "none" \/ op.sell = chain[k].sell
          /\ op.repriced \/ op.sell = p
    <3>1. CASE chain[k].state # "none"
      <4> DEFINE again == chain[k].repriced \/ chain[k].sell # p
                 op == [chain[k] EXCEPT !.repriced = again]
      <4>1. chain' = [chain EXCEPT ![k].repriced = @ \/ chain[k].sell # p]
        BY <2>1, <3>1 DEF Taken
      <4>2. chain' = [chain EXCEPT ![k] = op]
        BY <4>1
      <4>3. /\ op.state = chain[k].state /\ op.sell = chain[k].sell
            /\ op.repriced = again /\ again \in BOOLEAN /\ op \in Operation
        BY <2>1 DEF Operation
      <4>4. (chain[k].repriced => again) /\ (again \/ chain[k].sell = p)
        OBVIOUS
      <4> HIDE DEF op, again
      <4> QED
        BY <3>1, <4>2, <4>3, <4>4
    <3>2. CASE chain[k].state = "none"
      <4>1. PICK s \in {"open", "void"} :
              chain' = [chain EXCEPT ![k] = [state |-> s, sell |-> p, repriced |-> FALSE]]
        BY <2>1, <3>2 DEF Taken
      <4> DEFINE op == [state |-> s, sell |-> p,
                        repriced |-> FALSE]
      <4>2. op \in Operation /\ op.sell = p /\ op.state # "none"
        BY <2>1 DEF Operation
      <4> HIDE DEF op
      <4> QED
        BY <3>2, <4>1, <4>2 DEF op
    <3> QED
      BY <3>1, <3>2
  <2>3. \A u \in Tap : RoundsOf(u)'
    <3>1. usdc[Held].state # "submitted" /\ q = usdc[Held].round
      BY <2>1
    <3>2. chain' = [chain EXCEPT ![<<Held, q>>] = op]
      BY <2>1, <2>2
    <3>3. /\ chain[<<Held, q>>].state # "none" /\ chain[<<Held, q>>].repriced => op.repriced
          /\ \/ op.repriced
             \/ chain[<<Held, q>>].state = "none"
             \/ op.sell = chain[<<Held, q>>].sell
      BY <2>1, <2>2
    <3>4. Held \in Tap /\ q \in Round /\ op \in Operation /\ op.state # "none"
      BY <2>1, <2>2
    <3> HIDE DEF k, p, q
    <3> QED
      BY <1>1, <3>1, <3>2, <3>3, <3>4, OneOperation
  <2>4. Quoted(Held)'
    <3>1. Held' = Held /\ chain'[k] = op
      BY <1>1, <1>2, <2>1, <2>2 DEF Create, CreateUnanswered, Inv, TypeOK, Held
    <3> QED
      BY <1>1, <2>1, <2>2, <3>1 DEF Quoted, Key
  <2> QED
    BY <2>3, <2>4 DEF RoundsFollow
<1>3. ASSUME NEW k \in Tap \X Round, GatewayDecides(k)
      PROVE  RoundsFollow'
  <2>1. PICK t \in Tap, q \in Round : k = <<t, q>>
    OBVIOUS
  <2>2. chain[<<t, q>>].state = "open" /\ chain[<<t, q>>] \in Operation
    BY <1>1, <1>3, <2>1 DEF GatewayDecides
  <2>3. PICK s \in {"fulfilled", "refunded"} : chain' = [chain EXCEPT ![<<t, q>>].state = s]
    BY <1>3, <2>1 DEF GatewayDecides
  <2> DEFINE op == [chain[<<t, q>>] EXCEPT !.state = s]
  <2>4. /\ op \in Operation /\ op.state = s /\ op.sell = chain[<<t, q>>].sell
        /\ op.repriced = chain[<<t, q>>].repriced
    BY <2>2 DEF Operation
  <2>5. chain' = [chain EXCEPT ![<<t, q>>] = op]
    BY <1>1, <2>3
  <2> HIDE DEF op
  <2>6. \A u \in Tap : RoundsOf(u)'
    BY <1>1, <2>2, <2>4, <2>5, OneOperation DEF Live
  <2>7. settler'.at = "record" => Quoted(Held)'
    <3> SUFFICES ASSUME settler.at = "record" PROVE Quoted(Held)'
      BY <1>3 DEF GatewayDecides
    <3>1. Quoted(Held) /\ Held \in Tap /\ usdc[Held].round \in Round
      <4>1. usdc[Held].state = "pending" /\ Held \in Tap
        BY DEF Inv, TypeOK, BatchIsPending, Busy, Held
      <4> QED
        BY <4>1 DEF RoundsFollow, Inv, RowsFollow
    <3>2. Held' = Held /\ Key(Held)' = Key(Held)
      BY <1>1, <1>3 DEF GatewayDecides, Key, Held
    <3>3. /\ chain'[Key(Held)].sell = chain[Key(Held)].sell
          /\ chain'[Key(Held)].repriced = chain[Key(Held)].repriced
      BY <1>1, <2>4, <2>5, <3>1 DEF Key
    <3> QED
      BY <1>1, <3>1, <3>2, <3>3 DEF Quoted
  <2> QED
    BY <2>6, <2>7 DEF RoundsFollow
<1> QED
  BY <1>2, <1>3

\* However answers are lost, orders refunded and rows tried again, and whatever
\* each try costs, a tap has a second order that pays the merchant or may only
\* if the key of the first was presented again for another amount.
THEOREM Sold == Spec => []ResoldOnlyRepriced
<1>1. Init => RoundsFollow
  BY Numbers DEF Init, RoundsFollow, RoundsOf, NoLeg, NoOperation, Resting, Round, Live
<1>2. Inv /\ RoundsFollow /\ [Next]_vars => RoundsFollow'
  <2> SUFFICES ASSUME Inv, RoundsFollow, [Next]_vars PROVE RoundsFollow'
    OBVIOUS
  <2>1. CASE UNCHANGED <<usdc, chain>> /\ (settler'.at = "record" => UNCHANGED settler)
    BY <2>1 DEF RoundsFollow, RoundsOf, Quoted, Live, Key, Held
  <2>2. RecordRefused \/ RecordOrder => Held \in Tap
    BY DEF RecordRefused, RecordOrder, Held, Inv, TypeOK
  <2>3. \/ UNCHANGED <<usdc, chain>> /\ (settler'.at = "record" => UNCHANGED settler)
        \/ \E t \in Tap : Charge(t) \/ Try(t) \/ LearnOrder(t) \/ Fulfilled(t)
                            \/ NotCreated(t) \/ Refunded(t)
        \/ RecordRefused \/ RecordOrder \/ Create \/ CreateUnanswered
        \/ \E k \in Tap \X Round : GatewayDecides(k)
    <3>1. ReadDue \/ EndTick \/ CreateRefused \/ CrashSettler \/ (\E t \in Tap : Unpriced(t))
            => UNCHANGED <<usdc, chain>> /\ settler'.at # "record"
      <4>1. settler \in [at : {"idle", "next", "create", "record", "refused"},
                         due : SUBSET Tap, tap : Tap \cup {NoTap}]
        BY DEF Inv, TypeOK
      <4>2. ASSUME ReadDue PROVE settler'.at = "next"
        BY <4>1, <4>2 DEF ReadDue
      <4>3. ASSUME NEW t \in Tap, Unpriced(t) PROVE settler'.at = "next"
        BY <4>1, <4>3 DEF Unpriced
      <4>4. ASSUME CreateRefused PROVE settler'.at = "refused"
        BY <4>1, <4>4 DEF CreateRefused
      <4>5. ASSUME EndTick \/ CrashSettler PROVE settler'.at = "idle"
        BY <4>5 DEF EndTick, CrashSettler, Resting
      <4>6. ReadDue \/ EndTick \/ CreateRefused \/ CrashSettler \/ (\E t \in Tap : Unpriced(t))
              => UNCHANGED <<usdc, chain>>
        BY DEF ReadDue, EndTick, CreateRefused, CrashSettler, Unpriced
      <4> QED
        BY <4>2, <4>3, <4>4, <4>5, <4>6
    <3> QED
      BY <3>1 DEF Next, Tick, Track, Outbox, CrashDelivery, ReleaseSettled, Reverse,
             NairaWorker, NairaSubmit, NairaSettle, NairaFail, NairaRetry, Deliver,
             MarketAccepts, MarketRefuses, MarketSilent, CommitDelivery, legs, vars
  <2> QED
    BY <2>1, <2>2, <2>3, WriteFollows, RefundFollows, ChainFollows
<1>3. Inv /\ RoundsFollow => ResoldOnlyRepriced
  <2> SUFFICES ASSUME Inv, RoundsFollow, NEW t \in Tap, NEW r \in Round, NEW q \in Round,
                      r < q, Live(t, r), Live(t, q)
               PROVE  chain[<<t, r>>].repriced
    BY DEF ResoldOnlyRepriced
  <2>1. RoundsOf(t) /\ r \in Int /\ q \in Int /\ usdc[t].round \in Int
    BY RoundsAreInts DEF RoundsFollow
  <2>2. ~(q > usdc[t].round)
    BY <2>1 DEF RoundsOf, Live
  <2> QED
    BY <2>1, <2>2 DEF RoundsOf
<1> QED
  BY <1>1, <1>2, <1>3, Invariance, PTL DEF Spec
=============================================================================
