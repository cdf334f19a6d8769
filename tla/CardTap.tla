------------------------------ MODULE CardTap ------------------------------
(***************************************************************************)
(* One card at one till: packages card/tap (Challenge, Debit, Acknowledge, *)
(* Reverse), card/token (the rotating token) and card/auth (tiers, PIN),   *)
(* and what the cardholder and the operators do to the card's row.         *)
(*                                                                         *)
(* Each Debit is one transaction at READ COMMITTED, taken statement by     *)
(* statement: it reads the card's row without a lock and writes it back    *)
(* later, so debits of the card interleave with each other and with every  *)
(* other writer of the row. A written row stays locked to the end of the   *)
(* transaction; what a transaction writes is seen when it commits.         *)
(*                                                                         *)
(* Left out: the merchant, the fee and the funding of the spend (LedgerTx  *)
(* has them), the identity limits, midnight, and forged tokens: every      *)
(* token was read from the chip, though maybe too long ago.                *)
(***************************************************************************)
EXTENDS Integers, FiniteSets, Sums

CONSTANTS
  Request,      \* debits, each also the name of the token it issues
  Blank,        \* the token written when the card was linked
  NoToken,
  Challenges,   \* nonces
  Amount,       \* what may be charged
  TierOf,       \* Limits.TierFor: the tier an amount requires
  Daily,        \* the card's daily limit
  Balance,      \* what the cardholder holds at first
  PINAttempts,  \* the code's: wrong answers before the card locks
  Mismatches,   \* the code's: unknown tokens before the card locks
  MaxFaults     \* bound: connections lost in a transaction

ASSUME CardAssumption ==
  /\ IsFiniteSet(Request)
  /\ Blank \notin Request /\ NoToken \notin Request \cup {Blank}
  /\ Blank # NoToken
  /\ Amount # {} /\ Amount \subseteq Nat \ {0}
  /\ TierOf \in [Amount -> {"none", "pin", "step_up"}]
  /\ Daily \in Nat /\ Balance \in Nat
  /\ PINAttempts \in Nat \ {0} /\ Mismatches \in Nat \ {0}
  /\ MaxFaults \in Nat

VARIABLES
  card,       \* the row of tapp_cards
  chip,       \* the token on the physical card
  challenge,  \* card_server_nonces
  debit,      \* each Debit: where it is, its arguments, what it has read
  taps,       \* card_taps and card_tap_reversals
  ack,        \* the till, of the token each tap issued: has it to write,
              \* wrote it and will say so, will say it failed
  balance,    \* the cardholder's account
  wrongs,     \* history: wrong answers since the last right one
  crossed,    \* history: a debit overlapped another writer, or a till misreported
  overtaken,  \* history: debits beside which another was charged once they had
              \* summed the day's taps
  faults

rows == <<card, challenge, taps, balance>>
history == <<wrongs, crossed, overtaken>>
vars == <<rows, chip, debit, ack, history, faults>>

Token == Request \cup {Blank}
Row == [status : {"live", "locked", "revoked"}, lock : {"none", "running", "over"},
        current : Token, pending : Token \cup {NoToken},
        left : 0..PINAttempts, mismatches : Nat]
At == {"idle", "sent", "claimed", "verified", "mismatched", "known", "weighed",
       "charged", "done", "refused"}

\* Rows, requests and histories are well typed.
TypeOK ==
  /\ card \in Row
  /\ chip \in Token
  /\ challenge \in [Challenges -> [state : {"none", "open", "used", "expired"},
                                   amount : Amount, granted : BOOLEAN]]
  /\ \A d \in Request :
       /\ debit[d].at \in At
       /\ debit[d].at \notin {"idle", "refused"} =>
            /\ debit[d].nonce \in Challenges /\ debit[d].amount \in Amount
            /\ debit[d].right \in BOOLEAN /\ debit[d].token \in Token
            /\ debit[d].granted \in BOOLEAN /\ debit[d].row \in Row
  /\ taps \in [Request -> {"none", "recent", "older", "reversed"}]
  /\ ack \in [Request -> {"none", "held", "wrote", "failed", "over"}]
  /\ balance \in Nat
  /\ wrongs \in Nat /\ crossed \in BOOLEAN /\ overtaken \subseteq Request
  /\ faults \in 0..MaxFaults

NewRow == [status |-> "live", lock |-> "none", current |-> Blank, pending |-> NoToken,
           left |-> PINAttempts, mismatches |-> 0]

\* A card just linked (link.Activate).
Init ==
  /\ card = NewRow
  /\ chip = Blank
  /\ challenge = [n \in Challenges |->
                    [state |-> "none", amount |-> CHOOSE a \in Amount : TRUE, granted |-> FALSE]]
  /\ debit = [d \in Request |-> [at |-> "idle"]]
  /\ taps = [d \in Request |-> "none"]
  /\ ack = [d \in Request |-> "none"]
  /\ balance = Balance
  /\ wrongs = 0 /\ crossed = FALSE /\ overtaken = {} /\ faults = 0

-----------------------------------------------------------------------------
(* Locks. A transaction holds the rows it has written until it ends.       *)

InTx(d) == debit[d].at \notin {"idle", "sent", "done", "refused"}
TierIn(d) == TierOf[challenge[debit[d].nonce].amount]

\* A right PIN writes the card's row before the money moves.
HoldsCard(d) == debit[d].at \in {"known", "weighed", "charged"} /\ TierIn(d) = "pin"
HoldsAccount(d) == debit[d].at = "charged"
HoldsNonce(d, n) == InTx(d) /\ debit[d].nonce = n

CardFree(d) == \A e \in Request \ {d} : ~HoldsCard(e)
AccountFree(d) == \A e \in Request \ {d} : ~HoldsAccount(e)
NonceFree(n) == \A e \in Request : ~HoldsNonce(e, n)
Unwritten == \A e \in Request : ~HoldsCard(e)
InFlight(d) == debit[d].at \notin {"idle", "done", "refused"}
Quiet == \A d \in Request : ~InFlight(d)

\* d waits for a row that e holds.
WaitsFor(d, e) ==
  \/ debit[d].at = "weighed" /\ HoldsAccount(e)
  \/ debit[d].at \in {"charged", "mismatched"} /\ ~HoldsCard(d) /\ HoldsCard(e)
  \/ debit[d].at = "verified" /\ TierIn(d) = "pin" /\ HoldsCard(e)
Deadlocked(d) == \E e \in Request \ {d} : WaitsFor(d, e) /\ WaitsFor(e, d)

-----------------------------------------------------------------------------
(* The card's row.                                                         *)

Usable(row) == row.status = "live" \/ (row.status = "locked" /\ row.lock = "over")

\* Verify: the current token, or the pending one.
Knows(row, token) == token = row.current \/ token = row.pending

\* refuseRepeat: charged the same amount moments ago, and not reversed.
JustCharged(a) == \E d \in Request : taps[d] = "recent" /\ debit[d].amount = a

\* spentToday: the sum of the taps that stand.
Charged == [d \in Request |-> IF taps[d] \in {"recent", "older"} THEN debit[d].amount ELSE 0]
Spent == Total(Charged, Request)

Locked(row) == [row EXCEPT !.status = "locked", !.lock = "running"]

\* recordPINFailure: from the row as it was read.
WrongPIN(read) ==
  LET left == IF read.left > 0 THEN read.left - 1 ELSE 0
      row == [card EXCEPT !.left = left]
  IN IF left = 0 THEN Locked(row) ELSE row

\* recordTokenMismatch: likewise.
WrongToken(read) ==
  LET row == [card EXCEPT !.mismatches = read.mismatches + 1]
  IN IF read.mismatches + 1 >= Mismatches THEN Locked(row) ELSE row

\* The right answer restores the allowance.
Answered(d, row) == IF TierIn(d) = "pin" THEN [row EXCEPT !.left = PINAttempts] ELSE row

RotatedAtOnce(d, read) ==
  [card EXCEPT !.current = d, !.pending = NoToken, !.mismatches = 0]

\* issuePendingToken: what was presented is current, d's token pending.
Rotated(d, read) ==
  [card EXCEPT !.current = IF debit[d].token = read.current THEN read.current ELSE read.pending,
               !.pending = d, !.mismatches = 0]

-----------------------------------------------------------------------------
(* The challenge.                                                          *)

\* Challenge: the tier is decided now and kept with the nonce.
Ask(n, a) ==
  /\ challenge[n].state = "none"
  /\ Usable(card) /\ ~JustCharged(a)
  /\ challenge' = [challenge EXCEPT ![n] = [state |-> "open", amount |-> a, granted |-> FALSE]]
  /\ UNCHANGED <<card, taps, balance, chip, debit, ack, history, faults>>

\* StepUpGrant: the cardholder approves in their own app.
Approve(n) ==
  /\ challenge[n].state = "open" /\ TierOf[challenge[n].amount] = "step_up"
  /\ ~challenge[n].granted /\ NonceFree(n)
  /\ challenge' = [challenge EXCEPT ![n].granted = TRUE]
  /\ UNCHANGED <<card, taps, balance, chip, debit, ack, history, faults>>

\* NonceTTL passes.
Expire(n) ==
  /\ challenge[n].state = "open" /\ NonceFree(n)
  /\ challenge' = [challenge EXCEPT ![n].state = "expired"]
  /\ UNCHANGED <<card, taps, balance, chip, debit, ack, history, faults>>

-----------------------------------------------------------------------------
(* The debit.                                                              *)

\* The till has read the chip and posts the debit, for any amount; whoever
\* is at the keypad is right or wrong.
Present(d, n, a, right) ==
  /\ debit[d].at = "idle"
  /\ challenge[n].state # "none"
  /\ TierOf[challenge[n].amount] # "pin" => ~right
  /\ debit' = [debit EXCEPT ![d] =
       [at |-> "sent", nonce |-> n, amount |-> a, right |-> right, token |-> chip,
        granted |-> FALSE, row |-> NewRow]]
  /\ crossed' = (crossed \/ ~Quiet)
  /\ UNCHANGED <<rows, chip, ack, wrongs, faults, overtaken>>

Goto(d, at) == debit' = [debit EXCEPT ![d].at = at]
End(d) == debit' = [debit EXCEPT ![d] = [at |-> "refused"]]

\* The transaction is rolled back: the challenge is as it was.
Abort(d) == End(d) /\ UNCHANGED <<rows, wrongs>>

\* The challenge is burned with everything else the transaction wrote.
Burn(d) == challenge' = [challenge EXCEPT ![debit[d].nonce].state = "used"]

\* A refusal on the merits commits; so does a right PIN given before it.
Refuse(d) ==
  /\ End(d) /\ Burn(d)
  /\ card' = Answered(d, card)
  /\ wrongs' = IF TierIn(d) = "pin" THEN 0 ELSE wrongs
  /\ UNCHANGED <<taps, balance>>

ClaimAgain(d) ==
  /\ debit[d].at = "sent" /\ NonceFree(debit[d].nonce)
  /\ debit' = [debit EXCEPT ![d].at = "claimed", ![d].granted = challenge[debit[d].nonce].granted]
  /\ UNCHANGED <<rows, chip, ack, history, faults>>

\* consumeNonce: one request claims an open challenge; the others wait for
\* its row and look again.
ClaimNonce(d) ==
  LET n == debit[d].nonce IN
  /\ debit[d].at = "sent" /\ NonceFree(n)
  /\ IF challenge[n].state = "open"
     THEN debit' = [debit EXCEPT ![d].at = "claimed", ![d].granted = challenge[n].granted]
     ELSE End(d)
  /\ UNCHANGED <<rows, chip, ack, history, faults>>

\* loadCard, usable, refuseRepeat, Verify: the row is read without a lock.
LoadCard(d) ==
  /\ debit[d].at = "claimed"
  /\ IF ~Usable(card) \/ JustCharged(debit[d].amount)
     THEN Abort(d)
     ELSE /\ debit' = [debit EXCEPT
               ![d].at = IF Knows(card, debit[d].token) THEN "verified" ELSE "mismatched",
               ![d].row = card]
          /\ UNCHANGED <<rows, wrongs>>
  /\ UNCHANGED <<chip, ack, crossed, overtaken, faults>>

\* recordTokenMismatch, committed.
RefuseToken(d) ==
  /\ debit[d].at = "mismatched" /\ CardFree(d)
  /\ card' = WrongToken(debit[d].row)
  /\ End(d) /\ Burn(d)
  /\ UNCHANGED <<taps, balance, chip, ack, history, faults>>

SatisfyTierPatiently(d) ==
  /\ debit[d].at = "verified"
  /\ CASE TierIn(d) = "none" -> TRUE
       [] TierIn(d) = "pin" -> debit[d].right /\ CardFree(d)
       [] TierIn(d) = "step_up" -> debit[d].granted
  /\ Goto(d, "known")
  /\ UNCHANGED <<rows, chip, ack, history, faults>>

\* satisfyTier, with an answer that satisfies it or an approval missing.
SatisfyTier(d) ==
  /\ debit[d].at = "verified"
  /\ \/ TierIn(d) = "none" /\ Goto(d, "known") /\ UNCHANGED <<rows, wrongs>>
     \/ TierIn(d) = "pin" /\ debit[d].right /\ CardFree(d)
        /\ Goto(d, "known") /\ UNCHANGED <<rows, wrongs>>
     \/ TierIn(d) = "step_up" /\ debit[d].granted
        /\ Goto(d, "known") /\ UNCHANGED <<rows, wrongs>>
     \/ TierIn(d) = "step_up" /\ ~debit[d].granted /\ Abort(d)
  /\ UNCHANGED <<chip, ack, crossed, overtaken, faults>>

RefusePINRolledBack(d) ==
  /\ debit[d].at = "verified" /\ TierIn(d) = "pin" /\ ~debit[d].right /\ CardFree(d)
  /\ wrongs' = wrongs + 1
  /\ End(d)
  /\ UNCHANGED <<rows, chip, ack, crossed, overtaken, faults>>

\* recordPINFailure, committed.
RefusePIN(d) ==
  /\ debit[d].at = "verified" /\ TierIn(d) = "pin" /\ ~debit[d].right /\ CardFree(d)
  /\ card' = WrongPIN(debit[d].row)
  /\ wrongs' = wrongs + 1
  /\ End(d) /\ Burn(d)
  /\ UNCHANGED <<taps, balance, chip, ack, crossed, overtaken, faults>>

CheckAmountOnly(d) ==
  /\ debit[d].at = "known"
  /\ IF debit[d].amount = challenge[debit[d].nonce].amount /\ debit[d].amount <= Daily
     THEN Goto(d, "weighed") /\ UNCHANGED <<rows, wrongs>>
     ELSE Refuse(d)
  /\ UNCHANGED <<chip, ack, crossed, overtaken, faults>>

\* matches and spentToday: the amount challenged, within the day's limit.
CheckLimit(d) ==
  /\ debit[d].at = "known"
  /\ IF debit[d].amount = challenge[debit[d].nonce].amount /\ debit[d].amount <= Daily - Spent
     THEN Goto(d, "weighed") /\ UNCHANGED <<rows, wrongs>>
     ELSE Refuse(d)
  /\ UNCHANGED <<chip, ack, crossed, overtaken, faults>>

Weighed(d) == debit[d].at \in {"weighed", "charged"}

\* movements.Tap: locks the account and refuses an overdraft.
Charge(d) ==
  /\ debit[d].at = "weighed" /\ AccountFree(d)
  /\ IF balance >= debit[d].amount
     THEN Goto(d, "charged") /\ UNCHANGED <<rows, wrongs>>
     ELSE Refuse(d)
  /\ UNCHANGED <<chip, ack, crossed, overtaken, faults>>

\* recordTap, issuePendingToken and the commit.
Commit(d) ==
  /\ debit[d].at = "charged" /\ CardFree(d)
  /\ balance' = balance - debit[d].amount
  /\ taps' = [taps EXCEPT ![d] = "recent"]
  /\ card' = Answered(d, Rotated(d, debit[d].row))
  /\ wrongs' = IF TierIn(d) = "pin" THEN 0 ELSE wrongs
  /\ ack' = [ack EXCEPT ![d] = "held"]
  /\ debit' = [debit EXCEPT ![d] =
       [@ EXCEPT !.at = "done", !.token = Blank, !.granted = FALSE, !.row = NewRow]]
  /\ Burn(d)
  /\ overtaken' = overtaken \cup {e \in Request \ {d} : Weighed(e)}
  /\ UNCHANGED <<chip, crossed, faults>>

\* Postgres aborts one of two transactions that wait for each other.
DeadlockVictim(d) ==
  /\ Deadlocked(d)
  /\ Abort(d)
  /\ UNCHANGED <<chip, ack, crossed, overtaken, faults>>

\* A query fails or the connection is lost.
Fault == faults < MaxFaults /\ faults' = faults + 1
Break(d) ==
  /\ InTx(d) /\ Fault
  /\ Abort(d)
  /\ UNCHANGED <<chip, ack, crossed, overtaken>>

-----------------------------------------------------------------------------
(* The till writes the token and says so (useTapCard, Acknowledge).        *)

\* Another debit has issued a token since, or is about to.
Superseded(d) == card.pending # d \/ ~Quiet

WriteToken(d) ==
  /\ ack[d] = "held"
  /\ chip' = d
  /\ ack' = [ack EXCEPT ![d] = "wrote"]
  /\ crossed' = (crossed \/ Superseded(d))
  /\ UNCHANGED <<rows, debit, wrongs, faults, overtaken>>

WriteFails(d) ==
  /\ ack[d] = "held"
  /\ ack' = [ack EXCEPT ![d] = "failed"]
  /\ UNCHANGED <<rows, chip, debit, history, faults>>

\* The debit's answer never came, or the customer has left with the card.
Forgo(d) ==
  /\ ack[d] = "held"
  /\ ack' = [ack EXCEPT ![d] = "over"]
  /\ UNCHANGED <<rows, chip, debit, history, faults>>

\* Acknowledge with written: whatever is pending becomes current. The till
\* may miss the answer, and then says that the write failed.
AckWritten(d) ==
  /\ ack[d] = "wrote" /\ Unwritten
  /\ card' = [card EXCEPT !.current = IF card.pending = NoToken THEN @ ELSE card.pending,
                          !.pending = NoToken]
  /\ crossed' = (crossed \/ Superseded(d))
  /\ \/ ack' = [ack EXCEPT ![d] = "over"] /\ UNCHANGED faults
     \/ ack' = [ack EXCEPT ![d] = "failed"] /\ Fault
  /\ UNCHANGED <<challenge, taps, balance, chip, debit, wrongs, overtaken>>

\* The request is lost: the till catches the error like any other.
AckLost(d) ==
  /\ ack[d] = "wrote" /\ Fault
  /\ ack' = [ack EXCEPT ![d] = "failed"]
  /\ crossed' = TRUE
  /\ UNCHANGED <<rows, chip, debit, wrongs, overtaken>>

\* Acknowledge without: whatever is pending is dropped. The till offers to
\* write again.
AckFailed(d) ==
  /\ ack[d] = "failed" /\ Unwritten
  /\ card' = [card EXCEPT !.pending = NoToken]
  /\ ack' = [ack EXCEPT ![d] = "held"]
  /\ crossed' = (crossed \/ (Superseded(d) /\ card.pending # NoToken))
  /\ UNCHANGED <<challenge, taps, balance, chip, debit, wrongs, faults, overtaken>>

-----------------------------------------------------------------------------
(* The others.                                                             *)

\* Reverse: one reversal of a tap, crediting the cardholder.
Reverse(d) ==
  /\ taps[d] \in {"recent", "older"}
  /\ \A e \in Request : ~HoldsAccount(e)
  /\ taps' = [taps EXCEPT ![d] = "reversed"]
  /\ balance' = balance + debit[d].amount
  /\ UNCHANGED <<card, challenge, chip, debit, ack, history, faults>>

\* Revoke: the cardholder stops the card.
Revoke ==
  /\ card.status # "revoked" /\ Unwritten
  /\ card' = [card EXCEPT !.status = "revoked"]
  /\ crossed' = (crossed \/ ~Quiet)
  /\ UNCHANGED <<challenge, taps, balance, chip, debit, ack, wrongs, faults, overtaken>>

\* PINLockWindow and RepeatWindow pass.
LockRunsOut ==
  /\ card.lock = "running" /\ Unwritten
  /\ card' = [card EXCEPT !.lock = "over"]
  /\ UNCHANGED <<challenge, taps, balance, chip, debit, ack, history, faults>>
RepeatRunsOut(d) ==
  /\ taps[d] = "recent"
  /\ taps' = [taps EXCEPT ![d] = "older"]
  /\ UNCHANGED <<card, challenge, balance, chip, debit, ack, history, faults>>

Step(d) ==
  \/ ClaimNonce(d) \/ LoadCard(d) \/ RefuseToken(d) \/ SatisfyTier(d) \/ RefusePIN(d)
  \/ CheckLimit(d) \/ Charge(d) \/ Commit(d) \/ DeadlockVictim(d)

Till(d) ==
  \/ WriteToken(d) \/ WriteFails(d) \/ Forgo(d)
  \/ AckWritten(d) \/ AckLost(d) \/ AckFailed(d)

Next ==
  \/ \E n \in Challenges :
       \/ \E a \in Amount : Ask(n, a)
       \/ Approve(n) \/ Expire(n)
  \/ \E d \in Request :
       \/ \E n \in Challenges, a \in Amount, right \in BOOLEAN : Present(d, n, a, right)
       \/ Step(d) \/ Break(d) \/ Till(d) \/ Reverse(d) \/ RepeatRunsOut(d)
  \/ Revoke \/ LockRunsOut

Spec == Init /\ [][Next]_vars

\* A request that reached the server is served.
FairSpec == Spec /\ \A d \in Request : WF_vars(Step(d))

-----------------------------------------------------------------------------
\* What a card is charged was challenged: each challenge is charged at most
\* once, for the amount it was issued for, after the answer or the approval
\* its amount requires, though requests repeat it at the same moment.
ChallengeHonoured ==
  \A d \in Request : taps[d] # "none" =>
    LET ch == challenge[debit[d].nonce] IN
    /\ ch.state = "used" /\ debit[d].amount = ch.amount
    /\ TierOf[ch.amount] = "pin" => debit[d].right
    /\ TierOf[ch.amount] = "step_up" => ch.granted
    /\ \A e \in Request \ {d} :
         taps[e] # "none" => debit[e].nonce # debit[d].nonce

\* The card keeps working: the chip holds a token the server accepts, though
\* writes fail, answers are lost and transactions abort. This asks that
\* debits of the card do not overlap with each other or with the till of an
\* earlier one, and that no till says of a written token that it failed.
CardKeepsWorking == ~crossed => Knows(card, chip)

\* The taps of a day that stand are within the card's limit, however many debits
\* are under way, those aside that summed the day's taps before another was
\* charged: spentToday takes no lock, and what it summed may be stale.
Timely == [d \in Request |-> IF d \in overtaken THEN 0 ELSE Charged[d]]
WithinDaily == Total(Timely, Request) <= Daily

\* spentToday: "a sum computed inside the debit transaction cannot drift and
\* cannot be raced". The taps of a day that stand are within the limit.
SumIsNotRaced == Spent <= Daily

\* Every wrong answer since the last right one costs an attempt, and the last
\* attempt locks the card: nothing that is refused, rolled back or repeated in
\* between gives one back.
WrongsAreCounted ==
  (~crossed /\ card.status # "revoked") =>
    /\ card.left = IF wrongs < PINAttempts THEN PINAttempts - wrongs ELSE 0
    /\ wrongs >= PINAttempts => card.status = "locked"

\* Every debit is answered, though two can wait for each other's rows.
EveryDebitEnds == \A d \in Request : InFlight(d) ~> ~InFlight(d)
=============================================================================
