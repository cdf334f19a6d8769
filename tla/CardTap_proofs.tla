---------------------------- MODULE CardTap_proofs ----------------------------
(***************************************************************************)
(* For any debits, challenges, amounts, tiers and faults: a challenge is   *)
(* charged once and as it was answered, and only debits that were          *)
(* overtaken can exceed the day's limit; while debits of the card do not   *)
(* overlap, the chip holds a token the server knows and every wrong answer *)
(* is counted.                                                             *)
(*                                                                         *)
(* A debit holds its challenge from the claim to the end, so whatever it   *)
(* checked is still so when it charges. The card it only reads: what keeps *)
(* the card's row as it was read is that nobody else was about, which is   *)
(* what crossed records.                                                   *)
(***************************************************************************)
EXTENDS CardTap, Sums_proofs

Active == [at : At \ {"idle", "refused"}, nonce : Challenges, amount : Amount,
           right : BOOLEAN, token : Token, granted : BOOLEAN, row : Row]
Ended == [at : {"idle", "refused"}]
HasRead == {"verified", "mismatched", "known", "weighed", "charged"}

DebitsAreTyped == debit \in [Request -> Active \cup Ended]

\* A debit that goes on has presented a token of the row it read.
TokensWereKnown ==
  \A d \in Request : debit[d].at \in HasRead \ {"mismatched"} =>
    Knows(debit[d].row, debit[d].token)

\* One debit at a time has the account, and there is what it charges.
AccountHeld ==
  \A d \in Request : debit[d].at = "charged" =>
    /\ balance >= debit[d].amount
    /\ \A e \in Request : debit[e].at = "charged" => e = d

\* A debit has its challenge to itself, open, and as approved as it saw it.
NoncesHeld ==
  \A d \in Request : InTx(d) =>
    /\ challenge[debit[d].nonce].state = "open"
    /\ debit[d].granted => challenge[debit[d].nonce].granted
    /\ \A e \in Request : InTx(e) /\ debit[e].nonce = debit[d].nonce => e = d

\* What a debit has passed, its answer and its amount deserved.
ChecksStand ==
  \A d \in Request :
    /\ debit[d].at \in {"known", "weighed", "charged"} =>
         /\ TierIn(d) = "pin" => debit[d].right
         /\ TierIn(d) = "step_up" => debit[d].granted
    /\ debit[d].at \in {"weighed", "charged"} =>
         debit[d].amount = challenge[debit[d].nonce].amount

\* Taps were charged by debits that are done.
TapsAreDone == \A d \in Request : taps[d] # "none" => debit[d].at = "done"

Inv ==
  /\ TypeOK /\ DebitsAreTyped /\ TokensWereKnown /\ AccountHeld
  /\ NoncesHeld /\ ChecksStand /\ TapsAreDone /\ ChallengeHonoured

-----------------------------------------------------------------------------
(* What a debit's steps come to.                                           *)

Beside(d) == UNCHANGED <<chip, ack, crossed, overtaken>>

\* Whatever stops the transaction, it leaves nothing.
Aborts(d) == InFlight(d) /\ Abort(d) /\ Beside(d)

Claims(d) ==
  /\ debit[d].at = "sent" /\ NonceFree(debit[d].nonce)
  /\ challenge[debit[d].nonce].state = "open"
  /\ debit' = [debit EXCEPT ![d].at = "claimed", ![d].granted = challenge[debit[d].nonce].granted]
  /\ UNCHANGED <<rows, wrongs>> /\ Beside(d)

Reads(d) ==
  /\ debit[d].at = "claimed" /\ Usable(card)
  /\ \E at \in {"verified", "mismatched"} :
       /\ at = "verified" => Knows(card, debit[d].token)
       /\ debit' = [debit EXCEPT ![d].at = at, ![d].row = card]
  /\ UNCHANGED <<rows, wrongs>> /\ Beside(d)

Moves(d, from, to) ==
  /\ debit[d].at = from /\ Goto(d, to)
  /\ UNCHANGED <<rows, wrongs>> /\ Beside(d)

Passes(d) ==
  /\ TierIn(d) = "pin" => debit[d].right
  /\ TierIn(d) = "step_up" => debit[d].granted
  /\ Moves(d, "verified", "known")

Weighs(d) ==
  /\ debit[d].amount = challenge[debit[d].nonce].amount
  /\ debit[d].amount <= Daily - Spent
  /\ Moves(d, "known", "weighed")

Charges(d) ==
  /\ balance >= debit[d].amount /\ AccountFree(d)
  /\ Moves(d, "weighed", "charged")

\* A refusal that commits: the challenge is burned, the card may change.
Refuses(d) ==
  /\ InTx(d) /\ End(d) /\ Burn(d)
  /\ card' \in Row /\ wrongs' \in Nat
  /\ UNCHANGED <<taps, balance>> /\ Beside(d)

\* The fields of a debit in its transaction.
LEMMA DebitType ==
  ASSUME Inv, NEW d \in Request, debit[d].at \notin {"idle", "refused"}
  PROVE  /\ debit[d] \in Active
         /\ debit[d].nonce \in Challenges /\ debit[d].amount \in Amount
         /\ debit[d].amount \in Nat \ {0} /\ debit[d].row \in Row /\ debit[d].token \in Token
         /\ challenge[debit[d].nonce].amount \in Amount
         /\ TierIn(d) \in {"none", "pin", "step_up"}
<1>1. debit[d] \in Active
  BY DEF Inv, DebitsAreTyped, Ended
<1>2. /\ debit[d].nonce \in Challenges /\ debit[d].amount \in Amount
      /\ debit[d].row \in Row /\ debit[d].token \in Token
  BY <1>1 DEF Active
<1>3. challenge[debit[d].nonce].amount \in Amount
  BY <1>2 DEF Inv, TypeOK
<1> QED
  BY <1>1, <1>2, <1>3, CardAssumption DEF TierIn

\* Rows stay rows, however a debit writes them.
LEMMA RowsStay ==
  ASSUME Inv, NEW d \in Request, InTx(d)
  PROVE  /\ Answered(d, card) \in Row
         /\ debit[d].at \in HasRead => /\ WrongPIN(debit[d].row) \in Row
                                       /\ WrongToken(debit[d].row) \in Row
         /\ debit[d].at = "charged" => Answered(d, Rotated(d, debit[d].row)) \in Row
<1> DEFINE read == debit[d].row
           kept == IF debit[d].token = read.current THEN read.current ELSE read.pending
<1>1. card \in Row /\ read \in Row /\ debit[d].token \in Token /\ PINAttempts \in Nat \ {0}
  BY DebitType, CardAssumption DEF Inv, TypeOK, InTx
<1>2. Answered(d, card) \in Row
  BY <1>1 DEF Answered, Row
<1>3. read.left \in 0..PINAttempts /\ read.mismatches \in Nat
  BY <1>1 DEF Row
<1>4. \A row \in Row : Locked(row) \in Row
  BY DEF Row, Locked
<1>5. WrongPIN(read) \in Row
  <2> DEFINE left == IF read.left > 0 THEN read.left - 1 ELSE 0
             row == [card EXCEPT !.left = left]
  <2>1. left \in 0..PINAttempts
    BY <1>1, <1>3
  <2>2. row \in Row
    BY <1>1, <2>1 DEF Row
  <2> QED
    BY <1>4, <2>2 DEF WrongPIN
<1>6. WrongToken(read) \in Row
  <2> DEFINE row == [card EXCEPT !.mismatches = read.mismatches + 1]
  <2>1. row \in Row
    BY <1>1, <1>3 DEF Row
  <2> QED
    BY <1>4, <2>1 DEF WrongToken
<1>7. ASSUME debit[d].at = "charged"
      PROVE  Answered(d, Rotated(d, read)) \in Row
  <2>1. kept \in Token
    BY <1>1, <1>7 DEF Inv, TokensWereKnown, Knows, HasRead, Row
  <2>2. d \in Token
    BY DEF Token
  <2>3. Rotated(d, read) \in Row
    BY <1>1, <2>1, <2>2 DEF Rotated, Row
  <2> QED
    BY <1>1, <2>3 DEF Answered, Row
<1> QED
  BY <1>2, <1>5, <1>6, <1>7

\* Each step of a debit is one of these.
LEMMA StepIs ==
  ASSUME Inv, NEW d \in Request, Step(d) \/ Break(d)
  PROVE  \/ Aborts(d) \/ Claims(d) \/ Reads(d) \/ Passes(d) \/ Weighs(d) \/ Charges(d)
         \/ Refuses(d) \/ Commit(d)
<1>1. CASE ClaimNonce(d)
  BY <1>1 DEF ClaimNonce, Aborts, Abort, Claims, Beside, rows, history, InFlight
<1>2. CASE LoadCard(d)
  <2>1. CASE ~Usable(card) \/ JustCharged(debit[d].amount)
    BY <1>2, <2>1 DEF LoadCard, Aborts, Beside, InFlight
  <2>2. CASE ~(~Usable(card) \/ JustCharged(debit[d].amount))
    BY <1>2, <2>2 DEF LoadCard, Reads, Beside
  <2> QED
    BY <2>1, <2>2
<1>3. CASE RefuseToken(d)
  <2>1. InTx(d) /\ debit[d].at \in HasRead
    BY <1>3 DEF RefuseToken, InTx, HasRead
  <2>2. WrongToken(debit[d].row) \in Row /\ wrongs \in Nat
    BY <2>1, RowsStay DEF Inv, TypeOK
  <2> QED
    BY <1>3, <2>1, <2>2 DEF RefuseToken, Refuses, Beside, history
<1>4. CASE SatisfyTier(d)
  BY <1>4 DEF SatisfyTier, Passes, Moves, Aborts, Beside, InFlight
<1>5. CASE RefusePIN(d)
  <2>1. InTx(d) /\ debit[d].at \in HasRead
    BY <1>5 DEF RefusePIN, InTx, HasRead
  <2>2. WrongPIN(debit[d].row) \in Row /\ wrongs + 1 \in Nat
    BY <2>1, RowsStay DEF Inv, TypeOK
  <2> QED
    BY <1>5, <2>1, <2>2 DEF RefusePIN, Refuses, Beside
<1>6. ASSUME Refuse(d), debit[d].at \in {"known", "weighed"}, Beside(d)
      PROVE  Refuses(d)
  <2>1. InTx(d)
    BY <1>6 DEF InTx
  <2>2. Answered(d, card) \in Row /\ wrongs' \in Nat
    BY <1>6, <2>1, RowsStay DEF Inv, TypeOK, Refuse
  <2> QED
    BY <1>6, <2>1, <2>2 DEF Refuse, Refuses
<1>7. CASE CheckLimit(d)
  BY <1>6, <1>7 DEF CheckLimit, Weighs, Moves, Beside
<1>8. CASE Charge(d)
  BY <1>6, <1>8 DEF Charge, Charges, Moves, Beside
<1>9. CASE DeadlockVictim(d)
  BY <1>9 DEF DeadlockVictim, Deadlocked, WaitsFor, Aborts, Beside, InFlight
<1>10. CASE Break(d)
  BY <1>10 DEF Break, InTx, Aborts, Beside, InFlight
<1> QED
  BY <1>1, <1>2, <1>3, <1>4, <1>5, <1>7, <1>8, <1>9, <1>10 DEF Step

-----------------------------------------------------------------------------
(* Types.                                                                  *)

\* The typing of everything but the debits.
RowsAreTyped ==
  /\ card \in Row /\ chip \in Token
  /\ challenge \in [Challenges -> [state : {"none", "open", "used", "expired"},
                                   amount : Amount, granted : BOOLEAN]]
  /\ taps \in [Request -> {"none", "recent", "older", "reversed"}]
  /\ ack \in [Request -> {"none", "held", "wrote", "failed", "over"}]
  /\ balance \in Nat
  /\ wrongs \in Nat /\ crossed \in BOOLEAN /\ overtaken \subseteq Request
  /\ faults \in 0..MaxFaults

\* The two typings make the type invariant of the next state.
LEMMA TypesMake ==
  ASSUME RowsAreTyped', DebitsAreTyped'
  PROVE  TypeOK'
<1>1. ASSUME NEW d \in Request
      PROVE  /\ debit'[d].at \in At
             /\ debit'[d].at \notin {"idle", "refused"} =>
                  /\ debit'[d].nonce \in Challenges /\ debit'[d].amount \in Amount
                  /\ debit'[d].right \in BOOLEAN /\ debit'[d].token \in Token
                  /\ debit'[d].granted \in BOOLEAN /\ debit'[d].row \in Row
  <2>1. debit'[d] \in Active \cup Ended
    BY DEF DebitsAreTyped
  <2> QED
    BY <2>1 DEF Active, Ended, At
<1> QED
  BY <1>1 DEF RowsAreTyped, TypeOK

\* Faults stay within their bound.
LEMMA FaultsStay ==
  ASSUME faults \in 0..MaxFaults, Fault
  PROVE  faults' \in 0..MaxFaults
BY CardAssumption DEF Fault

\* A debit's own step leaves it a debit, and everybody else's as it was.
LEMMA DebitStep ==
  ASSUME Inv, NEW d \in Request, Step(d) \/ Break(d)
  PROVE  /\ DebitsAreTyped'
         /\ \A e \in Request \ {d} : debit'[e] = debit[e]
         /\ UNCHANGED <<chip, crossed>>
<1> DEFINE Becomes(new) == new \in Active \cup Ended /\ debit' = [debit EXCEPT ![d] = new]
<1>0. debit \in [Request -> Active \cup Ended]
  BY DEF Inv, DebitsAreTyped
<1>1. ASSUME NEW new, Becomes(new)
      PROVE  DebitsAreTyped' /\ \A e \in Request \ {d} : debit'[e] = debit[e]
  BY <1>0, <1>1 DEF DebitsAreTyped
<1>2. ASSUME End(d)
      PROVE  DebitsAreTyped' /\ \A e \in Request \ {d} : debit'[e] = debit[e]
  <2>1. Becomes([at |-> "refused"])
    BY <1>2 DEF End, Ended
  <2> QED
    BY <1>1, <2>1
<1>3. ASSUME InFlight(d) PROVE debit[d] \in Active /\ card \in Row /\ NewRow \in Row /\ Blank \in Token
  <2>1. debit[d] \in Active
    BY <1>3, DebitType DEF InFlight
  <2>2. NewRow \in Row /\ Blank \in Token
    BY CardAssumption DEF NewRow, Row, Token
  <2> QED
    BY <2>1, <2>2 DEF Inv, TypeOK
<1>4. ASSUME NEW at \in At \ {"idle", "refused"}, InFlight(d), Goto(d, at)
      PROVE  Becomes([debit[d] EXCEPT !.at = at])
  <2>1. [debit[d] EXCEPT !.at = at] \in Active
    BY <1>3, <1>4 DEF Active
  <2> QED
    BY <1>0, <1>4, <2>1 DEF Goto
<1>5. CASE Claims(d)
  <2> DEFINE new == [debit[d] EXCEPT !.at = "claimed", !.granted = challenge[debit[d].nonce].granted]
  <2>1. debit[d] \in Active
    BY <1>3, <1>5 DEF Claims, InFlight
  <2>2. challenge[debit[d].nonce].granted \in BOOLEAN
    BY <2>1 DEF Active, Inv, TypeOK
  <2>3. new \in Active
    BY <2>1, <2>2 DEF Active, At
  <2>4. debit' = [debit EXCEPT ![d] = new]
    BY <1>0, <1>5 DEF Claims
  <2> QED
    BY <1>1, <1>5, <2>3, <2>4 DEF Claims, Beside
<1>6. CASE Reads(d)
  <2> PICK at \in {"verified", "mismatched"} : debit' = [debit EXCEPT ![d].at = at, ![d].row = card]
    BY <1>6 DEF Reads
  <2> DEFINE new == [debit[d] EXCEPT !.at = at, !.row = card]
  <2>1. debit[d] \in Active /\ card \in Row
    BY <1>3, <1>6 DEF Reads, InFlight
  <2>3. new \in Active
    BY <2>1 DEF Active, At
  <2>4. debit' = [debit EXCEPT ![d] = new]
    BY <1>0
  <2> QED
    BY <1>1, <1>6, <2>3, <2>4 DEF Reads, Beside
<1>7. CASE Passes(d) \/ Weighs(d) \/ Charges(d)
  <2> PICK from \in {"verified", "known", "weighed"}, to \in {"known", "weighed", "charged"} :
        Moves(d, from, to)
    BY <1>7 DEF Passes, Weighs, Charges
  <2>1. InFlight(d)
    BY DEF Moves, InFlight
  <2> QED
    BY <1>1, <1>4, <2>1 DEF Moves, At, Beside
<1>8. CASE Commit(d)
  <2> DEFINE new == [debit[d] EXCEPT !.at = "done", !.token = Blank, !.granted = FALSE, !.row = NewRow]
  <2>1. debit[d] \in Active /\ NewRow \in Row /\ Blank \in Token
    BY <1>3, <1>8 DEF Commit, InFlight
  <2>3. new \in Active
    BY <2>1 DEF Active, At
  <2>4. debit' = [debit EXCEPT ![d] = new]
    BY <1>0, <1>8 DEF Commit
  <2> QED
    BY <1>1, <1>8, <2>3, <2>4 DEF Commit
<1> QED
  BY StepIs, <1>1, <1>2, <1>5, <1>6, <1>7, <1>8 DEF Aborts, Abort, Refuses, Beside

\* The other rows keep their types under a debit's step.
LEMMA RowsStep ==
  ASSUME Inv, RowsAreTyped, NEW d \in Request, Step(d) \/ Break(d)
  PROVE  RowsAreTyped'
<1>1. faults' \in 0..MaxFaults
  BY FaultsStay DEF RowsAreTyped, Step, Break, ClaimNonce, LoadCard, RefuseToken, SatisfyTier,
     RefusePIN, CheckLimit, Charge, Commit, DeadlockVictim
<1>2. ASSUME Burn(d), InFlight(d)
      PROVE  challenge' \in [Challenges -> [state : {"none", "open", "used", "expired"},
                                            amount : Amount, granted : BOOLEAN]]
  BY <1>2, DebitType DEF RowsAreTyped, Burn, InFlight
<1>3. CASE \/ Aborts(d) \/ Claims(d) \/ Reads(d) \/ Passes(d) \/ Weighs(d) \/ Charges(d)
  BY <1>1, <1>3 DEF RowsAreTyped, Aborts, Abort, Claims, Reads, Passes, Weighs, Charges, Moves,
                    Beside, rows
<1>4. CASE Refuses(d)
  <2>1. InFlight(d)
    BY <1>4 DEF Refuses, InTx, InFlight
  <2> QED
    BY <1>1, <1>2, <1>4, <2>1 DEF RowsAreTyped, Refuses, Beside
<1>5. CASE Commit(d)
  <2>1. InFlight(d) /\ InTx(d) /\ debit[d].at = "charged"
    BY <1>5 DEF Commit, InTx, InFlight
  <2>2. card' \in Row
    BY <1>5, <2>1, RowsStay DEF Commit
  <2>3. balance' \in Nat
    <3>1. debit[d].amount \in Nat /\ balance \in Nat /\ balance >= debit[d].amount
      BY <2>1, DebitType DEF Inv, AccountHeld, RowsAreTyped
    <3> QED
      BY <1>5, <3>1 DEF Commit
  <2>4. /\ taps' \in [Request -> {"none", "recent", "older", "reversed"}]
        /\ ack' \in [Request -> {"none", "held", "wrote", "failed", "over"}]
        /\ wrongs' \in Nat /\ overtaken' \subseteq Request /\ UNCHANGED <<chip, crossed>>
    BY <1>5 DEF Commit, RowsAreTyped
  <2> QED
    BY <1>1, <1>2, <1>5, <2>1, <2>2, <2>3, <2>4 DEF RowsAreTyped, Commit
<1> QED
  BY StepIs, <1>3, <1>4, <1>5

\* A debit that arrives is typed.
LEMMA PresentType ==
  ASSUME Inv, NEW d \in Request, NEW n \in Challenges, NEW a \in Amount, NEW right \in BOOLEAN,
         Present(d, n, a, right)
  PROVE  DebitsAreTyped' /\ crossed' \in BOOLEAN
<1> DEFINE new == [at |-> "sent", nonce |-> n, amount |-> a, right |-> right, token |-> chip,
                   granted |-> FALSE, row |-> NewRow]
<1>1. NewRow \in Row /\ chip \in Token
  BY CardAssumption DEF NewRow, Row, Token, Inv, TypeOK
<1>2. new \in Active
  BY <1>1 DEF Active, At
<1>3. crossed' \in BOOLEAN
  BY DEF Present
<1> QED
  BY <1>2, <1>3 DEF Present, Inv, DebitsAreTyped

\* So are the rows when others write them.
LEMMA OtherRows ==
  ASSUME Inv, RowsAreTyped, Next, UNCHANGED debit
  PROVE  RowsAreTyped' \/ \E d \in Request : Step(d) \/ Break(d)
<1>1. ASSUME NEW n \in Challenges, (\E a \in Amount : Ask(n, a)) \/ Approve(n) \/ Expire(n)
      PROVE  RowsAreTyped'
  <2>1. challenge' \in [Challenges -> [state : {"none", "open", "used", "expired"},
                                       amount : Amount, granted : BOOLEAN]]
    <3>1. ASSUME NEW a \in Amount, Ask(n, a)
          PROVE  [state |-> "open", amount |-> a, granted |-> FALSE]
                   \in [state : {"none", "open", "used", "expired"}, amount : Amount, granted : BOOLEAN]
      OBVIOUS
    <3>2. CASE \E a \in Amount : Ask(n, a)
      BY <3>1, <3>2 DEF RowsAreTyped, Ask
    <3>3. CASE Approve(n) \/ Expire(n)
      BY <3>3 DEF RowsAreTyped, Approve, Expire
    <3> QED
      BY <1>1, <3>2, <3>3
  <2> QED
    BY <1>1, <2>1 DEF RowsAreTyped, Ask, Approve, Expire, history
<1>2. ASSUME NEW d \in Request, Till(d) PROVE RowsAreTyped'
  <2>1. faults' \in 0..MaxFaults
    BY <1>2, FaultsStay DEF RowsAreTyped, Till, WriteToken, WriteFails, Forgo, AckWritten, AckLost,
       AckFailed
  <2>2. ack' \in [Request -> {"none", "held", "wrote", "failed", "over"}]
    BY <1>2 DEF RowsAreTyped, Till, WriteToken, WriteFails, Forgo, AckWritten, AckLost, AckFailed
  <2>3. chip' \in Token /\ crossed' \in BOOLEAN
    BY <1>2 DEF RowsAreTyped, Till, WriteToken, WriteFails, Forgo, AckWritten, AckLost, AckFailed,
       Token, history
  <2>4. card' \in Row
    BY <1>2 DEF RowsAreTyped, Till, WriteToken, WriteFails, Forgo, AckWritten, AckLost, AckFailed,
       Row, rows
  <2>5. UNCHANGED <<challenge, taps, balance, wrongs, overtaken>>
    BY <1>2 DEF Till, WriteToken, WriteFails, Forgo, AckWritten, AckLost, AckFailed, rows, history
  <2> QED
    BY <2>1, <2>2, <2>3, <2>4, <2>5 DEF RowsAreTyped
<1>3. ASSUME NEW d \in Request, Reverse(d) PROVE RowsAreTyped'
  <2>1. debit[d].amount \in Nat
    <3>1. debit[d].at = "done"
      BY <1>3 DEF Inv, TapsAreDone, Reverse
    <3> QED
      BY <3>1, DebitType
  <2>2. balance' \in Nat
    BY <1>3, <2>1 DEF Reverse, RowsAreTyped
  <2> QED
    BY <1>3, <2>2 DEF Reverse, RowsAreTyped, history
<1>4. ASSUME NEW d \in Request, RepeatRunsOut(d) PROVE RowsAreTyped'
  BY <1>4 DEF RepeatRunsOut, RowsAreTyped, history
<1>5. CASE Revoke
  BY <1>5 DEF Revoke, RowsAreTyped, Row
<1>6. CASE LockRunsOut
  BY <1>6 DEF LockRunsOut, RowsAreTyped, Row, history
<1>7. ASSUME NEW d \in Request, NEW n \in Challenges, NEW a \in Amount, NEW right \in BOOLEAN,
             Present(d, n, a, right)
      PROVE  FALSE
  <2>1. debit'[d].at = "sent"
    BY <1>7 DEF Present, Inv, DebitsAreTyped
  <2> QED
    BY <1>7, <2>1 DEF Present
<1> QED
  BY <1>1, <1>2, <1>3, <1>4, <1>5, <1>6, <1>7 DEF Next

\* Every step leaves rows and debits typed.
LEMMA StepType ==
  ASSUME Inv, [Next]_vars
  PROVE  TypeOK' /\ DebitsAreTyped'
<1>0. RowsAreTyped
  BY DEF Inv, TypeOK, RowsAreTyped
<1>1. CASE UNCHANGED vars
  BY <1>0, <1>1 DEF vars, rows, history, Inv, DebitsAreTyped, TypeOK
<1>2. ASSUME NEW d \in Request, Step(d) \/ Break(d)
      PROVE  RowsAreTyped' /\ DebitsAreTyped'
  BY <1>0, <1>2, DebitStep, RowsStep
<1>3. ASSUME NEW d \in Request, NEW n \in Challenges, NEW a \in Amount, NEW right \in BOOLEAN,
             Present(d, n, a, right)
      PROVE  RowsAreTyped' /\ DebitsAreTyped'
  <2>1. DebitsAreTyped' /\ crossed' \in BOOLEAN
    BY <1>3, PresentType
  <2> QED
    BY <1>0, <1>3, <2>1 DEF Present, RowsAreTyped, rows
<1>4. ASSUME UNCHANGED debit, Next
      PROVE  RowsAreTyped' /\ DebitsAreTyped'
  BY <1>0, <1>2, <1>4, OtherRows DEF Inv, DebitsAreTyped
<1>5. ASSUME Next PROVE RowsAreTyped' /\ DebitsAreTyped'
  BY <1>2, <1>3, <1>4, <1>5 DEF Next, Ask, Approve, Expire, Till, WriteToken, WriteFails, Forgo,
     AckWritten, AckLost, AckFailed, Reverse, RepeatRunsOut, Revoke, LockRunsOut
<1> QED
  BY <1>1, <1>5, TypesMake

-----------------------------------------------------------------------------
(* What was checked still stands.                                          *)

Standing ==
  /\ TokensWereKnown /\ AccountHeld /\ NoncesHeld /\ ChecksStand /\ TapsAreDone
  /\ ChallengeHonoured

\* Writing the card or the till disturbs none of it.
LEMMA CardOnly ==
  ASSUME Inv, UNCHANGED <<debit, challenge, taps, balance>>
  PROVE  Standing'
BY DEF Inv, Standing, TokensWereKnown, AccountHeld, NoncesHeld, ChecksStand, TapsAreDone,
       ChallengeHonoured, InTx, TierIn

\* Nor does writing a challenge that nobody holds and nobody was charged.
LEMMA ChallengeOnly ==
  ASSUME Inv, NEW n \in Challenges, challenge[n].state # "used", NonceFree(n),
         UNCHANGED <<debit, taps, balance>>,
         \A m \in Challenges \ {n} : challenge'[m] = challenge[m]
  PROVE  Standing'
<1>1. \A d \in Request : InTx(d) => challenge'[debit[d].nonce] = challenge[debit[d].nonce]
  <2> SUFFICES ASSUME NEW d \in Request, InTx(d)
               PROVE  challenge'[debit[d].nonce] = challenge[debit[d].nonce]
    OBVIOUS
  <2>1. debit[d].nonce \in Challenges
    BY DebitType DEF InTx
  <2> QED
    BY <2>1 DEF NonceFree, HoldsNonce
<1>2. \A d \in Request : taps[d] # "none" => challenge'[debit[d].nonce] = challenge[debit[d].nonce]
  <2> SUFFICES ASSUME NEW d \in Request, taps[d] # "none"
               PROVE  challenge'[debit[d].nonce] = challenge[debit[d].nonce]
    OBVIOUS
  <2>1. debit[d].at = "done" /\ challenge[debit[d].nonce].state = "used"
    BY DEF Inv, TapsAreDone, ChallengeHonoured
  <2>2. debit[d].nonce \in Challenges
    BY <2>1, DebitType
  <2> QED
    BY <2>1, <2>2
<1>3. TokensWereKnown' /\ AccountHeld' /\ TapsAreDone'
  BY DEF Inv, TokensWereKnown, AccountHeld, TapsAreDone
<1>4. NoncesHeld'
  BY <1>1 DEF Inv, NoncesHeld, InTx
<1>5. ChecksStand'
  BY <1>1 DEF Inv, ChecksStand, InTx, TierIn
<1>6. ChallengeHonoured'
  BY <1>2 DEF Inv, ChallengeHonoured
<1> QED
  BY <1>3, <1>4, <1>5, <1>6 DEF Standing

\* Nor does a tap that is reversed or grows old.
LEMMA TapOnly ==
  ASSUME Inv, UNCHANGED <<debit, challenge>>,
         \A d \in Request : taps'[d] # "none" => taps[d] # "none",
         (\A d \in Request : debit[d].at # "charged") \/ UNCHANGED balance
  PROVE  Standing'
<1>1. AccountHeld'
  BY DEF Inv, AccountHeld
<1>2. TokensWereKnown' /\ NoncesHeld' /\ ChecksStand'
  BY DEF Inv, TokensWereKnown, NoncesHeld, ChecksStand, InTx, TierIn
<1>3. TapsAreDone' /\ ChallengeHonoured'
  BY DEF Inv, TapsAreDone, ChallengeHonoured
<1> QED
  BY <1>1, <1>2, <1>3 DEF Standing

\* Nor a debit that arrives.
LEMMA PresentOnly ==
  ASSUME Inv, NEW d \in Request, NEW n \in Challenges, NEW a \in Amount, NEW right \in BOOLEAN,
         Present(d, n, a, right)
  PROVE  Standing'
<1>1. /\ debit'[d].at = "sent" /\ debit[d].at = "idle" /\ taps[d] = "none"
      /\ \A e \in Request \ {d} : debit'[e] = debit[e]
      /\ UNCHANGED <<challenge, taps, balance>>
  BY DEF Present, Inv, DebitsAreTyped, rows, TapsAreDone
<1>2. TokensWereKnown' /\ AccountHeld' /\ TapsAreDone'
  BY <1>1 DEF Inv, TokensWereKnown, AccountHeld, TapsAreDone, HasRead
<1>3. NoncesHeld'
  BY <1>1 DEF Inv, NoncesHeld, InTx
<1>4. ChecksStand'
  BY <1>1 DEF Inv, ChecksStand, TierIn
<1>5. ChallengeHonoured'
  BY <1>1 DEF Inv, ChallengeHonoured
<1> QED
  BY <1>2, <1>3, <1>4, <1>5 DEF Standing

\* A debit that ends lets go of what it held, with or without its challenge.
LEMMA EndOnly ==
  ASSUME Inv, NEW d \in Request, debit[d].at \notin {"idle", "done", "refused"}, End(d),
         \/ UNCHANGED challenge
         \/ InTx(d) /\ Burn(d),
         UNCHANGED <<taps, balance>>
  PROVE  Standing'
<1>1. /\ debit'[d] = [at |-> "refused"] /\ taps[d] = "none"
      /\ \A e \in Request \ {d} : debit'[e] = debit[e]
  BY DEF End, Inv, DebitsAreTyped, TapsAreDone
<1>2. \A e \in Request \ {d} : InTx(e) => challenge'[debit[e].nonce] = challenge[debit[e].nonce]
  <2> SUFFICES ASSUME NEW e \in Request \ {d}, InTx(e), InTx(d), Burn(d)
               PROVE  challenge'[debit[e].nonce] = challenge[debit[e].nonce]
    OBVIOUS
  <2>1. debit[e].nonce \in Challenges
    BY DebitType DEF InTx
  <2>2. debit[e].nonce # debit[d].nonce
    BY DEF Inv, NoncesHeld
  <2> QED
    BY <2>1, <2>2 DEF Burn, Inv, TypeOK
<1>3. \A e \in Request : taps[e] # "none" => challenge'[debit[e].nonce] = challenge[debit[e].nonce]
  <2> SUFFICES ASSUME NEW e \in Request, taps[e] # "none", InTx(d), Burn(d)
               PROVE  challenge'[debit[e].nonce] = challenge[debit[e].nonce]
    OBVIOUS
  <2>1. debit[e].at = "done" /\ challenge[debit[e].nonce].state = "used"
    BY DEF Inv, TapsAreDone, ChallengeHonoured
  <2>2. debit[e].nonce \in Challenges /\ challenge[debit[d].nonce].state = "open"
    BY <2>1, DebitType DEF Inv, NoncesHeld
  <2> QED
    BY <2>1, <2>2 DEF Burn, Inv, TypeOK
<1>4. TokensWereKnown' /\ AccountHeld' /\ TapsAreDone'
  BY <1>1 DEF Inv, TokensWereKnown, AccountHeld, TapsAreDone, HasRead
<1>5. NoncesHeld'
  BY <1>1, <1>2 DEF Inv, NoncesHeld, InTx
<1>6. ChecksStand'
  BY <1>1, <1>2 DEF Inv, ChecksStand, InTx, TierIn
<1>7. ChallengeHonoured'
  BY <1>1, <1>3 DEF Inv, ChallengeHonoured
<1> QED
  BY <1>4, <1>5, <1>6, <1>7 DEF Standing

\* A debit takes an open challenge that nobody holds.
LEMMA ClaimsOnly ==
  ASSUME Inv, NEW d \in Request, Claims(d)
  PROVE  Standing'
<1>1. /\ debit'[d].at = "claimed" /\ debit'[d].nonce = debit[d].nonce
      /\ debit'[d].granted = challenge[debit[d].nonce].granted
      /\ \A e \in Request \ {d} : debit'[e] = debit[e]
      /\ UNCHANGED <<challenge, taps, balance>> /\ debit[d].at = "sent" /\ taps[d] = "none"
      /\ challenge[debit[d].nonce].state = "open"
  <2>1. debit[d] \in Active
    BY DebitType DEF Claims
  <2> QED
    BY <2>1 DEF Claims, Inv, DebitsAreTyped, TapsAreDone, rows, Active
<1>2. TokensWereKnown' /\ AccountHeld' /\ TapsAreDone'
  BY <1>1 DEF Inv, TokensWereKnown, AccountHeld, TapsAreDone, HasRead
<1>3. \A e \in Request : InTx(e) => debit[e].nonce # debit[d].nonce
  BY DEF Claims, NonceFree, HoldsNonce
<1>4. NoncesHeld'
  BY <1>1, <1>3 DEF Inv, NoncesHeld, InTx
<1>5. ChecksStand'
  BY <1>1 DEF Inv, ChecksStand, TierIn
<1>6. ChallengeHonoured'
  BY <1>1 DEF Inv, ChallengeHonoured
<1> QED
  BY <1>2, <1>4, <1>5, <1>6 DEF Standing

\* A debit goes on, having read the card or passed a check.
LEMMA MovesOnly ==
  ASSUME Inv, NEW d \in Request, Reads(d) \/ Passes(d) \/ Weighs(d) \/ Charges(d)
  PROVE  Standing'
<1>1. /\ InTx(d) /\ debit'[d].at \in HasRead
      /\ debit'[d].nonce = debit[d].nonce /\ debit'[d].amount = debit[d].amount
      /\ debit'[d].right = debit[d].right /\ debit'[d].granted = debit[d].granted
      /\ debit'[d].token = debit[d].token
      /\ \A e \in Request \ {d} : debit'[e] = debit[e]
      /\ UNCHANGED <<challenge, taps, balance>> /\ taps[d] = "none"
  <2>1. debit[d] \in Active /\ debit \in [Request -> Active \cup Ended]
    BY DebitType DEF Reads, Passes, Weighs, Charges, Moves, Inv, DebitsAreTyped
  <2>2. CASE Reads(d)
    BY <2>1, <2>2 DEF Reads, Inv, TapsAreDone, rows, Active, InTx, HasRead
  <2>3. CASE Passes(d) \/ Weighs(d) \/ Charges(d)
    BY <2>1, <2>3 DEF Passes, Weighs, Charges, Moves, Goto, Inv, TapsAreDone, rows, Active, InTx,
                      HasRead
  <2> QED
    BY <2>2, <2>3
<1>2. \/ debit'[d].at \in {"verified", "mismatched"}
      \/ Passes(d) /\ debit[d].at = "verified" /\ debit'[d].at = "known"
      \/ Weighs(d) /\ debit[d].at = "known" /\ debit'[d].at = "weighed"
      \/ Charges(d) /\ debit[d].at = "weighed" /\ debit'[d].at = "charged"
  <2>1. debit[d] \in Active /\ debit \in [Request -> Active \cup Ended]
    BY DebitType DEF Reads, Passes, Weighs, Charges, Moves, Inv, DebitsAreTyped
  <2>2. CASE Reads(d)
    BY <2>1, <2>2 DEF Reads, Active
  <2>3. CASE Passes(d) \/ Weighs(d) \/ Charges(d)
    BY <2>1, <2>3 DEF Passes, Weighs, Charges, Moves, Goto, Active
  <2> QED
    BY <2>2, <2>3
<1>7. TokensWereKnown'
  <2>1. debit'[d].at \in HasRead \ {"mismatched"} => Knows(debit'[d].row, debit'[d].token)
    <3>1. debit[d] \in Active /\ debit \in [Request -> Active \cup Ended]
      BY DebitType DEF Reads, Passes, Weighs, Charges, Moves, Inv, DebitsAreTyped
    <3>2. CASE Reads(d)
      BY <1>1, <3>1, <3>2 DEF Reads, Knows, Active, HasRead
    <3>3. CASE Passes(d) \/ Weighs(d) \/ Charges(d)
      <4>1. debit[d].at \in HasRead \ {"mismatched"} /\ debit'[d].row = debit[d].row
        BY <3>1, <3>3 DEF Passes, Weighs, Charges, Moves, Goto, HasRead, Active
      <4> QED
        BY <1>1, <4>1 DEF Inv, TokensWereKnown
    <3> QED
      BY <3>2, <3>3
  <2> QED
    BY <1>1, <2>1 DEF Inv, TokensWereKnown
<1>3. AccountHeld'
  <2>1. debit'[d].at = "charged" =>
          /\ balance >= debit[d].amount
          /\ \A e \in Request \ {d} : debit[e].at # "charged"
    BY <1>2 DEF Charges, AccountFree, HoldsAccount
  <2> QED
    BY <1>1, <2>1 DEF Inv, AccountHeld
<1>4. NoncesHeld'
  BY <1>1 DEF Inv, NoncesHeld, InTx, HasRead
<1>5. ChecksStand'
  <2>1. debit'[d].at \in {"known", "weighed", "charged"} =>
          /\ TierIn(d) = "pin" => debit[d].right
          /\ TierIn(d) = "step_up" => debit[d].granted
    BY <1>2 DEF Passes, Inv, ChecksStand
  <2>2. debit'[d].at \in {"weighed", "charged"} =>
          debit[d].amount = challenge[debit[d].nonce].amount
    BY <1>2 DEF Weighs, Inv, ChecksStand
  <2> QED
    BY <1>1, <2>1, <2>2 DEF Inv, ChecksStand, TierIn
<1>6. TapsAreDone' /\ ChallengeHonoured'
  BY <1>1 DEF Inv, TapsAreDone, ChallengeHonoured
<1> QED
  BY <1>3, <1>4, <1>5, <1>6, <1>7 DEF Standing

\* The charge: its challenge was held open, and is used with it.
LEMMA CommitOnly ==
  ASSUME Inv, NEW d \in Request, Commit(d)
  PROVE  Standing'
<1>1. debit[d] \in Active /\ debit[d].nonce \in Challenges
  BY DebitType DEF Commit
<1>2. /\ debit[d].at = "charged" /\ debit'[d].at = "done" /\ debit'[d].nonce = debit[d].nonce
      /\ debit'[d].amount = debit[d].amount /\ debit'[d].right = debit[d].right
      /\ \A e \in Request \ {d} : debit'[e] = debit[e] /\ taps'[e] = taps[e]
      /\ taps'[d] = "recent"
  BY <1>1 DEF Commit, Inv, TypeOK, DebitsAreTyped, Active
<1>3. /\ challenge'[debit[d].nonce] = [challenge[debit[d].nonce] EXCEPT !.state = "used"]
      /\ \A n \in Challenges : n # debit[d].nonce => challenge'[n] = challenge[n]
  BY <1>1 DEF Commit, Burn, Inv, TypeOK
<1>4. \A e \in Request \ {d} : InTx(e) => /\ debit[e].nonce \in Challenges
                                          /\ debit[e].nonce # debit[d].nonce
  <2> SUFFICES ASSUME NEW e \in Request \ {d}, InTx(e)
               PROVE  debit[e].nonce \in Challenges /\ debit[e].nonce # debit[d].nonce
    OBVIOUS
  <2>1. debit[e].nonce \in Challenges /\ InTx(d)
    BY <1>2, DebitType DEF InTx
  <2> QED
    BY <2>1 DEF Inv, NoncesHeld
<1>5. \A e \in Request \ {d} : taps[e] # "none" => /\ debit[e].nonce \in Challenges
                                                   /\ debit[e].nonce # debit[d].nonce
  <2> SUFFICES ASSUME NEW e \in Request \ {d}, taps[e] # "none"
               PROVE  debit[e].nonce \in Challenges /\ debit[e].nonce # debit[d].nonce
    OBVIOUS
  <2>1. debit[e].at = "done" /\ challenge[debit[e].nonce].state = "used"
    BY DEF Inv, TapsAreDone, ChallengeHonoured
  <2>2. challenge[debit[d].nonce].state = "open"
    BY <1>2 DEF Inv, NoncesHeld, InTx
  <2> QED
    BY <2>1, <2>2, DebitType
<1>6. TokensWereKnown' /\ TapsAreDone'
  BY <1>2 DEF Inv, TokensWereKnown, TapsAreDone, HasRead
<1>7. AccountHeld'
  BY <1>2 DEF Inv, AccountHeld
<1>8. NoncesHeld'
  BY <1>2, <1>3, <1>4 DEF Inv, NoncesHeld, InTx
<1>9. ChecksStand'
  BY <1>2, <1>3, <1>4 DEF Inv, ChecksStand, InTx, TierIn
<1>10. ChallengeHonoured'
  <2>1. LET ch == challenge'[debit'[d].nonce] IN
        /\ ch.state = "used" /\ debit'[d].amount = ch.amount
        /\ TierOf[ch.amount] = "pin" => debit'[d].right
        /\ TierOf[ch.amount] = "step_up" => ch.granted
    <3>1. challenge[debit[d].nonce] \in [state : {"none", "open", "used", "expired"},
                                         amount : Amount, granted : BOOLEAN]
      BY <1>1 DEF Inv, TypeOK
    <3>2. /\ debit[d].amount = challenge[debit[d].nonce].amount
          /\ TierIn(d) = "pin" => debit[d].right
          /\ TierIn(d) = "step_up" => challenge[debit[d].nonce].granted
      BY <1>2 DEF Inv, ChecksStand, NoncesHeld, InTx
    <3> QED
      BY <1>2, <1>3, <3>1, <3>2 DEF TierIn
  <2>2. \A e \in Request \ {d} : taps'[e] # "none" => debit'[e].nonce # debit'[d].nonce
    BY <1>2, <1>5
  <2>3. ASSUME NEW e \in Request \ {d}, taps'[e] # "none"
        PROVE  LET ch == challenge'[debit'[e].nonce] IN
               /\ ch.state = "used" /\ debit'[e].amount = ch.amount
               /\ TierOf[ch.amount] = "pin" => debit'[e].right
               /\ TierOf[ch.amount] = "step_up" => ch.granted
               /\ \A f \in Request \ {d, e} : taps'[f] # "none" => debit'[f].nonce # debit'[e].nonce
    <3>1. taps[e] # "none" /\ challenge'[debit'[e].nonce] = challenge[debit[e].nonce]
      BY <1>2, <1>3, <1>5, <2>3
    <3> QED
      BY <1>2, <2>3, <3>1 DEF Inv, ChallengeHonoured
  <2> QED
    BY <2>1, <2>2, <2>3 DEF ChallengeHonoured
<1> QED
  BY <1>6, <1>7, <1>8, <1>9, <1>10 DEF Standing

\* The invariant holds initially.
LEMMA InitInv == Init => Inv
<1> SUFFICES ASSUME Init PROVE Inv
  OBVIOUS
<1>1. NewRow \in Row /\ Blank \in Token
  BY CardAssumption DEF NewRow, Row, Token
<1>2. challenge \in [Challenges -> [state : {"none", "open", "used", "expired"},
                                    amount : Amount, granted : BOOLEAN]]
  <2>1. (CHOOSE a \in Amount : TRUE) \in Amount
    BY CardAssumption
  <2> QED
    BY <2>1 DEF Init
<1>3. \A d \in Request : debit[d].at = "idle" /\ taps[d] = "none"
  BY DEF Init
<1>4. TypeOK
  <2>1. NewRow \in Row /\ Blank \in Token /\ Balance \in Nat /\ 0 \in 0..MaxFaults
    BY <1>1, CardAssumption
  <2>2. \A d \in Request : debit[d].at \in At /\ debit[d].at \in {"idle", "refused"}
    BY <1>3 DEF At
  <2>3. /\ card \in Row /\ chip \in Token /\ balance \in Nat /\ faults \in 0..MaxFaults
        /\ wrongs \in Nat /\ crossed \in BOOLEAN /\ overtaken \subseteq Request
    BY <2>1 DEF Init
  <2>4. /\ taps \in [Request -> {"none", "recent", "older", "reversed"}]
        /\ ack \in [Request -> {"none", "held", "wrote", "failed", "over"}]
    BY DEF Init
  <2> QED
    BY <1>2, <2>2, <2>3, <2>4 DEF TypeOK
<1>5. DebitsAreTyped
  BY DEF Init, DebitsAreTyped, Ended
<1> QED
  BY <1>3, <1>4, <1>5 DEF Inv, TokensWereKnown, AccountHeld, NoncesHeld, ChecksStand,
     TapsAreDone, ChallengeHonoured, InTx, HasRead

\* Every step preserves it.
LEMMA NextInv == Inv /\ [Next]_vars => Inv'
<1> SUFFICES ASSUME Inv, [Next]_vars PROVE Inv'
  OBVIOUS
<1>1. TypeOK' /\ DebitsAreTyped'
  BY StepType
<1>2. ASSUME UNCHANGED vars PROVE Standing'
  <2>1. UNCHANGED <<debit, challenge, taps, balance>>
    BY <1>2 DEF vars, rows
  <2> QED
    BY <2>1, CardOnly
<1>3. ASSUME NEW n \in Challenges, (\E a \in Amount : Ask(n, a)) \/ Approve(n) \/ Expire(n)
      PROVE  Standing'
  <2>1. challenge[n].state # "used" /\ UNCHANGED <<debit, taps, balance>>
    BY <1>3 DEF Ask, Approve, Expire
  <2>2. \A m \in Challenges \ {n} : challenge'[m] = challenge[m]
    BY <1>3 DEF Ask, Approve, Expire, Inv, TypeOK
  <2>3. NonceFree(n)
    BY <1>3 DEF Ask, Approve, Expire, NonceFree, HoldsNonce, Inv, NoncesHeld
  <2> QED
    BY <2>1, <2>2, <2>3, ChallengeOnly
<1>4. ASSUME NEW d \in Request, Step(d) \/ Break(d)
      PROVE  Standing'
  <2>1. CASE Aborts(d)
    <3>1. debit[d].at \notin {"idle", "done", "refused"} /\ End(d) /\ UNCHANGED <<challenge, taps, balance>>
      BY <2>1 DEF Aborts, Abort, InFlight, rows
    <3> QED
      BY <3>1, EndOnly
  <2>2. CASE Refuses(d)
    <3>1. debit[d].at \notin {"idle", "done", "refused"} /\ End(d) /\ UNCHANGED <<taps, balance>>
          /\ InTx(d) /\ Burn(d)
      BY <2>2 DEF Refuses, InTx
    <3> QED
      BY <3>1, EndOnly
  <2> QED
    BY <1>4, <2>1, <2>2, StepIs, ClaimsOnly, MovesOnly, CommitOnly
<1>5. ASSUME NEW d \in Request, Till(d) PROVE Standing'
  <2>1. UNCHANGED <<debit, challenge, taps, balance>>
    BY <1>5 DEF Till, WriteToken, WriteFails, Forgo, AckWritten, AckLost, AckFailed, rows
  <2> QED
    BY <2>1, CardOnly
<1>6. ASSUME NEW d \in Request, Reverse(d) \/ RepeatRunsOut(d) PROVE Standing'
  <2>1. /\ UNCHANGED <<debit, challenge>>
        /\ \A e \in Request : taps'[e] # "none" => taps[e] # "none"
        /\ (\A e \in Request : debit[e].at # "charged") \/ UNCHANGED balance
    BY <1>6 DEF Reverse, RepeatRunsOut, HoldsAccount, Inv, TypeOK
  <2> QED
    BY <2>1, TapOnly
<1>7. ASSUME Revoke \/ LockRunsOut PROVE Standing'
  <2>1. UNCHANGED <<debit, challenge, taps, balance>>
    BY <1>7 DEF Revoke, LockRunsOut
  <2> QED
    BY <2>1, CardOnly
<1>8. Standing'
  <2>1. CASE Next
    BY <1>3, <1>4, <1>5, <1>6, <1>7, <2>1, PresentOnly DEF Next
  <2> QED
    BY <1>2, <2>1
<1> QED
  BY <1>1, <1>8 DEF Inv, Standing

\* The invariant holds throughout.
LEMMA Invariance == Spec => []Inv
BY InitInv, NextInv, PTL DEF Spec

\* Rows, requests and histories are well typed, for any constants.
THEOREM TypeCorrect == Spec => []TypeOK
<1>1. Inv => TypeOK
  BY DEF Inv
<1> QED
  BY <1>1, Invariance, PTL

\* However requests repeat a challenge, at the same moment or later, it is
\* charged at most once, for its amount, and as its tier requires (Debit).
THEOREM Honoured == Spec => []ChallengeHonoured
<1>1. Inv => ChallengeHonoured
  BY DEF Inv
<1> QED
  BY <1>1, Invariance, PTL

-----------------------------------------------------------------------------
(* While nothing overlapped.                                               *)

\* What is left of the allowance, and what its end does.
Counted(row, n) ==
  /\ row.left = IF n < PINAttempts THEN PINAttempts - n ELSE 0
  /\ n >= PINAttempts => row.status \in {"locked", "revoked"}

SameTokens(row, other) == row.current = other.current /\ row.pending = other.pending

\* The card's row is as the one debit under way read it, and of the tokens it
\* names the chip holds the one that the till's part so far calls for.
Undisturbed ==
  ~crossed =>
    /\ Knows(card, chip) /\ Counted(card, wrongs)
    /\ \A d, e \in Request : InFlight(d) /\ InFlight(e) => d = e
    /\ \A d \in Request :
         /\ InFlight(d) => debit[d].token = chip
         /\ debit[d].at \in HasRead => /\ SameTokens(debit[d].row, card)
                                       /\ debit[d].row.left = card.left
                                       /\ card.status # "revoked"
         /\ ack[d] \in {"held", "failed"} /\ card.pending = d => chip = card.current
         /\ ack[d] = "wrote" /\ card.pending = d => chip = d

\* Nothing that it speaks of changes.
LEMMA Unseen ==
  ASSUME Undisturbed, UNCHANGED <<card, chip, debit, ack, wrongs, crossed>>
  PROVE  Undisturbed'
BY DEF Undisturbed, Counted, SameTokens, Knows, InFlight

\* The one debit under way ends; its tokens stay.
LEMMA EndsAlone ==
  ASSUME Inv, Undisturbed, NEW d \in Request, InFlight(d), End(d), Beside(d),
         ~crossed => SameTokens(card', card) /\ Counted(card', wrongs')
  PROVE  Undisturbed'
<1> SUFFICES ASSUME ~crossed PROVE Undisturbed'
  BY DEF Undisturbed, Beside
<1>1. debit'[d].at = "refused" /\ \A e \in Request \ {d} : debit'[e] = debit[e]
  BY DEF End, Inv, DebitsAreTyped
<1>2. \A e \in Request : debit'[e].at \in {"idle", "done", "refused"}
  BY <1>1 DEF Undisturbed, InFlight
<1>3. Knows(card', chip') /\ Counted(card', wrongs')
  BY DEF Undisturbed, Knows, SameTokens, Beside
<1>4. \A e \in Request :
        /\ ack'[e] \in {"held", "failed"} /\ card'.pending = e => chip' = card'.current
        /\ ack'[e] = "wrote" /\ card'.pending = e => chip' = e
  BY DEF Undisturbed, SameTokens, Beside
<1> QED
  BY <1>2, <1>3, <1>4 DEF Undisturbed, Knows, Counted, InFlight, HasRead

\* The one debit under way goes on; the card stays.
LEMMA GoesOnAlone ==
  ASSUME Inv, Undisturbed, NEW d \in Request, InFlight(d), Beside(d), UNCHANGED <<card, wrongs>>,
         \A e \in Request \ {d} : debit'[e] = debit[e],
         InFlight(d)', debit'[d].token = debit[d].token,
         debit'[d].at \in HasRead =>
           \/ debit'[d].row = card /\ card.status # "revoked"
           \/ debit'[d].row = debit[d].row /\ debit[d].at \in HasRead
  PROVE  Undisturbed'
<1> SUFFICES ASSUME ~crossed PROVE Undisturbed'
  BY DEF Undisturbed, Beside
<1>1. \A e, f \in Request : InFlight(e)' /\ InFlight(f)' => e = f
  BY DEF Undisturbed, InFlight
<1>2. \A e \in Request : InFlight(e)' => debit'[e].token = chip'
  BY DEF Undisturbed, InFlight, Beside
<1>3. \A e \in Request : debit'[e].at \in HasRead => /\ SameTokens(debit'[e].row, card')
                                                     /\ debit'[e].row.left = card'.left
                                                     /\ card'.status # "revoked"
  BY DEF Undisturbed, SameTokens
<1> QED
  BY <1>1, <1>2, <1>3 DEF Undisturbed, Knows, Counted, SameTokens, Beside, InFlight

\* Counting one wrong answer.
LEMMA WrongCounts ==
  ASSUME Inv, Undisturbed, ~crossed, NEW d \in Request, debit[d].at \in HasRead
  PROVE  SameTokens(WrongPIN(debit[d].row), card) /\ Counted(WrongPIN(debit[d].row), wrongs + 1)
<1> DEFINE read == debit[d].row
           left == IF read.left > 0 THEN read.left - 1 ELSE 0
           row == [card EXCEPT !.left = left]
<1>1. card \in Row /\ wrongs \in Nat /\ PINAttempts \in Nat \ {0}
  BY CardAssumption DEF Inv, TypeOK
<1>2. read.left = IF wrongs < PINAttempts THEN PINAttempts - wrongs ELSE 0
  BY DEF Undisturbed, Counted
<1>3. left = IF wrongs + 1 < PINAttempts THEN PINAttempts - (wrongs + 1) ELSE 0
  BY <1>1, <1>2
<1>7. WrongPIN(read) = IF left = 0 THEN Locked(row) ELSE row
  BY DEF WrongPIN
<1> HIDE DEF left
<1>4. left = 0 <=> wrongs + 1 >= PINAttempts
  BY <1>1, <1>3
<1>5. row.left = left /\ SameTokens(row, card)
  BY <1>1 DEF Row, SameTokens
<1>6. Locked(row).left = left /\ SameTokens(Locked(row), card) /\ Locked(row).status = "locked"
  BY <1>1 DEF Row, SameTokens, Locked
<1> HIDE DEF row
<1> QED
  BY <1>3, <1>4, <1>5, <1>6, <1>7 DEF Counted

\* Restoring the allowance.
LEMMA RightCounts ==
  ASSUME Inv, Undisturbed, ~crossed, NEW d \in Request, NEW row \in Row,
         row.left = card.left, row.status = card.status
  PROVE  /\ SameTokens(Answered(d, row), row)
         /\ Counted(Answered(d, row), IF TierIn(d) = "pin" THEN 0 ELSE wrongs)
<1>1. wrongs \in Nat /\ PINAttempts \in Nat \ {0} /\ Counted(row, wrongs)
  BY CardAssumption DEF Inv, TypeOK, Undisturbed, Counted
<1>2. CASE TierIn(d) = "pin"
  BY <1>1, <1>2 DEF Answered, Counted, SameTokens, Row
<1>3. CASE TierIn(d) # "pin"
  BY <1>1, <1>3 DEF Answered, Counted, SameTokens
<1> QED
  BY <1>2, <1>3

\* Each step of a debit.
LEMMA StepAlone ==
  ASSUME Inv, Undisturbed, NEW d \in Request, Step(d) \/ Break(d)
  PROVE  Undisturbed'
<1>1. CASE Aborts(d)
  <2>1. SameTokens(card', card) /\ UNCHANGED <<card, wrongs>>
    BY <1>1 DEF Aborts, Abort, SameTokens, rows
  <2>2. ~crossed => Counted(card', wrongs')
    BY <2>1 DEF Undisturbed
  <2> QED
    BY <1>1, <2>1, <2>2, EndsAlone DEF Aborts, Abort
<1>2. CASE Claims(d) \/ Reads(d) \/ Passes(d) \/ Weighs(d) \/ Charges(d)
  <2>1. debit[d] \in Active /\ debit \in [Request -> Active \cup Ended]
    BY <1>2, DebitType DEF Claims, Reads, Passes, Weighs, Charges, Moves, Inv, DebitsAreTyped
  <2>2. CASE Claims(d)
    <3>1. /\ debit'[d].at = "claimed" /\ debit'[d].token = debit[d].token /\ InFlight(d)
          /\ \A e \in Request \ {d} : debit'[e] = debit[e]
          /\ UNCHANGED <<card, wrongs>> /\ Beside(d)
      BY <2>1, <2>2 DEF Claims, Active, InFlight, rows
    <3> QED
      BY <3>1, GoesOnAlone DEF InFlight, HasRead
  <2>3. CASE Reads(d)
    <3>1. /\ debit'[d].at \in HasRead /\ debit'[d].token = debit[d].token /\ InFlight(d)
          /\ debit'[d].row = card /\ card.status # "revoked"
          /\ \A e \in Request \ {d} : debit'[e] = debit[e]
          /\ UNCHANGED <<card, wrongs>> /\ Beside(d)
      BY <2>1, <2>3 DEF Reads, Usable, Active, InFlight, rows, HasRead
    <3> QED
      BY <3>1, GoesOnAlone DEF InFlight, HasRead
  <2>4. CASE Passes(d) \/ Weighs(d) \/ Charges(d)
    <3>1. /\ debit'[d].at \in HasRead /\ debit'[d].token = debit[d].token /\ InFlight(d)
          /\ debit'[d].row = debit[d].row /\ debit[d].at \in HasRead
          /\ \A e \in Request \ {d} : debit'[e] = debit[e]
          /\ UNCHANGED <<card, wrongs>> /\ Beside(d)
      BY <2>1, <2>4 DEF Passes, Weighs, Charges, Moves, Goto, Active, InFlight, rows, HasRead
    <3> QED
      BY <3>1, GoesOnAlone DEF InFlight, HasRead
  <2> QED
    BY <1>2, <2>2, <2>3, <2>4
<1>3. CASE RefuseToken(d)
  <2>1. /\ InFlight(d) /\ End(d) /\ Beside(d) /\ debit[d].at \in HasRead
        /\ card' = WrongToken(debit[d].row) /\ UNCHANGED wrongs
    BY <1>3 DEF RefuseToken, InFlight, Beside, history, HasRead
  <2>2. card \in Row
    BY DEF Inv, TypeOK
  <2>3. /\ card'.left = card.left /\ SameTokens(card', card)
        /\ card'.status \in {card.status, "locked"}
    BY <2>1, <2>2 DEF WrongToken, Locked, Row, SameTokens
  <2>4. ~crossed => Counted(card', wrongs')
    BY <2>1, <2>3 DEF Undisturbed, Counted
  <2> QED
    BY <2>1, <2>3, <2>4, EndsAlone
<1>4. CASE RefusePIN(d)
  <2>1. /\ InFlight(d) /\ End(d) /\ Beside(d) /\ debit[d].at \in HasRead
        /\ card' = WrongPIN(debit[d].row) /\ wrongs' = wrongs + 1
    BY <1>4 DEF RefusePIN, InFlight, Beside, HasRead
  <2>2. ~crossed => SameTokens(card', card) /\ Counted(card', wrongs')
    BY <2>1, WrongCounts
  <2> QED
    BY <2>1, <2>2, EndsAlone
<1>5. ASSUME Refuse(d), Beside(d), InFlight(d)
      PROVE  Undisturbed'
  <2>1. End(d) /\ card' = Answered(d, card) /\ wrongs' = (IF TierIn(d) = "pin" THEN 0 ELSE wrongs)
    BY <1>5 DEF Refuse
  <2>2. ~crossed => SameTokens(card', card) /\ Counted(card', wrongs')
    BY <2>1, RightCounts DEF Inv, TypeOK
  <2> QED
    BY <1>5, <2>1, <2>2, EndsAlone
<1>6. CASE CheckLimit(d) /\ ~Weighs(d)
  BY <1>5, <1>6 DEF CheckLimit, Weighs, Moves, Beside, InFlight
<1>7. CASE Charge(d) /\ ~Charges(d)
  BY <1>5, <1>7 DEF Charge, Charges, Moves, Beside, InFlight
<1>8. CASE Commit(d)
  <2> SUFFICES ASSUME ~crossed PROVE Undisturbed'
    BY <1>8 DEF Undisturbed, Commit
  <2> DEFINE new == Rotated(d, debit[d].row)
  <2>1. debit[d] \in Active /\ card \in Row /\ InFlight(d) /\ debit[d].at \in HasRead
    BY <1>8, DebitType DEF Commit, InFlight, Inv, TypeOK, HasRead
  <2>2. debit[d].token = chip /\ SameTokens(debit[d].row, card) /\ Knows(debit[d].row, debit[d].token)
    BY <1>8, <2>1 DEF Undisturbed, Inv, TokensWereKnown, Commit, HasRead
  <2>3. new.current = chip /\ new.pending = d /\ new.left = card.left /\ new.status = card.status
    BY <2>1, <2>2 DEF Rotated, Row, SameTokens, Knows
  <2>4. new \in Row
    <3>1. chip \in Token /\ d \in Token
      BY DEF Inv, TypeOK, Token
    <3> QED
      BY <2>1, <2>2, <3>1 DEF Rotated, Row, SameTokens, Knows
  <2>5. /\ card' = Answered(d, new) /\ wrongs' = (IF TierIn(d) = "pin" THEN 0 ELSE wrongs)
        /\ UNCHANGED <<chip, crossed>> /\ ack' = [ack EXCEPT ![d] = "held"]
    BY <1>8 DEF Commit
  <2>6. debit'[d].at = "done" /\ \A e \in Request \ {d} : debit'[e] = debit[e]
    BY <1>8, <2>1 DEF Commit, Inv, DebitsAreTyped, Active
  <2> HIDE DEF new
  <2>7. SameTokens(card', new) /\ Counted(card', wrongs')
    BY <2>3, <2>4, <2>5, RightCounts
  <2>8. \A e \in Request : debit'[e].at \in {"idle", "done", "refused"}
    BY <2>1, <2>6 DEF Undisturbed, InFlight
  <2>9. card'.current = chip /\ card'.pending = d /\ ack'[d] = "held"
    BY <2>3, <2>5, <2>7 DEF SameTokens, Inv, TypeOK
  <2> QED
    BY <2>5, <2>7, <2>8, <2>9 DEF Undisturbed, Knows, Counted, InFlight, HasRead
<1>9. ~(\/ Aborts(d) \/ Claims(d) \/ Reads(d) \/ Passes(d) \/ Weighs(d) \/ Charges(d) \/ Commit(d))
        => \/ RefuseToken(d) \/ RefusePIN(d)
           \/ CheckLimit(d) /\ ~Weighs(d)
           \/ Charge(d) /\ ~Charges(d)
  <2>1. LoadCard(d) => Aborts(d) \/ Reads(d)
    BY DEF LoadCard, Reads, Aborts, Beside, InFlight
  <2>2. ClaimNonce(d) => Aborts(d) \/ Claims(d)
    BY DEF ClaimNonce, Aborts, Abort, Claims, Beside, rows, history, InFlight
  <2>3. SatisfyTier(d) => Aborts(d) \/ Passes(d)
    BY DEF SatisfyTier, Passes, Moves, Aborts, Beside, InFlight
  <2>4. DeadlockVictim(d) \/ Break(d) => Aborts(d)
    BY DEF DeadlockVictim, Deadlocked, WaitsFor, Break, InTx, Aborts, Beside, InFlight
  <2> QED
    BY <2>1, <2>2, <2>3, <2>4 DEF Step
<1> QED
  BY <1>1, <1>2, <1>3, <1>4, <1>6, <1>7, <1>8, <1>9

\* A debit arrives with the token the chip holds.
LEMMA PresentAlone ==
  ASSUME Inv, Undisturbed, NEW d \in Request, NEW n \in Challenges, NEW a \in Amount,
         NEW right \in BOOLEAN, Present(d, n, a, right)
  PROVE  Undisturbed'
<1>1. /\ debit'[d].at = "sent" /\ debit'[d].token = chip
      /\ \A e \in Request \ {d} : debit'[e] = debit[e]
      /\ UNCHANGED <<card, chip, ack, wrongs>>
      /\ ~crossed' => ~crossed /\ Quiet
  BY DEF Present, Inv, DebitsAreTyped, rows
<1> SUFFICES ASSUME ~crossed, Quiet PROVE Undisturbed'
  BY <1>1 DEF Undisturbed
<1>2. \A e \in Request : e # d => debit'[e].at \in {"idle", "done", "refused"}
  BY <1>1 DEF Quiet, InFlight
<1> QED
  BY <1>1, <1>2 DEF Undisturbed, Knows, Counted, InFlight, HasRead

\* The till writes a token, or fails to, and says so.
LEMMA TillAlone ==
  ASSUME Inv, Undisturbed, NEW d \in Request, Till(d)
  PROVE  Undisturbed'
<1>0. /\ card \in Row /\ ack \in [Request -> {"none", "held", "wrote", "failed", "over"}]
      /\ NoToken \notin Request /\ NoToken \notin Token
  BY CardAssumption DEF Inv, TypeOK, Token
<1>1. CASE WriteToken(d)
  <2> SUFFICES ASSUME ~crossed, card.pending = d, Quiet PROVE Undisturbed'
    BY <1>1 DEF Undisturbed, WriteToken, Superseded
  <2>1. UNCHANGED <<card, debit, wrongs>> /\ chip' = d /\ ack' = [ack EXCEPT ![d] = "wrote"]
    BY <1>1 DEF WriteToken, rows
  <2> QED
    BY <1>0, <2>1 DEF Undisturbed, Knows, Counted, Quiet, InFlight, HasRead
<1>2. CASE WriteFails(d) \/ Forgo(d)
  <2>1. /\ UNCHANGED <<card, chip, debit, wrongs, crossed>> /\ ack[d] = "held"
        /\ \A e \in Request : ack'[e] = ack[e] \/ (e = d /\ ack'[e] \in {"failed", "over"})
    BY <1>0, <1>2 DEF WriteFails, Forgo, rows, history
  <2> QED
    BY <2>1 DEF Undisturbed, Knows, Counted, SameTokens, InFlight
<1>3. CASE AckWritten(d)
  <2> SUFFICES ASSUME ~crossed, card.pending = d, Quiet PROVE Undisturbed'
    BY <1>3 DEF Undisturbed, AckWritten, Superseded
  <2>1. UNCHANGED <<chip, debit, wrongs>> /\ card' = [card EXCEPT !.current = d, !.pending = NoToken]
    BY <1>0, <1>3 DEF AckWritten
  <2>2. /\ card'.current = d /\ card'.pending = NoToken /\ card'.left = card.left
        /\ card'.status = card.status /\ chip = d
    BY <1>0, <1>3, <2>1 DEF Row, AckWritten, Undisturbed
  <2> QED
    BY <1>0, <2>1, <2>2 DEF Undisturbed, Knows, Counted, Quiet, InFlight, HasRead
<1>4. CASE AckLost(d)
  BY <1>4 DEF AckLost, Undisturbed
<1>5. CASE AckFailed(d)
  <2> SUFFICES ASSUME ~crossed, card.pending = NoToken \/ (card.pending = d /\ Quiet) PROVE Undisturbed'
    BY <1>5 DEF Undisturbed, AckFailed, Superseded
  <2>1. /\ UNCHANGED <<chip, debit, wrongs>> /\ card' = [card EXCEPT !.pending = NoToken]
        /\ ack[d] = "failed"
    BY <1>5 DEF AckFailed
  <2>2. /\ card'.current = card.current /\ card'.pending = NoToken /\ card'.left = card.left
        /\ card'.status = card.status
    BY <1>0, <2>1 DEF Row
  <2>3. chip \in Token
    BY DEF Inv, TypeOK
  <2>4. chip = card.current
    BY <1>0, <2>1, <2>3 DEF Undisturbed, Knows
  <2> QED
    BY <1>0, <2>1, <2>2, <2>4 DEF Undisturbed, Knows, Counted, SameTokens, Quiet, InFlight, HasRead
<1> QED
  BY <1>1, <1>2, <1>3, <1>4, <1>5 DEF Till

\* The card is stopped, or its lock runs out.
LEMMA CardAlone ==
  ASSUME Inv, Undisturbed, Revoke \/ LockRunsOut
  PROVE  Undisturbed'
<1>1. card \in Row
  BY DEF Inv, TypeOK
<1>2. CASE Revoke
  <2> SUFFICES ASSUME ~crossed, Quiet PROVE Undisturbed'
    BY <1>2 DEF Undisturbed, Revoke
  <2>1. /\ SameTokens(card', card) /\ card'.left = card.left /\ card'.status = "revoked"
        /\ UNCHANGED <<chip, debit, ack, wrongs>>
    BY <1>1, <1>2 DEF Revoke, Row, SameTokens
  <2> QED
    BY <2>1 DEF Undisturbed, Knows, Counted, SameTokens, Quiet, InFlight, HasRead
<1>3. CASE LockRunsOut
  <2>1. /\ SameTokens(card', card) /\ card'.left = card.left /\ card'.status = card.status
        /\ UNCHANGED <<chip, debit, ack, wrongs, crossed>>
    BY <1>1, <1>3 DEF LockRunsOut, Row, SameTokens, history
  <2> QED
    BY <2>1 DEF Undisturbed, Knows, Counted, SameTokens, InFlight
<1> QED
  BY <1>2, <1>3

\* The card is as its debits and its till left it, throughout.
LEMMA UndisturbedAlways == Spec => []Undisturbed
<1>1. Init => Undisturbed
  <2> SUFFICES ASSUME Init PROVE Undisturbed
    OBVIOUS
  <2>1. PINAttempts \in Nat \ {0} /\ \A d \in Request : debit[d].at = "idle" /\ ack[d] = "none"
    BY CardAssumption DEF Init
  <2>2. Knows(card, chip) /\ Counted(card, wrongs)
    BY <2>1 DEF Init, NewRow, Knows, Counted
  <2> QED
    BY <2>1, <2>2 DEF Undisturbed, InFlight, HasRead
<1>2. Inv /\ Undisturbed /\ [Next]_vars => Undisturbed'
  <2> SUFFICES ASSUME Inv, Undisturbed, [Next]_vars PROVE Undisturbed'
    OBVIOUS
  <2>1. ASSUME UNCHANGED vars PROVE Undisturbed'
    BY <2>1, Unseen DEF vars, rows, history
  <2>2. ASSUME NEW n \in Challenges, (\E a \in Amount : Ask(n, a)) \/ Approve(n) \/ Expire(n)
        PROVE  Undisturbed'
    BY <2>2, Unseen DEF Ask, Approve, Expire, history
  <2>3. ASSUME NEW d \in Request, Reverse(d) \/ RepeatRunsOut(d) PROVE Undisturbed'
    BY <2>3, Unseen DEF Reverse, RepeatRunsOut, history
  <2>4. CASE Next
    BY <2>2, <2>3, <2>4, StepAlone, PresentAlone, TillAlone, CardAlone DEF Next
  <2> QED
    BY <2>1, <2>4
<1> QED
  BY <1>1, <1>2, Invariance, PTL DEF Spec

\* Whatever is lost, aborted or refused between them, debits that do not
\* overlap leave the chip with a token the server accepts.
THEOREM KeepsWorking == Spec => []CardKeepsWorking
<1>1. Undisturbed => CardKeepsWorking
  BY DEF Undisturbed, CardKeepsWorking
<1> QED
  BY <1>1, UndisturbedAlways, PTL

\* Nor does anything between them give an attempt at the PIN back.
THEOREM Counts == Spec => []WrongsAreCounted
<1>1. Undisturbed => WrongsAreCounted
  BY DEF Undisturbed, Counted, WrongsAreCounted
<1> QED
  BY <1>1, UndisturbedAlways, PTL
-----------------------------------------------------------------------------
(* The day's limit.                                                        *)

\* What was charged in time is within the limit, and so it is, with all that
\* stands, whatever a debit that has been weighed and not overtaken will add.
WithinLimit ==
  /\ Total(Timely, Request) <= Daily
  /\ \A d \in Request \ overtaken : Weighed(d) => Spent + debit[d].amount <= Daily

\* What has been charged is a finite sum of amounts.
LEMMA ChargesAreAmounts ==
  ASSUME Inv
  PROVE  /\ IsFiniteSet(Request) /\ Spent \in Nat
         /\ \A d \in Request :
              /\ Charged[d] \in Nat
              /\ Charged[d] = IF taps[d] \in {"recent", "older"} THEN debit[d].amount ELSE 0
<1>1. \A d \in Request : Charged[d] = IF taps[d] \in {"recent", "older"} THEN debit[d].amount ELSE 0
  BY DEF Charged
<1>2. \A d \in Request : taps[d] \in {"recent", "older"} => debit[d].amount \in Nat
  BY DebitType DEF Inv, TapsAreDone
<1>3. \A d \in Request : Charged[d] \in Nat
  BY <1>1, <1>2
<1>4. IsFiniteSet(Request)
  BY CardAssumption
<1>5. Spent \in Nat
  BY <1>3, <1>4, TotalNat DEF Spent
<1> QED
  BY <1>1, <1>3, <1>4, <1>5

\* What was charged in time is a finite sum too, and no more than all of it.
LEMMA TimelyIsPart ==
  ASSUME Inv
  PROVE  /\ Total(Timely, Request) \in Nat /\ Total(Timely, Request) <= Spent
         /\ \A d \in Request :
              Timely[d] = (IF d \in overtaken THEN 0 ELSE Charged[d]) /\ Timely[d] \in Nat
<1> DEFINE f == Timely
           g == Charged
           h == [d \in Request |-> g[d] - f[d]]
<1>1. \A d \in Request : g[d] \in Nat
  BY ChargesAreAmounts
<1>2. \A d \in Request : f[d] = IF d \in overtaken THEN 0 ELSE g[d]
  BY DEF Timely
<1>3. IsFiniteSet(Request)
  BY ChargesAreAmounts
<1> HIDE DEF f, g
<1>4. \A d \in Request : f[d] \in Nat /\ h[d] \in Nat /\ g[d] = f[d] + h[d]
  BY <1>1, <1>2
<1> HIDE DEF h
<1>5. Total(g, Request) = Total(f, Request) + Total(h, Request)
  BY <1>1, <1>3, <1>4, TotalPlus
<1>6. Total(f, Request) \in Nat /\ Total(h, Request) \in Nat
  BY <1>3, <1>4, TotalNat
<1>7. Total(f, Request) <= Total(g, Request)
  BY <1>5, <1>6
<1> QED
  BY <1>2, <1>4, <1>6, <1>7 DEF f, g, Spent

\* No tap is charged and none reversed.
LEMMA SpentStays ==
  ASSUME Inv, Inv', UNCHANGED overtaken,
         \A d \in Request : taps'[d] \in {"recent", "older"} <=> taps[d] \in {"recent", "older"},
         \A d \in Request : taps[d] \in {"recent", "older"} => debit'[d].amount = debit[d].amount
  PROVE  Spent' = Spent /\ Total(Timely, Request)' = Total(Timely, Request)
<1> DEFINE f == Charged
           g == Charged'
           k == Timely
           l == Timely'
<1>1. \A d \in Request : f[d] = g[d]
  BY DEF Charged
<1>2. IsFiniteSet(Request)
  BY ChargesAreAmounts
<1>3. \A d \in Request : k[d] = l[d]
  BY <1>1 DEF Timely
<1> HIDE DEF f, g, k, l
<1>4. Total(f, Request) = Total(g, Request) /\ Total(k, Request) = Total(l, Request)
  BY <1>1, <1>2, <1>3, TotalSame
<1> QED
  BY <1>4 DEF Spent, f, g, k, l

\* One tap's state changes.
LEMMA SpentChanges ==
  ASSUME Inv, Inv', NEW d \in Request,
         \A e \in Request \ {d} :
           /\ taps'[e] = taps[e]
           /\ taps[e] \in {"recent", "older"} =>
                debit'[e].amount = debit[e].amount /\ (e \in overtaken <=> e \in overtaken')
  PROVE  /\ Spent' = Spent + Charged'[d] - Charged[d]
         /\ Total(Timely, Request)' = Total(Timely, Request) + Timely'[d] - Timely[d]
<1> DEFINE f == Charged
           g == Charged'
           k == Timely
           l == Timely'
<1>1. \A e \in Request \ {d} : g[e] = f[e]
  BY DEF Charged
<1>2. \A e \in Request : f[e] \in Int
  BY ChargesAreAmounts
<1>3. \A e \in Request : g[e] \in Int
  <2>1. \A e \in Request \ {d} : g[e] \in Int
    BY <1>1, <1>2
  <2>2. g[d] = IF taps'[d] \in {"recent", "older"} THEN debit'[d].amount ELSE 0
    BY DEF Charged
  <2>3. taps'[d] \in {"recent", "older"} => debit'[d].amount \in Int
    <3>1. taps'[d] \in {"recent", "older"} => debit'[d].at = "done"
      BY DEF Inv, TapsAreDone
    <3>2. debit'[d].at = "done" => debit'[d].amount \in Amount
      BY DEF Inv, TypeOK
    <3>3. Amount \subseteq Int
      BY CardAssumption
    <3> QED
      BY <3>1, <3>2, <3>3
  <2> QED
    BY <2>1, <2>2, <2>3
<1>4. IsFiniteSet(Request)
  BY ChargesAreAmounts
<1>5. /\ \A e \in Request : k[e] = IF e \in overtaken THEN 0 ELSE f[e]
      /\ \A e \in Request : l[e] = IF e \in overtaken' THEN 0 ELSE g[e]
  BY DEF Timely
<1>6. \A e \in Request \ {d} : taps[e] \notin {"recent", "older"} => f[e] = 0
  BY DEF Charged
<1> HIDE DEF f, g, k, l
<1>7. \A e \in Request : k[e] \in Int /\ l[e] \in Int
  BY <1>2, <1>3, <1>5
<1>8. \A e \in Request \ {d} : l[e] = k[e]
  BY <1>1, <1>5, <1>6
<1>9. Total(g, Request) = Total(f, Request) + g[d] - f[d]
  BY <1>1, <1>2, <1>3, <1>4, TotalChange
<1>10. Total(l, Request) = Total(k, Request) + l[d] - k[d]
  BY <1>4, <1>7, <1>8, TotalChange
<1> QED
  BY <1>9, <1>10 DEF Spent, f, g, k, l

\* Nothing is charged and nothing newly weighed.
LEMMA LimitStays ==
  ASSUME Inv, WithinLimit, Spent' \in Int, Spent' <= Spent, UNCHANGED overtaken,
         Total(Timely, Request)' <= Daily,
         \A d \in Request : Weighed(d)' => Weighed(d) /\ debit'[d].amount = debit[d].amount
  PROVE  WithinLimit'
<1>1. Spent \in Int /\ Daily \in Int
  BY ChargesAreAmounts, CardAssumption
<1>2. ASSUME NEW d \in Request \ overtaken, Weighed(d)'
      PROVE  Spent' + debit'[d].amount <= Daily
  <2>1. debit[d].amount \in Int
    BY <1>2, DebitType DEF Weighed
  <2>2. Spent + debit[d].amount <= Daily
    BY <1>2 DEF WithinLimit
  <2> QED
    BY <1>1, <1>2, <2>1, <2>2
<1> QED
  BY <1>2 DEF WithinLimit

\* Taps do not change, and debits that are done stay as they are.
LEMMA LimitRests ==
  ASSUME Inv, Inv', WithinLimit, UNCHANGED <<taps, overtaken>>,
         \A d \in Request : debit[d].at = "done" => debit'[d] = debit[d],
         \A d \in Request : Weighed(d)' => Weighed(d) /\ debit'[d].amount = debit[d].amount
  PROVE  WithinLimit'
<1>1. \A d \in Request : taps[d] \in {"recent", "older"} => debit'[d].amount = debit[d].amount
  BY DEF Inv, TapsAreDone
<1>2. /\ Spent' = Spent /\ Spent \in Nat
      /\ Total(Timely, Request)' = Total(Timely, Request)
  BY <1>1, SpentStays, ChargesAreAmounts
<1>3. Total(Timely, Request)' <= Daily
  BY <1>2 DEF WithinLimit
<1> QED
  BY <1>2, <1>3, LimitStays

\* Each step of a debit: it is weighed against what stands, and what stands is
\* no more when it commits, or it has been overtaken.
LEMMA LimitStep ==
  ASSUME Inv, Inv', WithinLimit, NEW d \in Request, Step(d) \/ Break(d)
  PROVE  WithinLimit'
<1>0. debit \in [Request -> Active \cup Ended]
  BY DEF Inv, DebitsAreTyped
<1>1. ASSUME UNCHANGED <<taps, overtaken>>, debit[d].at # "done",
             \A e \in Request \ {d} : debit'[e] = debit[e],
             debit'[d].at \in {"weighed", "charged"} =>
               debit[d].at \in {"weighed", "charged"} /\ debit'[d].amount = debit[d].amount
      PROVE  WithinLimit'
  BY <1>1, LimitRests DEF Weighed
<1>2. CASE Aborts(d) \/ Refuses(d)
  <2>1. /\ UNCHANGED <<taps, overtaken>> /\ debit[d].at # "done" /\ End(d)
    BY <1>2 DEF Aborts, Abort, Refuses, Beside, InFlight, InTx, rows
  <2>2. debit'[d].at = "refused" /\ \A e \in Request \ {d} : debit'[e] = debit[e]
    BY <1>0, <2>1 DEF End
  <2> QED
    BY <1>1, <2>1, <2>2
<1>3. CASE Claims(d) \/ Reads(d) \/ Passes(d) \/ Charges(d)
  <2>1. /\ UNCHANGED <<taps, overtaken>> /\ debit[d].at \notin {"done", "idle", "refused"}
    BY <1>3 DEF Claims, Reads, Passes, Charges, Moves, Beside, rows
  <2>2. debit[d] \in Active
    BY <2>1, DebitType
  <2>3. \A e \in Request \ {d} : debit'[e] = debit[e]
    BY <1>0, <1>3 DEF Claims, Reads, Passes, Charges, Moves, Goto
  <2>4. \/ debit'[d].at \in {"claimed", "verified", "mismatched", "known"}
        \/ debit[d].at = "weighed" /\ debit'[d].amount = debit[d].amount
    BY <1>0, <1>3, <2>2 DEF Claims, Reads, Passes, Charges, Moves, Goto, Active
  <2> QED
    BY <1>1, <2>1, <2>3, <2>4
<1>4. CASE Weighs(d)
  <2>1. /\ UNCHANGED <<taps, overtaken>> /\ debit[d].at = "known"
        /\ debit[d].amount <= Daily - Spent
    BY <1>4 DEF Weighs, Moves, Beside, rows
  <2>2. debit[d] \in Active /\ debit[d].amount \in Nat
    BY <2>1, DebitType
  <2>3. /\ \A e \in Request \ {d} : debit'[e] = debit[e]
        /\ debit'[d].amount = debit[d].amount
    BY <1>0, <1>4, <2>2 DEF Weighs, Moves, Goto, Active
  <2>4. \A e \in Request : taps[e] \in {"recent", "older"} => debit'[e].amount = debit[e].amount
    BY <2>3
  <2>5. /\ Spent' = Spent /\ Spent \in Nat /\ Daily \in Nat
        /\ Total(Timely, Request)' = Total(Timely, Request)
    BY <2>1, <2>4, SpentStays, ChargesAreAmounts, CardAssumption
  <2>6. Spent + debit[d].amount <= Daily
    BY <2>1, <2>2, <2>5
  <2>7. \A e \in Request \ overtaken' : Weighed(e)' => Spent' + debit'[e].amount <= Daily
    BY <2>1, <2>3, <2>5, <2>6 DEF WithinLimit, Weighed
  <2> QED
    BY <2>5, <2>7 DEF WithinLimit
<1>5. CASE Commit(d)
  <2>1. /\ debit[d].at = "charged" /\ taps' = [taps EXCEPT ![d] = "recent"]
        /\ debit' = [debit EXCEPT ![d] =
             [@ EXCEPT !.at = "done", !.token = Blank, !.granted = FALSE, !.row = NewRow]]
        /\ overtaken' = overtaken \cup {e \in Request \ {d} : Weighed(e)}
    BY <1>5 DEF Commit
  <2>2. debit[d] \in Active /\ debit[d].amount \in Nat /\ taps[d] = "none"
    BY <2>1, DebitType DEF Inv, TypeOK, TapsAreDone
  <2>3. /\ debit'[d].at = "done" /\ debit'[d].amount = debit[d].amount
        /\ taps'[d] = "recent"
        /\ \A e \in Request \ {d} : debit'[e] = debit[e] /\ taps'[e] = taps[e]
    BY <1>0, <2>1, <2>2 DEF Active, Inv, TypeOK
  <2>4. Charged[d] = 0 /\ Charged'[d] = debit[d].amount
    BY <2>2, <2>3 DEF Charged
  <2>5. \A e \in Request \ {d} :
          taps[e] \in {"recent", "older"} => (e \in overtaken <=> e \in overtaken')
    BY <2>1 DEF Inv, TapsAreDone, Weighed
  <2>6. /\ Timely[d] = 0
        /\ Timely'[d] = (IF d \in overtaken THEN 0 ELSE debit[d].amount)
    BY <2>1, <2>4 DEF Timely
  <2>7. Total(Timely, Request)' = Total(Timely, Request) + Timely'[d] - Timely[d]
    BY <2>3, <2>5, SpentChanges
  <2>8. /\ Total(Timely, Request) \in Nat /\ Spent \in Nat
        /\ Total(Timely, Request) <= Spent /\ Daily \in Nat
    BY TimelyIsPart, ChargesAreAmounts, CardAssumption
  <2>9. d \notin overtaken => Spent + debit[d].amount <= Daily
    BY <2>1 DEF WithinLimit, Weighed
  <2>10. Total(Timely, Request)' <= Daily
    <3>1. CASE d \in overtaken
      <4>1. Total(Timely, Request)' = Total(Timely, Request)
        BY <2>6, <2>7, <2>8, <3>1
      <4> QED
        BY <4>1 DEF WithinLimit
    <3>2. CASE d \notin overtaken
      <4>1. Total(Timely, Request)' = Total(Timely, Request) + debit[d].amount
        BY <2>2, <2>6, <2>7, <2>8, <3>2
      <4> QED
        BY <2>2, <2>8, <2>9, <3>2, <4>1
    <3> QED
      BY <3>1, <3>2
  <2>11. \A e \in Request \ overtaken' : ~Weighed(e)'
    BY <2>1, <2>3 DEF Weighed
  <2> QED
    BY <2>10, <2>11 DEF WithinLimit
<1> QED
  BY <1>2, <1>3, <1>4, <1>5, StepIs

\* Whoever is weighed beside whom, what was charged in time stays within the
\* limit throughout.
LEMMA LimitAlways == Spec => []WithinLimit
<1>1. Init => WithinLimit
  <2> SUFFICES ASSUME Init PROVE WithinLimit
    OBVIOUS
  <2>1. \A d \in Request : taps[d] = "none" /\ debit[d].at = "idle"
    BY DEF Init
  <2> DEFINE f == Timely
  <2>2. IsFiniteSet(Request)
    BY CardAssumption
  <2>3. \A d \in Request : f[d] = 0
    BY <2>1 DEF Charged, Timely
  <2>4. Total(f, Request) = 0
    <3> HIDE DEF f
    <3> QED
      BY <2>2, <2>3, TotalZero
  <2>5. Total(Timely, Request) = 0 /\ Daily \in Nat
    BY <2>4, CardAssumption
  <2> QED
    BY <2>1, <2>5 DEF WithinLimit, Weighed
<1>2. Inv /\ WithinLimit /\ [Next]_vars => WithinLimit'
  <2> SUFFICES ASSUME Inv, WithinLimit, [Next]_vars PROVE WithinLimit'
    OBVIOUS
  <2>0. Inv'
    BY NextInv
  <2>1. ASSUME UNCHANGED <<taps, debit, overtaken>> PROVE WithinLimit'
    BY <2>0, <2>1, LimitRests DEF Weighed
  <2>2. CASE UNCHANGED vars
    BY <2>1, <2>2 DEF vars, rows, history
  <2>3. ASSUME NEW n \in Challenges, (\E a \in Amount : Ask(n, a)) \/ Approve(n) \/ Expire(n)
        PROVE  WithinLimit'
    BY <2>1, <2>3 DEF Ask, Approve, Expire, history
  <2>4. ASSUME NEW d \in Request, NEW n \in Challenges, NEW a \in Amount, NEW right \in BOOLEAN,
               Present(d, n, a, right)
        PROVE  WithinLimit'
    <3>1. /\ UNCHANGED <<taps, overtaken>> /\ debit[d].at = "idle" /\ debit'[d].at = "sent"
          /\ \A e \in Request \ {d} : debit'[e] = debit[e]
      BY <2>4 DEF Present, rows, Inv, DebitsAreTyped
    <3> QED
      BY <2>0, <3>1, LimitRests DEF Weighed
  <2>5. ASSUME NEW d \in Request, Till(d) PROVE WithinLimit'
    BY <2>1, <2>5 DEF Till, WriteToken, WriteFails, Forgo, AckWritten, AckLost, AckFailed, rows, history
  <2>6. ASSUME NEW d \in Request, Reverse(d) \/ RepeatRunsOut(d) PROVE WithinLimit'
    <3>1. UNCHANGED <<debit, overtaken>> /\ taps[d] \in {"recent", "older"}
          /\ \A e \in Request \ {d} : taps'[e] = taps[e]
      BY <2>6 DEF Reverse, RepeatRunsOut, history, Inv, TypeOK
    <3>2. /\ Spent' = Spent + Charged'[d] - Charged[d] /\ Spent \in Nat
          /\ Total(Timely, Request)' = Total(Timely, Request) + Timely'[d] - Timely[d]
          /\ Charged[d] = debit[d].amount /\ Charged[d] \in Nat
          /\ Total(Timely, Request) \in Nat /\ Daily \in Nat
      BY <2>0, <3>1, SpentChanges, ChargesAreAmounts, TimelyIsPart, CardAssumption
    <3>3. Charged'[d] \in {0, debit[d].amount}
      BY <3>1 DEF Charged
    <3>4. Timely[d] = (IF d \in overtaken THEN 0 ELSE Charged[d])
          /\ Timely'[d] = (IF d \in overtaken THEN 0 ELSE Charged'[d])
      BY <3>1 DEF Timely
    <3>5. Spent' \in Int /\ Spent' <= Spent
      BY <3>2, <3>3
    <3>6. Total(Timely, Request)' <= Daily
      <4>1. Total(Timely, Request)' <= Total(Timely, Request)
            /\ Total(Timely, Request)' \in Int
        BY <3>2, <3>3, <3>4
      <4> QED
        BY <3>2, <4>1 DEF WithinLimit
    <3> QED
      BY <3>1, <3>5, <3>6, LimitStays DEF Weighed
  <2>7. CASE Revoke \/ LockRunsOut
    BY <2>1, <2>7 DEF Revoke, LockRunsOut, history
  <2>8. CASE Next
    BY <2>0, <2>3, <2>4, <2>5, <2>6, <2>7, <2>8, LimitStep DEF Next
  <2> QED
    BY <2>2, <2>8
<1> QED
  BY <1>1, <1>2, Invariance, PTL DEF Spec

\* However many debits of a card are under way, and whatever is refused,
\* reversed or lost between them: the taps that stand are within its daily
\* limit, those aside that were charged on a sum of the day's taps which
\* another tap had outdated (spentToday takes no lock).
THEOREM Within == Spec => []WithinDaily
<1>1. WithinLimit => WithinDaily
  BY DEF WithinLimit, WithinDaily
<1> QED
  BY <1>1, LimitAlways, PTL
=============================================================================
