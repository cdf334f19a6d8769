----------------------------- MODULE BaseChain -----------------------------
(***************************************************************************)
(* Package chain/base: one cardholder's USDC going in and out. The Watcher *)
(* reads the transfers to deposit addresses block by block, Deposits       *)
(* records them and credits those old enough, Withdrawals debits the       *)
(* cardholder first and sends afterwards.                                  *)
(*                                                                         *)
(* The chain and the sender of withdrawals (CDP) are outside: blocks are   *)
(* added and may be reorganised, a send may be refused or its answer lost. *)
(* A step is one statement, one transaction or one call.                   *)
(*                                                                         *)
(* Left out: the issuing of addresses (all are watched from the start) and *)
(* the sweeper, which nothing starts.                                      *)
(***************************************************************************)
EXTENDS Integers, FiniteSets, Sums

CONSTANTS
  Transfer,       \* USDC transfers to the cardholder's addresses
  Cents,          \* what each is worth, rounded down to cents
  Ours,           \* those from the treasury or the Gateway
  Withdrawal,
  Cost,           \* what each withdraws, in cents
  Confirmations,  \* the code's: blocks on top of a transfer to credit it
  MaxBlockSpan,   \* the code's: blocks read by one poll
  StartBlock,     \* the code's: where the first poll starts, 0 for the head
  MaxHead,        \* bound: the length of the chain
  MaxReorgs,      \* bound: times the last block is replaced
  MaxFaults       \* bound: failed queries, lost answers and crashes

ASSUME BaseAssumption ==
  /\ IsFiniteSet(Transfer) /\ IsFiniteSet(Withdrawal)
  /\ Cents \in [Transfer -> Nat] /\ Ours \subseteq Transfer
  /\ Cost \in [Withdrawal -> Nat \ {0}]
  /\ Confirmations \in Nat /\ MaxBlockSpan \in Nat /\ StartBlock \in Nat
  /\ MaxHead \in Nat \ {0} /\ MaxReorgs \in Nat /\ MaxFaults \in Nat

VARIABLES
  chain,     \* the head, and each transfer's block (0 for none) and log index
  position,  \* base_watcher_state: the next block to read, 0 before the first
  deposit,   \* base_deposits: the row of a transfer under a log index
  poll,      \* the watcher: where it is, the head it read, its logs and rows
  row,       \* base_withdrawals.state
  batch,     \* the sender: the withdrawals it claimed, and the answer it has
  sends,     \* how often each withdrawal moved USDC on chain
  balance,   \* the cardholder's account in the ledger, in cents
  first,     \* history: the block the watcher began from, once it advanced
  moved,     \* history: transfers reorganised after the watcher read them
  unknown,   \* history: withdrawals sent whose answer was lost
  reorgs, faults

incoming == <<chain, position, deposit, poll, first, moved, reorgs>>
outgoing == <<row, batch, sends, unknown>>
vars == <<incoming, outgoing, balance, faults>>

Block == 1..MaxHead
Index == 0..1
Log == [transfer : Transfer, index : Index, block : Block]
Resting == [at |-> "idle", head |-> 1, from |-> 1, to |-> 1, logs |-> {}, due |-> {}]
NoBatch == [claimed |-> {}, answer |-> "none"]

\* Rows and workers are well typed; a poll reads no further than the head.
TypeOK ==
  /\ chain \in [head : Block, block : [Transfer -> 0..MaxHead], index : [Transfer -> Index]]
  /\ position \in 0..(MaxHead + 1) /\ first \in 0..(MaxHead + 1)
  /\ deposit \in [Transfer \X Index -> [state : {"none", "seen", "credited", "failed"},
                                        block : 0..MaxHead]]
  /\ poll \in [at : {"idle", "logs", "record", "credit"}, head : Block,
              from : 1..(MaxHead + 1), to : Block,
              logs : SUBSET Log, due : SUBSET (Transfer \X Index)]
  /\ poll.to <= poll.head
  /\ row \in [Withdrawal -> {"none", "pending", "sending", "sent", "failed"}]
  /\ batch \in [claimed : SUBSET Withdrawal, answer : {"none", "ok", "error"}]
  /\ \A w \in batch.claimed : row[w] = "sending"
  /\ batch.claimed = {} => batch.answer = "none"
  /\ sends \in [Withdrawal -> Nat] /\ balance \in Nat
  /\ moved \subseteq Transfer /\ unknown \subseteq Withdrawal
  /\ reorgs \in 0..MaxReorgs /\ faults \in 0..MaxFaults

Init ==
  /\ chain = [head |-> 1, block |-> [t \in Transfer |-> 0], index |-> [t \in Transfer |-> 0]]
  /\ position = 0 /\ first = 0
  /\ deposit = [k \in Transfer \X Index |-> [state |-> "none", block |-> 0]]
  /\ poll = Resting
  /\ row = [w \in Withdrawal |-> "none"]
  /\ batch = NoBatch
  /\ sends = [w \in Withdrawal |-> 0] /\ balance = 0
  /\ moved = {} /\ unknown = {} /\ reorgs = 0 /\ faults = 0

Fault == faults < MaxFaults /\ faults' = faults + 1

-----------------------------------------------------------------------------
(* The chain.                                                              *)

\* A block is added. Bound: transfers are made early enough to be confirmed
\* before the chain ends.
Mine(included) ==
  /\ chain.head < MaxHead
  /\ included \subseteq {t \in Transfer : chain.block[t] = 0}
  /\ included # {} => chain.head + 1 + Confirmations <= MaxHead
  /\ chain' = [chain EXCEPT !.head = @ + 1,
                 !.block = [t \in Transfer |-> IF t \in included THEN chain.head + 1 ELSE @[t]]]
  /\ UNCHANGED <<position, deposit, poll, first, moved, reorgs, outgoing, balance, faults>>

\* The watcher has a row or a log of the transfer.
Read(t) ==
  \/ \E i \in Index : deposit[<<t, i>>].state # "none"
  \/ \E log \in poll.logs : log.transfer = t

\* The last block is replaced by one that keeps some of its transfers, under
\* other log indexes, and drops the others.
Reorganise(kept) ==
  LET last == {t \in Transfer : chain.block[t] = chain.head} IN
  /\ reorgs < MaxReorgs /\ reorgs' = reorgs + 1
  /\ last # {} /\ kept \subseteq last
  /\ chain' = [chain EXCEPT
                 !.block = [t \in Transfer |-> IF t \in last \ kept THEN 0 ELSE @[t]],
                 !.index = [t \in Transfer |-> IF t \in kept THEN 1 - @[t] ELSE @[t]]]
  /\ moved' = moved \cup {t \in last : Read(t)}
  /\ UNCHANGED <<position, deposit, poll, first, outgoing, balance, faults>>

-----------------------------------------------------------------------------
(* The watcher.                                                            *)

\* Where Poll reads from: the head itself on a first start without a
\* configured block, and nothing remembers that head until a poll advances.
From ==
  IF position # 0 THEN position ELSE IF StartBlock # 0 THEN StartBlock ELSE chain.head

\* Poll reads the head and its position, and takes a window of blocks. Where
\* the bound ends the chain, the block that would follow is read as empty.
ReadHead ==
  /\ poll.at = "idle"
  /\ From <= chain.head \/ position > MaxHead
  /\ poll' = [poll EXCEPT !.at = "logs", !.head = chain.head, !.from = From,
                !.to = IF chain.head - From > MaxBlockSpan
                       THEN From + MaxBlockSpan ELSE chain.head]
  /\ UNCHANGED <<chain, position, deposit, first, moved, reorgs, outgoing, balance, faults>>

\* FilterLogs, for every address ever issued.
FilterLogs ==
  /\ poll.at = "logs"
  /\ poll' = [poll EXCEPT !.at = "record", !.logs =
       {[transfer |-> t, index |-> chain.index[t], block |-> chain.block[t]] :
          t \in {u \in Transfer : chain.block[u] \in poll.from..poll.to}}]
  /\ UNCHANGED <<chain, position, deposit, first, moved, reorgs, outgoing, balance, faults>>

\* Record: a transfer of our own is no deposit, one already recorded is left.
Record(log) ==
  LET k == <<log.transfer, log.index>> IN
  /\ poll.at = "record" /\ log \in poll.logs
  /\ poll' = [poll EXCEPT !.logs = @ \ {log}]
  /\ deposit' = IF log.transfer \in Ours \/ deposit[k].state # "none" THEN deposit
                ELSE [deposit EXCEPT ![k] = [state |-> "seen", block |-> log.block]]
  /\ UNCHANGED <<chain, position, first, moved, reorgs, outgoing, balance, faults>>

DueAtOnce(head) == {k \in Transfer \X Index : deposit[k].state = "seen"}

\* CreditConfirmed's query, by the head read at the start.
Due(head) ==
  {k \in Transfer \X Index : deposit[k].state = "seen" /\ deposit[k].block <= head - Confirmations}

Advances == position' = poll.to + 1 /\ first' = IF position = 0 THEN poll.from ELSE first

AdvanceFirst ==
  /\ poll.at = "record" /\ Advances
  /\ poll' = [poll EXCEPT !.at = IF poll.logs = {} THEN "credit" ELSE "record", !.due = Due(poll.head)]
  /\ UNCHANGED <<chain, deposit, moved, reorgs, outgoing, balance, faults>>

\* The position advances once all the logs are recorded, and the deposits due
\* are read.
Advance ==
  /\ poll.at = "record" /\ poll.logs = {} /\ Advances
  /\ poll' = [poll EXCEPT !.at = "credit", !.due = Due(poll.head)]
  /\ UNCHANGED <<chain, deposit, moved, reorgs, outgoing, balance, faults>>

CreditSeparately(k) ==
  /\ poll.at = "credit" /\ k \in poll.due
  /\ balance' = balance + Cents[k[1]]
  /\ poll' = [poll EXCEPT !.due = @ \ {k}]
  /\ \/ deposit' = [deposit EXCEPT ![k].state = "credited"] /\ UNCHANGED faults
     \/ UNCHANGED deposit /\ Fault
  /\ UNCHANGED <<chain, position, first, moved, reorgs, outgoing>>

\* One row: its movement and its state commit together; less than a cent is
\* never credited.
Credit(k) ==
  /\ poll.at = "credit" /\ k \in poll.due
  /\ poll' = [poll EXCEPT !.due = @ \ {k}]
  /\ deposit' = [deposit EXCEPT ![k].state = IF Cents[k[1]] > 0 THEN "credited" ELSE "failed"]
  /\ balance' = balance + Cents[k[1]]
  /\ UNCHANGED <<chain, position, first, moved, reorgs, outgoing, faults>>

PollEnds ==
  /\ poll.at = "credit" /\ poll.due = {}
  /\ poll' = Resting
  /\ UNCHANGED <<chain, position, deposit, first, moved, reorgs, outgoing, balance, faults>>

\* A query or a call fails, or the process dies: the next poll starts again
\* from the position.
PollBreaks ==
  /\ poll.at # "idle" /\ Fault
  /\ poll' = Resting
  /\ UNCHANGED <<chain, position, deposit, first, moved, reorgs, outgoing, balance>>

-----------------------------------------------------------------------------
(* Withdrawals.                                                            *)

\* Open: debited and queued in one transaction.
Open(w) ==
  /\ row[w] = "none" /\ balance >= Cost[w]
  /\ row' = [row EXCEPT ![w] = "pending"]
  /\ balance' = balance - Cost[w]
  /\ UNCHANGED <<incoming, batch, sends, unknown, faults>>

\* Send claims what is pending.
Claim ==
  LET due == {w \in Withdrawal : row[w] = "pending"} IN
  /\ batch = NoBatch /\ due # {}
  /\ row' = [w \in Withdrawal |-> IF w \in due THEN "sending" ELSE row[w]]
  /\ batch' = [batch EXCEPT !.claimed = due]
  /\ UNCHANGED <<incoming, sends, unknown, balance, faults>>

\* The first of the batch, by creation.
Current == CHOOSE w \in batch.claimed : TRUE
Answers(a) == batch' = [batch EXCEPT !.answer = a]
Moves == sends' = [sends EXCEPT ![Current] = @ + 1]

\* SweepSmartAccount: sent, refused, or sent and the answer lost.
Sent ==
  /\ batch.claimed # {} /\ batch.answer = "none"
  /\ Moves /\ Answers("ok")
  /\ UNCHANGED <<incoming, row, unknown, balance, faults>>
Refused ==
  /\ batch.claimed # {} /\ batch.answer = "none"
  /\ Answers("error")
  /\ UNCHANGED <<incoming, row, sends, unknown, balance, faults>>
AnswerLost ==
  /\ batch.claimed # {} /\ batch.answer = "none" /\ Fault
  /\ Moves /\ unknown' = unknown \cup {Current}
  /\ Answers("error")
  /\ UNCHANGED <<incoming, row, balance>>

NextInBatch == batch' = [claimed |-> batch.claimed \ {Current}, answer |-> "none"]

MarkSent ==
  /\ batch.answer = "ok"
  /\ row' = [row EXCEPT ![Current] = "sent"]
  /\ NextInBatch
  /\ UNCHANGED <<incoming, sends, unknown, balance, faults>>

RefundNothing ==
  /\ batch.answer = "error"
  /\ NextInBatch
  /\ UNCHANGED <<incoming, row, balance, sends, unknown, faults>>

\* refund: any error is taken to mean that nothing was sent.
Refund ==
  /\ batch.answer = "error"
  /\ row' = [row EXCEPT ![Current] = "failed"]
  /\ balance' = balance + Cost[Current]
  /\ NextInBatch
  /\ UNCHANGED <<incoming, sends, unknown, faults>>

\* A refund that fails is logged and the batch goes on.
RefundBreaks ==
  /\ batch.answer = "error" /\ Fault
  /\ NextInBatch
  /\ UNCHANGED <<incoming, row, sends, unknown, balance>>

\* The update to sent fails, or the process dies: the rest of the batch is
\* forgotten.
SenderBreaks ==
  /\ batch # NoBatch /\ Fault
  /\ batch' = NoBatch
  /\ UNCHANGED <<incoming, row, sends, unknown, balance>>

-----------------------------------------------------------------------------
Watch ==
  \/ ReadHead \/ FilterLogs \/ Advance \/ PollEnds
  \/ \E log \in poll.logs : Record(log)
  \/ \E k \in poll.due : Credit(k)
SendStep == Claim \/ MarkSent \/ Refund
Answer == Sent \/ Refused

Next ==
  \/ \E included \in SUBSET Transfer : Mine(included)
  \/ \E kept \in SUBSET Transfer : Reorganise(kept)
  \/ Watch \/ PollBreaks
  \/ \E w \in Withdrawal : Open(w)
  \/ SendStep \/ Answer \/ AnswerLost \/ RefundBreaks \/ SenderBreaks

Spec == Init /\ [][Next]_vars

\* The chain grows, both timers tick and a call returns.
FairSpec ==
  /\ Spec
  /\ WF_vars(Mine({})) /\ WF_vars(Watch) /\ WF_vars(SendStep) /\ WF_vars(Answer)

-----------------------------------------------------------------------------
Credited(t) == {i \in Index : deposit[<<t, i>>].state = "credited"}

\* What is credited happened: the transfer is in the block it was seen in,
\* with the confirmations asked for, is not our own, and is credited once
\* however often its block is read. This asks that its block was not replaced
\* after the watcher had read it.
CreditedIsConfirmed ==
  \A t \in Transfer \ moved : Credited(t) # {} =>
    /\ Credited(t) = {chain.index[t]} /\ t \notin Ours
    /\ chain.block[t] # 0 /\ chain.block[t] + Confirmations <= chain.head

\* What each transfer in the chain brought and what it was credited as, what
\* each withdrawal took from it and, debited, is still to take.
Arrived == [t \in Transfer |-> IF chain.block[t] # 0 THEN Cents[t] ELSE 0]
Paid ==
  [t \in Transfer |-> (IF 0 \in Credited(t) THEN Cents[t] ELSE 0)
                       + (IF 1 \in Credited(t) THEN Cents[t] ELSE 0)]
Departed == [w \in Withdrawal |-> sends[w] * Cost[w]]
ToDepart ==
  [w \in Withdrawal |->
     IF sends[w] = 0 /\ row[w] \in {"pending", "sending"} THEN Cost[w] ELSE 0]

\* What the code can lose: what it credited for a transfer that was reorganised
\* after it was read, over what arrived, and what it returned for a withdrawal
\* whose answer was lost.
Undone ==
  [t \in Transfer |-> IF t \in moved /\ Paid[t] > Arrived[t] THEN Paid[t] - Arrived[t] ELSE 0]
Mistaken ==
  [w \in Withdrawal |-> IF w \in unknown /\ row[w] = "failed" THEN Cost[w] ELSE 0]

\* The cardholder's own accounts hold what the ledger says is theirs and what
\* was debited for withdrawals still to be sent, through failed polls, failed
\* refunds and crashes, and never fall short by more than those two losses.
Solvent ==
  balance + Total(ToDepart, Withdrawal)
    <= Total(Arrived, Transfer) - Total(Departed, Withdrawal)
       + Total(Undone, Transfer) + Total(Mistaken, Withdrawal)

\* A transfer of a stranger's in the chain is credited in the end, a restarted
\* watcher, failed polls and a window of blocks at a time notwithstanding. It
\* is not if it left the chain, was reorganised after it was read, or is in a
\* block before the one the watcher began from.
EveryDepositCredited ==
  \A t \in Transfer \ Ours :
    (chain.block[t] # 0 /\ Cents[t] > 0)
      ~> (Credited(t) # {} \/ t \in moved \/ chain.block[t] < first)

\* A withdrawal that was debited is sent or returned, unless a fault left it
\* claimed by nobody.
Stranded(w) == row[w] = "sending" /\ w \notin batch.claimed /\ faults > 0
EveryWithdrawalEnds ==
  \A w \in Withdrawal : row[w] = "pending" ~> (row[w] \in {"sent", "failed"} \/ Stranded(w))
=============================================================================
