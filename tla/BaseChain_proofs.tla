--------------------------- MODULE BaseChain_proofs ---------------------------
(***************************************************************************)
(* For any transfers, withdrawals, windows of blocks, reorganisations and  *)
(* faults, what is credited is in the chain and was confirmed, and what is *)
(* returned to a cardholder was not sent.                                  *)
(*                                                                         *)
(* A deposit is credited by the block its row was recorded with and by the *)
(* head the poll read first. The invariant relates both to the chain of    *)
(* now: a row, and a log in hand, of a transfer no reorganisation touched  *)
(* still say where that transfer is, and no poll has seen more of the      *)
(* chain than there is.                                                    *)
(***************************************************************************)
EXTENDS BaseChain, Sums_proofs

Untouched == Transfer \ moved

\* A row of the table says where its transfer is.
RowsAgree ==
  \A t \in Untouched, i \in Index : deposit[<<t, i>>].state # "none" =>
    /\ i = chain.index[t] /\ deposit[<<t, i>>].block = chain.block[t]
    /\ chain.block[t] # 0 /\ t \notin Ours

\* So does a log the poll has in hand.
LogsAgree ==
  \A log \in poll.logs : log.transfer \in Untouched =>
    log.index = chain.index[log.transfer] /\ log.block = chain.block[log.transfer]

\* A row about to be credited was old enough at the head the poll read.
DueIsConfirmed ==
  /\ \A k \in poll.due : /\ deposit[k].state # "none"
                         /\ deposit[k].block + Confirmations <= poll.head
  /\ poll.head <= chain.head

\* A row that has been credited is old enough.
CreditedIsOld ==
  \A t \in Untouched, i \in Index : deposit[<<t, i>>].state = "credited" =>
    chain.block[t] + Confirmations <= chain.head

Inv == TypeOK /\ RowsAgree /\ LogsAgree /\ DueIsConfirmed /\ CreditedIsOld

-----------------------------------------------------------------------------
Incoming ==
  /\ chain \in [head : Block, block : [Transfer -> 0..MaxHead], index : [Transfer -> Index]]
  /\ position \in 0..(MaxHead + 1) /\ first \in 0..(MaxHead + 1)
  /\ deposit \in [Transfer \X Index -> [state : {"none", "seen", "credited", "failed"},
                                        block : 0..MaxHead]]
  /\ poll \in [at : {"idle", "logs", "record", "credit"}, head : Block,
              from : 1..(MaxHead + 1), to : Block, logs : SUBSET Log, due : SUBSET (Transfer \X Index)]
  /\ poll.to <= poll.head
  /\ moved \subseteq Transfer /\ reorgs \in 0..MaxReorgs

Outgoing ==
  /\ row \in [Withdrawal -> {"none", "pending", "sending", "sent", "failed"}]
  /\ batch \in [claimed : SUBSET Withdrawal, answer : {"none", "ok", "error"}]
  /\ \A w \in batch.claimed : row[w] = "sending"
  /\ batch.claimed = {} => batch.answer = "none"
  /\ sends \in [Withdrawal -> Nat] /\ unknown \subseteq Withdrawal

Kept == Incoming /\ Outgoing /\ balance \in Nat /\ faults \in 0..MaxFaults

\* The type invariant in its two halves.
LEMMA Halves == TypeOK <=> Kept
BY DEF TypeOK, Kept, Incoming, Outgoing

\* The constants are numbers.
LEMMA Numbers ==
  /\ \A t \in Transfer : Cents[t] \in Nat
  /\ \A w \in Withdrawal : Cost[w] \in Nat
  /\ Confirmations \in Nat /\ MaxBlockSpan \in Nat /\ StartBlock \in Nat /\ MaxHead \in Nat \ {0}
  /\ MaxReorgs \in Nat /\ MaxFaults \in Nat
BY BaseAssumption

\* A fault is counted within its bound.
LEMMA FaultType == TypeOK /\ Fault => faults' \in 0..MaxFaults
BY Numbers DEF TypeOK, Fault

\* The withdrawal in hand is one of the batch.
LEMMA CurrentIsClaimed == TypeOK /\ batch.claimed # {} => Current \in batch.claimed
BY DEF Current

-----------------------------------------------------------------------------
ChainOK ==
  chain \in [head : Block, block : [Transfer -> 0..MaxHead], index : [Transfer -> Index]]

\* What a new block changes.
LEMMA MineEffect ==
  ASSUME TypeOK, NEW included \in SUBSET Transfer, Mine(included)
  PROVE  /\ ChainOK' /\ chain'.head = chain.head + 1 /\ chain'.index = chain.index
         /\ \A t \in Transfer : chain.block[t] # 0 => chain'.block[t] = chain.block[t]
         /\ UNCHANGED <<position, deposit, poll, first, moved, reorgs, outgoing, balance, faults>>
<1> DEFINE b == [t \in Transfer |-> IF t \in included THEN chain.head + 1 ELSE chain.block[t]]
<1>1. chain.head < MaxHead /\ included \subseteq {t \in Transfer : chain.block[t] = 0}
  BY DEF Mine
<1>2. chain.head + 1 \in Block
  BY <1>1, Numbers DEF TypeOK, Block
<1>3. b \in [Transfer -> 0..MaxHead]
  BY <1>2 DEF TypeOK, Block
<1>4. \A t \in Transfer : chain.block[t] # 0 => b[t] = chain.block[t]
  BY <1>1
<1>5. /\ chain' = [chain EXCEPT !.head = chain.head + 1, !.block = b]
      /\ UNCHANGED <<position, deposit, poll, first, moved, reorgs, outgoing, balance, faults>>
  BY DEF Mine, TypeOK
<1> QED
  <2> HIDE DEF b
  <2> QED
    BY <1>2, <1>3, <1>4, <1>5 DEF TypeOK, ChainOK

\* What a reorganisation changes.
LEMMA ReorganiseEffect ==
  ASSUME TypeOK, NEW kept \in SUBSET Transfer, Reorganise(kept)
  PROVE  /\ ChainOK' /\ chain'.head = chain.head
         /\ moved \subseteq moved' /\ moved' \subseteq Transfer /\ reorgs' \in 0..MaxReorgs
         /\ \A t \in Transfer \ moved' : Read(t) =>
              chain'.block[t] = chain.block[t] /\ chain'.index[t] = chain.index[t]
         /\ UNCHANGED <<position, deposit, poll, first, outgoing, balance, faults>>
<1> DEFINE last == {t \in Transfer : chain.block[t] = chain.head}
           b == [t \in Transfer |-> IF t \in last \ kept THEN 0 ELSE chain.block[t]]
           i == [t \in Transfer |-> IF t \in kept THEN 1 - chain.index[t] ELSE chain.index[t]]
<1>1. reorgs < MaxReorgs /\ reorgs' = reorgs + 1 /\ kept \subseteq last
  BY DEF Reorganise
<1>2. reorgs' \in 0..MaxReorgs
  BY <1>1, Numbers DEF TypeOK
<1>3. b \in [Transfer -> 0..MaxHead]
  BY Numbers DEF TypeOK
<1>4. i \in [Transfer -> Index]
  BY DEF TypeOK, Index
<1>5. \A t \in Transfer \ last : b[t] = chain.block[t] /\ i[t] = chain.index[t]
  BY <1>1
<1>6. /\ chain' = [chain EXCEPT !.block = b, !.index = i] /\ moved' = moved \cup {t \in last : Read(t)}
      /\ UNCHANGED <<position, deposit, poll, first, outgoing, balance, faults>>
  BY DEF Reorganise, TypeOK
<1>7. last \subseteq Transfer
  OBVIOUS
<1> QED
  <2> HIDE DEF b, i, last
  <2> QED
    BY <1>2, <1>3, <1>4, <1>5, <1>6, <1>7 DEF TypeOK, ChainOK

ChainStep ==
  \/ \E included \in SUBSET Transfer : Mine(included)
  \/ \E kept \in SUBSET Transfer : Reorganise(kept)

\* The chain stays well typed, and what it holds of untouched transfers stays.
LEMMA ChainType ==
  ASSUME TypeOK, ChainStep
  PROVE  /\ TypeOK' /\ deposit' = deposit /\ poll' = poll /\ moved \subseteq moved'
         /\ chain.head <= chain'.head
         /\ \A t \in Transfer \ moved' : Read(t) /\ chain.block[t] # 0 =>
              chain'.block[t] = chain.block[t] /\ chain'.index[t] = chain.index[t]
<1>1. CASE \E included \in SUBSET Transfer : Mine(included)
  <2> PICK included \in SUBSET Transfer : Mine(included)
    BY <1>1
  <2> QED
    BY MineEffect DEF ChainOK, TypeOK, Block, outgoing
<1>2. CASE \E kept \in SUBSET Transfer : Reorganise(kept)
  <2> PICK kept \in SUBSET Transfer : Reorganise(kept)
    BY <1>2
  <2> QED
    BY ReorganiseEffect DEF ChainOK, TypeOK, Block, outgoing
<1> QED
  BY <1>1, <1>2 DEF ChainStep

\* The watcher keeps its rows and its place well typed.
LEMMA WatchType ==
  ASSUME TypeOK, Watch \/ PollBreaks
  PROVE  TypeOK'
<1> USE DEF Block
<1>1. CASE ReadHead
  <2>1. From \in 1..(MaxHead + 1)
    BY <1>1, Numbers DEF ReadHead, From, TypeOK
  <2>2. poll'.to \in Block /\ poll'.to <= chain.head /\ poll'.from \in 1..(MaxHead + 1)
    BY <1>1, <2>1, Numbers DEF ReadHead, TypeOK
  <2> QED
    BY <1>1, <2>2 DEF ReadHead, TypeOK, outgoing
<1>2. CASE FilterLogs
  <2>1. \A t \in Transfer : chain.block[t] \in poll.from..poll.to => chain.block[t] \in Block
    BY Numbers DEF TypeOK
  <2>2. poll'.logs \subseteq Log
    BY <1>2, <2>1 DEF FilterLogs, TypeOK, Log
  <2> QED
    BY <1>2, <2>2 DEF FilterLogs, TypeOK, outgoing
<1>3. CASE \E log \in poll.logs : Record(log)
  <2> PICK log \in poll.logs : Record(log)
    BY <1>3
  <2>1. log.transfer \in Transfer /\ log.index \in Index /\ log.block \in 0..MaxHead
    BY DEF TypeOK, Log
  <2>2. deposit' \in [Transfer \X Index -> [state : {"none", "seen", "credited", "failed"},
                                            block : 0..MaxHead]]
    BY <2>1 DEF Record, TypeOK
  <2> QED
    BY <2>2 DEF Record, TypeOK, outgoing
<1>4. CASE Advance
  <2>1. poll'.due \subseteq Transfer \X Index
    BY <1>4 DEF Advance, Due, TypeOK
  <2>2. position' \in 0..(MaxHead + 1) /\ first' \in 0..(MaxHead + 1)
    BY <1>4, Numbers DEF Advance, Advances, TypeOK
  <2> QED
    BY <1>4, <2>1, <2>2 DEF Advance, TypeOK, outgoing
<1>5. CASE \E k \in poll.due : Credit(k)
  <2> PICK k \in poll.due : Credit(k)
    BY <1>5
  <2>1. k \in Transfer \X Index /\ Cents[k[1]] \in Nat
    BY Numbers DEF TypeOK
  <2>2. balance' \in Nat
    BY <2>1 DEF Credit, TypeOK
  <2>3. deposit' \in [Transfer \X Index -> [state : {"none", "seen", "credited", "failed"},
                                            block : 0..MaxHead]]
    BY <2>1 DEF Credit, TypeOK
  <2> QED
    BY <2>2, <2>3 DEF Credit, TypeOK, outgoing
<1>6. CASE PollEnds \/ PollBreaks
  <2>1. Resting \in [at : {"idle", "logs", "record", "credit"}, head : Block,
                     from : 1..(MaxHead + 1), to : Block,
                     logs : SUBSET Log, due : SUBSET (Transfer \X Index)]
          /\ Resting.to <= Resting.head
    BY Numbers DEF Resting
  <2> QED
    BY <1>6, <2>1, FaultType DEF PollEnds, PollBreaks, TypeOK, outgoing
<1> QED
  BY <1>1, <1>2, <1>3, <1>4, <1>5, <1>6 DEF Watch

Sending ==
  \/ \E w \in Withdrawal : Open(w)
  \/ SendStep \/ Answer \/ AnswerLost \/ RefundBreaks \/ SenderBreaks

\* Withdrawals keep their rows and the batch well typed.
LEMMA SendType ==
  ASSUME TypeOK, Sending
  PROVE  TypeOK'
<1>1. CASE \E w \in Withdrawal : Open(w)
  <2> PICK w \in Withdrawal : Open(w)
    BY <1>1
  <2>1. balance' \in Nat
    BY Numbers DEF Open, TypeOK
  <2> QED
    BY <2>1 DEF Open, TypeOK, incoming
<1>2. CASE Claim
  BY <1>2 DEF Claim, NoBatch, TypeOK, incoming
<1>3. CASE Sent \/ Refused \/ AnswerLost
  <2>1. Current \in batch.claimed /\ batch' = [batch EXCEPT !.answer = batch'.answer]
          /\ batch'.answer \in {"ok", "error"}
    BY <1>3, CurrentIsClaimed DEF Sent, Refused, AnswerLost, Answers, TypeOK
  <2>2. sends' \in [Withdrawal -> Nat] /\ unknown' \subseteq Withdrawal
    BY <1>3, <2>1 DEF Sent, Refused, AnswerLost, Moves, TypeOK
  <2> QED
    BY <1>3, <2>1, <2>2, FaultType DEF Sent, Refused, AnswerLost, TypeOK, incoming
<1>4. CASE MarkSent \/ Refund \/ RefundBreaks
  <2>1. Current \in batch.claimed /\ Current \in Withdrawal
    BY <1>4, CurrentIsClaimed DEF MarkSent, Refund, RefundBreaks, TypeOK
  <2>2. balance' \in Nat
    BY <1>4, <2>1, Numbers DEF MarkSent, Refund, RefundBreaks, TypeOK
  <2>3. batch' \in [claimed : SUBSET Withdrawal, answer : {"none", "ok", "error"}]
          /\ batch'.claimed = batch.claimed \ {Current} /\ batch'.answer = "none"
    BY <1>4 DEF MarkSent, Refund, RefundBreaks, NextInBatch, TypeOK
  <2>4. \A w \in Withdrawal \ {Current} : row'[w] = row[w]
    BY <1>4, <2>1 DEF MarkSent, Refund, RefundBreaks, TypeOK
  <2>5. \A w \in batch'.claimed : row'[w] = "sending"
    BY <2>3, <2>4 DEF TypeOK
  <2>6. row' \in [Withdrawal -> {"none", "pending", "sending", "sent", "failed"}]
    BY <1>4 DEF MarkSent, Refund, RefundBreaks, TypeOK
  <2> QED
    BY <1>4, <2>2, <2>3, <2>5, <2>6, FaultType
    DEF MarkSent, Refund, RefundBreaks, TypeOK, incoming
<1>5. CASE SenderBreaks
  BY <1>5, FaultType DEF SenderBreaks, NoBatch, TypeOK, incoming
<1> QED
  BY <1>1, <1>2, <1>3, <1>4, <1>5 DEF Sending, SendStep, Answer

\* Every step keeps every variable well typed.
LEMMA StepType == TypeOK /\ [Next]_vars => TypeOK'
<1> SUFFICES ASSUME TypeOK, [Next]_vars PROVE TypeOK'
  OBVIOUS
<1>1. CASE UNCHANGED vars
  BY <1>1 DEF vars, incoming, outgoing, TypeOK
<1> QED
  BY <1>1, ChainType, WatchType, SendType DEF Next, Sending, ChainStep

\* The initial rows and workers are well typed.
LEMMA InitType == Init => TypeOK
<1> SUFFICES ASSUME Init PROVE TypeOK
  OBVIOUS
<1>1. 1 \in Block /\ 0 \in Index /\ 0 \in 0..MaxHead /\ 1 \in 1..(MaxHead + 1)
  BY Numbers DEF Block, Index
<1>2. Resting \in [at : {"idle", "logs", "record", "credit"}, head : Block,
                   from : 1..(MaxHead + 1), to : Block,
                   logs : SUBSET Log, due : SUBSET (Transfer \X Index)]
        /\ Resting.to <= Resting.head
  BY <1>1 DEF Resting
<1> QED
  BY <1>1, <1>2, Numbers DEF Init, TypeOK, NoBatch

\* Rows, polls and batches are well typed in every reachable state, for any
\* transfers, withdrawals and faults.
THEOREM TypeCorrect == Spec => []TypeOK
<1> QED
  BY InitType, StepType, PTL DEF Spec

-----------------------------------------------------------------------------
\* A reorganisation, or a new block, leaves what is on record of an untouched
\* transfer where it is.
LEMMA ChainKeeps ==
  ASSUME Inv, ChainStep
  PROVE  Inv'
<1>1. TypeOK /\ TypeOK'
  BY ChainType DEF Inv
<1>2. /\ deposit' = deposit /\ poll' = poll /\ moved \subseteq moved'
      /\ chain.head <= chain'.head
  BY ChainType DEF Inv
<1>3. \A t \in Transfer \ moved' : Read(t) /\ chain.block[t] # 0 =>
        chain'.block[t] = chain.block[t] /\ chain'.index[t] = chain.index[t]
  BY ChainType DEF Inv
<1>4. RowsAgree'
  BY <1>2, <1>3 DEF Inv, RowsAgree, Untouched, Read
<1>5. LogsAgree'
  <2> SUFFICES ASSUME NEW log \in poll.logs, log.transfer \in Transfer \ moved'
               PROVE  /\ log.index = chain'.index[log.transfer]
                      /\ log.block = chain'.block[log.transfer]
    BY <1>2 DEF LogsAgree, Untouched
  <2>1. log.block # 0 /\ Read(log.transfer)
    BY <1>1 DEF TypeOK, Log, Block, Read
  <2> QED
    BY <1>2, <1>3, <2>1 DEF Inv, LogsAgree, Untouched
<1>6. DueIsConfirmed'
  BY <1>1, <1>2 DEF Inv, DueIsConfirmed, TypeOK, Block
<1>7. CreditedIsOld'
  <2> SUFFICES ASSUME NEW t \in Transfer \ moved', NEW i \in Index,
                      deposit[<<t, i>>].state = "credited"
               PROVE  chain'.block[t] + Confirmations <= chain'.head
    BY <1>2 DEF CreditedIsOld, Untouched
  <2>1. chain.block[t] # 0 /\ chain.block[t] + Confirmations <= chain.head /\ Read(t)
    BY <1>2 DEF Inv, RowsAgree, CreditedIsOld, Untouched, Read
  <2>2. chain'.block[t] = chain.block[t] /\ chain.block[t] \in Nat
          /\ chain.head \in Nat /\ chain'.head \in Nat
    BY <1>1, <1>3, <2>1 DEF TypeOK, Block
  <2> QED
    BY <1>2, <2>1, <2>2, Numbers
<1> QED
  BY <1>1, <1>4, <1>5, <1>6, <1>7 DEF Inv

\* The watcher records what the chain says, and credits what is old enough.
LEMMA WatchKeeps ==
  ASSUME Inv, Watch \/ PollBreaks
  PROVE  Inv'
<1>1. TypeOK /\ TypeOK'
  BY WatchType DEF Inv
<1>2. CASE ReadHead \/ PollEnds \/ PollBreaks
  <2>1. chain' = chain /\ deposit' = deposit /\ moved' = moved
    BY <1>2 DEF ReadHead, PollEnds, PollBreaks
  <2>2. poll'.logs \subseteq poll.logs /\ poll'.due \subseteq poll.due
          /\ (poll'.due # {} => poll'.head = chain.head) /\ poll'.head <= chain.head
    <3>1. CASE ReadHead
      BY <1>1, <3>1 DEF ReadHead, TypeOK, Block
    <3>2. CASE PollEnds \/ PollBreaks
      BY <1>1, <3>2 DEF PollEnds, PollBreaks, Resting, TypeOK, Block
    <3> QED
      BY <1>2, <3>1, <3>2
  <2>3. DueIsConfirmed'
    <3> SUFFICES ASSUME NEW k \in poll'.due
                 PROVE deposit[k].state # "none" /\ deposit[k].block + Confirmations <= poll'.head
      BY <2>1, <2>2 DEF DueIsConfirmed
    <3>1. /\ deposit[k].state # "none" /\ deposit[k].block + Confirmations <= poll.head
          /\ poll.head <= chain.head
      BY <2>2 DEF Inv, DueIsConfirmed
    <3>2. deposit[k].block \in Nat /\ poll.head \in Nat /\ chain.head \in Nat
      BY <1>1, <2>2 DEF TypeOK, Block
    <3> QED
      BY <2>2, <3>1, <3>2, Numbers
  <2> QED
    BY <1>1, <2>1, <2>2, <2>3 DEF Inv, RowsAgree, LogsAgree, CreditedIsOld, Untouched
<1>3. CASE FilterLogs
  <2> DEFINE new == {[transfer |-> t, index |-> chain.index[t], block |-> chain.block[t]] :
                       t \in {u \in Transfer : chain.block[u] \in poll.from..poll.to}}
  <2>1. /\ chain' = chain /\ moved' = moved /\ deposit' = deposit
        /\ poll' = [poll EXCEPT !.at = "record", !.logs = new]
    BY <1>3 DEF FilterLogs
  <2>2. \A log \in new : log.index = chain.index[log.transfer] /\ log.block = chain.block[log.transfer]
    OBVIOUS
  <2>3. poll'.logs = new /\ poll'.head = poll.head /\ poll'.due = poll.due
    <3> HIDE DEF new
    <3> QED
      BY <1>1, <2>1 DEF TypeOK
  <2> HIDE DEF new
  <2>4. LogsAgree'
    BY <2>1, <2>2, <2>3 DEF LogsAgree
  <2> QED
    BY <1>1, <2>1, <2>3, <2>4 DEF Inv, RowsAgree, DueIsConfirmed, CreditedIsOld, Untouched
<1>4. CASE \E log \in poll.logs : Record(log)
  <2> PICK log \in poll.logs : Record(log)
    BY <1>4
  <2> DEFINE k == <<log.transfer, log.index>>
  <2>1. k \in Transfer \X Index /\ log.transfer \in Transfer /\ log.block # 0
    BY <1>1 DEF TypeOK, Log, Block
  <2>2. /\ chain' = chain /\ moved' = moved /\ poll'.due = poll.due /\ poll'.head = poll.head
        /\ poll'.logs \subseteq poll.logs
    BY <1>1 DEF Record, TypeOK
  <2>3. \A j \in Transfer \X Index : deposit'[j] = deposit[j] \/
          (/\ j = k /\ log.transfer \notin Ours /\ deposit[k].state = "none"
           /\ deposit'[k].state = "seen" /\ deposit'[k].block = log.block)
    BY <1>1, <2>1 DEF Record, TypeOK
  <2>4. RowsAgree'
    <3> SUFFICES ASSUME NEW t \in Untouched, NEW i \in Index, deposit'[<<t, i>>].state # "none"
                 PROVE /\ i = chain.index[t] /\ deposit'[<<t, i>>].block = chain.block[t]
                       /\ chain.block[t] # 0 /\ t \notin Ours
      BY <2>2 DEF RowsAgree, Untouched
    <3>1. CASE deposit'[<<t, i>>] = deposit[<<t, i>>]
      BY <3>1 DEF Inv, RowsAgree
    <3>2. CASE deposit'[<<t, i>>] # deposit[<<t, i>>]
      <4>1. /\ <<t, i>> = k /\ log.transfer \notin Ours /\ deposit'[k].block = log.block
        BY <2>3, <3>2 DEF Untouched
      <4>2. t = log.transfer /\ i = log.index
        BY <4>1
      <4>3. log.index = chain.index[t] /\ log.block = chain.block[t]
        BY <4>2 DEF Inv, LogsAgree
      <4> QED
        BY <2>1, <4>1, <4>2, <4>3
    <3> QED
      BY <3>1, <3>2
  <2>5. DueIsConfirmed'
    <3> SUFFICES ASSUME NEW j \in poll.due
                 PROVE deposit'[j].state # "none" /\ deposit'[j].block + Confirmations <= poll.head
      BY <2>2 DEF Inv, DueIsConfirmed
    <3>1. j \in Transfer \X Index /\ deposit[j].state # "none"
      BY <1>1 DEF Inv, DueIsConfirmed, TypeOK
    <3> QED
      BY <2>3, <3>1 DEF Inv, DueIsConfirmed
  <2>6. CreditedIsOld'
    <3> SUFFICES ASSUME NEW t \in Untouched, NEW i \in Index,
                        deposit'[<<t, i>>].state = "credited"
                 PROVE  chain.block[t] + Confirmations <= chain.head
      BY <2>2 DEF CreditedIsOld, Untouched
    <3>1. deposit'[<<t, i>>] = deposit[<<t, i>>]
      BY <2>3 DEF Untouched
    <3> QED
      BY <3>1 DEF Inv, CreditedIsOld
  <2> QED
    BY <1>1, <2>2, <2>4, <2>5, <2>6 DEF Inv, LogsAgree, Untouched
<1>5. CASE Advance
  <2>1. /\ chain' = chain /\ moved' = moved /\ deposit' = deposit /\ poll'.logs = poll.logs
        /\ poll'.head = poll.head /\ poll'.due = Due(poll.head)
    BY <1>1, <1>5 DEF Advance, TypeOK
  <2>2. DueIsConfirmed'
    <3> SUFFICES ASSUME NEW k \in Due(poll.head)
                 PROVE deposit[k].state # "none" /\ deposit[k].block + Confirmations <= poll.head
      BY <2>1 DEF Inv, DueIsConfirmed
    <3>1. /\ k \in Transfer \X Index /\ deposit[k].state = "seen"
          /\ deposit[k].block <= poll.head - Confirmations
      BY DEF Due
    <3>2. deposit[k].block \in Nat /\ poll.head \in Nat
      BY <1>1, <3>1 DEF TypeOK, Block
    <3> QED
      BY <3>1, <3>2, Numbers
  <2> QED
    BY <1>1, <2>1, <2>2 DEF Inv, RowsAgree, LogsAgree, CreditedIsOld, Untouched
<1>6. CASE \E k \in poll.due : Credit(k)
  <2> PICK k \in poll.due : Credit(k)
    BY <1>6
  <2>1. k \in Transfer \X Index
    BY <1>1 DEF TypeOK
  <2>2. /\ chain' = chain /\ moved' = moved /\ poll'.logs = poll.logs
        /\ poll'.head = poll.head /\ poll'.due \subseteq poll.due
    BY <1>1 DEF Credit, TypeOK
  <2>3. \A j \in Transfer \X Index :
          /\ deposit'[j].block = deposit[j].block
          /\ j # k => deposit'[j] = deposit[j]
          /\ deposit'[k].state # "none"
    BY <1>1, <2>1 DEF Credit, TypeOK
  <2>4. deposit[k].state # "none" /\ deposit[k].block + Confirmations <= poll.head
          /\ poll.head <= chain.head
    BY DEF Inv, DueIsConfirmed
  <2>5. RowsAgree'
    BY <2>1, <2>2, <2>3, <2>4 DEF Inv, RowsAgree, Untouched
  <2>6. DueIsConfirmed'
    BY <1>1, <2>1, <2>2, <2>3 DEF Inv, DueIsConfirmed, TypeOK
  <2>7. CreditedIsOld'
    <3> SUFFICES ASSUME NEW t \in Untouched, NEW i \in Index,
                        deposit'[<<t, i>>].state = "credited"
                 PROVE  chain.block[t] + Confirmations <= chain.head
      BY <2>2 DEF CreditedIsOld, Untouched
    <3>1. CASE <<t, i>> # k
      BY <2>3, <3>1 DEF Inv, CreditedIsOld, Untouched
    <3>2. CASE <<t, i>> = k
      <4>1. deposit[k].block = chain.block[t]
        BY <2>4, <3>2 DEF Inv, RowsAgree
      <4>2. chain.block[t] \in Nat /\ poll.head \in Nat /\ chain.head \in Nat
        BY <1>1 DEF TypeOK, Block, Untouched
      <4> QED
        BY <2>4, <4>1, <4>2, Numbers
    <3> QED
      BY <3>1, <3>2
  <2> QED
    BY <1>1, <2>2, <2>5, <2>6, <2>7 DEF Inv, LogsAgree, Untouched
<1> QED
  BY <1>2, <1>3, <1>4, <1>5, <1>6 DEF Watch

\* A step that concerns withdrawals alone disturbs nothing of this.
LEMMA SendKeeps ==
  ASSUME Inv, Sending \/ UNCHANGED vars
  PROVE  Inv'
<1>1. UNCHANGED incoming
  BY DEF Sending, SendStep, Answer, Open, Claim, MarkSent, Refund, Sent, Refused, AnswerLost,
         RefundBreaks, SenderBreaks, vars
<1>2. TypeOK'
  BY SendType, StepType DEF Inv
<1> QED
  BY <1>1, <1>2
  DEF incoming, Inv, RowsAgree, LogsAgree, DueIsConfirmed, CreditedIsOld, Untouched

\* The invariant holds at first.
LEMMA InitInv == Init => Inv
<1> SUFFICES ASSUME Init PROVE Inv
  OBVIOUS
<1>1. TypeOK
  BY InitType
<1> QED
  BY <1>1, Numbers
  DEF Init, Inv, RowsAgree, LogsAgree, DueIsConfirmed, CreditedIsOld, Untouched, Resting

\* The invariant is what credited rows are asked to satisfy.
LEMMA InvCredited == Inv => CreditedIsConfirmed
<1> SUFFICES ASSUME Inv, NEW t \in Transfer \ moved, Credited(t) # {}
             PROVE  /\ Credited(t) = {chain.index[t]} /\ t \notin Ours
                    /\ chain.block[t] # 0 /\ chain.block[t] + Confirmations <= chain.head
  BY DEF CreditedIsConfirmed
<1>1. \A i \in Credited(t) : /\ i = chain.index[t] /\ t \notin Ours /\ chain.block[t] # 0
                             /\ chain.block[t] + Confirmations <= chain.head
  BY DEF Inv, RowsAgree, CreditedIsOld, Untouched, Credited
<1> QED
  BY <1>1

\* Whatever polls fail or die, in whatever windows they read, a transfer that
\* no reorganisation touched is credited only in its block, with the
\* confirmations asked for, once, and never if it is the platform's own
\* (Poll, Record, CreditConfirmed).
THEOREM Confirmed == Spec => []CreditedIsConfirmed
<1>1. Inv /\ [Next]_vars => Inv'
  BY ChainKeeps, WatchKeeps, SendKeeps DEF Next, Sending, ChainStep
<1> QED
  BY InitInv, <1>1, InvCredited, PTL DEF Spec

-----------------------------------------------------------------------------
\* What a withdrawal's row says of what was sent: nothing was before its turn
\* in the batch, it is sent once, and after it the row says so, but for a lost
\* answer.
RowsTell ==
  /\ \A w \in Withdrawal :
       /\ sends[w] \in {0, 1}
       /\ row[w] \in {"none", "pending"} => sends[w] = 0
       /\ row[w] = "sent" => sends[w] = 1
       /\ row[w] = "failed" => sends[w] = 0 \/ w \in unknown
  /\ \A w \in batch.claimed : w = Current \/ sends[w] = 0
  /\ batch.claimed # {} =>
       /\ batch.answer = "none" => sends[Current] = 0
       /\ batch.answer = "ok" => sends[Current] = 1
       /\ batch.answer = "error" => sends[Current] = 0 \/ Current \in unknown

\* No withdrawal is sent twice; one returned to the cardholder was not sent,
\* unless the answer to the send was lost; one whose row reads sent was.
SentAsTold ==
  \A w \in Withdrawal : /\ sends[w] <= 1
                        /\ row[w] = "failed" => sends[w] = 0 \/ w \in unknown
                        /\ row[w] = "sent" => sends[w] = 1

\* Each step of the sender leaves rows that tell.
LEMMA SendTells ==
  ASSUME TypeOK, RowsTell, [Next]_vars
  PROVE  RowsTell'
<1>0. TypeOK'
  BY StepType
<1>1. CASE UNCHANGED outgoing
  BY <1>1 DEF outgoing, RowsTell, Current
<1>2. CASE \E w \in Withdrawal : Open(w)
  <2> PICK w \in Withdrawal : Open(w)
    BY <1>2
  <2>1. batch' = batch /\ sends' = sends /\ unknown' = unknown /\ Current' = Current
    BY DEF Open, Current
  <2>2. row' = [row EXCEPT ![w] = "pending"] /\ row[w] = "none"
    BY DEF Open
  <2> QED
    BY <2>1, <2>2 DEF RowsTell, TypeOK
<1>3. CASE Claim
  <2>1. sends' = sends /\ unknown' = unknown /\ batch'.answer = "none"
          /\ batch'.claimed = {w \in Withdrawal : row[w] = "pending"} /\ batch'.claimed # {}
    BY <1>3 DEF Claim, NoBatch
  <2>2. \A w \in Withdrawal : row'[w] = IF row[w] = "pending" THEN "sending" ELSE row[w]
    BY <1>3 DEF Claim
  <2>3. Current' \in batch'.claimed
    BY <1>0, <2>1 DEF Current
  <2> QED
    BY <2>1, <2>2, <2>3 DEF RowsTell
<1>4. CASE Sent \/ Refused \/ AnswerLost
  <2>1. /\ Current \in batch.claimed /\ batch'.claimed = batch.claimed /\ Current' = Current
        /\ row' = row /\ batch.answer = "none"
    BY <1>4, CurrentIsClaimed DEF Sent, Refused, AnswerLost, Answers, Current, TypeOK
  <2>2. \/ Moves /\ unknown' = unknown /\ batch'.answer = "ok"
        \/ sends' = sends /\ unknown' = unknown /\ batch'.answer = "error"
        \/ Moves /\ unknown' = unknown \cup {Current} /\ batch'.answer = "error"
    BY <1>4 DEF Sent, Refused, AnswerLost, Answers, TypeOK
  <2>3. row[Current] = "sending" /\ Current \in Withdrawal /\ sends[Current] = 0
    BY <2>1 DEF TypeOK, RowsTell
  <2>4. Moves => sends'[Current] = 1 /\ \A w \in Withdrawal \ {Current} : sends'[w] = sends[w]
    BY <2>3 DEF Moves, TypeOK
  <2>5. \A w \in Withdrawal : /\ sends'[w] \in {0, 1}
                              /\ w # Current => sends'[w] = sends[w]
    BY <2>2, <2>3, <2>4 DEF RowsTell
  <2>6. \A w \in Withdrawal : /\ row[w] \in {"none", "pending"} => sends'[w] = 0
                              /\ row[w] = "sent" => sends'[w] = 1
                              /\ row[w] = "failed" => sends'[w] = 0 \/ w \in unknown'
    BY <2>2, <2>3, <2>5 DEF RowsTell
  <2>7. \A w \in batch.claimed : w = Current \/ sends'[w] = 0
    BY <2>5 DEF RowsTell, TypeOK
  <2>8. /\ batch'.answer = "ok" => sends'[Current] = 1
        /\ batch'.answer = "error" => sends'[Current] = 0 \/ Current \in unknown'
        /\ batch'.answer # "none"
    BY <2>2, <2>3, <2>4
  <2> QED
    BY <2>1, <2>5, <2>6, <2>7, <2>8 DEF RowsTell
<1>5. CASE MarkSent \/ Refund \/ RefundBreaks
  <2>1. Current \in batch.claimed /\ Current \in Withdrawal
    BY <1>5, CurrentIsClaimed DEF MarkSent, Refund, RefundBreaks, TypeOK
  <2>2. /\ batch'.claimed = batch.claimed \ {Current} /\ batch'.answer = "none"
        /\ sends' = sends /\ unknown' = unknown
    BY <1>5 DEF MarkSent, Refund, RefundBreaks, NextInBatch
  <2>3. \/ batch.answer = "ok" /\ row' = [row EXCEPT ![Current] = "sent"]
        \/ batch.answer = "error" /\ row' = [row EXCEPT ![Current] = "failed"]
        \/ row' = row
    BY <1>5 DEF MarkSent, Refund, RefundBreaks
  <2>4. batch'.claimed # {} => Current' \in batch'.claimed
    BY <1>0 DEF Current
  <2>5. \A w \in Withdrawal : /\ sends[w] \in {0, 1}
                              /\ row'[w] \in {"none", "pending"} => sends[w] = 0
                              /\ row'[w] = "sent" => sends[w] = 1
                              /\ row'[w] = "failed" => sends[w] = 0 \/ w \in unknown
    BY <2>1, <2>3 DEF RowsTell, TypeOK
  <2>6. \A w \in batch'.claimed : sends[w] = 0
    BY <2>2 DEF RowsTell
  <2> QED
    BY <2>2, <2>4, <2>5, <2>6 DEF RowsTell
<1>6. CASE SenderBreaks
  BY <1>6 DEF SenderBreaks, NoBatch, RowsTell
<1>7. \/ UNCHANGED outgoing \/ Sending
  BY DEF Next, Mine, Reorganise, Watch, ReadHead, FilterLogs, Advance, PollEnds, Record, Credit,
         PollBreaks, Sending, vars
<1> QED
  BY <1>1, <1>2, <1>3, <1>4, <1>5, <1>6, <1>7 DEF Sending, SendStep, Answer

\* However sends are refused, answers and refunds fail and the process dies in
\* the middle of a batch, no withdrawal is sent twice, nobody is returned what
\* was sent, but for a lost answer, and no row reads sent before it was (Send,
\* refund).
THEOREM Returned == Spec => []SentAsTold
<1>1. Init => RowsTell
  BY DEF Init, RowsTell, NoBatch
<1>2. RowsTell => SentAsTold
  BY DEF RowsTell, SentAsTold
<1> QED
  BY <1>1, <1>2, InitType, StepType, SendTells, PTL DEF Spec
-----------------------------------------------------------------------------
(* What the cardholder is owed, and what their accounts on chain hold.     *)

\* What a withdrawal has cost the cardholder so far: nothing, once refunded.
Debited ==
  [w \in Withdrawal |-> IF row[w] \in {"pending", "sending", "sent"} THEN Cost[w] ELSE 0]

\* The rows a poll has in hand to credit have not been credited.
DueIsSeen == \A k \in poll.due : deposit[k].state = "seen"

\* The ledger's balance is what was credited less what was debited, whatever
\* became of either on chain.
BooksAgree == balance + Total(Debited, Withdrawal) = Total(Paid, Transfer)

\* The rows and the log a poll has in hand stay uncredited until it credits
\* them: one poll runs at a time and records only what has no row.
LEMMA DueStaysSeen ==
  ASSUME TypeOK, DueIsSeen, [Next]_vars
  PROVE  DueIsSeen'
<1>1. CASE UNCHANGED <<poll, deposit>>
  BY <1>1 DEF DueIsSeen
<1>2. CASE ReadHead \/ FilterLogs
  BY <1>2 DEF ReadHead, FilterLogs, DueIsSeen, TypeOK
<1>3. CASE PollEnds \/ PollBreaks
  BY <1>3 DEF PollEnds, PollBreaks, Resting, DueIsSeen
<1>4. CASE Advance
  BY <1>4 DEF Advance, Due, DueIsSeen, TypeOK
<1>5. ASSUME NEW log \in poll.logs, Record(log) PROVE DueIsSeen'
  <2>1. log.transfer \in Transfer /\ log.index \in Index
    BY DEF TypeOK, Log
  <2>2. poll'.due = poll.due /\ poll.due \subseteq Transfer \X Index
    BY <1>5 DEF Record, TypeOK
  <2>3. \A k \in Transfer \X Index : deposit[k].state = "seen" => deposit'[k] = deposit[k]
    BY <1>5, <2>1 DEF Record, TypeOK
  <2> QED
    BY <2>2, <2>3 DEF DueIsSeen
<1>6. ASSUME NEW k \in poll.due, Credit(k) PROVE DueIsSeen'
  BY <1>6 DEF Credit, DueIsSeen, TypeOK
<1>7. \/ UNCHANGED <<poll, deposit>>
      \/ ReadHead \/ FilterLogs \/ PollEnds \/ PollBreaks \/ Advance
      \/ \E log \in poll.logs : Record(log)
      \/ \E k \in poll.due : Credit(k)
  BY DEF Next, Mine, Reorganise, Watch, SendStep, Answer, Open, Claim, MarkSent, Refund, Sent,
         Refused, AnswerLost, RefundBreaks, SenderBreaks, vars, incoming
<1> QED
  BY <1>1, <1>2, <1>3, <1>4, <1>5, <1>6, <1>7

\* The sums are of numbers and finite.
LEMMA SharesAreNumbers ==
  /\ IsFiniteSet(Transfer) /\ IsFiniteSet(Withdrawal)
  /\ \A t \in Transfer : /\ Paid[t] \in Nat
                         /\ Paid[t] = (IF 0 \in Credited(t) THEN Cents[t] ELSE 0)
                                      + (IF 1 \in Credited(t) THEN Cents[t] ELSE 0)
  /\ \A w \in Withdrawal :
       /\ Debited[w] \in Nat
       /\ Debited[w] = IF row[w] \in {"pending", "sending", "sent"} THEN Cost[w] ELSE 0
<1>1. IsFiniteSet(Transfer) /\ IsFiniteSet(Withdrawal)
  BY BaseAssumption
<1> QED
  BY <1>1, Numbers DEF Paid, Debited

\* No row starts or ceases to cost its cardholder anything.
LEMMA DebitedStays ==
  ASSUME \A w \in Withdrawal : row[w] \in {"pending", "sending", "sent"}
                                 <=> row'[w] \in {"pending", "sending", "sent"}
  PROVE  Total(Debited, Withdrawal)' = Total(Debited, Withdrawal)
<1> DEFINE f == Debited
           g == Debited'
<1>1. \A w \in Withdrawal : f[w] = g[w]
  BY DEF Debited
<1>2. IsFiniteSet(Withdrawal)
  BY SharesAreNumbers
<1> HIDE DEF f, g
<1>3. Total(f, Withdrawal) = Total(g, Withdrawal)
  BY <1>1, <1>2, TotalSame
<1> QED
  BY <1>3 DEF f, g

\* One withdrawal's row changes.
LEMMA DebitedChanges ==
  ASSUME TypeOK, NEW w \in Withdrawal, NEW state, row' = [row EXCEPT ![w] = state]
  PROVE  Total(Debited, Withdrawal)' =
           Total(Debited, Withdrawal)
             + (IF state \in {"pending", "sending", "sent"} THEN Cost[w] ELSE 0) - Debited[w]
<1> DEFINE f == Debited
           g == Debited'
<1>1. \A v \in Withdrawal \ {w} : g[v] = f[v]
  BY DEF Debited, TypeOK
<1>2. g[w] = IF state \in {"pending", "sending", "sent"} THEN Cost[w] ELSE 0
  BY DEF Debited, TypeOK
<1>3. IsFiniteSet(Withdrawal) /\ \A v \in Withdrawal : f[v] \in Int
  BY SharesAreNumbers
<1>4. \A v \in Withdrawal : g[v] \in Int
  BY <1>1, <1>2, <1>3, Numbers
<1> HIDE DEF f, g
<1>5. Total(g, Withdrawal) = Total(f, Withdrawal) + g[w] - f[w]
  BY <1>1, <1>3, <1>4, TotalChange
<1> QED
  BY <1>2, <1>5 DEF f, g

\* No deposit is newly credited.
LEMMA PaidStays ==
  ASSUME \A t \in Transfer, i \in Index :
           (deposit'[<<t, i>>].state = "credited") <=> (deposit[<<t, i>>].state = "credited")
  PROVE  Total(Paid, Transfer)' = Total(Paid, Transfer)
<1> DEFINE f == Paid
           g == Paid'
<1>0. \A t \in Transfer : Credited(t)' = Credited(t)
  BY DEF Credited
<1>1. \A t \in Transfer : f[t] = g[t]
  BY <1>0 DEF Paid
<1>2. IsFiniteSet(Transfer)
  BY SharesAreNumbers
<1> HIDE DEF f, g
<1>3. Total(f, Transfer) = Total(g, Transfer)
  BY <1>1, <1>2, TotalSame
<1> QED
  BY <1>3 DEF f, g

\* A credit adds what the transfer is worth: its row was not credited yet.
LEMMA CreditAdds ==
  ASSUME TypeOK, DueIsSeen, NEW k \in poll.due, Credit(k)
  PROVE  Total(Paid, Transfer)' = Total(Paid, Transfer) + Cents[k[1]]
<1> DEFINE t == k[1]
           i == k[2]
<1>1. t \in Transfer /\ i \in Index /\ k = <<t, i>> /\ deposit[k].state = "seen"
  <2>1. k \in Transfer \X Index
    BY DEF TypeOK
  <2> QED
    BY <2>1 DEF DueIsSeen
<1> HIDE DEF t, i
<1>2. deposit' = [deposit EXCEPT ![k].state = IF Cents[t] > 0 THEN "credited" ELSE "failed"]
  BY DEF Credit, t
<1>3. /\ deposit'[k].state = IF Cents[t] > 0 THEN "credited" ELSE "failed"
      /\ \A j \in Transfer \X Index : j # k => deposit'[j] = deposit[j]
  BY <1>1, <1>2 DEF TypeOK
<1> DEFINE f == Paid
           g == Paid'
<1>4. \A u \in Transfer \ {t} : g[u] = f[u]
  <2>1. \A u \in Transfer \ {t} : Credited(u)' = Credited(u)
    BY <1>1, <1>3 DEF Credited
  <2> QED
    BY <2>1 DEF Paid
<1>5. f[t] \in Int /\ Cents[t] \in Nat /\ g[t] = f[t] + Cents[t]
  <2>1. i \notin Credited(t) /\ \A j \in Index \ {i} : j \in Credited(t)' <=> j \in Credited(t)
    BY <1>1, <1>3 DEF Credited
  <2>2. i \in Credited(t)' <=> Cents[t] > 0
    BY <1>1, <1>3 DEF Credited
  <2>3. (i = 0 \/ i = 1) /\ 0 \in Index /\ 1 \in Index /\ Cents[t] \in Nat
    BY <1>1, Numbers DEF Index
  <2>4. /\ f[t] = (IF 0 \in Credited(t) THEN Cents[t] ELSE 0)
                   + (IF 1 \in Credited(t) THEN Cents[t] ELSE 0)
        /\ g[t] = (IF 0 \in Credited(t)' THEN Cents[t] ELSE 0)
                   + (IF 1 \in Credited(t)' THEN Cents[t] ELSE 0)
    BY <1>1 DEF Paid
  <2> HIDE DEF f, g
  <2>5. CASE i = 0
    <3>1. 0 \notin Credited(t) /\ (1 \in Credited(t)' <=> 1 \in Credited(t))
      BY <2>1, <2>3, <2>5
    <3> QED
      BY <2>2, <2>3, <2>4, <2>5, <3>1
  <2>6. CASE i = 1
    <3>1. 1 \notin Credited(t) /\ (0 \in Credited(t)' <=> 0 \in Credited(t))
      BY <2>1, <2>3, <2>6
    <3> QED
      BY <2>2, <2>3, <2>4, <2>6, <3>1
  <2> QED
    BY <2>3, <2>5, <2>6
<1>6. IsFiniteSet(Transfer) /\ (\A u \in Transfer : f[u] \in Int)
  BY SharesAreNumbers
<1>7. \A u \in Transfer : g[u] \in Int
  BY <1>4, <1>5, <1>6
<1> HIDE DEF f, g
<1>8. Total(g, Transfer) = Total(f, Transfer) + g[t] - f[t]
  BY <1>1, <1>4, <1>6, <1>7, TotalChange
<1>9. Total(f, Transfer) \in Int
  BY <1>6, TotalInt
<1>10. Total(g, Transfer) = Total(f, Transfer) + Cents[t]
  BY <1>5, <1>8, <1>9
<1> QED
  BY <1>10 DEF f, g, t

\* The two sums are numbers.
LEMMA SumsAreNumbers == Total(Debited, Withdrawal) \in Int /\ Total(Paid, Transfer) \in Int
<1> DEFINE f == Debited
           g == Paid
<1>1. /\ IsFiniteSet(Transfer) /\ IsFiniteSet(Withdrawal)
      /\ \A t \in Transfer : g[t] \in Int
      /\ \A w \in Withdrawal : f[w] \in Int
  BY SharesAreNumbers
<1> HIDE DEF f, g
<1>2. Total(f, Withdrawal) \in Int /\ Total(g, Transfer) \in Int
  BY <1>1, TotalInt
<1> QED
  BY <1>2 DEF f, g

\* Money moves in the ledger with the rows that say so.
LEMMA BooksStep ==
  ASSUME TypeOK, DueIsSeen, BooksAgree, [Next]_vars
  PROVE  BooksAgree'
<1> DEFINE D == Total(Debited, Withdrawal)
           P == Total(Paid, Transfer)
<1>0. balance \in Int /\ D \in Int /\ P \in Int
  BY SumsAreNumbers DEF TypeOK
<1>1. balance + D = P
  BY DEF BooksAgree
<1>2. ASSUME UNCHANGED row PROVE D' = D
  BY <1>2, DebitedStays
<1>3. ASSUME UNCHANGED deposit PROVE P' = P
  BY <1>3, PaidStays
<1>4. SUFFICES balance' + D' = P'
  BY DEF BooksAgree
<1> HIDE DEF D, P
<1>5. CASE UNCHANGED <<row, deposit, balance>>
  BY <1>1, <1>2, <1>3, <1>5
<1>6. ASSUME NEW log \in poll.logs, Record(log)
      PROVE  balance' + D' = P'
  <2>1. log.transfer \in Transfer /\ log.index \in Index
    BY DEF TypeOK, Log
  <2>2. \A t \in Transfer, i \in Index :
          (deposit'[<<t, i>>].state = "credited") <=> (deposit[<<t, i>>].state = "credited")
    BY <1>6, <2>1 DEF Record, TypeOK
  <2>3. P' = P
    BY <2>2, PaidStays DEF P
  <2>4. UNCHANGED <<row, balance>>
    BY <1>6 DEF Record, outgoing
  <2> QED
    BY <1>1, <1>2, <2>3, <2>4
<1>7. ASSUME NEW k \in poll.due, Credit(k)
      PROVE  balance' + D' = P'
  <2>1. P' = P + Cents[k[1]]
    BY <1>7, CreditAdds DEF P
  <2>2. UNCHANGED row /\ balance' = balance + Cents[k[1]]
    BY <1>7 DEF Credit, outgoing
  <2>3. Cents[k[1]] \in Int
    BY Numbers DEF TypeOK
  <2>4. D' = D
    BY <1>2, <2>2
  <2> QED
    BY <1>0, <1>1, <2>1, <2>2, <2>3, <2>4
<1>8. ASSUME NEW w \in Withdrawal, Open(w)
      PROVE  balance' + D' = P'
  <2>1. /\ row[w] = "none" /\ row' = [row EXCEPT ![w] = "pending"]
        /\ balance' = balance - Cost[w] /\ UNCHANGED deposit
    BY <1>8 DEF Open, incoming
  <2>2. Debited[w] = 0 /\ Cost[w] \in Int
    BY <2>1, SharesAreNumbers, Numbers
  <2>3. D' = D + Cost[w] - Debited[w]
    BY <2>1, DebitedChanges DEF D
  <2>4. P' = P
    BY <1>3, <2>1
  <2> QED
    BY <1>0, <1>1, <2>1, <2>2, <2>3, <2>4
<1>9. CASE Claim
  <2>1. \A w \in Withdrawal : row[w] \in {"pending", "sending", "sent"}
                                 <=> row'[w] \in {"pending", "sending", "sent"}
    BY <1>9 DEF Claim
  <2>2. UNCHANGED <<deposit, balance>>
    BY <1>9 DEF Claim, incoming
  <2>3. D' = D /\ P' = P
    BY <1>3, <2>1, <2>2, DebitedStays DEF D
  <2> QED
    BY <1>1, <2>2, <2>3
<1>10. CASE MarkSent \/ Refund
  <2>1. Current \in batch.claimed
    BY <1>10, CurrentIsClaimed DEF MarkSent, Refund, TypeOK
  <2>2. Current \in Withdrawal /\ row[Current] = "sending"
    BY <2>1 DEF TypeOK
  <2>3. Debited[Current] = Cost[Current] /\ Cost[Current] \in Int
    BY <2>2, SharesAreNumbers, Numbers
  <2>4. P' = P
    BY <1>3, <1>10 DEF MarkSent, Refund, incoming
  <2>5. CASE MarkSent
    <3>1. row' = [row EXCEPT ![Current] = "sent"] /\ UNCHANGED balance
      BY <2>5 DEF MarkSent
    <3>2. D' = D + Cost[Current] - Debited[Current]
      BY <2>2, <3>1, DebitedChanges DEF D
    <3> QED
      BY <1>0, <1>1, <2>3, <2>4, <3>1, <3>2
  <2>6. CASE Refund
    <3>1. row' = [row EXCEPT ![Current] = "failed"] /\ balance' = balance + Cost[Current]
      BY <2>6 DEF Refund
    <3>2. D' = D + 0 - Debited[Current]
      BY <2>2, <3>1, DebitedChanges DEF D
    <3> QED
      BY <1>0, <1>1, <2>3, <2>4, <3>1, <3>2
  <2> QED
    BY <1>10, <2>5, <2>6
<1>11. \/ UNCHANGED <<row, deposit, balance>>
       \/ \E log \in poll.logs : Record(log)
       \/ \E k \in poll.due : Credit(k)
       \/ \E w \in Withdrawal : Open(w)
       \/ Claim \/ MarkSent \/ Refund
  BY DEF Next, Mine, Reorganise, Watch, ReadHead, FilterLogs, Advance, PollEnds, PollBreaks,
         SendStep, Answer, Sent, Refused, AnswerLost, RefundBreaks, SenderBreaks, vars, incoming,
         outgoing
<1> QED
  BY <1>5, <1>6, <1>7, <1>8, <1>9, <1>10, <1>11

\* A transfer that was not reorganised after it was read is credited once, and
\* only from its block: no more than what arrived.
LEMMA PaidArrived ==
  ASSUME Inv, NEW t \in Transfer
  PROVE  /\ Arrived[t] \in Int /\ Undone[t] \in Int /\ Paid[t] \in Int
         /\ Paid[t] <= Arrived[t] + Undone[t]
<1>1. /\ Cents[t] \in Nat /\ Paid[t] \in Nat
      /\ Paid[t] = (IF 0 \in Credited(t) THEN Cents[t] ELSE 0)
                   + (IF 1 \in Credited(t) THEN Cents[t] ELSE 0)
      /\ Arrived[t] = IF chain.block[t] # 0 THEN Cents[t] ELSE 0
  BY Numbers, SharesAreNumbers DEF Arrived
<1>2. Undone[t] = IF t \in moved /\ Paid[t] > Arrived[t] THEN Paid[t] - Arrived[t] ELSE 0
  BY DEF Undone
<1>3. CASE t \in moved
  BY <1>1, <1>2, <1>3
<1>4. CASE t \notin moved
  <2>1. \A i \in Index : i \in Credited(t) => i = chain.index[t] /\ chain.block[t] # 0
    BY <1>4 DEF Inv, RowsAgree, Untouched, Credited
  <2>2. ~(0 \in Credited(t) /\ 1 \in Credited(t))
    BY <2>1 DEF Credited
  <2>3. 0 \in Credited(t) \/ 1 \in Credited(t) => chain.block[t] # 0
    BY <2>1 DEF Credited
  <2> QED
    BY <1>1, <1>2, <1>4, <2>2, <2>3
<1> QED
  BY <1>3, <1>4

\* A withdrawal takes what it was debited, and takes it once; one that was
\* sent and returned was returned by mistake.
LEMMA TakenDebited ==
  ASSUME RowsTell, TypeOK, NEW w \in Withdrawal
  PROVE  /\ ToDepart[w] \in Int /\ Departed[w] \in Int
         /\ Mistaken[w] \in Int /\ Debited[w] \in Int
         /\ ToDepart[w] + Departed[w] <= Debited[w] + Mistaken[w]
<1>1. /\ Cost[w] \in Nat
      /\ Debited[w] = IF row[w] \in {"pending", "sending", "sent"} THEN Cost[w] ELSE 0
      /\ ToDepart[w] = IF sends[w] = 0 /\ row[w] \in {"pending", "sending"} THEN Cost[w] ELSE 0
      /\ Mistaken[w] = IF w \in unknown /\ row[w] = "failed" THEN Cost[w] ELSE 0
      /\ Departed[w] = sends[w] * Cost[w]
  BY Numbers DEF Debited, ToDepart, Mistaken, Departed
<1>2. /\ sends[w] \in {0, 1}
      /\ row[w] \in {"none", "pending"} => sends[w] = 0
      /\ row[w] = "failed" => sends[w] = 0 \/ w \in unknown
      /\ row[w] \in {"none", "pending", "sending", "sent", "failed"}
  BY DEF RowsTell, TypeOK
<1>3. Departed[w] = IF sends[w] = 1 THEN Cost[w] ELSE 0
  BY <1>1, <1>2
<1> QED
  BY <1>1, <1>2, <1>3

\* What agrees with the books is solvent, but for the two losses.
LEMMA BooksSuffice == Inv /\ RowsTell /\ BooksAgree => Solvent
<1> SUFFICES ASSUME Inv, RowsTell, BooksAgree PROVE Solvent
  OBVIOUS
<1> DEFINE a == Arrived
           p == Paid
           u == Undone
           d == Departed
           o == ToDepart
           h == Debited
           m == Mistaken
           b == [t \in Transfer |-> a[t] + u[t]]
           x == [w \in Withdrawal |-> o[w] + d[w]]
           y == [w \in Withdrawal |-> h[w] + m[w]]
<1>1. IsFiniteSet(Transfer) /\ IsFiniteSet(Withdrawal)
  BY SharesAreNumbers
<1>2. \A t \in Transfer : a[t] \in Int /\ u[t] \in Int /\ p[t] \in Int /\ p[t] <= a[t] + u[t]
  BY PaidArrived
<1>3. \A w \in Withdrawal : /\ o[w] \in Int /\ d[w] \in Int /\ m[w] \in Int /\ h[w] \in Int
                            /\ o[w] + d[w] <= h[w] + m[w]
  BY TakenDebited DEF Inv
<1>4. balance + Total(h, Withdrawal) = Total(p, Transfer) /\ balance \in Int
  BY DEF BooksAgree, Inv, TypeOK
<1> HIDE DEF a, p, u, d, o, h, m
<1>5. Total(p, Transfer) <= Total(a, Transfer) + Total(u, Transfer)
  <2>1. \A t \in Transfer : b[t] \in Int /\ p[t] <= b[t] /\ b[t] = a[t] + u[t]
    BY <1>2
  <2> HIDE DEF b
  <2>2. Total(p, Transfer) <= Total(b, Transfer)
    BY <1>1, <1>2, <2>1, TotalLeq
  <2>3. Total(b, Transfer) = Total(a, Transfer) + Total(u, Transfer)
    BY <1>1, <1>2, <2>1, TotalPlus
  <2> QED
    BY <2>2, <2>3
<1>6. Total(o, Withdrawal) + Total(d, Withdrawal) <= Total(h, Withdrawal) + Total(m, Withdrawal)
  <2>1. \A w \in Withdrawal : /\ x[w] \in Int /\ y[w] \in Int /\ x[w] <= y[w]
                              /\ x[w] = o[w] + d[w] /\ y[w] = h[w] + m[w]
    BY <1>3
  <2> HIDE DEF x, y
  <2>2. Total(x, Withdrawal) <= Total(y, Withdrawal)
    BY <1>1, <2>1, TotalLeq
  <2>3. Total(x, Withdrawal) = Total(o, Withdrawal) + Total(d, Withdrawal)
    BY <1>1, <1>3, <2>1, TotalPlus
  <2>4. Total(y, Withdrawal) = Total(h, Withdrawal) + Total(m, Withdrawal)
    BY <1>1, <1>3, <2>1, TotalPlus
  <2> QED
    BY <2>2, <2>3, <2>4
<1>7. /\ Total(o, Withdrawal) \in Int /\ Total(d, Withdrawal) \in Int
      /\ Total(h, Withdrawal) \in Int /\ Total(m, Withdrawal) \in Int
      /\ Total(a, Transfer) \in Int /\ Total(u, Transfer) \in Int /\ Total(p, Transfer) \in Int
  BY <1>1, <1>2, <1>3, TotalInt
<1>8. balance + Total(o, Withdrawal)
        <= Total(a, Transfer) - Total(d, Withdrawal) + Total(u, Transfer) + Total(m, Withdrawal)
  BY <1>4, <1>5, <1>6, <1>7
<1> QED
  BY <1>8 DEF a, u, d, o, m, Solvent

\* Nothing is owed at first.
LEMMA InitBooks == Init => BooksAgree /\ DueIsSeen /\ RowsTell
<1> SUFFICES ASSUME Init PROVE BooksAgree /\ DueIsSeen /\ RowsTell
  OBVIOUS
<1>1. DueIsSeen /\ RowsTell
  BY DEF Init, DueIsSeen, Resting, RowsTell, NoBatch
<1> DEFINE f == Debited
           g == Paid
<1>2. IsFiniteSet(Transfer) /\ IsFiniteSet(Withdrawal)
  BY SharesAreNumbers
<1>3. (\A w \in Withdrawal : f[w] = 0) /\ \A t \in Transfer : g[t] = 0
  BY DEF Init, Debited, Paid, Credited
<1> HIDE DEF f, g
<1>4. Total(f, Withdrawal) = 0 /\ Total(g, Transfer) = 0
  BY <1>2, <1>3, TotalZero
<1>5. balance = 0
  BY DEF Init
<1> QED
  BY <1>1, <1>4, <1>5 DEF BooksAgree, f, g

\* Through failed polls, failed refunds, crashes, replaced blocks and lost
\* answers, what the ledger says is a cardholder's and what it still owes to be
\* sent is on chain, but for what was credited of a transfer reorganised after
\* it was read and what was returned after an answer was lost
\* (CreditConfirmed, Open, Send, refund).
THEOREM SolventAlways == Spec => []Solvent
<1>1. Inv /\ [Next]_vars => Inv'
  BY ChainKeeps, WatchKeeps, SendKeeps DEF Next, Sending, ChainStep
<1>2. Inv => TypeOK
  BY DEF Inv
<1> QED
  BY <1>1, <1>2, InitInv, InitBooks, SendTells, DueStaysSeen, BooksStep, BooksSuffice, PTL DEF Spec
=============================================================================
