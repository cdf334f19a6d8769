------------------------------ MODULE NairaLeg ------------------------------
(***************************************************************************)
(* Settlement of the naira leg of card taps: package                       *)
(* internal/settlement/naira, with the rail's webhook, the operator's      *)
(* retry and the reversal of a tap running beside it.                      *)
(*                                                                         *)
(* A leg is a row of card_tap_ngn_settlements. Paying it takes two calls   *)
(* to the rail: a sweep of the cardholder's wallet into the platform's,    *)
(* then a transfer from the platform's wallet to the merchant's bank. A    *)
(* process (one row of a worker's tick, or one webhook request) reads the  *)
(* row once and then acts on that copy, while everything else goes on.     *)
(*                                                                         *)
(* Each step here is one database transaction or one call to the rail.     *)
(* Abstracted: amounts other than the leg's, the wording of errors, and    *)
(* time (a row is stale, and so chased, whenever it is submitted).         *)
(***************************************************************************)
EXTENDS Integers, Sequences, FiniteSets

CONSTANTS
  Tap,          \* taps with a naira leg, all of one merchant
  Worker,       \* rows in hand: of one tick's batch, or of several workers
  Hook,         \* webhook requests in hand
  NoTap,
  Amount,       \* what each leg delivers
  Earned,       \* what the merchant is owed when the run begins
  MaxAttempts,  \* bound: an operator's retries stop here
  MaxFaults     \* bound: lost and late messages, crashes

ASSUME NairaAssumption ==
  /\ NoTap \notin Tap
  /\ Worker \cap Hook = {}
  /\ Amount \in [Tap -> Nat \ {0}]
  /\ Earned \in Int
  /\ MaxAttempts \in Nat /\ MaxFaults \in Nat

VARIABLES
  row,         \* the leg's row: state, attempts, sweep_ref set, rail_ref
  payable,     \* merchant_payable: what the merchant is still owed
  discharged,  \* attempts whose merchant_settled_wallet movement is posted
  returned,    \* attempts whose ..._settlement_returned movement is posted
  fees,        \* attempts whose rail_fees_paid movement is posted
  reversed,    \* taps with a row in card_tap_reversals
  rail,        \* the rail's transfers under each payment reference, in order
  late,        \* requests that reach the rail after their caller gave up
  proc,        \* what each process is about to do, and the row it read
  faults

books == <<payable, discharged, returned, fees>>
vars == <<row, books, reversed, rail, late, proc, faults>>

Process == Worker \cup Hook
Hop == {"sweep", "bank"}
RailStatus == {"pending", "success", "failed"}

Row == [state : {"queued", "submitted", "settled", "failed"}, attempts : Nat,
        swept : BOOLEAN, railRef : Nat]
\* What a process acts on of the row it read: never its state, which every
\* UPDATE tests again.
Copy == [attempts : Nat, swept : BOOLEAN, railRef : Nat]
CopyOf(r) == [attempts |-> r.attempts, swept |-> r.swept, railRef |-> r.railRef]
Steps == {"idle", "picked", "failQueued", "claimed", "sweep", "recordSweep", "pay",
          "settle", "note", "fail", "chase"}

\* Mutant: a reference of its own for each attempt.
ReferencePerAttempt(t, hop, attempt) == <<t, hop, attempt>>

\* Reference and SweepReference: the same on every attempt.
Reference(t, hop, attempt) == <<t, hop, 0>>
RailReference == Tap \X Hop \X (0..MaxAttempts)

Fresh == [state |-> "queued", attempts |-> 0, swept |-> FALSE, railRef |-> 0]
Idle == [at |-> "idle", tap |-> NoTap, s |-> CopyOf(Fresh), ref |-> 0]

\* Rows, movements, transfers and copies have the types their columns have.
TypeOK ==
  /\ row \in [Tap -> Row]
  /\ payable \in Int
  /\ discharged \in [Tap -> SUBSET Nat]
  /\ returned \in [Tap -> SUBSET Nat]
  /\ fees \in [Tap -> SUBSET Nat]
  /\ reversed \subseteq Tap
  /\ rail \in [RailReference -> Seq(RailStatus)]
  /\ late \subseteq RailReference
  /\ proc \in [Process -> [at : Steps, tap : Tap \cup {NoTap}, s : Copy, ref : Nat]]
  /\ \A p \in Process : proc[p].at # "idle" => proc[p].tap \in Tap
  /\ faults \in 0..MaxFaults

Init ==
  /\ row = [t \in Tap |-> Fresh]
  /\ payable = Earned
  /\ discharged = [t \in Tap |-> {}]
  /\ returned = [t \in Tap |-> {}]
  /\ fees = [t \in Tap |-> {}]
  /\ reversed = {}
  /\ rail = [k \in RailReference |-> << >>]
  /\ late = {}
  /\ proc = [p \in Process |-> Idle]
  /\ faults = 0

-----------------------------------------------------------------------------
At(p, step) == proc[p].at = step
T(p) == proc[p].tap
S(p) == proc[p].s
Goto(p, step) == proc' = [proc EXCEPT ![p].at = step]

\* Mutant: the row in hand is dropped and the process goes on.
DropRow(p) == proc' = [proc EXCEPT ![p].tap = NoTap]

Finish(p) == proc' = [proc EXCEPT ![p] = Idle]

\* The process reads tap t's row and goes on with that copy.
Take(p, t, step, ref) ==
  /\ At(p, "idle")
  /\ proc' = [proc EXCEPT ![p] = [at |-> step, tap |-> t, s |-> CopyOf(row[t]), ref |-> ref]]

\* A fault the run still has room for.
Fault == faults < MaxFaults /\ faults' = faults + 1

-----------------------------------------------------------------------------
(* The rail. Not under src/: what the code relies on is that a reference   *)
(* names one transfer while that transfer is pending or has succeeded.     *)

Last(q) == q[Len(q)]
Live(q) == q # << >> /\ Last(q) # "failed"

\* The transfers under a reference once the rail has taken a request for it:
\* the one it already has, or one it opens with some first verdict.
Taken(q) == IF Live(q) THEN {q} ELSE {Append(q, st) : st \in RailStatus}

\* A pending transfer reaches its end.
RailDecides(k) ==
  /\ rail[k] # << >> /\ Last(rail[k]) = "pending"
  /\ \E st \in {"success", "failed"} : rail' = [rail EXCEPT ![k][Len(rail[k])] = st]
  /\ UNCHANGED <<row, books, reversed, late, proc, faults>>

\* A request its caller has given up on is taken after all.
ArriveLate(k) ==
  /\ k \in late
  /\ late' = late \ {k}
  /\ \E q \in Taken(rail[k]) : rail' = [rail EXCEPT ![k] = q]
  /\ UNCHANGED <<row, books, reversed, proc, faults>>

-----------------------------------------------------------------------------
(* payQueued: pick, resolve the bank, claim.                               *)

PickQueued(p, t) ==
  /\ row[t].state = "queued" /\ t \notin reversed
  /\ Take(p, t, "picked", 0)
  /\ UNCHANGED <<row, books, reversed, rail, late, faults>>

\* The rail lists no such bank, or its list cannot be fetched.
Unresolved(p) ==
  /\ At(p, "picked")
  /\ Goto(p, "failQueued") \/ Finish(p)
  /\ UNCHANGED <<row, books, reversed, rail, late, faults>>

FailQueued(p) ==
  /\ At(p, "failQueued")
  /\ row' = IF row[T(p)].state = "queued"
            THEN [row EXCEPT ![T(p)].state = "failed"] ELSE row
  /\ Finish(p)
  /\ UNCHANGED <<books, reversed, rail, late, faults>>

\* The row moves to submitted and the claim is discharged, in one transaction.
Claim(p) ==
  LET t == T(p)
      n == row[t].attempts + 1 IN
  /\ At(p, "picked")
  /\ row[t].state = "queued" /\ payable >= Amount[t]
  /\ row' = [row EXCEPT ![t].state = "submitted", ![t].attempts = n]
  /\ payable' = payable - Amount[t]
  /\ discharged' = [discharged EXCEPT ![t] = @ \cup {n}]
  /\ proc' = [proc EXCEPT ![p].at = "claimed", ![p].s.attempts = n]
  /\ UNCHANGED <<returned, fees, reversed, rail, late, faults>>

\* Somebody else claimed it, or the payable no longer covers the leg: the
\* transaction rolls back and the row is failed by a statement of its own.
NotClaimed(p) ==
  /\ At(p, "picked")
  /\ \/ row[T(p)].state # "queued" /\ Finish(p)
     \/ row[T(p)].state = "queued" /\ payable < Amount[T(p)] /\ Goto(p, "failQueued")
  /\ UNCHANGED <<row, books, reversed, rail, late, faults>>

-----------------------------------------------------------------------------
(* submit, sweep and payBank.                                              *)

\* The bank confirms the name; refuses or names somebody else; or does not
\* answer, which recordError leaves to the chase.
Enquire(p) ==
  /\ At(p, "claimed")
  /\ \/ Goto(p, IF S(p).swept THEN "pay" ELSE "sweep") /\ UNCHANGED faults
     \/ Goto(p, "fail") /\ UNCHANGED faults
     \/ Finish(p) /\ Fault
  /\ UNCHANGED <<row, books, reversed, rail, late>>

Asking(p) == CASE At(p, "sweep") -> "sweep" [] At(p, "pay") -> "bank"

\* Mutant: a pending bank transfer counts as paid.
AfterAnswerTakingPending(hop, status) ==
  CASE status = "failed" -> "fail"
    [] status # "failed" /\ hop = "sweep" -> "recordSweep"
    [] status # "failed" /\ hop = "bank" -> "settle"

\* What the worker does with the rail's answer to a hop.
AfterAnswer(hop, status) ==
  CASE status = "failed" -> "fail"
    [] status # "failed" /\ hop = "sweep" -> "recordSweep"
    [] status = "success" /\ hop = "bank" -> "settle"
    [] OTHER -> "note"

\* The rail takes the request and its answer arrives.
AskRail(p) ==
  /\ At(p, "sweep") \/ At(p, "pay")
  /\ LET k == Reference(T(p), Asking(p), S(p).attempts) IN
     \E q \in Taken(rail[k]) :
       /\ rail' = [rail EXCEPT ![k] = q]
       /\ proc' = [proc EXCEPT ![p].at = AfterAnswer(Asking(p), Last(q)),
                               ![p].ref = Len(q)]
  /\ UNCHANGED <<row, books, reversed, late, faults>>

\* A refusal opens no transfer: a 4xx, a wallet too short to sweep, which an
\* earlier sweep may have emptied, or a rail that rejects a reference it knows.
RailRefuses(p) ==
  /\ At(p, "sweep") \/ At(p, "pay")
  /\ Goto(p, "fail")
  /\ UNCHANGED <<row, books, reversed, rail, late, faults>>

\* No answer: the request was lost, or its reply was, or it is still on its
\* way. recordError writes the error and leaves the row submitted.
NoAnswer(p) ==
  /\ At(p, "sweep") \/ At(p, "pay")
  /\ LET k == Reference(T(p), Asking(p), S(p).attempts) IN
     \/ UNCHANGED <<rail, late>>
     \/ \E q \in Taken(rail[k]) : rail' = [rail EXCEPT ![k] = q] /\ UNCHANGED late
     \/ late' = late \cup {k} /\ UNCHANGED rail
  /\ Finish(p)
  /\ Fault
  /\ UNCHANGED <<row, books, reversed>>

\* The sweep was accepted: from here a retry starts at the bank transfer.
RecordSweep(p) ==
  /\ At(p, "recordSweep")
  /\ row' = IF row[T(p)].state = "submitted"
            THEN [row EXCEPT ![T(p)].swept = TRUE] ELSE row
  /\ proc' = [proc EXCEPT ![p].at = "pay", ![p].s.swept = TRUE, ![p].ref = 0]
  /\ UNCHANGED <<books, reversed, rail, late, faults>>

-----------------------------------------------------------------------------
(* apply, settle and fail, whoever calls them: submit, chase or webhook.   *)

\* apply of a pending answer: keep the rail's reference.
NoteReference(p) ==
  /\ At(p, "note")
  /\ row' = IF row[T(p)].state = "submitted"
            THEN [row EXCEPT ![T(p)].railRef = proc[p].ref] ELSE row
  /\ Finish(p)
  /\ UNCHANGED <<books, reversed, rail, late, faults>>

\* Mutant: a confirmation is applied whatever the row says.
SettleAgain(p) ==
  LET t == T(p) IN
  /\ At(p, "settle")
  /\ row' = [row EXCEPT ![t].state = "settled"]
  /\ fees' = [fees EXCEPT ![t] = @ \cup {S(p).attempts}]
  /\ Finish(p)
  /\ UNCHANGED <<payable, discharged, returned, reversed, rail, late, faults>>

\* The rail confirmed: the row catches up and the rail's fees are booked.
Settle(p) ==
  LET t == T(p) IN
  /\ At(p, "settle")
  /\ IF row[t].state = "submitted"
     THEN /\ row' = [row EXCEPT ![t].state = "settled",
                                ![t].railRef = IF @ = 0 THEN proc[p].ref ELSE @]
          /\ fees' = [fees EXCEPT ![t] = @ \cup {S(p).attempts}]
     ELSE UNCHANGED <<row, fees>>
  /\ Finish(p)
  /\ UNCHANGED <<payable, discharged, returned, reversed, rail, late, faults>>

\* Mutant: the return is keyed by the row's attempt, not by the one read.
FailPresentAttempt(p) ==
  LET t == T(p) IN
  /\ At(p, "fail")
  /\ row' = [row EXCEPT ![t].state = "failed"]
  /\ returned' = [returned EXCEPT ![t] = @ \cup {row[t].attempts}]
  /\ payable' = payable + Amount[t]
  /\ Finish(p)
  /\ UNCHANGED <<discharged, fees, reversed, rail, late, faults>>

\* Mutant: a movement already posted is taken for done, and the row fails.
FailTakingDuplicate(p) ==
  LET t == T(p) IN
  /\ At(p, "fail")
  /\ IF row[t].state = "submitted"
     THEN /\ row' = [row EXCEPT ![t].state = "failed"]
          /\ returned' = [returned EXCEPT ![t] = @ \cup {S(p).attempts}]
          /\ payable' = payable + (IF S(p).attempts \in returned[t] THEN 0 ELSE Amount[t])
     ELSE UNCHANGED <<row, returned, payable>>
  /\ Finish(p)
  /\ UNCHANGED <<discharged, fees, reversed, rail, late, faults>>

\* The claim goes back to the merchant under the attempt this process read. A
\* movement already posted aborts the transaction, the row's update with it.
Fail(p) ==
  LET t == T(p)
      n == S(p).attempts IN
  /\ At(p, "fail")
  /\ IF row[t].state = "submitted" /\ n \notin returned[t]
     THEN /\ row' = [row EXCEPT ![t].state = "failed"]
          /\ returned' = [returned EXCEPT ![t] = @ \cup {n}]
          /\ payable' = payable + Amount[t]
     ELSE UNCHANGED <<row, returned, payable>>
  /\ Finish(p)
  /\ UNCHANGED <<discharged, fees, reversed, rail, late, faults>>

-----------------------------------------------------------------------------
(* chaseStale: ask the rail about whichever hop the row is waiting on.     *)

\* Mutant: only rows waiting on the sweep are chased.
PickStaleSweep(p, t) ==
  /\ row[t].state = "submitted" /\ ~row[t].swept
  /\ Take(p, t, "chase", 0)
  /\ UNCHANGED <<row, books, reversed, rail, late, faults>>

PickStale(p, t) ==
  /\ row[t].state = "submitted"
  /\ Take(p, t, "chase", 0)
  /\ UNCHANGED <<row, books, reversed, rail, late, faults>>

ChaseHop(p) == IF S(p).swept THEN "bank" ELSE "sweep"
Asked(p) == Reference(T(p), ChaseHop(p), S(p).attempts)

\* Which transfer the lookup finds: the one rail_ref names, else the last.
Found(p) ==
  IF S(p).swept /\ S(p).railRef > 0 THEN S(p).railRef ELSE Len(rail[Asked(p)])

\* Mutant: no record of the sweep is taken for its acceptance.
NotFoundAsAccepted(p) ==
  /\ At(p, "chase")
  /\ Found(p) = 0
  /\ Goto(p, IF S(p).swept THEN "fail" ELSE "recordSweep")
  /\ UNCHANGED <<row, books, reversed, rail, late, faults>>

\* "The rail has no record": the row fails.
ChaseNotFound(p) ==
  /\ At(p, "chase")
  /\ Found(p) = 0
  /\ Goto(p, "fail")
  /\ UNCHANGED <<row, books, reversed, rail, late, faults>>

\* The rail says where the transfer is; a pending bank transfer is left alone.
ChaseAnswered(p) ==
  /\ At(p, "chase")
  /\ Found(p) > 0
  /\ LET st == rail[Asked(p)][Found(p)] IN
     IF S(p).swept /\ st = "pending"
     THEN Finish(p)
     ELSE proc' = [proc EXCEPT ![p].at = AfterAnswer(ChaseHop(p), st),
                               ![p].ref = Found(p)]
  /\ UNCHANGED <<row, books, reversed, rail, late, faults>>

ChaseUnanswered(p) ==
  /\ At(p, "chase")
  /\ Finish(p)
  /\ Fault
  /\ UNCHANGED <<row, books, reversed, rail, late>>

-----------------------------------------------------------------------------
(* The webhook, the operator and the reversal.                             *)

\* ApplyWebhook reads the row the event names. An event is delivered any
\* number of times, in any order; a sweep's names no row and is ignored.
Webhook(h, t) ==
  /\ \E g \in 1..Len(rail[Reference(t, "bank", row[t].attempts)]) :
       LET st == rail[Reference(t, "bank", row[t].attempts)][g] IN
       /\ st # "pending"
       /\ Take(h, t, AfterAnswer("bank", st), g)
  /\ UNCHANGED <<row, books, reversed, rail, late, faults>>

\* Worker.Retry, from the console: nothing of the last attempt is cleared.
Retry(t) ==
  /\ row[t].state = "failed" /\ row[t].attempts < MaxAttempts
  /\ row' = [row EXCEPT ![t].state = "queued"]
  /\ UNCHANGED <<books, reversed, rail, late, proc, faults>>

\* movements.TapReversal: the claim is withdrawn with no check on the leg.
ReverseTap(t) ==
  /\ t \notin reversed
  /\ reversed' = reversed \cup {t}
  /\ payable' = payable - Amount[t]
  /\ UNCHANGED <<row, discharged, returned, fees, rail, late, proc, faults>>

\* The process dies, or the request is cancelled, between two steps.
Crash(p) ==
  /\ ~At(p, "idle")
  /\ Finish(p)
  /\ Fault
  /\ UNCHANGED <<row, books, reversed, rail, late>>

-----------------------------------------------------------------------------
Submit(p) == Enquire(p) \/ AskRail(p) \/ RailRefuses(p) \/ NoAnswer(p) \/ RecordSweep(p)
Answer(p) == NoteReference(p) \/ Settle(p) \/ Fail(p)
Chase(p) == ChaseNotFound(p) \/ ChaseAnswered(p) \/ ChaseUnanswered(p)
PayQueued(p) ==
  (\E t \in Tap : PickQueued(p, t)) \/ Unresolved(p) \/ FailQueued(p) \/ Claim(p)
    \/ NotClaimed(p)

Work(p) == PayQueued(p) \/ Submit(p) \/ Answer(p) \/ Chase(p)
             \/ \E t \in Tap : PickStale(p, t)
Rail == \E k \in RailReference : RailDecides(k) \/ ArriveLate(k)

Next ==
  \/ \E p \in Worker : Work(p)
  \/ \E h \in Hook : Answer(h) \/ \E t \in Tap : Webhook(h, t)
  \/ \E p \in Process : Crash(p)
  \/ \E t \in Tap : Retry(t) \/ ReverseTap(t)
  \/ Rail

Spec == Init /\ [][Next]_vars

\* The worker keeps ticking and the rail decides what it has accepted. Nothing
\* makes an operator retry or a webhook arrive.
FairSpec ==
  /\ Spec
  /\ \A p \in Worker : WF_vars(Work(p))
  /\ \A k \in RailReference : WF_vars(RailDecides(k))

-----------------------------------------------------------------------------
(* Properties.                                                             *)

\* The books follow the row through every retry, stale copy and redelivery:
\* each attempt was discharged once, and every attempt that is not the one
\* now submitted or settled has been returned to the merchant (claim, fail).
Standing(t) == row[t].state \in {"submitted", "settled"}

BooksFollowTheRow ==
  \A t \in Tap :
    /\ discharged[t] = 1..row[t].attempts
    /\ returned[t] = 1..(IF Standing(t) THEN row[t].attempts - 1 ELSE row[t].attempts)

\* The rail's fees for a leg are booked exactly when it settles, and once,
\* whichever of submit, chase and redelivered webhooks settles it (settle).
FeesBookedOnce ==
  \A t \in Tap : fees[t] # {} <=> row[t].state = "settled"
            /\ \A m, n \in fees[t] : m = n

\* A row is settled only when the merchant's bank was credited (settle: "the
\* rail confirmed the credit").
Transfers(t, hop) == {k \in RailReference : k[1] = t /\ k[2] = hop /\ rail[k] # << >>}
Delivered(t) ==
  UNION {{<<k, g>> : g \in {n \in 1..Len(rail[k]) : rail[k][n] = "success"}} :
         k \in Transfers(t, "bank")}

SettledIsDelivered == \A t \in Tap : row[t].state = "settled" => Delivered(t) # {}

\* No crash, lost answer, late request or retry credits the merchant's bank
\* twice for one leg (Reference: "the same on every attempt").
DeliveredOnce == \A t \in Tap : \A d, e \in Delivered(t) : d = e

\* The platform's wallet pays a bank only for a leg whose sweep the rail took
\* (sweep, chase).
PaidOnlyAfterSweep ==
  \A t \in Tap : Transfers(t, "bank") # {} => Transfers(t, "sweep") # {}

\* A leg the rail has been asked about does not stay unanswered: it is settled
\* or failed in the end (chaseStale), however many messages were lost.
EveryLegIsAnswered == \A t \in Tap : row[t].state = "submitted" ~> row[t].state # "submitted"

\* A leg is covered by a payment on its way exactly while its row is
\* submitted, and the account follows; settled legs are final (Claims).
ClaimOf(state) ==
  IF state = "submitted" THEN "covered" ELSE IF state = "settled" THEN "paid" ELSE "owed"

Shares == [t \in Tap |-> [l \in {"usdc", "naira"} |-> IF l = "naira" THEN Amount[t] ELSE 0]]
Claims == [t \in Tap |-> [l \in {"usdc", "naira"} |->
             IF l = "naira" THEN ClaimOf(row[t].state) ELSE "none"]]

Promise == INSTANCE Claims WITH Share <- Shares, claim <- Claims, withdrawn <- reversed

ImplementsClaims == Promise!Spec

\* A settled leg is final.
SettledIsFinal == [][\A t \in Tap : row[t].state = "settled" => row'[t] = row[t]]_vars

\* payQueued: "A reversed tap is never paid"; claim: a tap "reversed between
\* record and claim" is left failed.
ReversedNeverClaimed ==
  [][\A t \in reversed : ~(row[t].state = "queued" /\ row'[t].state = "submitted")]_vars
=============================================================================
