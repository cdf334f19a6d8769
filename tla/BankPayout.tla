----------------------------- MODULE BankPayout -----------------------------
(***************************************************************************)
(* Payouts to bank accounts: package internal/settlement (worker.go,       *)
(* outcomes.go), with an operator running cmd/abandon-payout beside it.    *)
(*                                                                         *)
(* A payout reserves its amount in the system's `payable` when it is       *)
(* opened, and the reservation leaves `payable` again by one of two        *)
(* movements: Settled, when the provider confirms the credit, or a return  *)
(* to the beneficiary, when it refuses. A process (a worker's tick, or the *)
(* operator's command) reads a row, calls the provider, and writes what it *)
(* learned without reading the row again.                                  *)
(*                                                                         *)
(* Each step here is one database transaction or one call to the provider. *)
(* Time is abstracted: a payout's backoff may always have passed, and a    *)
(* row that waits on the provider may always be stale.                     *)
(***************************************************************************)
EXTENDS Integers, Sequences, FiniteSets

CONSTANTS
  Payout,
  Kind,         \* what each payout's beneficiary is: "merchant" or "user"
  Amount,
  Worker,       \* processes that run Tick
  Operator,     \* processes that run Abandon
  NoPayout,
  MaxAttempts,  \* the code's: a temporary failure after this many is final
  MaxClaims,    \* bound: a payout is claimed at most this often
  MaxFaults     \* bound: lost and late messages, crashes

ASSUME PayoutAssumption ==
  /\ NoPayout \notin Payout
  /\ Worker \cap Operator = {}
  /\ Kind \in [Payout -> {"merchant", "user"}]
  /\ Amount \in [Payout -> Nat \ {0}]
  /\ MaxAttempts \in Nat /\ MaxClaims \in Nat /\ MaxFaults \in Nat

VARIABLES
  row,       \* the payout's row: state, attempts, provider_ref
  payable,   \* balance of the system's payable account
  settled,   \* payouts whose settlement movement is posted
  returned,  \* payouts whose return movement is posted
  rail,      \* the provider's transfers under each reference, in order
  late,      \* requests that reach the provider after their caller gave up
  proc,      \* what each process is about to do, and what it read
  faults

books == <<payable, settled, returned>>
vars == <<row, books, rail, late, proc, faults>>

Process == Worker \cup Operator
Status == {"pending", "success", "failed"}
Waiting == {"submitting", "sent", "unknown"}
Row == [state : Waiting \cup {"none", "pending", "confirmed", "failed"},
        attempts : Nat, ref : Nat]
Steps == {"idle", "enquire", "send", "confirm", "fail", "sent", "temporary", "timeout", "chase"}

\* Mutant: a payment reference of its own for each attempt.
ReferencePerAttempt(p, attempt) == <<p, attempt>>

\* PaymentReference("payout", id): the same whenever the payout is sent.
Reference(p, attempt) == <<p, 0>>
RailReference == Payout \X (0..MaxClaims)

\* A provider's reference is the place of its transfer among those under the
\* payment reference; 0 is none.
Idle == [at |-> "idle", payout |-> NoPayout, attempts |-> 0, ref |-> 0]

\* Rows, balances, transfers and locals have the types their columns have.
TypeOK ==
  /\ row \in [Payout -> Row]
  /\ payable \in Int
  /\ settled \subseteq Payout /\ returned \subseteq Payout
  /\ rail \in [RailReference -> Seq(Status)]
  /\ late \subseteq RailReference
  /\ proc \in [Process -> [at : Steps, payout : Payout \cup {NoPayout},
                           attempts : Nat, ref : Nat]]
  /\ \A w \in Process : proc[w].at # "idle" => proc[w].payout \in Payout
  /\ faults \in 0..MaxFaults

Init ==
  /\ row = [p \in Payout |-> [state |-> "none", attempts |-> 0, ref |-> 0]]
  /\ payable = 0
  /\ settled = {} /\ returned = {}
  /\ rail = [k \in RailReference |-> << >>]
  /\ late = {}
  /\ proc = [w \in Process |-> Idle]
  /\ faults = 0

-----------------------------------------------------------------------------
At(w, step) == proc[w].at = step
P(w) == proc[w].payout
Goto(w, step) == proc' = [proc EXCEPT ![w].at = step]

Finish(w) == proc' = [proc EXCEPT ![w] = Idle]
Fault == faults < MaxFaults /\ faults' = faults + 1

\* Worker.Open: the reservation and the row, in one transaction. That the
\* beneficiary holds the amount is the reservation's own check (LedgerTx).
Open(p) ==
  /\ row[p].state = "none"
  /\ row' = [row EXCEPT ![p].state = "pending"]
  /\ payable' = payable + Amount[p]
  /\ UNCHANGED <<settled, returned, rail, late, proc, faults>>

\* claim: one pending payout, exclusively (FOR UPDATE SKIP LOCKED).
Claim(w, p) ==
  /\ At(w, "idle")
  /\ row[p].state = "pending" /\ row[p].attempts < MaxClaims
  /\ row' = [row EXCEPT ![p].state = "submitting", ![p].attempts = @ + 1]
  /\ proc' = [proc EXCEPT ![w] = [at |-> "enquire", payout |-> p,
                                  attempts |-> row[p].attempts + 1, ref |-> 0]]
  /\ UNCHANGED <<books, rail, late, faults>>

\* submit, name enquiry: the bank's name matches; it is somebody else's or the
\* provider refuses to say; it is busy; or it does not answer.
Enquire(w) ==
  /\ At(w, "enquire")
  /\ \/ Goto(w, "send") /\ UNCHANGED faults
     \/ Goto(w, "fail") /\ UNCHANGED faults
     \/ Goto(w, "temporary") /\ Fault
     \/ Goto(w, "timeout") /\ Fault
  /\ UNCHANGED <<row, books, rail, late>>

-----------------------------------------------------------------------------
(* The provider. Not under src/: what the code relies on is that a         *)
(* reference names one transfer while that transfer is pending or has      *)
(* succeeded; presented again, it is answered or refused.                  *)

Last(q) == q[Len(q)]
Live(q) == q # << >> /\ Last(q) # "failed"
Taken(q) == IF Live(q) THEN {q} ELSE {Append(q, st) : st \in Status}

\* A pending transfer reaches its end.
RailDecides(k) ==
  /\ rail[k] # << >> /\ Last(rail[k]) = "pending"
  /\ \E st \in {"success", "failed"} : rail' = [rail EXCEPT ![k][Len(rail[k])] = st]
  /\ UNCHANGED <<row, books, late, proc, faults>>

\* A request its caller has given up on is taken after all.
ArriveLate(k) ==
  /\ k \in late
  /\ late' = late \ {k}
  /\ \E q \in Taken(rail[k]) : rail' = [rail EXCEPT ![k] = q]
  /\ UNCHANGED <<row, books, proc, faults>>

-----------------------------------------------------------------------------
(* submit, the transfer.                                                   *)

Asked(w) == Reference(P(w), proc[w].attempts)

\* Mutant: anything but a refusal discharges the payout.
AfterAnswerAccepted(status) == IF status = "failed" THEN "fail" ELSE "confirm"

\* What submit does with the provider's answer.
AfterAnswer(status) ==
  CASE status = "success" -> "confirm"
    [] status = "failed"  -> "fail"
    [] OTHER              -> "sent"

\* The provider takes the request and its answer arrives.
Transfer(w) ==
  /\ At(w, "send")
  /\ \E q \in Taken(rail[Asked(w)]) :
       /\ rail' = [rail EXCEPT ![Asked(w)] = q]
       /\ proc' = [proc EXCEPT ![w].at = AfterAnswer(Last(q)), ![w].ref = Len(q)]
  /\ UNCHANGED <<row, books, late, faults>>

\* A refusal on the merits: a 4xx, or a reference the provider already knows.
Refuse(w) ==
  /\ At(w, "send")
  /\ Goto(w, "fail")
  /\ UNCHANGED <<row, books, rail, late, faults>>

\* No answer, or an error that does not say what became of the request: it was
\* lost, it was taken and its answer was lost, or it is still on its way.
\* recordFailure reads a timeout as unknown, a 5xx as temporary, and what it
\* cannot class (a connection reset, an answer cut short) as a refusal.
NoAnswer(w) ==
  /\ At(w, "send")
  /\ \/ UNCHANGED <<rail, late>>
     \/ \E q \in Taken(rail[Asked(w)]) :
          rail' = [rail EXCEPT ![Asked(w)] = q] /\ UNCHANGED late
     \/ late' = late \cup {Asked(w)} /\ UNCHANGED rail
  /\ \E step \in {"timeout", "temporary", "fail"} : Goto(w, step)
  /\ Fault
  /\ UNCHANGED <<row, books>>

-----------------------------------------------------------------------------
(* outcomes.go: what is written, on the payout the process has in hand.    *)

\* confirm, keyed by the reference of the one transfer that succeeded. A
\* settlement already posted aborts the transaction, the row's update with it.
Confirm(w) ==
  /\ At(w, "confirm")
  /\ IF P(w) \notin settled
     THEN /\ settled' = settled \cup {P(w)}
          /\ payable' = payable - Amount[P(w)]
          /\ row' = [row EXCEPT ![P(w)].state = "confirmed",
                                   ![P(w)].ref = IF @ = 0 THEN proc[w].ref ELSE @]
     ELSE UNCHANGED <<settled, payable, row>>
  /\ Finish(w)
  /\ UNCHANGED <<returned, rail, late, faults>>

\* MerchantPayoutReturned needs the amount to be in payable; Returned does not.
Returnable(p) ==
  p \notin returned /\ (Kind[p] = "merchant" => payable >= Amount[p])

\* Mutant: the row is failed even when the return could not be posted.
FailUnreturned(w) ==
  /\ At(w, "fail")
  /\ IF Returnable(P(w))
     THEN /\ returned' = returned \cup {P(w)}
          /\ payable' = payable - Amount[P(w)]
     ELSE UNCHANGED <<returned, payable>>
  /\ row' = IF row[P(w)].state \in {"confirmed", "failed"}
            THEN row ELSE [row EXCEPT ![P(w)].state = "failed"]
  /\ Finish(w)
  /\ UNCHANGED <<settled, rail, late, faults>>

\* Mutant: the UPDATE does not spare a payout that is already confirmed.
FailConfirmed(w) ==
  /\ At(w, "fail")
  /\ IF Returnable(P(w))
     THEN /\ returned' = returned \cup {P(w)}
          /\ payable' = payable - Amount[P(w)]
          /\ row' = [row EXCEPT ![P(w)].state = "failed"]
     ELSE UNCHANGED <<returned, payable, row>>
  /\ Finish(w)
  /\ UNCHANGED <<settled, rail, late, faults>>

\* fail. The return is posted whatever the row says by now; only the row's
\* update is conditional.
Fail(w) ==
  /\ At(w, "fail")
  /\ IF Returnable(P(w))
     THEN /\ returned' = returned \cup {P(w)}
          /\ payable' = payable - Amount[P(w)]
          /\ row' = IF row[P(w)].state \in {"confirmed", "failed"}
                    THEN row ELSE [row EXCEPT ![P(w)].state = "failed"]
     ELSE UNCHANGED <<returned, payable, row>>
  /\ Finish(w)
  /\ UNCHANGED <<settled, rail, late, faults>>

\* submit, the provider is still deciding: its reference is kept.
MarkSent(w) ==
  /\ At(w, "sent")
  /\ row' = [row EXCEPT ![P(w)].state = "sent", ![P(w)].ref = proc[w].ref]
  /\ Finish(w)
  /\ UNCHANGED <<books, rail, late, faults>>

\* recordFailure, a timeout: unknown, whatever the row says.
MarkUnknown(w) ==
  /\ At(w, "timeout")
  /\ row' = [row EXCEPT ![P(w)].state = "unknown"]
  /\ Finish(w)
  /\ UNCHANGED <<books, rail, late, faults>>

\* recordFailure, a temporary error: back in the queue, or final when the
\* attempts are used up.
MarkTemporary(w) ==
  /\ At(w, "temporary")
  /\ IF proc[w].attempts >= MaxAttempts
     THEN Goto(w, "fail") /\ UNCHANGED row
     ELSE row' = [row EXCEPT ![P(w)].state = "pending"] /\ Finish(w)
  /\ UNCHANGED <<books, rail, late, faults>>

-----------------------------------------------------------------------------
(* chaseStale and Abandon.                                                 *)

\* A row that waits on the provider, with the reference to ask by, if any.
PickStale(w, p) ==
  /\ At(w, "idle")
  /\ row[p].state \in Waiting
  /\ proc' = [proc EXCEPT ![w] = [at |-> "chase", payout |-> p,
                                  attempts |-> row[p].attempts, ref |-> row[p].ref]]
  /\ UNCHANGED <<row, books, rail, late, faults>>

\* "Never reached the provider": no reference, so back in the queue.
SendAgain(w) ==
  /\ At(w, "chase") /\ proc[w].ref = 0
  /\ row' = [row EXCEPT ![P(w)].state = "pending"]
  /\ Finish(w)
  /\ UNCHANGED <<books, rail, late, faults>>

\* The provider says where the transfer is; one in flight is left alone.
ChaseAnswered(w) ==
  /\ At(w, "chase") /\ proc[w].ref > 0
  /\ LET st == rail[Asked(w)][proc[w].ref] IN
     IF st = "pending" THEN Finish(w) ELSE Goto(w, AfterAnswer(st))
  /\ UNCHANGED <<row, books, rail, late, faults>>

\* Abandon reads the row's state, and refuses one that is final.
Abandon(o, p) ==
  /\ At(o, "idle")
  /\ row[p].state \notin {"none", "confirmed", "failed"}
  /\ proc' = [proc EXCEPT ![o] = [at |-> "fail", payout |-> p,
                                  attempts |-> row[p].attempts, ref |-> 0]]
  /\ UNCHANGED <<row, books, rail, late, faults>>

\* The process dies between two steps, or the provider cannot be asked.
Crash(w) ==
  /\ ~At(w, "idle")
  /\ Finish(w)
  /\ Fault
  /\ UNCHANGED <<row, books, rail, late>>

-----------------------------------------------------------------------------
Submit(w) == Enquire(w) \/ Transfer(w) \/ Refuse(w) \/ NoAnswer(w)
Record(w) == Confirm(w) \/ MarkSent(w) \/ MarkUnknown(w) \/ MarkTemporary(w)
Chase(w) == SendAgain(w) \/ ChaseAnswered(w)

Next ==
  \/ \E p \in Payout : Open(p)
  \/ \E w \in Worker : Submit(w) \/ Record(w) \/ Chase(w)
                         \/ \E p \in Payout : Claim(w, p) \/ PickStale(w, p)
  \/ \E o \in Operator, p \in Payout : Abandon(o, p)
  \/ \E w \in Process : Fail(w) \/ Crash(w)
  \/ \E k \in RailReference : RailDecides(k) \/ ArriveLate(k)

Spec == Init /\ [][Next]_vars

-----------------------------------------------------------------------------
(* Properties.                                                             *)

Delivered(p) ==
  UNION {{<<k, g>> : g \in {n \in 1..Len(rail[k]) : rail[k][n] = "success"}} :
         k \in {j \in RailReference : j[1] = p /\ rail[j] # << >>}}

\* settlement.go: "A payout is discharged when the PROVIDER CONFIRMS the credit
\* -- never when our own request is accepted", whatever was lost or sent again.
DischargedIsDelivered == \A p \in settled : Delivered(p) # {}

\* However often a payout is sent again (unknown, stale, temporarily failed),
\* its bank account is credited once.
DeliveredOnce == \A p \in Payout : \A d, e \in Delivered(p) : d = e

\* A row's final state agrees with the books through every race of a worker
\* with an operator: confirmed has been discharged, failed has been returned.
FinalStateIsBooked ==
  \A p \in Payout : /\ row[p].state = "confirmed" => p \in settled
                    /\ row[p].state = "failed" => p \in returned

\* With one worker, as main.go deploys it, a confirmed payout stays confirmed
\* although no write of outcomes.go but one tests for it.
ConfirmedIsFinal ==
  [][\A p \in Payout : row[p].state = "confirmed" => row'[p].state = "confirmed"]_vars

\* fail: "the provider refused on the merits and no money moved". Nobody is
\* both paid at their bank and given the reservation back.
NeverPaidTwice == \A p \in returned : Delivered(p) = {}
=============================================================================
