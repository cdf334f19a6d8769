--------------------------- MODULE NairaLeg_proofs ---------------------------
(***************************************************************************)
(* For any number of taps, workers, webhooks, retries and faults, the      *)
(* ledger's movements for a naira leg follow its row, the rail's fees are  *)
(* booked exactly once, and the merchant's bank is credited at most once.  *)
(*                                                                         *)
(* The step that needs care is Fail: it acts on a row that may be at a     *)
(* later attempt than the one the process read. The invariant says that    *)
(* what a process read was an attempt that has been claimed; every claimed *)
(* attempt but the standing one has been returned, so a stale return is a  *)
(* duplicate, and the duplicate aborts it.                                 *)
(*                                                                         *)
(* What was learnt of the rail is old news too, but stays true: transfers  *)
(* under a reference only grow, and one that succeeded stays so.           *)
(***************************************************************************)
EXTENDS NairaLeg, TLAPS

Acting == {"claimed", "sweep", "recordSweep", "pay", "settle", "note", "fail", "chase"}

\* A process past the claim acts on an attempt that was claimed.
CopiesWereClaimed ==
  \A p \in Process : proc[p].at \in Acting =>
    proc[p].s.attempts \in 1..row[proc[p].tap].attempts

\* Nothing stands, and nothing reaches the rail, before a claim.
ClaimedFirst ==
  /\ \A t \in Tap : Standing(t) => row[t].attempts >= 1
  /\ \A k \in RailReference : rail[k] # << >> \/ k \in late => row[k[1]].attempts >= 1

Inv ==
  /\ TypeOK
  /\ BooksFollowTheRow
  /\ FeesBookedOnce
  /\ CopiesWereClaimed
  /\ ClaimedFirst

ProcOK ==
  /\ proc \in [Process -> [at : Steps, tap : Tap \cup {NoTap}, s : Copy, ref : Nat]]
  /\ \A p \in Process : proc[p].at # "idle" => proc[p].tap \in Tap

-----------------------------------------------------------------------------
\* An idle process is well typed.
LEMMA IdleType == Idle \in [at : Steps, tap : Tap \cup {NoTap}, s : Copy, ref : Nat]
BY DEF Idle, Steps, Copy, CopyOf, Fresh

\* Amounts are integers.
LEMMA AmountType == \A t \in Tap : Amount[t] \in Int
<1>1. \A t \in Tap : Amount[t] \in Nat \ {0}
  BY NairaAssumption
<1> QED
  BY <1>1

\* The references of Reference and SweepReference are ones the rail knows.
LEMMA ReferenceType ==
  \A t \in Tap, hop \in Hop, n \in Nat :
    Reference(t, hop, n) \in RailReference /\ Reference(t, hop, n)[1] = t
BY NairaAssumption DEF Reference, RailReference

\* A process that goes on with the copy it has, or is done.
LEMMA GotoKeeps ==
  ASSUME Inv, NEW p \in Process, proc[p].at # "idle", NEW step \in Steps, Goto(p, step),
         step \in Acting => proc[p].at \in Acting,
         \A t \in Tap : row'[t].attempts = row[t].attempts
  PROVE  ProcOK' /\ CopiesWereClaimed'
<1>1. ProcOK'
  BY DEF Inv, TypeOK, ProcOK, Goto
<1>2. CopiesWereClaimed'
  <2> SUFFICES ASSUME NEW q \in Process, proc'[q].at \in Acting
               PROVE proc'[q].s.attempts \in 1..row'[proc'[q].tap].attempts
    BY DEF CopiesWereClaimed
  <2>1. proc'[q].s = proc[q].s /\ proc'[q].tap = proc[q].tap /\ proc[q].at \in Acting
    BY DEF Goto, Inv, TypeOK
  <2>2. proc[q].tap \in Tap
    BY <2>1 DEF Inv, TypeOK, Acting
  <2> QED
    BY <2>1, <2>2 DEF Inv, CopiesWereClaimed
<1> QED
  BY <1>1, <1>2

\* Finishing a row in hand keeps what is said of processes.
LEMMA FinishKeeps ==
  ASSUME Inv, NEW p \in Process, Finish(p),
         \A t \in Tap : row'[t].attempts = row[t].attempts
  PROVE  ProcOK' /\ CopiesWereClaimed'
<1>1. proc' = [proc EXCEPT ![p] = Idle] /\ Idle.at = "idle"
  BY DEF Finish, Idle
<1>2. ProcOK'
  BY <1>1, IdleType DEF Inv, TypeOK, ProcOK
<1>3. CopiesWereClaimed'
  <2> SUFFICES ASSUME NEW q \in Process, proc'[q].at \in Acting
               PROVE proc'[q].s.attempts \in 1..row'[proc'[q].tap].attempts
    BY DEF CopiesWereClaimed
  <2>1. q # p /\ proc'[q] = proc[q]
    BY <1>1 DEF Inv, TypeOK, Acting
  <2>2. proc[q].tap \in Tap
    BY <2>1 DEF Inv, TypeOK, Acting
  <2> QED
    BY <2>1, <2>2 DEF Inv, CopiesWereClaimed
<1> QED
  BY <1>2, <1>3

\* A process that reads a row, to act on it only if the row has been claimed.
LEMMA TakeKeeps ==
  ASSUME Inv, NEW p \in Process, NEW t \in Tap, NEW step \in Steps, NEW ref \in Nat,
         Take(p, t, step, ref), row' = row,
         step \in Acting => row[t].attempts >= 1
  PROVE  ProcOK' /\ CopiesWereClaimed'
<1> DEFINE new == [at |-> step, tap |-> t, s |-> CopyOf(row[t]), ref |-> ref]
<1>1. proc' = [proc EXCEPT ![p] = new]
  BY DEF Take
<1>2. CopyOf(row[t]) \in Copy /\ CopyOf(row[t]).attempts = row[t].attempts
        /\ row[t].attempts \in Nat
  BY DEF Inv, TypeOK, Row, Copy, CopyOf
<1>3. ProcOK'
  BY <1>1, <1>2 DEF Inv, TypeOK, ProcOK
<1>4. CopiesWereClaimed'
  <2> SUFFICES ASSUME NEW q \in Process, proc'[q].at \in Acting
               PROVE proc'[q].s.attempts \in 1..row[proc'[q].tap].attempts
    BY DEF CopiesWereClaimed
  <2>1. CASE q = p
    <3>1. proc'[q] = new
      BY <1>1, <2>1 DEF Inv, TypeOK
    <3> QED
      BY <1>2, <3>1
  <2>2. CASE q # p
    <3>1. proc'[q] = proc[q]
      BY <1>1, <2>2 DEF Inv, TypeOK
    <3> QED
      BY <3>1 DEF Inv, CopiesWereClaimed
  <2> QED
    BY <2>1, <2>2
<1> QED
  BY <1>3, <1>4

\* What a step that leaves the rows and the books alone leaves standing.
LEMMA BooksKept ==
  ASSUME Inv, UNCHANGED <<row, books>>
  PROVE  /\ BooksFollowTheRow' /\ FeesBookedOnce'
         /\ (rail' = rail /\ late' = late) => ClaimedFirst'
BY DEF Inv, books, BooksFollowTheRow, FeesBookedOnce, ClaimedFirst, Standing

\* Freshly recorded legs satisfy the invariant.
LEMMA InitInv == Init => Inv
<1> SUFFICES ASSUME Init PROVE Inv
  OBVIOUS
<1>0. Fresh \in Row /\ Fresh.attempts = 0 /\ Fresh.state = "queued" /\ Idle.at = "idle"
  BY DEF Fresh, Row, Idle
<1>1. TypeOK
  BY <1>0, IdleType, NairaAssumption DEF Init, TypeOK
<1>2. BooksFollowTheRow /\ FeesBookedOnce
  BY <1>0 DEF Init, BooksFollowTheRow, FeesBookedOnce, Standing
<1>3. CopiesWereClaimed /\ ClaimedFirst
  BY <1>0 DEF Init, CopiesWereClaimed, ClaimedFirst, Standing, Acting
<1> QED
  BY <1>1, <1>2, <1>3 DEF Inv

-----------------------------------------------------------------------------
(* The kinds of step.                                                      *)

\* Only a process, and perhaps the count of faults, moves.
LEMMA QuietStep ==
  ASSUME Inv, UNCHANGED <<row, books, reversed, rail, late>>, ProcOK', CopiesWereClaimed',
         faults' \in 0..MaxFaults
  PROVE  Inv'
<1>1. TypeOK'
  BY DEF Inv, TypeOK, ProcOK, books
<1> QED
  BY <1>1, BooksKept DEF Inv

\* The rail's record of one reference, or a request under it, moves.
LEMMA RailStep ==
  ASSUME Inv, UNCHANGED <<row, books, reversed>>, ProcOK', CopiesWereClaimed',
         faults' \in 0..MaxFaults,
         NEW k \in RailReference, row[k[1]].attempts >= 1,
         rail' \in [RailReference -> Seq(RailStatus)],
         \A j \in RailReference \ {k} : rail'[j] = rail[j],
         late' \subseteq late \cup {k}
  PROVE  Inv'
<1>1. TypeOK'
  BY DEF Inv, TypeOK, ProcOK, books
<1>2. ClaimedFirst'
  <2>1. \A t \in Tap : Standing(t)' => row'[t].attempts >= 1
    BY DEF Inv, ClaimedFirst, Standing
  <2>2. ASSUME NEW j \in RailReference, rail'[j] # << >> \/ j \in late'
        PROVE  row'[j[1]].attempts >= 1
    <3>1. CASE j = k
      BY <3>1
    <3>2. CASE j # k
      BY <2>2, <3>2 DEF Inv, ClaimedFirst
    <3> QED
      BY <3>1, <3>2
  <2> QED
    BY <2>1, <2>2 DEF ClaimedFirst
<1> QED
  BY <1>1, <1>2, BooksKept DEF Inv

\* A row moves to a state that stands for the merchant as the last one did.
LEMMA RowStep ==
  ASSUME Inv, UNCHANGED <<books, reversed, rail, late, faults>>, ProcOK', CopiesWereClaimed',
         row' \in [Tap -> Row],
         \A t \in Tap : /\ row'[t].attempts = row[t].attempts
                        /\ row'[t].state \in {"submitted", "settled"}
                             <=> row[t].state \in {"submitted", "settled"}
                        /\ row'[t].state = "settled" <=> row[t].state = "settled"
  PROVE  Inv'
<1>1. TypeOK'
  BY DEF Inv, TypeOK, ProcOK, books
<1>2. BooksFollowTheRow' /\ FeesBookedOnce'
  BY DEF Inv, BooksFollowTheRow, FeesBookedOnce, Standing, books
<1>3. ClaimedFirst'
  BY DEF Inv, ClaimedFirst, Standing, RailReference
<1> QED
  BY <1>1, <1>2, <1>3 DEF Inv

-----------------------------------------------------------------------------
(* The actions that move a row's books.                                    *)

\* claim discharges the attempt that now stands.
LEMMA ClaimInv ==
  ASSUME Inv, NEW p \in Worker, Claim(p)
  PROVE  Inv'
<1> DEFINE t == T(p)
           n == row[t].attempts + 1
<1>1. p \in Process /\ proc[p].at = "picked" /\ t \in Tap /\ row[t].attempts \in Nat
  BY DEF Process, Claim, At, T, Inv, TypeOK, Row
<1>2. /\ row[t].state = "queued"
      /\ row' = [row EXCEPT ![t].state = "submitted", ![t].attempts = n]
      /\ payable' = payable - Amount[t]
      /\ discharged' = [discharged EXCEPT ![t] = @ \cup {n}]
      /\ proc' = [proc EXCEPT ![p].at = "claimed", ![p].s.attempts = n]
      /\ UNCHANGED <<returned, fees, reversed, rail, late, faults>>
  BY DEF Claim
<1>3. /\ row' \in [Tap -> Row]
      /\ row'[t].state = "submitted" /\ row'[t].attempts = n
      /\ \A u \in Tap \ {t} : row'[u] = row[u]
  <2>1. row \in [Tap -> Row]
    BY DEF Inv, TypeOK
  <2>2. row' = [row EXCEPT ![t] = [row[t] EXCEPT !.state = "submitted", !.attempts = n]]
    BY <1>1, <1>2, <2>1
  <2>3. /\ [row[t] EXCEPT !.state = "submitted", !.attempts = n] \in Row
        /\ [row[t] EXCEPT !.state = "submitted", !.attempts = n].state = "submitted"
        /\ [row[t] EXCEPT !.state = "submitted", !.attempts = n].attempts = n
    <3>1. row[t] \in Row /\ n \in Nat
      BY <1>1, <2>1
    <3> HIDE DEF t, n
    <3> QED
      BY <3>1 DEF Row
  <2> HIDE DEF n
  <2> QED
    BY <1>1, <2>1, <2>2, <2>3
<1>4. TypeOK'
  <2>1. payable' \in Int
    BY <1>1, <1>2, AmountType DEF Inv, TypeOK
  <2>2. discharged' \in [Tap -> SUBSET Nat]
    BY <1>1, <1>2 DEF Inv, TypeOK
  <2>3. ProcOK'
    <3> DEFINE PC == [at : Steps, tap : Tap \cup {NoTap}, s : Copy, ref : Nat]
    <3>1. proc \in [Process -> PC]
      BY DEF Inv, TypeOK
    <3>2. proc' = [proc EXCEPT ![p] = [proc[p] EXCEPT !.at = "claimed", !.s.attempts = n]]
      BY <1>1, <1>2, <3>1
    <3>3. [proc[p] EXCEPT !.at = "claimed", !.s.attempts = n] \in PC
      <4>1. proc[p] \in PC /\ proc[p].s \in Copy
        BY <1>1, <3>1
      <4>2. [proc[p].s EXCEPT !.attempts = n] \in Copy
        BY <1>1, <4>1 DEF Copy
      <4>3. [proc[p] EXCEPT !.at = "claimed", !.s = [proc[p].s EXCEPT !.attempts = n]] \in PC
        BY <4>1, <4>2 DEF Steps
      <4> QED
        BY <4>1, <4>3
    <3>4. [proc[p] EXCEPT !.at = "claimed", !.s.attempts = n].tap \in Tap
      BY <1>1, <3>1 DEF T
    <3>5. proc' \in [Process -> PC]
      BY <3>1, <3>2, <3>3
    <3>6. ASSUME NEW q \in Process, proc'[q].at # "idle" PROVE proc'[q].tap \in Tap
      BY <1>1, <3>1, <3>2, <3>4, <3>6 DEF Inv, TypeOK
    <3> QED
      BY <3>5, <3>6 DEF ProcOK
  <2> QED
    BY <1>2, <1>3, <2>1, <2>2, <2>3 DEF Inv, TypeOK, ProcOK
<1>5. BooksFollowTheRow'
  <2> SUFFICES ASSUME NEW u \in Tap
               PROVE /\ discharged'[u] = 1..row'[u].attempts
                     /\ returned'[u] = 1..(IF row'[u].state \in {"submitted", "settled"}
                                           THEN row'[u].attempts - 1 ELSE row'[u].attempts)
    BY DEF BooksFollowTheRow, Standing
  <2>1. CASE u = t
    <3>1. discharged[t] = 1..(n - 1) /\ returned[t] = 1..(n - 1)
      BY <1>1, <1>2 DEF Inv, BooksFollowTheRow, Standing
    <3>2. discharged'[t] = discharged[t] \cup {n} /\ returned'[t] = returned[t]
      BY <1>1, <1>2 DEF Inv, TypeOK
    <3>3. 1..(n - 1) \cup {n} = 1..n
      BY <1>1
    <3> QED
      BY <1>1, <1>3, <2>1, <3>1, <3>2, <3>3
  <2>2. CASE u # t
    BY <1>1, <1>2, <1>3, <2>2 DEF Inv, TypeOK, BooksFollowTheRow, Standing
  <2> QED
    BY <2>1, <2>2
<1>6. FeesBookedOnce'
  BY <1>1, <1>2, <1>3 DEF Inv, FeesBookedOnce
<1>7. CopiesWereClaimed'
  <2> SUFFICES ASSUME NEW q \in Process, proc'[q].at \in Acting
               PROVE proc'[q].s.attempts \in 1..row'[proc'[q].tap].attempts
    BY DEF CopiesWereClaimed
  <2>1. CASE q = p
    <3>1. proc'[p].s.attempts = n /\ proc'[p].tap = t
      BY <1>1, <1>2 DEF Inv, TypeOK, T, Copy
    <3> QED
      BY <1>1, <1>3, <2>1, <3>1
  <2>2. CASE q # p
    <3>1. proc'[q] = proc[q] /\ proc[q].tap \in Tap
      BY <1>1, <1>2, <2>2 DEF Inv, TypeOK, Acting
    <3>2. proc[q].s.attempts \in 1..row[proc[q].tap].attempts
      BY <3>1 DEF Inv, CopiesWereClaimed
    <3> QED
      BY <1>1, <1>3, <3>1, <3>2
  <2> QED
    BY <2>1, <2>2
<1>8. ClaimedFirst'
  <2>1. \A u \in Tap : row[u].attempts >= 1 => row'[u].attempts >= 1
    BY <1>1, <1>3
  <2>2. \A u \in Tap : Standing(u)' => row'[u].attempts >= 1
    BY <1>1, <1>3 DEF Inv, ClaimedFirst, Standing
  <2>3. \A k \in RailReference : k[1] \in Tap
    BY DEF RailReference
  <2> QED
    BY <1>2, <2>1, <2>2, <2>3 DEF Inv, ClaimedFirst
<1> QED
  BY <1>4, <1>5, <1>6, <1>7, <1>8 DEF Inv

\* settle books the fees of a leg that stood and now is final.
LEMMA SettleInv ==
  ASSUME Inv, NEW p \in Process, Settle(p)
  PROVE  Inv'
<1> DEFINE t == T(p)
           n == S(p).attempts
<1>1. proc[p].at = "settle" /\ t \in Tap /\ n \in Nat /\ proc[p].ref \in Nat
  BY DEF Settle, At, T, S, Inv, TypeOK, Copy
<1>2. CASE row[t].state # "submitted"
  <2>1. Finish(p) /\ UNCHANGED <<row, books, reversed, rail, late, faults>>
    BY <1>2 DEF Settle, books
  <2> QED
    BY <2>1, FinishKeeps, QuietStep DEF Inv, TypeOK
<1>3. CASE row[t].state = "submitted"
  <2>1. /\ row' = [row EXCEPT ![t].state = "settled",
                              ![t].railRef = IF @ = 0 THEN proc[p].ref ELSE @]
        /\ fees' = [fees EXCEPT ![t] = @ \cup {n}]
        /\ Finish(p)
        /\ UNCHANGED <<payable, discharged, returned, reversed, rail, late, faults>>
    BY <1>3 DEF Settle
  <2>2. /\ row' \in [Tap -> Row]
        /\ row'[t].state = "settled"
        /\ \A u \in Tap : row'[u].attempts = row[u].attempts
        /\ \A u \in Tap \ {t} : row'[u] = row[u]
    <3> DEFINE ref == IF row[t].railRef = 0 THEN proc[p].ref ELSE row[t].railRef
    <3>1. row \in [Tap -> Row]
      BY DEF Inv, TypeOK
    <3>2. row' = [row EXCEPT ![t] = [row[t] EXCEPT !.state = "settled", !.railRef = ref]]
      BY <1>1, <2>1, <3>1
    <3>3. [row[t] EXCEPT !.state = "settled", !.railRef = ref] \in Row
      BY <1>1, <3>1 DEF Row
    <3> QED
      BY <1>1, <3>1, <3>2, <3>3 DEF Row
  <2>3. ProcOK' /\ CopiesWereClaimed'
    BY <2>1, <2>2, FinishKeeps
  <2>4. TypeOK'
    BY <1>1, <2>1, <2>2, <2>3 DEF Inv, TypeOK, ProcOK
  <2>5. BooksFollowTheRow'
    BY <1>1, <1>3, <2>1, <2>2 DEF Inv, BooksFollowTheRow, Standing
  <2>6. FeesBookedOnce'
    <3>1. fees[t] = {}
      BY <1>1, <1>3 DEF Inv, FeesBookedOnce
    <3>2. fees'[t] = {n} /\ \A u \in Tap \ {t} : fees'[u] = fees[u]
      BY <1>1, <2>1, <3>1 DEF Inv, TypeOK
    <3> QED
      BY <2>2, <3>2 DEF Inv, FeesBookedOnce
  <2>7. ClaimedFirst'
    BY <1>1, <1>3, <2>1, <2>2 DEF Inv, ClaimedFirst, Standing, RailReference
  <2> QED
    BY <2>3, <2>4, <2>5, <2>6, <2>7 DEF Inv
<1> QED
  BY <1>2, <1>3

\* fail returns the standing attempt, or nothing: a stale copy finds its
\* attempt returned already.
LEMMA FailInv ==
  ASSUME Inv, NEW p \in Process, Fail(p)
  PROVE  Inv'
<1> DEFINE t == T(p)
           n == S(p).attempts
<1>1. proc[p].at = "fail" /\ t \in Tap /\ n \in 1..row[t].attempts /\ row[t].attempts \in Nat
  BY DEF Fail, At, T, S, Inv, TypeOK, CopiesWereClaimed, Acting, Row
<1>2. CASE ~(row[t].state = "submitted" /\ n \notin returned[t])
  <2>1. Finish(p) /\ UNCHANGED <<row, books, reversed, rail, late, faults>>
    BY <1>2 DEF Fail, books
  <2> QED
    BY <2>1, FinishKeeps, QuietStep DEF Inv, TypeOK
<1>3. CASE row[t].state = "submitted" /\ n \notin returned[t]
  <2>1. /\ row' = [row EXCEPT ![t].state = "failed"]
        /\ returned' = [returned EXCEPT ![t] = @ \cup {n}]
        /\ payable' = payable + Amount[t]
        /\ Finish(p)
        /\ UNCHANGED <<discharged, fees, reversed, rail, late, faults>>
    BY <1>3 DEF Fail
  <2>2. /\ row' \in [Tap -> Row]
        /\ row'[t].state = "failed"
        /\ \A u \in Tap : row'[u].attempts = row[u].attempts
        /\ \A u \in Tap \ {t} : row'[u] = row[u]
    <3>1. row \in [Tap -> Row]
      BY DEF Inv, TypeOK
    <3>2. [row[t] EXCEPT !.state = "failed"] \in Row
      BY <1>1, <3>1 DEF Row
    <3> QED
      BY <1>1, <2>1, <3>1, <3>2 DEF Row
  <2>3. returned[t] = 1..(row[t].attempts - 1)
    BY <1>1, <1>3 DEF Inv, BooksFollowTheRow, Standing
  <2>4. n = row[t].attempts
    BY <1>1, <1>3, <2>3
  <2>5. returned'[t] = 1..row[t].attempts
    BY <1>1, <2>1, <2>3, <2>4 DEF Inv, TypeOK
  <2>6. ProcOK' /\ CopiesWereClaimed'
    BY <2>1, <2>2, FinishKeeps
  <2>7. TypeOK'
    <3>1. payable' \in Int
      BY <1>1, <2>1, AmountType DEF Inv, TypeOK
    <3>2. returned' \in [Tap -> SUBSET Nat]
      BY <1>1, <2>1 DEF Inv, TypeOK
    <3> QED
      BY <2>1, <2>2, <2>6, <3>1, <3>2 DEF Inv, TypeOK, ProcOK
  <2>8. BooksFollowTheRow'
    <3> SUFFICES ASSUME NEW u \in Tap
                 PROVE /\ discharged'[u] = 1..row'[u].attempts
                       /\ returned'[u] = 1..(IF row'[u].state \in {"submitted", "settled"}
                                             THEN row'[u].attempts - 1 ELSE row'[u].attempts)
      BY DEF BooksFollowTheRow, Standing
    <3>1. CASE u = t
      BY <2>1, <2>2, <2>5, <3>1 DEF Inv, BooksFollowTheRow
    <3>2. CASE u # t
      BY <1>1, <2>1, <2>2, <3>2 DEF Inv, TypeOK, BooksFollowTheRow, Standing
    <3> QED
      BY <3>1, <3>2
  <2>9. FeesBookedOnce'
    BY <1>1, <1>3, <2>1, <2>2 DEF Inv, FeesBookedOnce
  <2>10. ClaimedFirst'
    BY <1>1, <2>1, <2>2 DEF Inv, ClaimedFirst, Standing, RailReference
  <2> QED
    BY <2>6, <2>7, <2>8, <2>9, <2>10 DEF Inv
<1> QED
  BY <1>2, <1>3

-----------------------------------------------------------------------------
(* Every step of the system.                                               *)

\* The answers a process acts on are steps of its own.
LEMMA AfterAnswerType ==
  ASSUME NEW hop, NEW status
  PROVE  AfterAnswer(hop, status) \in Steps \cap Acting
BY DEF AfterAnswer, Steps, Acting

\* A transfer the rail takes under a reference extends what it has there.
LEMMA TakenType ==
  ASSUME NEW q \in Seq(RailStatus), NEW r \in Taken(q)
  PROVE  r \in Seq(RailStatus) /\ r # << >> /\ Last(r) \in RailStatus /\ Len(r) \in Nat
<1>1. r \in Seq(RailStatus) /\ r # << >>
  BY DEF Taken, Live
<1>2. Len(r) \in 1..Len(r)
  BY <1>1
<1> QED
  BY <1>1, <1>2 DEF Last

\* What a process past the claim knows of its row.
LEMMA ActingFacts ==
  ASSUME Inv, NEW p \in Process, proc[p].at \in Acting
  PROVE  /\ proc[p].at # "idle" /\ T(p) \in Tap
         /\ S(p) \in Copy /\ proc[p].ref \in Nat
         /\ row[T(p)].attempts >= 1
<1>1. proc[p].at # "idle" /\ proc[p].tap \in Tap
  BY DEF Inv, TypeOK, Acting
<1>2. proc[p].s \in Copy /\ proc[p].ref \in Nat
  BY DEF Inv, TypeOK
<1>3. proc[p].s.attempts \in 1..row[proc[p].tap].attempts /\ row[proc[p].tap].attempts \in Nat
  BY <1>1 DEF Inv, TypeOK, CopiesWereClaimed, Row
<1> QED
  BY <1>1, <1>2, <1>3 DEF T, S

\* A process that goes on with what the rail said of its transfer.
LEMMA AnsweredKeeps ==
  ASSUME Inv, NEW p \in Process, proc[p].at \in Acting,
         NEW step \in Steps, NEW ref \in Nat, row' = row,
         proc' = [proc EXCEPT ![p].at = step, ![p].ref = ref]
  PROVE  ProcOK' /\ CopiesWereClaimed'
<1>1. ProcOK'
  BY DEF Inv, TypeOK, ProcOK, Acting
<1>2. CopiesWereClaimed'
  <2> SUFFICES ASSUME NEW q \in Process, proc'[q].at \in Acting
               PROVE proc'[q].s.attempts \in 1..row[proc'[q].tap].attempts
    BY DEF CopiesWereClaimed
  <2>1. proc'[q].s = proc[q].s /\ proc'[q].tap = proc[q].tap /\ proc[q].at \in Acting
    BY DEF Inv, TypeOK
  <2> QED
    BY <2>1 DEF Inv, CopiesWereClaimed
<1> QED
  BY <1>1, <1>2

\* payQueued's steps preserve the invariant.
LEMMA PayQueuedInv ==
  ASSUME Inv, NEW p \in Worker, PayQueued(p)
  PROVE  Inv'
<1>0. p \in Process /\ faults \in 0..MaxFaults
  BY DEF Process, Inv, TypeOK
<1>1. ASSUME NEW t \in Tap, PickQueued(p, t) PROVE Inv'
  <2>1. Take(p, t, "picked", 0) /\ UNCHANGED <<row, books, reversed, rail, late, faults>>
    BY <1>1 DEF PickQueued
  <2>2. ProcOK' /\ CopiesWereClaimed'
    BY <1>0, <2>1, TakeKeeps DEF Steps, Acting
  <2> QED
    BY <1>0, <2>1, <2>2, QuietStep
<1>2. ASSUME Unresolved(p) PROVE Inv'
  <2>1. proc[p].at # "idle" /\ UNCHANGED <<row, books, reversed, rail, late, faults>>
    BY <1>2 DEF Unresolved, At
  <2>2. CASE Goto(p, "failQueued")
    <3>1. ProcOK' /\ CopiesWereClaimed'
      BY <1>0, <2>1, <2>2, GotoKeeps DEF Steps, Acting
    <3> QED
      BY <1>0, <2>1, <3>1, QuietStep
  <2>3. CASE Finish(p)
    <3>1. ProcOK' /\ CopiesWereClaimed'
      BY <1>0, <2>1, <2>3, FinishKeeps
    <3> QED
      BY <1>0, <2>1, <3>1, QuietStep
  <2> QED
    BY <1>2, <2>2, <2>3 DEF Unresolved
<1>3. ASSUME FailQueued(p) PROVE Inv'
  <2>1. /\ T(p) \in Tap
        /\ row' = IF row[T(p)].state = "queued"
                  THEN [row EXCEPT ![T(p)].state = "failed"] ELSE row
        /\ Finish(p)
        /\ UNCHANGED <<books, reversed, rail, late, faults>>
    BY <1>0, <1>3 DEF FailQueued, At, T, Inv, TypeOK
  <2>2. row \in [Tap -> Row]
    BY DEF Inv, TypeOK
  <2>3. [row[T(p)] EXCEPT !.state = "failed"] \in Row
    BY <2>1, <2>2 DEF Row
  <2>4. /\ row' \in [Tap -> Row]
        /\ \A t \in Tap : /\ row'[t].attempts = row[t].attempts
                          /\ row'[t].state \in {"submitted", "settled"}
                               <=> row[t].state \in {"submitted", "settled"}
                          /\ row'[t].state = "settled" <=> row[t].state = "settled"
    BY <2>1, <2>2, <2>3 DEF Row
  <2>5. ProcOK' /\ CopiesWereClaimed'
    BY <1>0, <2>1, <2>4, FinishKeeps
  <2> QED
    BY <2>1, <2>4, <2>5, RowStep
<1>4. ASSUME NotClaimed(p) PROVE Inv'
  <2>1. proc[p].at # "idle" /\ UNCHANGED <<row, books, reversed, rail, late, faults>>
    BY <1>4 DEF NotClaimed, At
  <2>2. CASE Goto(p, "failQueued")
    <3>1. ProcOK' /\ CopiesWereClaimed'
      BY <1>0, <2>1, <2>2, GotoKeeps DEF Steps, Acting
    <3> QED
      BY <1>0, <2>1, <3>1, QuietStep
  <2>3. CASE Finish(p)
    <3>1. ProcOK' /\ CopiesWereClaimed'
      BY <1>0, <2>1, <2>3, FinishKeeps
    <3> QED
      BY <1>0, <2>1, <3>1, QuietStep
  <2> QED
    BY <1>4, <2>2, <2>3 DEF NotClaimed
<1> QED
  BY <1>1, <1>2, <1>3, <1>4, ClaimInv DEF PayQueued

\* A rail's answer keeps its transfers typed.
LEMMA RailTyped ==
  ASSUME Inv, NEW k \in RailReference, NEW q \in Taken(rail[k]), rail' = [rail EXCEPT ![k] = q]
  PROVE  /\ rail' \in [RailReference -> Seq(RailStatus)]
         /\ \A j \in RailReference \ {k} : rail'[j] = rail[j]
         /\ Last(q) \in RailStatus /\ Len(q) \in Nat
<1>1. rail \in [RailReference -> Seq(RailStatus)]
  BY DEF Inv, TypeOK
<1>2. q \in Seq(RailStatus) /\ Last(q) \in RailStatus /\ Len(q) \in Nat
  BY <1>1, TakenType
<1> QED
  BY <1>1, <1>2

\* The count of faults stays within its bound.
LEMMA FaultType ==
  ASSUME Inv, Fault PROVE faults' \in 0..MaxFaults
BY NairaAssumption DEF Fault, Inv, TypeOK

\* submit, sweep and payBank preserve the invariant.
LEMMA SubmitInv ==
  ASSUME Inv, NEW p \in Worker, Submit(p)
  PROVE  Inv'
<1>0. p \in Process /\ faults \in 0..MaxFaults /\ late \subseteq RailReference
  BY DEF Process, Inv, TypeOK
<1>1. ASSUME Enquire(p) PROVE Inv'
  <2>1. proc[p].at # "idle" /\ proc[p].at \in Acting
          /\ UNCHANGED <<row, books, reversed, rail, late>>
    BY <1>1 DEF Enquire, At, Acting
  <2>2. CASE Goto(p, IF S(p).swept THEN "pay" ELSE "sweep") /\ UNCHANGED faults
    <3>1. (IF S(p).swept THEN "pay" ELSE "sweep") \in Steps
      BY DEF Steps
    <3>2. ProcOK' /\ CopiesWereClaimed'
      BY <1>0, <2>1, <2>2, <3>1, GotoKeeps
    <3> QED
      BY <1>0, <2>1, <2>2, <3>2, QuietStep
  <2>3. CASE Goto(p, "fail") /\ UNCHANGED faults
    <3>1. ProcOK' /\ CopiesWereClaimed'
      BY <1>0, <2>1, <2>3, GotoKeeps DEF Steps
    <3> QED
      BY <1>0, <2>1, <2>3, <3>1, QuietStep
  <2>4. CASE Finish(p) /\ Fault
    <3>1. ProcOK' /\ CopiesWereClaimed'
      BY <1>0, <2>1, <2>4, FinishKeeps
    <3> QED
      BY <2>1, <2>4, <3>1, FaultType, QuietStep
  <2> QED
    BY <1>1, <2>2, <2>3, <2>4 DEF Enquire
<1>2. ASSUME proc[p].at \in {"sweep", "pay"}
      PROVE  /\ proc[p].at \in Acting /\ T(p) \in Tap /\ row[T(p)].attempts >= 1
             /\ Asking(p) \in Hop
             /\ Reference(T(p), Asking(p), S(p).attempts) \in RailReference
             /\ Reference(T(p), Asking(p), S(p).attempts)[1] = T(p)
  <2>1. proc[p].at \in Acting
    BY <1>2 DEF Acting
  <2>2. T(p) \in Tap /\ row[T(p)].attempts >= 1 /\ S(p).attempts \in Nat
    BY <1>0, <2>1, ActingFacts DEF Copy
  <2>3. Asking(p) \in Hop
    BY <1>2 DEF Asking, At, Hop
  <2> QED
    BY <2>1, <2>2, <2>3, ReferenceType
<1>3. ASSUME AskRail(p) PROVE Inv'
  <2> DEFINE k == Reference(T(p), Asking(p), S(p).attempts)
  <2>1. proc[p].at \in {"sweep", "pay"} /\ UNCHANGED <<row, books, reversed, late, faults>>
    BY <1>3 DEF AskRail, At
  <2>2. PICK q \in Taken(rail[k]) :
          /\ rail' = [rail EXCEPT ![k] = q]
          /\ proc' = [proc EXCEPT ![p].at = AfterAnswer(Asking(p), Last(q)), ![p].ref = Len(q)]
    BY <1>3 DEF AskRail
  <2>3. k \in RailReference /\ row[k[1]].attempts >= 1
    BY <1>2, <2>1
  <2>4. /\ rail' \in [RailReference -> Seq(RailStatus)]
        /\ \A j \in RailReference \ {k} : rail'[j] = rail[j]
        /\ Last(q) \in RailStatus /\ Len(q) \in Nat
    <3> HIDE DEF k
    <3> QED
      BY <2>2, <2>3, RailTyped
  <2>5. AfterAnswer(Asking(p), Last(q)) \in Steps
    BY <1>2, <2>1, <2>4, AfterAnswerType
  <2>6. ProcOK' /\ CopiesWereClaimed'
    BY <1>0, <1>2, <2>1, <2>2, <2>4, <2>5, AnsweredKeeps
  <2> HIDE DEF k
  <2> QED
    BY <1>0, <2>1, <2>3, <2>4, <2>6, RailStep
<1>4. ASSUME RailRefuses(p) PROVE Inv'
  <2>1. /\ proc[p].at # "idle" /\ proc[p].at \in Acting
        /\ Goto(p, "fail") /\ UNCHANGED <<row, books, reversed, rail, late, faults>>
    BY <1>4 DEF RailRefuses, At, Acting
  <2>2. ProcOK' /\ CopiesWereClaimed'
    BY <1>0, <2>1, GotoKeeps DEF Steps
  <2> QED
    BY <1>0, <2>1, <2>2, QuietStep
<1>5. ASSUME NoAnswer(p) PROVE Inv'
  <2> DEFINE k == Reference(T(p), Asking(p), S(p).attempts)
  <2>1. /\ proc[p].at \in {"sweep", "pay"} /\ UNCHANGED <<row, books, reversed>>
        /\ Finish(p) /\ Fault
    BY <1>5 DEF NoAnswer, At
  <2>2. k \in RailReference /\ row[k[1]].attempts >= 1
    BY <1>2, <2>1
  <2>3. ProcOK' /\ CopiesWereClaimed' /\ faults' \in 0..MaxFaults
    BY <1>0, <2>1, FinishKeeps, FaultType
  <2>4. \/ UNCHANGED <<rail, late>>
        \/ \E q \in Taken(rail[k]) : rail' = [rail EXCEPT ![k] = q] /\ UNCHANGED late
        \/ late' = late \cup {k} /\ UNCHANGED rail
    BY <1>5 DEF NoAnswer
  <2> HIDE DEF k
  <2>5. /\ rail' \in [RailReference -> Seq(RailStatus)]
        /\ \A j \in RailReference \ {k} : rail'[j] = rail[j]
        /\ late' \subseteq late \cup {k}
    <3>1. CASE \E q \in Taken(rail[k]) : rail' = [rail EXCEPT ![k] = q] /\ UNCHANGED late
      BY <2>2, <3>1, RailTyped
    <3>2. CASE UNCHANGED rail /\ late' \subseteq late \cup {k}
      BY <3>2 DEF Inv, TypeOK
    <3> QED
      BY <2>4, <3>1, <3>2
  <2> QED
    BY <2>1, <2>2, <2>3, <2>5, RailStep
<1>6. ASSUME RecordSweep(p) PROVE Inv'
  <2>1. /\ proc[p].at = "recordSweep"
        /\ row' = IF row[T(p)].state = "submitted"
                  THEN [row EXCEPT ![T(p)].swept = TRUE] ELSE row
        /\ proc' = [proc EXCEPT ![p].at = "pay", ![p].s.swept = TRUE, ![p].ref = 0]
        /\ UNCHANGED <<books, reversed, rail, late, faults>>
    BY <1>6 DEF RecordSweep, At
  <2>2. T(p) \in Tap /\ row \in [Tap -> Row]
    BY <1>0, <2>1, ActingFacts DEF Inv, TypeOK, Acting
  <2>3. [row[T(p)] EXCEPT !.swept = TRUE] \in Row
    BY <2>2 DEF Row
  <2>4. /\ row' \in [Tap -> Row]
        /\ \A t \in Tap : row'[t].attempts = row[t].attempts /\ row'[t].state = row[t].state
    BY <2>1, <2>2, <2>3 DEF Row
  <2> DEFINE PC == [at : Steps, tap : Tap \cup {NoTap}, s : Copy, ref : Nat]
             new == [proc[p] EXCEPT !.at = "pay", !.s.swept = TRUE, !.ref = 0]
  <2>5. proc \in [Process -> PC]
    BY DEF Inv, TypeOK
  <2>6. proc' = [proc EXCEPT ![p] = new]
    BY <1>0, <2>1, <2>5
  <2>7. new \in PC /\ new.tap = proc[p].tap /\ new.s.attempts = proc[p].s.attempts
    <3>1. proc[p] \in PC /\ proc[p].s \in Copy
      BY <1>0, <2>5
    <3>2. [proc[p].s EXCEPT !.swept = TRUE] \in Copy
            /\ [proc[p].s EXCEPT !.swept = TRUE].attempts = proc[p].s.attempts
      BY <3>1 DEF Copy
    <3> QED
      BY <3>1, <3>2 DEF Steps
  <2> HIDE DEF new
  <2>8. ProcOK'
    <3>1. proc' \in [Process -> PC]
      BY <2>5, <2>6, <2>7
    <3>2. ASSUME NEW q \in Process, proc'[q].at # "idle" PROVE proc'[q].tap \in Tap
      <4>1. CASE q = p
        BY <1>0, <2>2, <2>5, <2>6, <2>7, <4>1 DEF T
      <4>2. CASE q # p
        BY <2>5, <2>6, <3>2, <4>2 DEF Inv, TypeOK
      <4> QED
        BY <4>1, <4>2
    <3> QED
      BY <3>1, <3>2 DEF ProcOK
  <2>9. CopiesWereClaimed'
    <3> SUFFICES ASSUME NEW q \in Process, proc'[q].at \in Acting
                 PROVE proc'[q].s.attempts \in 1..row'[proc'[q].tap].attempts
      BY DEF CopiesWereClaimed
    <3>1. /\ proc'[q].s.attempts = proc[q].s.attempts /\ proc'[q].tap = proc[q].tap
          /\ proc[q].at \in Acting
      BY <1>0, <2>1, <2>5, <2>6, <2>7 DEF Acting
    <3>2. proc[q].tap \in Tap
      BY <3>1 DEF Inv, TypeOK, Acting
    <3> QED
      BY <2>4, <3>1, <3>2 DEF Inv, CopiesWereClaimed
  <2> QED
    BY <2>1, <2>4, <2>8, <2>9, RowStep
<1> QED
  BY <1>1, <1>3, <1>4, <1>5, <1>6 DEF Submit

\* apply, settle and fail preserve the invariant.
LEMMA AnswerInv ==
  ASSUME Inv, NEW p \in Process, Answer(p)
  PROVE  Inv'
<1>1. ASSUME NoteReference(p) PROVE Inv'
  <2>1. /\ proc[p].at = "note"
        /\ row' = IF row[T(p)].state = "submitted"
                  THEN [row EXCEPT ![T(p)].railRef = proc[p].ref] ELSE row
        /\ Finish(p)
        /\ UNCHANGED <<books, reversed, rail, late, faults>>
    BY <1>1 DEF NoteReference, At
  <2>2. T(p) \in Tap /\ row \in [Tap -> Row] /\ proc[p].ref \in Nat
    BY <2>1, ActingFacts DEF Inv, TypeOK, Acting
  <2>3. [row[T(p)] EXCEPT !.railRef = proc[p].ref] \in Row
    BY <2>2 DEF Row
  <2>4. /\ row' \in [Tap -> Row]
        /\ \A t \in Tap : row'[t].attempts = row[t].attempts /\ row'[t].state = row[t].state
    BY <2>1, <2>2, <2>3 DEF Row
  <2>5. ProcOK' /\ CopiesWereClaimed'
    BY <2>1, <2>4, FinishKeeps
  <2> QED
    BY <2>1, <2>4, <2>5, RowStep
<1> QED
  BY <1>1, SettleInv, FailInv DEF Answer

\* chase preserves the invariant.
LEMMA ChaseInv ==
  ASSUME Inv, NEW p \in Worker, Chase(p)
  PROVE  Inv'
<1>0. p \in Process /\ faults \in 0..MaxFaults
  BY DEF Process, Inv, TypeOK
<1>1. proc[p].at = "chase" /\ proc[p].at \in Acting /\ UNCHANGED <<row, books, reversed, rail, late>>
  BY DEF Chase, ChaseNotFound, ChaseAnswered, ChaseUnanswered, At, Acting
<1>2. ASSUME ChaseNotFound(p) PROVE Inv'
  <2>1. Goto(p, "fail") /\ UNCHANGED faults
    BY <1>2 DEF ChaseNotFound
  <2>2. ProcOK' /\ CopiesWereClaimed'
    BY <1>0, <1>1, <2>1, GotoKeeps DEF Steps
  <2> QED
    BY <1>0, <1>1, <2>1, <2>2, QuietStep
<1>3. ASSUME ChaseUnanswered(p) PROVE Inv'
  <2>1. Finish(p) /\ Fault
    BY <1>3 DEF ChaseUnanswered
  <2>2. ProcOK' /\ CopiesWereClaimed' /\ faults' \in 0..MaxFaults
    BY <1>0, <1>1, <2>1, FinishKeeps, FaultType
  <2> QED
    BY <1>1, <2>2, QuietStep
<1>4. ASSUME ChaseAnswered(p) PROVE Inv'
  <2> DEFINE st == rail[Asked(p)][Found(p)]
  <2>1. Found(p) > 0 /\ UNCHANGED faults
    BY <1>4 DEF ChaseAnswered
  <2>2. CASE Finish(p)
    <3>1. ProcOK' /\ CopiesWereClaimed'
      BY <1>0, <1>1, <2>2, FinishKeeps
    <3> QED
      BY <1>0, <1>1, <2>1, <3>1, QuietStep
  <2>3. CASE proc' = [proc EXCEPT ![p].at = AfterAnswer(ChaseHop(p), st), ![p].ref = Found(p)]
    <3>1. AfterAnswer(ChaseHop(p), st) \in Steps
      BY AfterAnswerType
    <3>2. Found(p) \in Nat
      <4>1. S(p) \in Copy /\ T(p) \in Tap
        BY <1>0, <1>1, ActingFacts
      <4>2. ChaseHop(p) \in Hop /\ S(p).attempts \in Nat /\ S(p).railRef \in Nat
        BY <4>1 DEF ChaseHop, Hop, Copy
      <4>3. Asked(p) \in RailReference
        BY <4>1, <4>2, ReferenceType DEF Asked
      <4>4. Len(rail[Asked(p)]) \in Nat
        BY <4>3 DEF Inv, TypeOK
      <4> QED
        BY <4>2, <4>4 DEF Found
    <3>3. ProcOK' /\ CopiesWereClaimed'
      BY <1>0, <1>1, <2>3, <3>1, <3>2, AnsweredKeeps
    <3> QED
      BY <1>0, <1>1, <2>1, <3>3, QuietStep
  <2> QED
    BY <1>4, <2>2, <2>3 DEF ChaseAnswered
<1> QED
  BY <1>2, <1>3, <1>4 DEF Chase

\* Everything a worker's tick does preserves the invariant.
LEMMA WorkInv ==
  ASSUME Inv, NEW p \in Worker, Work(p)
  PROVE  Inv'
<1>1. ASSUME NEW t \in Tap, PickStale(p, t) PROVE Inv'
  <2>1. /\ p \in Process /\ faults \in 0..MaxFaults /\ row[t].attempts >= 1
        /\ Take(p, t, "chase", 0) /\ UNCHANGED <<row, books, reversed, rail, late, faults>>
    BY <1>1 DEF PickStale, Process, Inv, TypeOK, ClaimedFirst, Standing
  <2>2. ProcOK' /\ CopiesWereClaimed'
    BY <2>1, TakeKeeps DEF Steps
  <2> QED
    BY <2>1, <2>2, QuietStep
<1>2. p \in Process
  BY DEF Process
<1> QED
  BY <1>1, <1>2, PayQueuedInv, SubmitInv, AnswerInv, ChaseInv DEF Work

\* An event names a transfer, so the row it names has been claimed.
LEMMA WebhookInv ==
  ASSUME Inv, NEW h \in Hook, NEW t \in Tap, Webhook(h, t)
  PROVE  Inv'
<1> DEFINE k == Reference(t, "bank", row[t].attempts)
<1>1. PICK g \in 1..Len(rail[k]) : Take(h, t, AfterAnswer("bank", rail[k][g]), g)
  BY DEF Webhook
<1>2. h \in Process /\ faults' \in 0..MaxFaults /\ UNCHANGED <<row, books, reversed, rail, late>>
  BY DEF Webhook, Process, Inv, TypeOK
<1>3. k \in RailReference /\ k[1] = t
  BY ReferenceType DEF Inv, TypeOK, Row, Hop
<1> HIDE DEF k
<1>4. rail[k] \in Seq(RailStatus)
  BY <1>3 DEF Inv, TypeOK
<1>5. rail[k] # << >> /\ g \in Nat
  BY <1>4
<1>6. row[t].attempts >= 1
  BY <1>3, <1>5 DEF Inv, ClaimedFirst
<1>7. ProcOK' /\ CopiesWereClaimed'
  BY <1>1, <1>2, <1>5, <1>6, AfterAnswerType, TakeKeeps
<1> QED
  BY <1>2, <1>7, QuietStep

\* A process that dies preserves the invariant.
LEMMA CrashInv ==
  ASSUME Inv, NEW p \in Process, Crash(p)
  PROVE  Inv'
<1>1. Finish(p) /\ Fault /\ UNCHANGED <<row, books, reversed, rail, late>>
  BY DEF Crash
<1>2. ProcOK' /\ CopiesWereClaimed' /\ faults' \in 0..MaxFaults
  BY <1>1, FinishKeeps, FaultType
<1> QED
  BY <1>1, <1>2, QuietStep

\* A step that moves no process and no row's attempt keeps what the processes know.
LEMMA ProcessesKept ==
  ASSUME Inv, UNCHANGED proc, \A t \in Tap : row'[t].attempts = row[t].attempts
  PROVE  ProcOK' /\ CopiesWereClaimed'
<1>1. \A p \in Process : proc[p].at \in Acting => proc[p].tap \in Tap
  BY DEF Inv, TypeOK, Acting
<1> QED
  BY <1>1 DEF Inv, TypeOK, ProcOK, CopiesWereClaimed

\* An operator's Retry preserves the invariant.
LEMMA RetryInv ==
  ASSUME Inv, NEW t \in Tap, Retry(t)
  PROVE  Inv'
<1>1. /\ row[t].state = "failed" /\ row' = [row EXCEPT ![t].state = "queued"]
      /\ UNCHANGED <<books, reversed, rail, late, proc, faults>>
  BY DEF Retry
<1>2. row \in [Tap -> Row]
  BY DEF Inv, TypeOK
<1>3. [row[t] EXCEPT !.state = "queued"] \in Row
  BY <1>2 DEF Row
<1>4. /\ row' \in [Tap -> Row]
      /\ \A u \in Tap : /\ row'[u].attempts = row[u].attempts
                        /\ row'[u].state \in {"submitted", "settled"}
                             <=> row[u].state \in {"submitted", "settled"}
                        /\ row'[u].state = "settled" <=> row[u].state = "settled"
  BY <1>1, <1>2, <1>3 DEF Row
<1>5. ProcOK' /\ CopiesWereClaimed'
  BY <1>1, <1>4, ProcessesKept
<1> QED
  BY <1>1, <1>4, <1>5, RowStep

\* A reversal of the tap preserves the invariant.
LEMMA ReverseInv ==
  ASSUME Inv, NEW t \in Tap, ReverseTap(t)
  PROVE  Inv'
<1>1. /\ reversed' = reversed \cup {t} /\ payable' = payable - Amount[t]
      /\ UNCHANGED <<row, discharged, returned, fees, rail, late, proc, faults>>
  BY DEF ReverseTap
<1>2. ProcOK' /\ CopiesWereClaimed'
  BY <1>1, ProcessesKept
<1>3. payable' \in Int
  BY <1>1, AmountType DEF Inv, TypeOK
<1>4. TypeOK'
  BY <1>1, <1>2, <1>3 DEF Inv, TypeOK, ProcOK
<1>5. BooksFollowTheRow' /\ FeesBookedOnce' /\ ClaimedFirst'
  BY <1>1 DEF Inv, BooksFollowTheRow, FeesBookedOnce, ClaimedFirst, Standing
<1> QED
  BY <1>2, <1>4, <1>5 DEF Inv

\* The rail's own steps preserve the invariant.
LEMMA RailInv ==
  ASSUME Inv, NEW k \in RailReference, RailDecides(k) \/ ArriveLate(k)
  PROVE  Inv'
<1>0. rail \in [RailReference -> Seq(RailStatus)] /\ faults \in 0..MaxFaults
        /\ \A t \in Tap : row[t].attempts = row[t].attempts
  BY DEF Inv, TypeOK
<1>1. UNCHANGED <<row, books, reversed, proc, faults>>
  BY DEF RailDecides, ArriveLate
<1>2. ProcOK' /\ CopiesWereClaimed'
  BY <1>1, ProcessesKept
<1>3. row[k[1]].attempts >= 1
  BY DEF RailDecides, ArriveLate, Inv, ClaimedFirst
<1>4. /\ rail' \in [RailReference -> Seq(RailStatus)]
      /\ \A j \in RailReference \ {k} : rail'[j] = rail[j]
      /\ late' \subseteq late \cup {k}
  <2>1. CASE RailDecides(k)
    <3>1. PICK st \in {"success", "failed"} : rail' = [rail EXCEPT ![k][Len(rail[k])] = st]
      BY <2>1 DEF RailDecides
    <3>2. rail[k] # << >> /\ late' = late
      BY <2>1 DEF RailDecides
    <3>3. [rail[k] EXCEPT ![Len(rail[k])] = st] \in Seq(RailStatus)
      BY <1>0, <3>2 DEF RailStatus
    <3> QED
      BY <1>0, <3>1, <3>2, <3>3
  <2>2. CASE ArriveLate(k)
    <3>1. PICK q \in Taken(rail[k]) : rail' = [rail EXCEPT ![k] = q]
      BY <2>2 DEF ArriveLate
    <3> QED
      BY <2>2, <3>1, RailTyped DEF ArriveLate
  <2> QED
    BY <2>1, <2>2
<1> QED
  BY <1>0, <1>1, <1>2, <1>3, <1>4, RailStep

\* A step that changes nothing preserves the invariant.
LEMMA StutterInv == Inv /\ UNCHANGED vars => Inv'
<1> SUFFICES ASSUME Inv, UNCHANGED vars PROVE Inv'
  OBVIOUS
<1>1. UNCHANGED <<row, books, reversed, rail, late, proc, faults>>
  BY DEF vars
<1>2. ProcOK' /\ CopiesWereClaimed'
  BY <1>1, ProcessesKept
<1> QED
  BY <1>1, <1>2, QuietStep DEF Inv, TypeOK

\* The invariant survives every step of every process.
LEMMA NextInv == Inv /\ [Next]_vars => Inv'
<1> SUFFICES ASSUME Inv, [Next]_vars PROVE Inv'
  OBVIOUS
<1>1. ASSUME NEW p \in Worker, Work(p) PROVE Inv'
  BY <1>1, WorkInv
<1>2. ASSUME NEW h \in Hook, Answer(h) PROVE Inv'
  BY <1>2, AnswerInv DEF Process
<1>3. ASSUME NEW h \in Hook, NEW t \in Tap, Webhook(h, t) PROVE Inv'
  BY <1>3, WebhookInv
<1>4. ASSUME NEW p \in Process, Crash(p) PROVE Inv'
  BY <1>4, CrashInv
<1>5. ASSUME NEW t \in Tap, Retry(t) \/ ReverseTap(t) PROVE Inv'
  BY <1>5, RetryInv, ReverseInv
<1>6. ASSUME NEW k \in RailReference, RailDecides(k) \/ ArriveLate(k) PROVE Inv'
  BY <1>6, RailInv
<1>7. CASE UNCHANGED vars
  BY <1>7, StutterInv
<1> QED
  BY <1>1, <1>2, <1>3, <1>4, <1>5, <1>6, <1>7 DEF Next, Rail

-----------------------------------------------------------------------------
\* Whatever is lost, late, redelivered, retried or crashed, the strengthened
\* invariant of the leg holds.
THEOREM Invariance == Spec => []Inv
<1> QED
  BY InitInv, NextInv, PTL DEF Spec

\* Rows, movements, transfers and copies keep their types.
THEOREM TypeCorrect == Spec => []TypeOK
<1>1. Inv => TypeOK
  BY DEF Inv
<1> QED
  BY <1>1, Invariance, PTL

\* The ledger's movements for a leg (claim's discharge, fail's return) are at
\* all times those its row's state and attempts call for, one per attempt.
THEOREM BooksFollow == Spec => []BooksFollowTheRow
<1>1. Inv => BooksFollowTheRow
  BY DEF Inv
<1> QED
  BY <1>1, Invariance, PTL

\* settle books the rail's fees once for a leg, and only for a leg it settles.
THEOREM FeesOnce == Spec => []FeesBookedOnce
<1>1. Inv => FeesBookedOnce
  BY DEF Inv
<1> QED
  BY <1>1, Invariance, PTL

\* settle, fail and the claim all test the row's state again: a settled leg
\* never changes.
THEOREM SettledStays == Spec => SettledIsFinal
<1>1. Inv /\ [Next]_vars => [\A t \in Tap : row[t].state = "settled" => row'[t] = row[t]]_vars
  <2> SUFFICES ASSUME Inv, Next, NEW t \in Tap, row[t].state = "settled"
               PROVE row'[t] = row[t]
    OBVIOUS
  <2>1. row \in [Tap -> Row]
    BY DEF Inv, TypeOK
  <2>2. CASE row' = row
    BY <2>2
  <2>3. ASSUME NEW p \in Process, row' # row,
               FailQueued(p) \/ Claim(p) \/ RecordSweep(p) \/ Answer(p)
        PROVE  row'[t] = row[t]
    <3>1. row[T(p)].state # "settled"
      BY <2>3 DEF FailQueued, Claim, RecordSweep, Answer, NoteReference, Settle, Fail
    <3>2. \A u \in Tap \ {T(p)} : row'[u] = row[u]
      BY <2>1, <2>3 DEF FailQueued, Claim, RecordSweep, Answer, NoteReference, Settle, Fail
    <3> QED
      BY <3>1, <3>2
  <2>4. ASSUME NEW u \in Tap, Retry(u) PROVE row'[t] = row[t]
    BY <2>1, <2>4 DEF Retry
  <2>5. \/ row' = row
        \/ \E p \in Process : FailQueued(p) \/ Claim(p) \/ RecordSweep(p) \/ Answer(p)
        \/ \E u \in Tap : Retry(u)
    BY DEF Next, Work, PayQueued, PickQueued, Unresolved, NotClaimed, Submit, Enquire,
           AskRail, RailRefuses, NoAnswer, Chase, ChaseNotFound, ChaseAnswered,
           ChaseUnanswered, PickStale, Webhook, Crash, ReverseTap, Rail, RailDecides,
           ArriveLate, Process
  <2> QED
    BY <2>2, <2>3, <2>4, <2>5
<1> QED
  BY <1>1, Invariance, PTL DEF Spec, SettledIsFinal

-----------------------------------------------------------------------------
(* The leg implements Claims.                                              *)

\* A step that changes no leg's standing, and neither account nor reversals.
LEMMA ClaimsStutter ==
  ASSUME UNCHANGED <<payable, reversed>>,
         \A t \in Tap : ClaimOf(row'[t].state) = ClaimOf(row[t].state)
  PROVE  UNCHANGED Promise!vars
<1>1. Claims' = Claims
  BY DEF Claims
<1> QED
  BY <1>1 DEF Promise!vars

\* One leg's standing changes and no other's does: the mapped claims change
\* in the one place.
LEMMA ClaimsMove ==
  ASSUME NEW t \in Tap, NEW new, ClaimOf(row'[t].state) = new,
         \A u \in Tap \ {t} : row'[u] = row[u]
  PROVE  Claims' = [Claims EXCEPT ![t]["naira"] = new]
BY DEF Claims

\* claim covers a leg that was owed, from an account that holds it.
LEMMA ClaimCovers ==
  ASSUME Inv, NEW p \in Process, Claim(p)
  PROVE  Promise!Next
<1> DEFINE t == T(p)
<1>1. row \in [Tap -> Row] /\ t \in Tap
  <2>1. proc[p].at # "idle"
    BY DEF Claim, At
  <2> QED
    BY <2>1 DEF Inv, TypeOK, T
<1>2. Claims[t]["naira"] = "owed" /\ Shares[t]["naira"] = Amount[t]
  BY <1>1 DEF Claim, Claims, ClaimOf, Shares
<1>3. Claims' = [Claims EXCEPT ![t]["naira"] = "covered"]
  <2>1. ClaimOf(row'[t].state) = "covered" /\ \A u \in Tap \ {t} : row'[u] = row[u]
    BY <1>1 DEF Claim, ClaimOf
  <2> QED
    BY <1>1, <2>1, ClaimsMove
<1>4. Promise!Cover(t, "naira")
  BY <1>2, <1>3 DEF Claim, Promise!Cover
<1> QED
  BY <1>1, <1>4 DEF Promise!Next, Promise!Leg

\* settle pays a covered leg, or finds nothing to do.
LEMMA SettlePays ==
  ASSUME Inv, NEW p \in Process, Settle(p)
  PROVE  Promise!Next \/ UNCHANGED Promise!vars
<1> DEFINE t == T(p)
<1>1. row \in [Tap -> Row] /\ t \in Tap
  <2>1. proc[p].at # "idle"
    BY DEF Settle, At
  <2> QED
    BY <2>1 DEF Inv, TypeOK, T
<1>2. CASE row[t].state # "submitted"
  BY <1>2, ClaimsStutter DEF Settle
<1>3. CASE row[t].state = "submitted"
  <2>1. Claims[t]["naira"] = "covered"
    BY <1>1, <1>3 DEF Claims, ClaimOf
  <2>2. ClaimOf(row'[t].state) = "paid" /\ \A u \in Tap \ {t} : row'[u] = row[u]
    <3>1. row'[t].state = "settled"
      BY <1>1, <1>3 DEF Settle, Row
    <3>2. \A u \in Tap \ {t} : row'[u] = row[u]
      BY <1>1, <1>3 DEF Settle
    <3> QED
      BY <3>1, <3>2 DEF ClaimOf
  <2>3. Claims' = [Claims EXCEPT ![t]["naira"] = "paid"]
    BY <1>1, <2>2, ClaimsMove
  <2>4. Promise!Pay(t, "naira")
    BY <2>1, <2>3 DEF Settle, Promise!Pay
  <2> QED
    BY <1>1, <2>4 DEF Promise!Next, Promise!Leg
<1> QED
  BY <1>2, <1>3

\* fail restores a covered leg in full, or finds nothing to do.
LEMMA FailRestores ==
  ASSUME Inv, NEW p \in Process, Fail(p)
  PROVE  Promise!Next \/ UNCHANGED Promise!vars
<1> DEFINE t == T(p)
<1>1. row \in [Tap -> Row] /\ t \in Tap
  <2>1. proc[p].at # "idle"
    BY DEF Fail, At
  <2> QED
    BY <2>1 DEF Inv, TypeOK, T
<1>2. CASE ~(row[t].state = "submitted" /\ S(p).attempts \notin returned[t])
  BY <1>2, ClaimsStutter DEF Fail
<1>3. CASE row[t].state = "submitted" /\ S(p).attempts \notin returned[t]
  <2>1. Claims[t]["naira"] = "covered" /\ Shares[t]["naira"] = Amount[t]
    BY <1>1, <1>3 DEF Claims, ClaimOf, Shares
  <2>2. ClaimOf(row'[t].state) = "owed" /\ \A u \in Tap \ {t} : row'[u] = row[u]
    <3>1. row'[t].state = "failed"
      BY <1>1, <1>3 DEF Fail, Row
    <3>2. \A u \in Tap \ {t} : row'[u] = row[u]
      BY <1>1, <1>3 DEF Fail
    <3> QED
      BY <3>1, <3>2 DEF ClaimOf
  <2>3. Claims' = [Claims EXCEPT ![t]["naira"] = "owed"]
    BY <1>1, <2>2, ClaimsMove
  <2>4. Promise!Restore(t, "naira")
    BY <1>3, <2>1, <2>3 DEF Fail, Promise!Restore
  <2> QED
    BY <1>1, <2>4 DEF Promise!Next, Promise!Leg
<1> QED
  BY <1>2, <1>3

\* A reversal withdraws the tap.
LEMMA ReverseWithdraws ==
  ASSUME Inv, NEW t \in Tap, ReverseTap(t)
  PROVE  Promise!Next
<1>1. row \in [Tap -> Row]
  BY DEF Inv, TypeOK
<1>2. Claims[t]["naira"] # "none"
  BY <1>1 DEF Claims, ClaimOf, Row
<1>3. Claims[t] # Promise!Unclaimed
  BY <1>2 DEF Promise!Unclaimed, Promise!Leg
<1>4. Promise!Net(t) = Amount[t]
  BY AmountType DEF Promise!Net, Shares
<1>5. Claims' = Claims
  BY DEF Claims, ReverseTap
<1>6. Promise!Withdraw(t)
  BY <1>3, <1>4, <1>5 DEF ReverseTap, Promise!Withdraw
<1> QED
  BY <1>6 DEF Promise!Next

\* Every other write to a row leaves its leg as covered or as owed as it was.
LEMMA OtherwiseStutters ==
  ASSUME Inv, [Next]_vars,
         ~ \E p \in Process : Claim(p) \/ Settle(p) \/ Fail(p),
         ~ \E t \in Tap : ReverseTap(t)
  PROVE  UNCHANGED Promise!vars
<1>1. row \in [Tap -> Row]
  BY DEF Inv, TypeOK
<1>2. CASE UNCHANGED <<row, payable, reversed>>
  BY <1>2, ClaimsStutter
<1>3. ASSUME NEW p \in Process, FailQueued(p) \/ RecordSweep(p) \/ NoteReference(p)
      PROVE  UNCHANGED Promise!vars
  <2>1. UNCHANGED <<payable, reversed>>
    BY <1>3 DEF FailQueued, RecordSweep, NoteReference, books
  <2>2. \A t \in Tap : \/ row'[t].state = row[t].state
                       \/ row[t].state = "queued" /\ row'[t].state = "failed"
    <3>1. T(p) \in Tap
      <4>1. proc[p].at # "idle"
        BY <1>3 DEF FailQueued, RecordSweep, NoteReference, At
      <4> QED
        BY <4>1 DEF Inv, TypeOK, T
    <3>2. CASE FailQueued(p)
      BY <1>1, <3>1, <3>2 DEF FailQueued, Row
    <3>3. CASE RecordSweep(p)
      BY <1>1, <3>1, <3>3 DEF RecordSweep, Row
    <3>4. CASE NoteReference(p)
      BY <1>1, <3>1, <3>4 DEF NoteReference, Row
    <3> QED
      BY <1>3, <3>2, <3>3, <3>4
  <2>3. \A t \in Tap : ClaimOf(row'[t].state) = ClaimOf(row[t].state)
    BY <2>2 DEF ClaimOf
  <2> QED
    BY <2>1, <2>3, ClaimsStutter
<1>4. ASSUME NEW u \in Tap, Retry(u) PROVE UNCHANGED Promise!vars
  <2>1. UNCHANGED <<payable, reversed>>
    BY <1>4 DEF Retry, books
  <2>2. \A t \in Tap : \/ row'[t].state = row[t].state
                       \/ row[t].state = "failed" /\ row'[t].state = "queued"
    BY <1>1, <1>4 DEF Retry
  <2>3. \A t \in Tap : ClaimOf(row'[t].state) = ClaimOf(row[t].state)
    BY <2>2 DEF ClaimOf
  <2> QED
    BY <2>1, <2>3, ClaimsStutter
<1>5. \/ UNCHANGED <<row, payable, reversed>>
      \/ \E p \in Process : FailQueued(p) \/ RecordSweep(p) \/ NoteReference(p)
      \/ \E u \in Tap : Retry(u)
  BY DEF Next, Work, PayQueued, PickQueued, Unresolved, NotClaimed, Submit, Enquire,
         AskRail, RailRefuses, NoAnswer, Chase, ChaseNotFound, ChaseAnswered,
         ChaseUnanswered, PickStale, Webhook, Crash, Rail, RailDecides, Answer,
         ArriveLate, Process, books, vars
<1> QED
  BY <1>2, <1>3, <1>4, <1>5

\* For any number of taps, workers, webhooks, retries, reversals and faults, a
\* naira leg does what Claims promises of a leg: covered only out of what the
\* merchant is owed, paid only while covered, restored in full otherwise.
THEOREM Implements == Spec => ImplementsClaims
<1>1. Init => Promise!Init
  <2> SUFFICES ASSUME Init PROVE Promise!Init
    OBVIOUS
  <2>1. \A t \in Tap : Claims[t] = Promise!Recorded(t)
    <3> SUFFICES ASSUME NEW t \in Tap PROVE Claims[t] = Promise!Recorded(t)
      OBVIOUS
    <3>1. row[t].state = "queued"
      BY DEF Init, Fresh
    <3>2. Amount[t] > 0
      BY NairaAssumption
    <3> QED
      BY <3>1, <3>2 DEF Claims, ClaimOf, Shares, Promise!Recorded, Promise!Leg
  <2> QED
    BY <2>1, NairaAssumption DEF Init, Promise!Init
<1>2. Inv /\ [Next]_vars => [Promise!Next]_(Promise!vars)
  BY ClaimCovers, SettlePays, FailRestores, ReverseWithdraws, OtherwiseStutters
<1> QED
  BY <1>1, <1>2, Invariance, PTL DEF Spec, ImplementsClaims, Promise!Spec

-----------------------------------------------------------------------------
(* What the rail has done for a leg: a row reads settled only when the     *)
(* merchant's bank was credited, the bank is credited at most once, and no *)
(* bank is paid from the platform's wallet for a leg whose sweep the rail  *)
(* never took.                                                             *)
(*                                                                         *)
(* The argument is that the transfers under a reference only ever grow, as *)
(* Grow says: what a process or a row learnt from the rail stays true      *)
(* however old the copy it acts on. And since Reference is the same on     *)
(* every attempt, all the attempts of a leg share one list of transfers,   *)
(* of which only the last can be other than failed.                        *)

SweepOf(t) == <<t, "sweep", 0>>
BankOf(t) == <<t, "bank", 0>>

Rails == [RailReference -> Seq(RailStatus)]

\* Nothing is forgotten, and a success stays one.
Grow(rl, r2) ==
  \A k \in RailReference :
    /\ Len(rl[k]) =< Len(r2[k])
    /\ \A g \in 1..Len(rl[k]) : rl[k][g] = "success" => r2[k][g] = "success"

\* Every attempt has the one reference, under which all transfers but the last
\* have failed; a bank is asked for only after the sweep was taken.
RailOK(rl, lt) ==
  /\ \A k \in RailReference : rl[k] # << >> \/ k \in lt => k[3] = 0
  /\ \A k \in RailReference : \A g \in 1..(Len(rl[k]) - 1) : rl[k][g] = "failed"
  /\ \A t \in Tap : Len(rl[BankOf(t)]) > 0 \/ BankOf(t) \in lt => Len(rl[SweepOf(t)]) > 0

\* What tap t's row says of the rail is so.
RowOK(t, r, rl) ==
  /\ r.swept => Len(rl[SweepOf(t)]) > 0
  /\ r.railRef =< Len(rl[BankOf(t)])
  /\ r.state = "settled" => \E g \in 1..Len(rl[BankOf(t)]) : rl[BankOf(t)][g] = "success"

\* What a process believes of the rail is so, whatever it is about to do.
CopyOK(c, rl) ==
  c.at # "idle" =>
    /\ c.s.swept \/ c.at \in {"recordSweep", "pay"} => Len(rl[SweepOf(c.tap)]) > 0
    /\ c.s.railRef =< Len(rl[BankOf(c.tap)])
    /\ c.at \in {"note", "settle"} => c.ref \in 1..Len(rl[BankOf(c.tap)])
    /\ c.at = "settle" => rl[BankOf(c.tap)][c.ref] = "success"

Believed(rw, pr, rl) ==
  /\ \A t \in Tap : RowOK(t, rw[t], rl)
  /\ \A p \in Process : CopyOK(pr[p], rl)

Faithful == RailOK(rail, late) /\ Believed(row, proc, rail)

-----------------------------------------------------------------------------
(* The rail only grows.                                                    *)

\* The references of a tap are ones the rail knows, and no two are the same.
LEMMA TheTwo ==
  ASSUME NEW t \in Tap
  PROVE  /\ BankOf(t) \in RailReference /\ SweepOf(t) \in RailReference
         /\ BankOf(t) # SweepOf(t)
         /\ \A n \in Nat : Reference(t, "bank", n) = BankOf(t)
         /\ \A n \in Nat : Reference(t, "sweep", n) = SweepOf(t)
<1>1. 0 \in 0..MaxAttempts
  BY NairaAssumption
<1> QED
  BY <1>1 DEF BankOf, SweepOf, RailReference, Hop, Reference

\* A reference with the one attempt is one of its tap's two.
LEMMA OneOfTwo ==
  ASSUME NEW k \in RailReference, k[3] = 0
  PROVE  /\ k[1] \in Tap /\ k[2] \in Hop
         /\ k[2] = "bank" => k = BankOf(k[1])
         /\ k[2] = "sweep" => k = SweepOf(k[1])
BY DEF RailReference, Hop, BankOf, SweepOf

\* A rail that does not move has grown.
LEMMA StillGrows == ASSUME NEW rl \in Rails PROVE Grow(rl, rl)
BY DEF Rails, Grow

\* What the rail has once it took a request: its transfer, the earlier failed.
LEMMA TakenOf ==
  ASSUME NEW q \in Seq(RailStatus), \A g \in 1..(Len(q) - 1) : q[g] = "failed",
         NEW r \in Taken(q)
  PROVE  /\ r \in Seq(RailStatus) /\ Len(r) > 0 /\ Len(q) =< Len(r)
         /\ \A g \in 1..Len(q) : r[g] = q[g]
         /\ \A g \in 1..(Len(r) - 1) : r[g] = "failed"
<1>1. CASE Live(q)
  <2>1. r = q /\ q # << >>
    BY <1>1 DEF Taken, Live
  <2> QED
    BY <2>1
<1>2. CASE ~Live(q)
  <2>1. PICK st \in RailStatus : r = Append(q, st)
    BY <1>2 DEF Taken
  <2>2. Len(r) = Len(q) + 1 /\ r \in Seq(RailStatus) /\ \A g \in 1..Len(q) : r[g] = q[g]
    BY <2>1
  <2>3. \A g \in 1..Len(q) : q[g] = "failed"
    BY <1>2 DEF Live, Last
  <2> QED
    BY <2>2, <2>3
<1> QED
  BY <1>1, <1>2

\* Growing keeps what is believed of the rail.
LEMMA BeliefGrows ==
  ASSUME NEW rl \in Rails, NEW r2 \in Rails, Grow(rl, r2)
  PROVE  /\ \A t \in Tap, r \in Row : RowOK(t, r, rl) => RowOK(t, r, r2)
         /\ \A c : (c.at # "idle" => c.tap \in Tap /\ c.ref \in Nat /\ c.s \in Copy)
              => (CopyOK(c, rl) => CopyOK(c, r2))
<1>1. ASSUME NEW t \in Tap
      PROVE  /\ Len(rl[BankOf(t)]) \in Nat /\ Len(r2[BankOf(t)]) \in Nat
             /\ Len(rl[SweepOf(t)]) \in Nat /\ Len(r2[SweepOf(t)]) \in Nat
             /\ Len(rl[BankOf(t)]) =< Len(r2[BankOf(t)])
             /\ Len(rl[SweepOf(t)]) =< Len(r2[SweepOf(t)])
             /\ \A g \in 1..Len(rl[BankOf(t)]) :
                  rl[BankOf(t)][g] = "success" => r2[BankOf(t)][g] = "success"
  <2>1. BankOf(t) \in RailReference /\ SweepOf(t) \in RailReference
    BY TheTwo
  <2>2. /\ rl[BankOf(t)] \in Seq(RailStatus) /\ rl[SweepOf(t)] \in Seq(RailStatus)
        /\ r2[BankOf(t)] \in Seq(RailStatus) /\ r2[SweepOf(t)] \in Seq(RailStatus)
    BY <2>1 DEF Rails
  <2> QED
    BY <2>1, <2>2 DEF Grow
<1>2. ASSUME NEW t \in Tap, NEW r \in Row, RowOK(t, r, rl) PROVE RowOK(t, r, r2)
  <2>1. r.railRef \in Nat
    BY DEF Row
  <2> QED
    BY <1>1, <1>2, <2>1 DEF RowOK
<1>3. ASSUME NEW c, c.at # "idle" => c.tap \in Tap /\ c.ref \in Nat /\ c.s \in Copy,
             CopyOK(c, rl)
      PROVE  CopyOK(c, r2)
  <2> SUFFICES ASSUME c.at # "idle" PROVE CopyOK(c, r2)
    BY DEF CopyOK
  <2>1. c.tap \in Tap /\ c.ref \in Nat /\ c.s.railRef \in Nat
    BY <1>3 DEF Copy
  <2>2. /\ c.s.swept \/ c.at \in {"recordSweep", "pay"} => Len(rl[SweepOf(c.tap)]) > 0
        /\ c.s.railRef =< Len(rl[BankOf(c.tap)])
        /\ c.at \in {"note", "settle"} => c.ref \in 1..Len(rl[BankOf(c.tap)])
        /\ c.at = "settle" => rl[BankOf(c.tap)][c.ref] = "success"
    BY <1>3 DEF CopyOK
  <2> QED
    BY <1>1, <2>1, <2>2 DEF CopyOK
<1> QED
  BY <1>2, <1>3

\* The rail takes a request under one of its references, or decides one.
LEMMA RailMoves ==
  ASSUME NEW rl \in Rails, NEW lt, RailOK(rl, lt), NEW k \in RailReference, k[3] = 0,
         NEW q \in Seq(RailStatus), Len(rl[k]) =< Len(q), Len(q) > 0,
         \A g \in 1..Len(rl[k]) : rl[k][g] = "success" => q[g] = "success",
         \A g \in 1..(Len(q) - 1) : q[g] = "failed",
         k[2] = "bank" => Len(rl[SweepOf(k[1])]) > 0,
         NEW r2, r2 = [rl EXCEPT ![k] = q]
  PROVE  r2 \in Rails /\ Grow(rl, r2) /\ RailOK(r2, lt)
<1>1. r2 \in Rails /\ r2[k] = q /\ \A j \in RailReference \ {k} : r2[j] = rl[j]
  BY DEF Rails
<1>2. \A j \in RailReference : rl[j] \in Seq(RailStatus) /\ Len(rl[j]) \in Nat
  BY DEF Rails
<1>3. Grow(rl, r2)
  BY <1>1, <1>2 DEF Grow
<1>4. \A j \in RailReference : r2[j] # << >> \/ j \in lt => j[3] = 0
  BY <1>1 DEF RailOK
<1>5. \A j \in RailReference : \A g \in 1..(Len(r2[j]) - 1) : r2[j][g] = "failed"
  BY <1>1 DEF RailOK
<1>6. ASSUME NEW t \in Tap, Len(r2[BankOf(t)]) > 0 \/ BankOf(t) \in lt
      PROVE  Len(r2[SweepOf(t)]) > 0
  <2>1. BankOf(t) \in RailReference /\ SweepOf(t) \in RailReference
    BY TheTwo
  <2>2. CASE k = BankOf(t)
    <3>1. k[1] = t /\ k[2] = "bank"
      BY <2>2 DEF BankOf
    <3> QED
      BY <1>2, <1>3, <2>1, <3>1, <1>1 DEF Grow
  <2>3. CASE k # BankOf(t)
    <3>1. Len(rl[SweepOf(t)]) > 0
      BY <1>1, <1>6, <2>1, <2>3 DEF RailOK
    <3> QED
      BY <1>2, <1>3, <1>1, <2>1, <3>1 DEF Grow
  <2> QED
    BY <2>2, <2>3
<1> QED
  BY <1>1, <1>3, <1>4, <1>5, <1>6 DEF RailOK

-----------------------------------------------------------------------------
(* The steps.                                                              *)

\* What types and beliefs give of the process that takes a step.
LEMMA AtHand ==
  ASSUME Inv, Faithful, NEW p \in Process, ~At(p, "idle")
  PROVE  /\ T(p) \in Tap /\ S(p) \in Copy /\ proc[p].ref \in Nat
         /\ S(p).attempts \in Nat /\ S(p).railRef \in Nat
         /\ CopyOK(proc[p], rail)
         /\ RowOK(T(p), row[T(p)], rail) /\ row[T(p)] \in Row
BY DEF Inv, TypeOK, Copy, Faithful, Believed, At, T, S

\* A step that moves the rail only onward, gives at most one process and one
\* row something new, and that something true.
LEMMA Kept ==
  ASSUME Inv, Faithful, rail' \in Rails, Grow(rail, rail'), RailOK(rail', late'),
         \A p \in Process : proc'[p] = proc[p] \/ CopyOK(proc'[p], rail'),
         \A t \in Tap : row'[t] = row[t] \/ RowOK(t, row'[t], rail')
  PROVE  Faithful'
<1>1. rail \in Rails /\ row \in [Tap -> Row]
  BY DEF Inv, TypeOK, Rails
<1>2. \A t \in Tap : RowOK(t, row'[t], rail')
  BY <1>1, BeliefGrows DEF Faithful, Believed
<1>3. ASSUME NEW p \in Process PROVE CopyOK(proc'[p], rail')
  <2>1. proc[p].at # "idle" => proc[p].tap \in Tap /\ proc[p].ref \in Nat /\ proc[p].s \in Copy
    BY DEF Inv, TypeOK
  <2>2. CopyOK(proc[p], rail)
    BY DEF Faithful, Believed
  <2>3. CopyOK(proc[p], rail')
    BY <1>1, <2>1, <2>2, BeliefGrows
  <2> QED
    BY <2>3
<1>4. Believed(row', proc', rail')
  BY <1>2, <1>3 DEF Believed
<1> QED
  BY <1>4 DEF Faithful

\* The same when the rail does not move and nothing new is under way to it.
LEMMA Quiet ==
  ASSUME Inv, Faithful, UNCHANGED <<rail, late>>,
         \A p \in Process : proc'[p] = proc[p] \/ CopyOK(proc'[p], rail),
         \A t \in Tap : row'[t] = row[t] \/ RowOK(t, row'[t], rail)
  PROVE  Faithful'
<1>1. rail \in Rails /\ rail' = rail /\ late' = late /\ RailOK(rail, late)
  BY DEF Inv, TypeOK, Rails, Faithful
<1>2. Grow(rail, rail)
  BY <1>1, StillGrows
<1> QED
  BY <1>1, <1>2, Kept

\* A step of one process: nobody else's copy changes.
LEMMA OneProcess ==
  ASSUME Inv, NEW p \in Process, NEW c, proc' = [proc EXCEPT ![p] = c], NEW rl,
         CopyOK(c, rl)
  PROVE  \A q \in Process : proc'[q] = proc[q] \/ CopyOK(proc'[q], rl)
BY DEF Inv, TypeOK

\* A process that is done believes nothing.
LEMMA Done ==
  ASSUME Inv, NEW p \in Process, Finish(p), NEW rl
  PROVE  \A q \in Process : proc'[q] = proc[q] \/ CopyOK(proc'[q], rl)
<1>1. CopyOK(Idle, rl)
  BY DEF CopyOK, Idle
<1> QED
  BY <1>1, OneProcess DEF Finish

\* A process that goes on to a step that relies on nothing new.
LEMMA GoesOn ==
  ASSUME Inv, Faithful, NEW p \in Process, ~At(p, "idle"), NEW step \in Steps, Goto(p, step),
         step \notin {"recordSweep", "pay", "note", "settle"}
  PROVE  \A q \in Process : proc'[q] = proc[q] \/ CopyOK(proc'[q], rail)
<1> DEFINE c == [proc[p] EXCEPT !.at = step]
<1>1. proc[p] \in [at : Steps, tap : Tap \cup {NoTap}, s : Copy, ref : Nat]
  BY DEF Inv, TypeOK
<1>2. c.at = step /\ c.tap = proc[p].tap /\ c.s = proc[p].s /\ c.ref = proc[p].ref
  BY <1>1
<1>3. CopyOK(proc[p], rail) /\ proc[p].at # "idle"
  BY AtHand DEF At
<1>4. proc' = [proc EXCEPT ![p] = c]
  BY DEF Goto
<1> HIDE DEF c
<1>5. CopyOK(c, rail)
  BY <1>2, <1>3 DEF CopyOK
<1> QED
  BY <1>4, <1>5, OneProcess

\* A process that reads a row believes what the row says.
LEMMA Reads ==
  ASSUME Inv, Faithful, NEW p \in Process, NEW t \in Tap, NEW step \in Steps, NEW ref \in Nat,
         Take(p, t, step, ref), step \notin {"recordSweep", "pay"},
         step \in {"note", "settle"} => ref \in 1..Len(rail[BankOf(t)]),
         step = "settle" => rail[BankOf(t)][ref] = "success"
  PROVE  \A q \in Process : proc'[q] = proc[q] \/ CopyOK(proc'[q], rail)
<1> DEFINE c == [at |-> step, tap |-> t, s |-> CopyOf(row[t]), ref |-> ref]
<1>1. c.at = step /\ c.tap = t /\ c.ref = ref
  BY DEF Take
<1>2. c.s.swept = row[t].swept /\ c.s.railRef = row[t].railRef
  BY DEF CopyOf
<1>3. proc' = [proc EXCEPT ![p] = c]
  BY DEF Take
<1>4. RowOK(t, row[t], rail)
  BY DEF Faithful, Believed
<1> HIDE DEF c
<1>5. CopyOK(c, rail)
  BY <1>1, <1>2, <1>4 DEF CopyOK, RowOK
<1> QED
  BY <1>3, <1>5, OneProcess

\* One row changes, to something the rail bears out.
LEMMA OneRow ==
  ASSUME Inv, NEW t \in Tap, NEW r, NEW rl,
         row' = [row EXCEPT ![t] = r] \/ row' = row, RowOK(t, r, rl)
  PROVE  \A u \in Tap : row'[u] = row[u] \/ RowOK(u, row'[u], rl)
BY DEF Inv, TypeOK

\* payQueued: pick, resolve, claim, or fail the row.
LEMMA PayQueuedKeeps ==
  ASSUME Inv, Faithful, NEW p \in Process, PayQueued(p)
  PROVE  Faithful'
<1>1. CASE \E t \in Tap : PickQueued(p, t)
  <2>1. PICK t \in Tap : PickQueued(p, t)
    BY <1>1
  <2>2. \A q \in Process : proc'[q] = proc[q] \/ CopyOK(proc'[q], rail)
    BY <2>1, Reads DEF PickQueued, Steps
  <2> QED
    BY <2>1, <2>2, Quiet DEF PickQueued
<1>2. CASE Unresolved(p)
  <2>1. \A q \in Process : proc'[q] = proc[q] \/ CopyOK(proc'[q], rail)
    BY <1>2, GoesOn, Done DEF Unresolved, Steps, At
  <2> QED
    BY <1>2, <2>1, Quiet DEF Unresolved
<1>3. CASE FailQueued(p)
  <2>1. \A q \in Process : proc'[q] = proc[q] \/ CopyOK(proc'[q], rail)
    BY <1>3, Done DEF FailQueued
  <2> DEFINE r == [row[T(p)] EXCEPT !.state = "failed"]
  <2>2. T(p) \in Tap /\ row[T(p)] \in Row /\ RowOK(T(p), row[T(p)], rail)
    BY <1>3, AtHand DEF FailQueued, At
  <2>3. RowOK(T(p), r, rail)
    BY <2>2 DEF RowOK, Row
  <2>4. row' = [row EXCEPT ![T(p)] = r] \/ row' = row
    BY <1>3 DEF FailQueued
  <2> HIDE DEF r
  <2>5. \A u \in Tap : row'[u] = row[u] \/ RowOK(u, row'[u], rail)
    BY <2>2, <2>3, <2>4, OneRow
  <2> QED
    BY <1>3, <2>1, <2>5, Quiet DEF FailQueued
<1>4. CASE Claim(p)
  <2> DEFINE r == [row[T(p)] EXCEPT !.state = "submitted", !.attempts = row[T(p)].attempts + 1]
             c == [proc[p] EXCEPT !.at = "claimed", !.s.attempts = row[T(p)].attempts + 1]
  <2>1. /\ T(p) \in Tap /\ row[T(p)] \in Row /\ RowOK(T(p), row[T(p)], rail)
        /\ CopyOK(proc[p], rail) /\ proc[p].at # "idle"
    BY <1>4, AtHand DEF Claim, At
  <2>2. RowOK(T(p), r, rail)
    BY <2>1 DEF RowOK, Row
  <2>3. proc[p] \in [at : Steps, tap : Tap \cup {NoTap}, s : Copy, ref : Nat]
    BY DEF Inv, TypeOK
  <2>4. /\ c.at = "claimed" /\ c.tap = proc[p].tap /\ c.ref = proc[p].ref
        /\ c.s.swept = proc[p].s.swept /\ c.s.railRef = proc[p].s.railRef
    BY <2>3 DEF Copy
  <2>5. row' = [row EXCEPT ![T(p)] = r] /\ proc' = [proc EXCEPT ![p] = c]
    BY <1>4 DEF Claim
  <2> HIDE DEF r, c
  <2>6. CopyOK(c, rail)
    BY <2>1, <2>4 DEF CopyOK
  <2>7. \A q \in Process : proc'[q] = proc[q] \/ CopyOK(proc'[q], rail)
    BY <2>5, <2>6, OneProcess
  <2>8. \A u \in Tap : row'[u] = row[u] \/ RowOK(u, row'[u], rail)
    BY <2>1, <2>2, <2>5, OneRow
  <2> QED
    BY <1>4, <2>7, <2>8, Quiet DEF Claim
<1>5. CASE NotClaimed(p)
  <2>1. \A q \in Process : proc'[q] = proc[q] \/ CopyOK(proc'[q], rail)
    BY <1>5, GoesOn, Done DEF NotClaimed, Steps, At
  <2> QED
    BY <1>5, <2>1, Quiet DEF NotClaimed
<1> QED
  BY <1>1, <1>2, <1>3, <1>4, <1>5 DEF PayQueued

\* The rail takes a request under one of its references.
LEMMA Accepts ==
  ASSUME Inv, Faithful, NEW k \in RailReference, k[3] = 0, NEW lt, RailOK(rail, lt),
         k[2] = "bank" => Len(rail[SweepOf(k[1])]) > 0,
         NEW q \in Taken(rail[k]), rail' = [rail EXCEPT ![k] = q]
  PROVE  /\ rail \in Rails /\ rail' \in Rails /\ Grow(rail, rail') /\ RailOK(rail', lt)
         /\ rail'[k] = q /\ q \in Seq(RailStatus) /\ Len(q) > 0
<1>1. rail \in Rails /\ rail[k] \in Seq(RailStatus)
  BY DEF Inv, TypeOK, Rails
<1>2. \A g \in 1..(Len(rail[k]) - 1) : rail[k][g] = "failed"
  BY DEF RailOK
<1>3. /\ q \in Seq(RailStatus) /\ Len(q) > 0 /\ Len(rail[k]) =< Len(q)
      /\ \A g \in 1..Len(rail[k]) : q[g] = rail[k][g]
      /\ \A g \in 1..(Len(q) - 1) : q[g] = "failed"
  BY <1>1, <1>2, TakenOf
<1>4. rail'[k] = q
  BY <1>1 DEF Rails
<1> QED
  BY <1>1, <1>3, <1>4, RailMoves

\* The hop a process asks the rail for, and that a bank's sweep was taken.
LEMMA AsksFor ==
  ASSUME Inv, Faithful, NEW p \in Process, At(p, "sweep") \/ At(p, "pay"),
         NEW k, k = Reference(T(p), Asking(p), S(p).attempts)
  PROVE  /\ T(p) \in Tap
         /\ At(p, "sweep") => Asking(p) = "sweep" /\ k = SweepOf(T(p))
         /\ At(p, "pay") => Asking(p) = "bank" /\ k = BankOf(T(p))
                              /\ Len(rail[SweepOf(T(p))]) > 0
         /\ k \in RailReference /\ k[3] = 0 /\ k[1] = T(p)
         /\ k[2] = "bank" => Len(rail[SweepOf(k[1])]) > 0
<1>1. /\ T(p) \in Tap /\ S(p).attempts \in Nat /\ CopyOK(proc[p], rail)
      /\ proc[p].at \in {"sweep", "pay"}
  BY AtHand DEF At
<1>2. At(p, "pay") => Len(rail[SweepOf(T(p))]) > 0
  BY <1>1 DEF CopyOK, At, T
<1>3. At(p, "sweep") => Asking(p) = "sweep" /\ k = SweepOf(T(p))
  BY <1>1, TheTwo DEF Asking, At
<1>4. At(p, "pay") => Asking(p) = "bank" /\ k = BankOf(T(p))
  BY <1>1, TheTwo DEF Asking, At
<1>5. SweepOf(T(p))[2] = "sweep" /\ k[3] = 0 /\ k[1] = T(p)
  BY <1>3, <1>4 DEF SweepOf, BankOf
<1> QED
  BY <1>1, <1>2, <1>3, <1>4, <1>5, TheTwo

\* The rail's answer: what it says is what the process goes on with.
LEMMA AskRailKeeps ==
  ASSUME Inv, Faithful, NEW p \in Process, AskRail(p)
  PROVE  Faithful'
<1> DEFINE k == Reference(T(p), Asking(p), S(p).attempts)
<1>1. PICK q \in Taken(rail[k]) :
        /\ rail' = [rail EXCEPT ![k] = q]
        /\ proc' = [proc EXCEPT ![p].at = AfterAnswer(Asking(p), Last(q)), ![p].ref = Len(q)]
  BY DEF AskRail
<1> DEFINE c == [proc[p] EXCEPT !.at = AfterAnswer(Asking(p), Last(q)), !.ref = Len(q)]
<1>2. At(p, "sweep") \/ At(p, "pay")
  BY DEF AskRail
<1>3. proc[p] \in [at : Steps, tap : Tap \cup {NoTap}, s : Copy, ref : Nat]
  BY DEF Inv, TypeOK
<1>4. /\ c.at = AfterAnswer(Asking(p), Last(q)) /\ c.tap = T(p) /\ c.s = S(p)
      /\ c.ref = Len(q)
  BY <1>3 DEF T, S
<1>5. proc' = [proc EXCEPT ![p] = c]
  BY <1>1
<1>6. /\ T(p) \in Tap /\ k \in RailReference /\ k[3] = 0 /\ k[1] = T(p)
      /\ k[2] = "bank" => Len(rail[SweepOf(k[1])]) > 0
      /\ At(p, "sweep") => Asking(p) = "sweep" /\ k = SweepOf(T(p))
      /\ At(p, "pay") => Asking(p) = "bank" /\ k = BankOf(T(p))
  BY <1>2, AsksFor
<1> HIDE DEF k, c
<1>7. /\ rail \in Rails /\ rail' \in Rails /\ Grow(rail, rail') /\ RailOK(rail', late)
      /\ rail'[k] = q /\ q \in Seq(RailStatus) /\ Len(q) > 0
  BY <1>1, <1>6, Accepts DEF Faithful
<1>8. CopyOK(proc[p], rail) /\ S(p) \in Copy /\ S(p).railRef \in Nat
  BY <1>2, AtHand DEF At
<1>9. /\ BankOf(T(p)) \in RailReference /\ SweepOf(T(p)) \in RailReference
  BY <1>6, TheTwo
<1>10. /\ S(p).swept => Len(rail'[SweepOf(T(p))]) > 0
       /\ S(p).railRef =< Len(rail'[BankOf(T(p))])
  <2>1. proc[p].at # "idle" /\ proc[p].tap = T(p) /\ proc[p].s = S(p)
    BY <1>2 DEF At, T, S
  <2>2. /\ S(p).swept => Len(rail[SweepOf(T(p))]) > 0
        /\ S(p).railRef =< Len(rail[BankOf(T(p))])
    BY <1>8, <2>1 DEF CopyOK
  <2>3. /\ rail[SweepOf(T(p))] \in Seq(RailStatus) /\ rail'[SweepOf(T(p))] \in Seq(RailStatus)
        /\ rail[BankOf(T(p))] \in Seq(RailStatus) /\ rail'[BankOf(T(p))] \in Seq(RailStatus)
    BY <1>7, <1>9 DEF Rails
  <2> QED
    BY <1>7, <1>8, <1>9, <2>2, <2>3 DEF Grow
<1>11. Len(q) \in 1..Len(q)
  BY <1>7
<1>12. CopyOK(c, rail')
  <2>1. CASE At(p, "sweep")
    <3>1. c.at \in {"fail", "recordSweep"}
      BY <1>4, <1>6, <2>1 DEF AfterAnswer
    <3>2. Len(rail'[SweepOf(T(p))]) > 0
      BY <1>6, <1>7, <2>1
    <3> QED
      BY <1>4, <1>10, <3>1, <3>2 DEF CopyOK
  <2>2. CASE At(p, "pay")
    <3>1. c.at \in {"fail", "settle", "note"} /\ (c.at = "settle" => q[Len(q)] = "success")
      BY <1>4, <1>6, <2>2 DEF AfterAnswer, Last
    <3>2. rail'[BankOf(T(p))] = q
      BY <1>6, <1>7, <2>2
    <3> QED
      BY <1>4, <1>10, <1>11, <3>1, <3>2 DEF CopyOK
  <2> QED
    BY <1>2, <2>1, <2>2
<1>13. \A x \in Process : proc'[x] = proc[x] \/ CopyOK(proc'[x], rail')
  BY <1>5, <1>12, OneProcess
<1>14. row' = row /\ late' = late
  BY DEF AskRail
<1> QED
  BY <1>7, <1>13, <1>14, Kept

\* A request still under way to the rail is one whose sweep was taken.
LEMMA SetsOut ==
  ASSUME NEW rl \in Rails, NEW lt, RailOK(rl, lt), NEW k \in RailReference, k[3] = 0,
         k[2] = "bank" => Len(rl[SweepOf(k[1])]) > 0
  PROVE  RailOK(rl, lt \cup {k})
<1>1. \A t \in Tap : k = BankOf(t) => k[1] = t /\ k[2] = "bank"
  BY DEF BankOf
<1> QED
  BY <1>1 DEF RailOK

\* submit, sweep and payBank: the enquiry, the two hops, and what is lost.
LEMMA SubmitKeeps ==
  ASSUME Inv, Faithful, NEW p \in Process, Submit(p)
  PROVE  Faithful'
<1>1. CASE Enquire(p)
  <2>0. At(p, "claimed") /\ ~At(p, "idle")
    BY <1>1 DEF Enquire, At
  <2>1. CASE Goto(p, "pay")
    <3>1. CASE S(p).swept
      <4> DEFINE c == [proc[p] EXCEPT !.at = "pay"]
      <4>1. proc[p] \in [at : Steps, tap : Tap \cup {NoTap}, s : Copy, ref : Nat]
        BY DEF Inv, TypeOK
      <4>2. c.at = "pay" /\ c.tap = proc[p].tap /\ c.s = proc[p].s /\ c.ref = proc[p].ref
        BY <4>1
      <4>3. CopyOK(proc[p], rail) /\ proc[p].at # "idle" /\ proc[p].s.swept
        BY <2>0, <3>1, AtHand DEF At, S
      <4>4. proc' = [proc EXCEPT ![p] = c]
        BY <2>1 DEF Goto
      <4> HIDE DEF c
      <4>5. CopyOK(c, rail)
        BY <4>2, <4>3 DEF CopyOK
      <4>6. \A q \in Process : proc'[q] = proc[q] \/ CopyOK(proc'[q], rail)
        BY <4>4, <4>5, OneProcess
      <4> QED
        BY <1>1, <4>6, Quiet DEF Enquire
    <3>2. CASE ~S(p).swept
      <4>1. proc[p] \in [at : Steps, tap : Tap \cup {NoTap}, s : Copy, ref : Nat]
        BY DEF Inv, TypeOK
      <4>2. Goto(p, "sweep") \/ Goto(p, "fail") \/ Finish(p)
        BY <1>1, <3>2 DEF Enquire
      <4>3. proc'[p].at = "pay"
        BY <2>1 DEF Goto, Inv, TypeOK
      <4>4. proc'[p].at \in {"sweep", "fail", "idle"}
        BY <4>2 DEF Goto, Finish, Idle, Inv, TypeOK
      <4> QED
        BY <4>3, <4>4
    <3> QED
      BY <3>1, <3>2
  <2>2. CASE Goto(p, "sweep") \/ Goto(p, "fail") \/ Finish(p)
    <3>1. \A q \in Process : proc'[q] = proc[q] \/ CopyOK(proc'[q], rail)
      BY <2>0, <2>2, GoesOn, Done DEF Steps
    <3> QED
      BY <1>1, <3>1, Quiet DEF Enquire
  <2> QED
    BY <1>1, <2>1, <2>2 DEF Enquire
<1>2. CASE AskRail(p)
  BY <1>2, AskRailKeeps
<1>3. CASE RailRefuses(p)
  <2>1. \A q \in Process : proc'[q] = proc[q] \/ CopyOK(proc'[q], rail)
    BY <1>3, GoesOn DEF RailRefuses, Steps, At
  <2> QED
    BY <1>3, <2>1, Quiet DEF RailRefuses
<1>4. CASE NoAnswer(p)
  <2> DEFINE k == Reference(T(p), Asking(p), S(p).attempts)
  <2>1. k \in RailReference /\ k[3] = 0 /\ (k[2] = "bank" => Len(rail[SweepOf(k[1])]) > 0)
    BY <1>4, AsksFor DEF NoAnswer
  <2>2. rail \in Rails /\ RailOK(rail, late)
    BY DEF Inv, TypeOK, Rails, Faithful
  <2>3. /\ row' = row /\ Finish(p)
        /\ \/ UNCHANGED <<rail, late>>
           \/ \E q \in Taken(rail[k]) : rail' = [rail EXCEPT ![k] = q] /\ UNCHANGED late
           \/ late' = late \cup {k} /\ UNCHANGED rail
    BY <1>4 DEF NoAnswer
  <2> HIDE DEF k
  <2>4. rail' \in Rails /\ Grow(rail, rail') /\ RailOK(rail', late')
    <3>1. CASE UNCHANGED <<rail, late>>
      BY <2>2, <3>1, StillGrows
    <3>2. CASE \E q \in Taken(rail[k]) : rail' = [rail EXCEPT ![k] = q] /\ UNCHANGED late
      BY <2>1, <2>2, <3>2, Accepts
    <3>3. CASE late' = late \cup {k} /\ UNCHANGED rail
      BY <2>1, <2>2, <3>3, StillGrows, SetsOut
    <3> QED
      BY <2>3, <3>1, <3>2, <3>3
  <2>5. \A q \in Process : proc'[q] = proc[q] \/ CopyOK(proc'[q], rail')
    BY <2>3, Done
  <2> QED
    BY <2>3, <2>4, <2>5, Kept
<1>5. CASE RecordSweep(p)
  <2> DEFINE c == [proc[p] EXCEPT !.at = "pay", !.s.swept = TRUE, !.ref = 0]
             r == [row[T(p)] EXCEPT !.swept = TRUE]
  <2>1. /\ T(p) \in Tap /\ row[T(p)] \in Row /\ RowOK(T(p), row[T(p)], rail)
        /\ CopyOK(proc[p], rail) /\ proc[p].at = "recordSweep"
    BY <1>5, AtHand DEF RecordSweep, At
  <2>2. Len(rail[SweepOf(T(p))]) > 0
    BY <2>1 DEF CopyOK, T
  <2>3. RowOK(T(p), r, rail)
    BY <2>1, <2>2 DEF RowOK, Row
  <2>4. proc[p] \in [at : Steps, tap : Tap \cup {NoTap}, s : Copy, ref : Nat]
    BY DEF Inv, TypeOK
  <2>5. c.at = "pay" /\ c.tap = T(p) /\ c.s.railRef = proc[p].s.railRef
    BY <2>4 DEF Copy, T
  <2>6. (row' = [row EXCEPT ![T(p)] = r] \/ row' = row) /\ proc' = [proc EXCEPT ![p] = c]
    BY <1>5 DEF RecordSweep
  <2> HIDE DEF r, c
  <2>7. CopyOK(c, rail)
    BY <2>1, <2>2, <2>5 DEF CopyOK, T
  <2>8. \A q \in Process : proc'[q] = proc[q] \/ CopyOK(proc'[q], rail)
    BY <2>6, <2>7, OneProcess
  <2>9. \A u \in Tap : row'[u] = row[u] \/ RowOK(u, row'[u], rail)
    BY <2>1, <2>3, <2>6, OneRow
  <2> QED
    BY <1>5, <2>8, <2>9, Quiet DEF RecordSweep
<1> QED
  BY <1>1, <1>2, <1>3, <1>4, <1>5 DEF Submit

\* apply, settle and fail: what the row is told of the rail is so.
LEMMA AnswerKeeps ==
  ASSUME Inv, Faithful, NEW p \in Process, Answer(p)
  PROVE  Faithful'
<1>1. /\ T(p) \in Tap /\ row[T(p)] \in Row /\ RowOK(T(p), row[T(p)], rail)
      /\ CopyOK(proc[p], rail) /\ proc[p].at \in {"note", "settle", "fail"}
  BY AtHand DEF Answer, NoteReference, Settle, Fail, At
<1>2. \A q \in Process : proc'[q] = proc[q] \/ CopyOK(proc'[q], rail)
  BY Done DEF Answer, NoteReference, Settle, Fail
<1>3. rail' = rail /\ late' = late
  BY DEF Answer, NoteReference, Settle, Fail
<1>4. BankOf(T(p)) \in RailReference /\ rail[BankOf(T(p))] \in Seq(RailStatus)
  BY <1>1, TheTwo DEF Inv, TypeOK
<1>5. CASE NoteReference(p)
  <2> DEFINE r == [row[T(p)] EXCEPT !.railRef = proc[p].ref]
  <2>1. proc[p].ref \in 1..Len(rail[BankOf(T(p))])
    BY <1>1, <1>5 DEF CopyOK, NoteReference, At, T
  <2>2. RowOK(T(p), r, rail)
    BY <1>1, <1>4, <2>1 DEF RowOK, Row
  <2>3. row' = [row EXCEPT ![T(p)] = r] \/ row' = row
    BY <1>5 DEF NoteReference
  <2> HIDE DEF r
  <2> QED
    BY <1>1, <1>2, <1>3, <2>2, <2>3, OneRow, Quiet
<1>6. CASE Settle(p)
  <2> DEFINE r == [row[T(p)] EXCEPT !.state = "settled",
                                    !.railRef = IF @ = 0 THEN proc[p].ref ELSE @]
  <2>1. proc[p].ref \in 1..Len(rail[BankOf(T(p))]) /\ rail[BankOf(T(p))][proc[p].ref] = "success"
    BY <1>1, <1>6 DEF CopyOK, Settle, At, T
  <2>2. RowOK(T(p), r, rail)
    BY <1>1, <1>4, <2>1 DEF RowOK, Row
  <2>3. row' = [row EXCEPT ![T(p)] = r] \/ row' = row
    BY <1>6 DEF Settle
  <2> HIDE DEF r
  <2> QED
    BY <1>1, <1>2, <1>3, <2>2, <2>3, OneRow, Quiet
<1>7. CASE Fail(p)
  <2> DEFINE r == [row[T(p)] EXCEPT !.state = "failed"]
  <2>1. RowOK(T(p), r, rail)
    BY <1>1 DEF RowOK, Row
  <2>2. row' = [row EXCEPT ![T(p)] = r] \/ row' = row
    BY <1>7 DEF Fail
  <2> HIDE DEF r
  <2> QED
    BY <1>1, <1>2, <1>3, <2>1, <2>2, OneRow, Quiet
<1> QED
  BY <1>5, <1>6, <1>7 DEF Answer

\* chaseStale: the transfer a lookup finds is one the rail has.
LEMMA ChaseKeeps ==
  ASSUME Inv, Faithful, NEW p \in Process, Chase(p)
  PROVE  Faithful'
<1>1. /\ T(p) \in Tap /\ S(p).railRef \in Nat /\ S(p).attempts \in Nat
      /\ CopyOK(proc[p], rail) /\ proc[p].at = "chase"
  BY AtHand DEF Chase, ChaseNotFound, ChaseAnswered, ChaseUnanswered, At
<1>2. row' = row /\ rail' = rail /\ late' = late
  BY DEF Chase, ChaseNotFound, ChaseAnswered, ChaseUnanswered
<1>3. /\ BankOf(T(p)) \in RailReference /\ SweepOf(T(p)) \in RailReference
      /\ rail[BankOf(T(p))] \in Seq(RailStatus) /\ rail[SweepOf(T(p))] \in Seq(RailStatus)
  BY <1>1, TheTwo DEF Inv, TypeOK
<1>4. CASE ChaseNotFound(p) \/ ChaseUnanswered(p)
  <2>1. \A q \in Process : proc'[q] = proc[q] \/ CopyOK(proc'[q], rail)
    BY <1>1, <1>4, GoesOn, Done DEF ChaseNotFound, ChaseUnanswered, Steps, At
  <2> QED
    BY <1>2, <2>1, Quiet
<1>5. CASE ChaseAnswered(p)
  <2> DEFINE st == rail[Asked(p)][Found(p)]
             c == [proc[p] EXCEPT !.at = AfterAnswer(ChaseHop(p), st), !.ref = Found(p)]
  <2>1. CASE Finish(p)
    BY <1>2, <2>1, Done, Quiet
  <2>2. CASE ~Finish(p)
    <3>1. /\ Found(p) > 0 /\ ~(S(p).swept /\ st = "pending")
          /\ proc' = [proc EXCEPT ![p] = c]
      BY <1>5, <2>2 DEF ChaseAnswered
    <3>2. proc[p] \in [at : Steps, tap : Tap \cup {NoTap}, s : Copy, ref : Nat]
      BY DEF Inv, TypeOK
    <3>3. /\ c.at = AfterAnswer(ChaseHop(p), st) /\ c.tap = T(p) /\ c.s = S(p)
          /\ c.ref = Found(p)
      BY <3>2 DEF T, S
    <3>4. /\ S(p).swept => Len(rail[SweepOf(T(p))]) > 0
          /\ S(p).railRef =< Len(rail[BankOf(T(p))])
      BY <1>1 DEF CopyOK, S, T
    <3>5. CopyOK(c, rail)
      <4>1. CASE S(p).swept
        <5>1. Asked(p) = BankOf(T(p)) /\ ChaseHop(p) = "bank"
          BY <1>1, <4>1, TheTwo DEF Asked, ChaseHop
        <5>2. Found(p) \in 1..Len(rail[BankOf(T(p))])
          BY <1>1, <1>3, <3>1, <3>4, <5>1 DEF Found
        <5>3. st \in RailStatus /\ st # "pending" /\ st = rail[BankOf(T(p))][Found(p)]
          BY <1>3, <3>1, <4>1, <5>1, <5>2
        <5>4. c.at \in {"fail", "settle"} /\ (c.at = "settle" => st = "success")
          BY <3>3, <5>1, <5>3 DEF AfterAnswer, RailStatus
        <5> HIDE DEF st, c
        <5> QED
          BY <3>3, <3>4, <5>2, <5>3, <5>4 DEF CopyOK
      <4>2. CASE ~S(p).swept
        <5>1. Asked(p) = SweepOf(T(p)) /\ ChaseHop(p) = "sweep"
          BY <1>1, <4>2, TheTwo DEF Asked, ChaseHop
        <5>2. Len(rail[SweepOf(T(p))]) > 0
          BY <3>1, <4>2, <5>1 DEF Found
        <5>3. c.at \in {"fail", "recordSweep"}
          BY <3>3, <5>1 DEF AfterAnswer
        <5> HIDE DEF st, c
        <5> QED
          BY <3>3, <3>4, <5>2, <5>3 DEF CopyOK
      <4> QED
        BY <4>1, <4>2
    <3> HIDE DEF st, c
    <3>6. \A q \in Process : proc'[q] = proc[q] \/ CopyOK(proc'[q], rail)
      BY <3>1, <3>5, OneProcess
    <3> QED
      BY <1>2, <3>6, Quiet
  <2> QED
    BY <2>1, <2>2
<1> QED
  BY <1>4, <1>5 DEF Chase

\* ApplyWebhook: the event says what the rail has under the bank's reference.
LEMMA WebhookKeeps ==
  ASSUME Inv, Faithful, NEW h \in Hook, NEW t \in Tap, Webhook(h, t)
  PROVE  Faithful'
<1>1. row[t].attempts \in Nat /\ h \in Process
  BY DEF Inv, TypeOK, Row, Process
<1>2. Reference(t, "bank", row[t].attempts) = BankOf(t)
  BY <1>1, TheTwo
<1>3. PICK g \in 1..Len(rail[BankOf(t)]) :
        rail[BankOf(t)][g] # "pending" /\ Take(h, t, AfterAnswer("bank", rail[BankOf(t)][g]), g)
  BY <1>2 DEF Webhook
<1>4. BankOf(t) \in RailReference /\ rail[BankOf(t)] \in Seq(RailStatus)
  BY TheTwo DEF Inv, TypeOK
<1>5. rail[BankOf(t)][g] \in {"success", "failed"} /\ g \in Nat
  BY <1>3, <1>4 DEF RailStatus
<1> DEFINE step == AfterAnswer("bank", rail[BankOf(t)][g])
<1>6. step \in {"settle", "fail"} /\ (step = "settle" => rail[BankOf(t)][g] = "success")
  BY <1>5 DEF AfterAnswer
<1>7. Take(h, t, step, g) /\ step \in Steps
  BY <1>3, <1>6 DEF Steps
<1> HIDE DEF step
<1>8. \A q \in Process : proc'[q] = proc[q] \/ CopyOK(proc'[q], rail)
  BY <1>1, <1>5, <1>6, <1>7, Reads
<1>9. row' = row /\ rail' = rail /\ late' = late
  BY DEF Webhook
<1> QED
  BY <1>8, <1>9, Quiet

\* Worker.Retry queues the row again, with all it knows of the last attempt.
LEMMA RetryKeeps ==
  ASSUME Inv, Faithful, NEW t \in Tap, Retry(t)
  PROVE  Faithful'
<1> DEFINE r == [row[t] EXCEPT !.state = "queued"]
<1>1. row[t] \in Row /\ RowOK(t, row[t], rail)
  BY DEF Inv, TypeOK, Faithful, Believed
<1>2. RowOK(t, r, rail)
  BY <1>1 DEF RowOK, Row
<1>3. row' = [row EXCEPT ![t] = r] /\ UNCHANGED <<rail, late, proc>>
  BY DEF Retry
<1> HIDE DEF r
<1> QED
  BY <1>2, <1>3, OneRow, Quiet

\* The rail decides a transfer, or takes a request after its caller gave up.
LEMMA RailKeeps ==
  ASSUME Inv, Faithful, NEW k \in RailReference, RailDecides(k) \/ ArriveLate(k)
  PROVE  Faithful'
<1>1. rail \in Rails /\ RailOK(rail, late) /\ rail[k] \in Seq(RailStatus)
  BY DEF Inv, TypeOK, Rails, Faithful
<1>2. row' = row /\ proc' = proc
  BY DEF RailDecides, ArriveLate
<1>3. ASSUME k[3] = 0, rail[k] # << >> \/ k \in late
      PROVE  k[2] = "bank" => Len(rail[SweepOf(k[1])]) > 0
  <2>1. k[1] \in Tap /\ (k[2] = "bank" => k = BankOf(k[1]))
    BY <1>3, OneOfTwo
  <2> QED
    BY <1>1, <1>3, <2>1 DEF RailOK
<1>4. CASE RailDecides(k)
  <2>1. PICK st \in {"success", "failed"} : rail' = [rail EXCEPT ![k][Len(rail[k])] = st]
    BY <1>4 DEF RailDecides
  <2> DEFINE q == [rail[k] EXCEPT ![Len(rail[k])] = st]
  <2>2. Len(rail[k]) > 0 /\ rail[k][Len(rail[k])] = "pending"
    BY <1>1, <1>4 DEF RailDecides, Last
  <2>3. \A g \in 1..(Len(rail[k]) - 1) : rail[k][g] = "failed"
    BY <1>1 DEF RailOK
  <2>4. q \in Seq(RailStatus) /\ Len(q) = Len(rail[k])
    BY <1>1, <2>2 DEF RailStatus
  <2>5. \A g \in 1..(Len(q) - 1) : q[g] = "failed"
    BY <1>1, <2>2, <2>3, <2>4
  <2>6. \A g \in 1..Len(rail[k]) : rail[k][g] = "success" => q[g] = "success"
    BY <1>1, <2>2
  <2>7. rail' = [rail EXCEPT ![k] = q]
    BY <2>1
  <2>8. k[3] = 0 /\ rail[k] # << >>
    BY <1>1, <1>4 DEF RailDecides, RailOK
  <2> HIDE DEF q
  <2>9. rail' \in Rails /\ Grow(rail, rail') /\ RailOK(rail', late)
    <3>1. k[2] = "bank" => Len(rail[SweepOf(k[1])]) > 0
      BY <1>3, <2>8
    <3>2. Len(rail[k]) =< Len(q) /\ Len(q) > 0
      BY <1>1, <2>2, <2>4
    <3> QED
      BY <1>1, <2>4, <2>5, <2>6, <2>7, <2>8, <3>1, <3>2, RailMoves
  <2>10. late' = late
    BY <1>4 DEF RailDecides
  <2> QED
    BY <1>2, <2>9, <2>10, Kept
<1>5. CASE ArriveLate(k)
  <2>1. k \in late /\ k[3] = 0 /\ late' = late \ {k}
    BY <1>1, <1>5 DEF ArriveLate, RailOK
  <2>2. PICK q \in Taken(rail[k]) : rail' = [rail EXCEPT ![k] = q]
    BY <1>5 DEF ArriveLate
  <2>3. rail' \in Rails /\ Grow(rail, rail') /\ RailOK(rail', late)
    BY <1>1, <1>3, <2>1, <2>2, Accepts
  <2>4. RailOK(rail', late')
    BY <2>1, <2>3 DEF RailOK
  <2> QED
    BY <1>2, <2>3, <2>4, Kept
<1> QED
  BY <1>4, <1>5

-----------------------------------------------------------------------------
\* No transfer, no sweep, and nothing believed.
LEMMA FaithfulInit == Init => Faithful
<1> SUFFICES ASSUME Init PROVE Faithful
  OBVIOUS
<1>1. \A k \in RailReference : rail[k] = << >> /\ Len(rail[k]) = 0
  BY DEF Init
<1>2. \A t \in Tap : BankOf(t) \in RailReference /\ SweepOf(t) \in RailReference
  BY TheTwo
<1>3. RailOK(rail, late)
  BY <1>1, <1>2 DEF Init, RailOK
<1>4. \A t \in Tap : RowOK(t, row[t], rail)
  BY <1>1, <1>2 DEF Init, RowOK, Fresh
<1>5. \A p \in Process : CopyOK(proc[p], rail)
  BY DEF Init, CopyOK, Idle
<1> QED
  BY <1>3, <1>4, <1>5 DEF Faithful, Believed

\* Every step keeps faith with the rail.
LEMMA FaithfulNext == Inv /\ Faithful /\ [Next]_vars => Faithful'
<1> SUFFICES ASSUME Inv, Faithful, [Next]_vars PROVE Faithful'
  OBVIOUS
<1>1. ASSUME NEW p \in Worker, Work(p) PROVE Faithful'
  <2>1. p \in Process
    BY DEF Process
  <2>2. CASE \E t \in Tap : PickStale(p, t)
    <3>1. PICK t \in Tap : PickStale(p, t)
      BY <2>2
    <3>2. \A q \in Process : proc'[q] = proc[q] \/ CopyOK(proc'[q], rail)
      BY <2>1, <3>1, Reads DEF PickStale, Steps
    <3> QED
      BY <3>1, <3>2, Quiet DEF PickStale
  <2> QED
    BY <1>1, <2>1, <2>2, PayQueuedKeeps, SubmitKeeps, AnswerKeeps, ChaseKeeps DEF Work
<1>2. ASSUME NEW h \in Hook, Answer(h) \/ \E t \in Tap : Webhook(h, t) PROVE Faithful'
  BY <1>2, AnswerKeeps, WebhookKeeps DEF Process
<1>3. ASSUME NEW p \in Process, Crash(p) PROVE Faithful'
  <2>1. \A q \in Process : proc'[q] = proc[q] \/ CopyOK(proc'[q], rail)
    BY <1>3, Done DEF Crash
  <2> QED
    BY <1>3, <2>1, Quiet DEF Crash
<1>4. ASSUME NEW t \in Tap, Retry(t) \/ ReverseTap(t) PROVE Faithful'
  <2>1. CASE Retry(t)
    BY <2>1, RetryKeeps
  <2>2. CASE ReverseTap(t)
    BY <2>2, Quiet DEF ReverseTap
  <2> QED
    BY <1>4, <2>1, <2>2
<1>5. ASSUME NEW k \in RailReference, RailDecides(k) \/ ArriveLate(k) PROVE Faithful'
  BY <1>5, RailKeeps
<1>6. CASE UNCHANGED vars
  BY <1>6, Quiet DEF vars
<1> QED
  BY <1>1, <1>2, <1>3, <1>4, <1>5, <1>6 DEF Next, Rail

\* In every state, what is believed of the rail is so.
LEMMA FaithKept == Spec => [](Inv /\ Faithful)
<1>1. Init => Inv /\ Faithful
  BY InitInv, FaithfulInit
<1>2. (Inv /\ Faithful) /\ [Next]_vars => (Inv /\ Faithful)'
  BY NextInv, FaithfulNext
<1> QED
  BY <1>1, <1>2, PTL DEF Spec

\* The only transfers to a leg's bank are those of its one reference.
LEMMA OnlyBank ==
  ASSUME Inv, Faithful, NEW t \in Tap
  PROVE  /\ \A k \in Transfers(t, "bank") : k = BankOf(t)
         /\ Len(rail[BankOf(t)]) > 0 <=> Transfers(t, "bank") # {}
         /\ \A d \in Delivered(t) :
              \E g \in 1..Len(rail[BankOf(t)]) :
                d = <<BankOf(t), g>> /\ rail[BankOf(t)][g] = "success"
         /\ \A g \in 1..Len(rail[BankOf(t)]) :
              rail[BankOf(t)][g] = "success" => <<BankOf(t), g>> \in Delivered(t)
<1>1. BankOf(t) \in RailReference /\ rail[BankOf(t)] \in Seq(RailStatus)
  BY TheTwo DEF Inv, TypeOK
<1>2. \A k \in Transfers(t, "bank") : k = BankOf(t)
  <2> SUFFICES ASSUME NEW k \in Transfers(t, "bank") PROVE k = BankOf(t)
    OBVIOUS
  <2>1. k \in RailReference /\ k[1] = t /\ k[2] = "bank" /\ rail[k] # << >>
    BY DEF Transfers
  <2>2. k[3] = 0
    BY <2>1 DEF Faithful, RailOK
  <2> QED
    BY <2>1, <2>2, OneOfTwo
<1>3. BankOf(t)[1] = t /\ BankOf(t)[2] = "bank"
  BY DEF BankOf
<1>4. Len(rail[BankOf(t)]) > 0 <=> rail[BankOf(t)] # << >>
  BY <1>1
<1>5. Len(rail[BankOf(t)]) > 0 <=> BankOf(t) \in Transfers(t, "bank")
  BY <1>1, <1>3, <1>4 DEF Transfers
<1>6. \A d \in Delivered(t) :
        \E g \in 1..Len(rail[BankOf(t)]) :
          d = <<BankOf(t), g>> /\ rail[BankOf(t)][g] = "success"
  <2> SUFFICES ASSUME NEW d \in Delivered(t)
               PROVE  \E g \in 1..Len(rail[BankOf(t)]) :
                        d = <<BankOf(t), g>> /\ rail[BankOf(t)][g] = "success"
    OBVIOUS
  <2>1. PICK k \in Transfers(t, "bank") :
          d \in {<<k, g>> : g \in {n \in 1..Len(rail[k]) : rail[k][n] = "success"}}
    BY DEF Delivered
  <2> QED
    BY <1>2, <2>1
<1>7. ASSUME NEW g \in 1..Len(rail[BankOf(t)]), rail[BankOf(t)][g] = "success"
      PROVE  <<BankOf(t), g>> \in Delivered(t)
  <2>1. BankOf(t) \in Transfers(t, "bank")
    BY <1>1, <1>5, <1>7
  <2> QED
    BY <1>7, <2>1 DEF Delivered
<1> QED
  BY <1>2, <1>5, <1>6, <1>7

\* settle is reached only with the rail's word that the merchant's bank was
\* credited, however old the copy of the row it acts on.
THEOREM Settled == Spec => []SettledIsDelivered
<1>1. Inv /\ Faithful => SettledIsDelivered
  <2> SUFFICES ASSUME Inv, Faithful, NEW t \in Tap, row[t].state = "settled"
               PROVE  Delivered(t) # {}
    BY DEF SettledIsDelivered
  <2>1. PICK g \in 1..Len(rail[BankOf(t)]) : rail[BankOf(t)][g] = "success"
    BY DEF Faithful, Believed, RowOK
  <2> QED
    BY <2>1, OnlyBank
<1> QED
  BY <1>1, FaithKept, PTL

\* Every attempt of payBank goes out under one reference, so no retry, crash or
\* late request credits a merchant's bank twice for one leg.
THEOREM Once == Spec => []DeliveredOnce
<1>1. Inv /\ Faithful => DeliveredOnce
  <2> SUFFICES ASSUME Inv, Faithful, NEW t \in Tap, NEW d \in Delivered(t),
                      NEW e \in Delivered(t)
               PROVE  d = e
    BY DEF DeliveredOnce
  <2>1. PICK g \in 1..Len(rail[BankOf(t)]) :
          d = <<BankOf(t), g>> /\ rail[BankOf(t)][g] = "success"
    BY OnlyBank
  <2>2. PICK n \in 1..Len(rail[BankOf(t)]) :
          e = <<BankOf(t), n>> /\ rail[BankOf(t)][n] = "success"
    BY OnlyBank
  <2>3. BankOf(t) \in RailReference /\ rail[BankOf(t)] \in Seq(RailStatus)
    BY TheTwo DEF Inv, TypeOK
  <2>4. \A m \in 1..(Len(rail[BankOf(t)]) - 1) : rail[BankOf(t)][m] = "failed"
    BY <2>3 DEF Faithful, RailOK
  <2>5. g = n
    BY <2>1, <2>2, <2>3, <2>4
  <2> QED
    BY <2>1, <2>2, <2>5
<1> QED
  BY <1>1, FaithKept, PTL

\* sweep and chase go on to the bank only when the rail took the leg's sweep.
THEOREM SweptFirst == Spec => []PaidOnlyAfterSweep
<1>1. Inv /\ Faithful => PaidOnlyAfterSweep
  <2> SUFFICES ASSUME Inv, Faithful, NEW t \in Tap, Transfers(t, "bank") # {}
               PROVE  Transfers(t, "sweep") # {}
    BY DEF PaidOnlyAfterSweep
  <2>1. Len(rail[BankOf(t)]) > 0
    BY OnlyBank
  <2>2. Len(rail[SweepOf(t)]) > 0
    BY <2>1 DEF Faithful, RailOK
  <2>3. SweepOf(t) \in RailReference /\ SweepOf(t)[1] = t /\ SweepOf(t)[2] = "sweep"
    BY TheTwo DEF SweepOf
  <2>4. rail[SweepOf(t)] # << >>
    BY <2>2
  <2> QED
    BY <2>3, <2>4 DEF Transfers
<1> QED
  BY <1>1, FaithKept, PTL
=============================================================================
