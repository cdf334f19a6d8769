--------------------------- MODULE BankPayout_proofs ---------------------------
(***************************************************************************)
(* For any payouts, workers, operators and faults: what is discharged has  *)
(* been credited, once, and a final state agrees with the books; and for   *)
(* one worker, as main.go deploys it, a confirmed payout stays confirmed.  *)
(*                                                                         *)
(* What carries the delivery is the reference: it is the payout's whenever *)
(* the payout is sent, so the provider holds all its transfers in one      *)
(* sequence, of which every one but the last has failed.                   *)
(***************************************************************************)
EXTENDS BankPayout, SequenceTheorems, TLAPS

\* What rail r holds of payout p: its transfers, and those that were credited.
Sent(r, p) == r[<<p, 0>>]
Credited(r, p, n) == n \in 1..Len(Sent(r, p)) /\ Sent(r, p)[n] = "success"

\* Transfers are made under the payout's reference, and one is tried again
\* only after it has failed.
RailFollows ==
  /\ \A k \in RailReference : k[2] # 0 => rail[k] = << >>
  /\ \A k \in late : k[2] = 0
  /\ \A p \in Payout : \A n \in 1..Len(Sent(rail, p)) :
       n < Len(Sent(rail, p)) => Sent(rail, p)[n] = "failed"

\* A provider's reference, in a row or in hand, names one of the transfers.
ReferencesFollow ==
  /\ \A p \in Payout : row[p].ref \in 0..Len(Sent(rail, p))
  /\ \A w \in Process : ~At(w, "idle") => proc[w].ref \in 0..Len(Sent(rail, P(w)))

\* A payout is discharged, or about to be, only when it has been credited.
CreditFollows ==
  /\ \A p \in settled : \E n \in Nat : Credited(rail, p, n)
  /\ \A w \in Process : At(w, "confirm") => \E n \in Nat : Credited(rail, P(w), n)

Inv == TypeOK /\ RailFollows /\ ReferencesFollow /\ CreditFollows /\ FinalStateIsBooked

-----------------------------------------------------------------------------
\* The first reference of each payout is one of the rail's.
LEMMA FirstReference ==
  ASSUME NEW p \in Payout
  PROVE  <<p, 0>> \in RailReference
BY PayoutAssumption DEF RailReference

\* The transfers of a payout are a sequence.
LEMMA SentType ==
  ASSUME Inv, NEW p \in Payout
  PROVE  Sent(rail, p) \in Seq(Status) /\ Len(Sent(rail, p)) \in Nat
<1>1. Sent(rail, p) \in Seq(Status)
  BY FirstReference DEF Inv, TypeOK, Sent
<1> QED
  BY <1>1

\* A fault is counted within its bound.
LEMMA FaultType == TypeOK /\ Fault => faults' \in 0..MaxFaults
BY PayoutAssumption DEF TypeOK, Fault

\* The locals of a process, typed.
Local == [at : Steps, payout : Payout \cup {NoPayout}, attempts : Nat, ref : Nat]

\* A process that holds a payout moves to another step of it.
LEMMA Steps1 ==
  ASSUME TypeOK, NEW w \in Process, NEW new \in Local, proc' = [proc EXCEPT ![w] = new],
         new.at # "idle" => new.payout \in Payout
  PROVE  /\ proc' \in [Process -> Local] /\ proc'[w] = new
         /\ \A v \in Process \ {w} : proc'[v] = proc[v]
         /\ \A v \in Process : proc'[v].at # "idle" => proc'[v].payout \in Payout
BY DEF TypeOK, Local

\* What the provider holds after it takes a request, or decides one.
Sends(p, q) ==
  /\ rail' = [rail EXCEPT ![<<p, 0>>] = q]
  /\ \/ q \in Taken(Sent(rail, p))
     \/ /\ Sent(rail, p) # << >> /\ Last(Sent(rail, p)) = "pending"
        /\ \E st \in {"success", "failed"} : q = [Sent(rail, p) EXCEPT ![Len(Sent(rail, p))] = st]

\* The sequence a request leaves: as long or longer, and what succeeded stays.
LEMMA SendsEffect ==
  ASSUME Inv, NEW p \in Payout, NEW q, Sends(p, q)
  PROVE  /\ q \in Seq(Status) /\ Sent(rail', p) = q
         /\ Len(q) >= Len(Sent(rail, p))
         /\ \A n \in 1..Len(Sent(rail, p)) : Sent(rail, p)[n] = "success" => q[n] = "success"
         /\ \A n \in 1..Len(q) : n < Len(q) => q[n] = "failed"
         /\ \A k \in RailReference \ {<<p, 0>>} : rail'[k] = rail[k]
         /\ rail' \in [RailReference -> Seq(Status)]
<1> DEFINE old == Sent(rail, p)
<1>1. old \in Seq(Status) /\ <<p, 0>> \in RailReference
  BY FirstReference DEF Inv, TypeOK, Sent
<1>2. \A n \in 1..Len(old) : n < Len(old) => old[n] = "failed"
  BY DEF Inv, RailFollows
<1> HIDE DEF old
<1>3. /\ q \in Seq(Status) /\ Len(q) >= Len(old)
      /\ \A n \in 1..Len(old) : old[n] = "success" => q[n] = "success"
      /\ \A n \in 1..Len(q) : n < Len(q) => q[n] = "failed"
  <2>1. CASE q = old
    BY <1>1, <1>2, <2>1
  <2>2. CASE \E st \in Status : q = Append(old, st) /\ ~Live(old)
    <3>1. PICK st \in Status : q = Append(old, st)
      BY <2>2
    <3>2. \A n \in 1..Len(old) : old[n] = "failed"
      <4>1. old = << >> \/ old[Len(old)] = "failed"
        BY <2>2 DEF Live, Last
      <4> QED
        BY <1>1, <1>2, <4>1
    <3>3. q \in Seq(Status) /\ Len(q) = Len(old) + 1 /\ \A n \in 1..Len(old) : q[n] = old[n]
      BY <1>1, <3>1
    <3> QED
      BY <1>1, <3>2, <3>3
  <2>3. CASE /\ old # << >> /\ Last(old) = "pending"
             /\ \E st \in {"success", "failed"} : q = [old EXCEPT ![Len(old)] = st]
    <3>1. PICK st \in {"success", "failed"} : q = [old EXCEPT ![Len(old)] = st]
      BY <2>3
    <3>2. Len(old) \in 1..Len(old) /\ st \in Status
      BY <1>1, <2>3 DEF Status
    <3>3. q \in Seq(Status) /\ Len(q) = Len(old)
      BY <1>1, <3>1, <3>2
    <3>4. \A n \in 1..Len(old) : n # Len(old) => q[n] = old[n]
      BY <1>1, <3>1
    <3>5. \A n \in 1..Len(old) : old[n] = "success" => n # Len(old)
      BY <2>3 DEF Last
    <3>6. \A n \in 1..Len(q) : n < Len(q) => q[n] = old[n] /\ old[n] = "failed"
      BY <1>1, <1>2, <3>3, <3>4
    <3> QED
      BY <1>1, <3>3, <3>4, <3>5, <3>6
  <2> QED
    BY <2>1, <2>2, <2>3 DEF Sends, Taken, old
<1>4. rail'[<<p, 0>>] = q /\ \A k \in RailReference \ {<<p, 0>>} : rail'[k] = rail[k]
  BY <1>1 DEF Sends, Inv, TypeOK
<1>5. rail' \in [RailReference -> Seq(Status)]
  BY <1>1, <1>3 DEF Sends, Inv, TypeOK
<1> QED
  BY <1>3, <1>4, <1>5 DEF Sent, old

\* What is credited stays credited, and no list of transfers gets shorter.
RailGrows ==
  \A p \in Payout : /\ Len(Sent(rail', p)) \in Nat /\ Len(Sent(rail, p)) <= Len(Sent(rail', p))
                    /\ \A n \in Nat : Credited(rail, p, n) => Credited(rail', p, n)

\* A request taken keeps what RailFollows says of the rail.
LEMMA SendsKeep ==
  ASSUME Inv, NEW p \in Payout, NEW q, Sends(p, q), \A k \in late' : k[2] = 0
  PROVE  RailGrows /\ RailFollows' /\ rail' \in [RailReference -> Seq(Status)]
<1>1. /\ q \in Seq(Status) /\ Sent(rail', p) = q /\ Len(q) >= Len(Sent(rail, p))
      /\ \A n \in 1..Len(Sent(rail, p)) : Sent(rail, p)[n] = "success" => q[n] = "success"
      /\ \A n \in 1..Len(q) : n < Len(q) => q[n] = "failed"
      /\ \A k \in RailReference \ {<<p, 0>>} : rail'[k] = rail[k]
      /\ rail' \in [RailReference -> Seq(Status)]
  BY SendsEffect
<1>2. \A u \in Payout \ {p} : Sent(rail', u) = Sent(rail, u)
  <2> SUFFICES ASSUME NEW u \in Payout \ {p} PROVE rail'[<<u, 0>>] = rail[<<u, 0>>]
    BY DEF Sent
  <2> QED
    BY <1>1, FirstReference
<1>3. \A u \in Payout : Len(Sent(rail, u)) \in Nat
  BY SentType
<1>4. RailGrows
  <2> SUFFICES ASSUME NEW u \in Payout
      PROVE  /\ Len(Sent(rail', u)) \in Nat /\ Len(Sent(rail, u)) <= Len(Sent(rail', u))
             /\ \A n \in Nat : Credited(rail, u, n) => Credited(rail', u, n)
    BY DEF RailGrows
  <2>1. CASE u = p
    BY <1>1, <1>3, <2>1 DEF Credited
  <2>2. CASE u # p
    BY <1>2, <1>3, <2>2 DEF Credited
  <2> QED
    BY <2>1, <2>2
<1>5. RailFollows'
  <2>1. \A k \in RailReference : k[2] # 0 => rail'[k] = << >>
    BY <1>1 DEF Inv, RailFollows
  <2>2. \A u \in Payout : \A n \in 1..Len(Sent(rail', u)) :
          n < Len(Sent(rail', u)) => Sent(rail', u)[n] = "failed"
    BY <1>1, <1>2 DEF Inv, RailFollows
  <2> QED
    BY <2>1, <2>2 DEF RailFollows
<1> QED
  BY <1>1, <1>4, <1>5

\* The rail at rest.
LEMMA RailRests ==
  ASSUME Inv, UNCHANGED rail, \A k \in late' : k[2] = 0
  PROVE  RailGrows /\ RailFollows' /\ rail' \in [RailReference -> Seq(Status)]
<1>1. \A u \in Payout : Len(Sent(rail, u)) \in Nat
  BY SentType
<1>2. \A u \in Payout : Sent(rail', u) = Sent(rail, u)
  BY DEF Sent
<1>3. RailGrows
  BY <1>1, <1>2 DEF RailGrows, Credited
<1>4. RailFollows'
  BY <1>2 DEF Inv, RailFollows
<1> QED
  BY <1>3, <1>4 DEF Inv, TypeOK

\* What a process may hold after a step.
Holds(new) ==
  new.at # "idle" => /\ new.payout \in Payout
                     /\ new.ref \in 0..Len(Sent(rail', new.payout))
                     /\ new.at = "confirm" => \E n \in Nat : Credited(rail', new.payout, n)

ProcOK ==
  /\ proc \in [Process -> Local]
  /\ \A w \in Process : proc[w].at # "idle" => proc[w].payout \in Payout
  /\ \A w \in Process : ~At(w, "idle") => proc[w].ref \in 0..Len(Sent(rail, P(w)))
  /\ \A w \in Process : At(w, "confirm") => \E n \in Nat : Credited(rail, P(w), n)

\* The processes' part of the invariant.
LEMMA ProcHolds == Inv => ProcOK
BY DEF Inv, TypeOK, ReferencesFollow, CreditFollows, ProcOK, Local

\* One process moves, and the others hold what they held.
LEMMA ProcKept ==
  ASSUME Inv, RailGrows, NEW w \in Process, NEW new \in Local,
         proc' = [proc EXCEPT ![w] = new], Holds(new)
  PROVE  ProcOK'
<1>1. /\ proc' \in [Process -> Local] /\ proc'[w] = new
      /\ \A v \in Process \ {w} : proc'[v] = proc[v]
      /\ \A v \in Process : proc'[v].at # "idle" => proc'[v].payout \in Payout
  BY Steps1 DEF Inv, Holds
<1>2. ASSUME NEW v \in Process, proc'[v].at # "idle"
      PROVE  /\ proc'[v].ref \in 0..Len(Sent(rail', proc'[v].payout))
             /\ proc'[v].at = "confirm" => \E n \in Nat : Credited(rail', proc'[v].payout, n)
  <2>1. CASE v = w
    BY <1>1, <1>2, <2>1 DEF Holds, Sent, Credited
  <2>2. CASE v # w
    <3> DEFINE p == proc[v].payout
    <3>1. proc'[v] = proc[v] /\ p \in Payout /\ proc[v].ref \in Nat
      BY <1>1, <1>2, <2>2 DEF Inv, TypeOK
    <3>2. proc[v].ref \in 0..Len(Sent(rail, p))
      BY <1>2, <3>1 DEF Inv, ReferencesFollow, At, P
    <3>3. proc[v].at = "confirm" => \E n \in Nat : Credited(rail, p, n)
      BY <1>2, <3>1 DEF Inv, CreditFollows, At, P
    <3>4. Len(Sent(rail, p)) \in Nat
      BY <3>1, SentType
    <3>5. proc[v].ref \in 0..Len(Sent(rail', p))
      BY <3>1, <3>2, <3>4 DEF RailGrows
    <3>6. proc[v].at = "confirm" => \E n \in Nat : Credited(rail', p, n)
      BY <3>1, <3>3 DEF RailGrows
    <3> QED
      BY <3>1, <3>5, <3>6 DEF Sent, Credited
  <2> QED
    BY <2>1, <2>2
<1> QED
  BY <1>1, <1>2 DEF ProcOK, At, P, Sent, Credited

RowOK ==
  /\ row \in [Payout -> Row]
  /\ \A p \in Payout : row[p].ref \in 0..Len(Sent(rail, p))
  /\ FinalStateIsBooked
  /\ \A p \in settled : \E n \in Nat : Credited(rail, p, n)

\* One row is written, and the books say what it says.
LEMMA RowKept ==
  ASSUME Inv, RailGrows, NEW p \in Payout, NEW r \in Row, row' = [row EXCEPT ![p] = r],
         r.ref \in 0..Len(Sent(rail', p)),
         settled \subseteq settled', returned \subseteq returned',
         settled' \subseteq settled \cup {p},
         r.state = "confirmed" => p \in settled', r.state = "failed" => p \in returned',
         p \in settled' => p \in settled \/ \E n \in Nat : Credited(rail, p, n)
  PROVE  RowOK'
<1>1. /\ row' \in [Payout -> Row] /\ row'[p] = r
      /\ \A u \in Payout \ {p} : row'[u] = row[u]
  BY DEF Inv, TypeOK
<1>2. \A u \in Payout : row'[u].ref \in 0..Len(Sent(rail', u))
  <2> SUFFICES ASSUME NEW u \in Payout \ {p} PROVE row'[u].ref \in 0..Len(Sent(rail', u))
    BY <1>1
  <2>1. Len(Sent(rail, u)) \in Nat /\ row[u].ref \in 0..Len(Sent(rail, u))
    BY SentType DEF Inv, ReferencesFollow
  <2> QED
    BY <1>1, <2>1 DEF RailGrows
<1>3. FinalStateIsBooked'
  BY <1>1 DEF Inv, FinalStateIsBooked
<1>4. ASSUME NEW u \in settled' PROVE \E n \in Nat : Credited(rail', u, n)
  <2>1. u \in Payout /\ \E n \in Nat : Credited(rail, u, n)
    BY DEF Inv, TypeOK, CreditFollows
  <2> QED
    BY <2>1 DEF RailGrows
<1> QED
  BY <1>1, <1>2, <1>3, <1>4 DEF RowOK

\* The rows and the books at rest.
LEMMA RowRests ==
  ASSUME Inv, RailGrows, UNCHANGED <<row, settled, returned>>
  PROVE  RowOK'
<1>1. \A u \in Payout : row'[u].ref \in 0..Len(Sent(rail', u))
  <2> SUFFICES ASSUME NEW u \in Payout PROVE row'[u].ref \in 0..Len(Sent(rail', u))
    OBVIOUS
  <2>1. Len(Sent(rail, u)) \in Nat /\ row[u].ref \in 0..Len(Sent(rail, u))
    BY SentType DEF Inv, ReferencesFollow
  <2> QED
    BY <2>1 DEF RailGrows
<1>2. FinalStateIsBooked'
  BY DEF Inv, FinalStateIsBooked
<1>3. ASSUME NEW u \in settled' PROVE \E n \in Nat : Credited(rail', u, n)
  <2>1. u \in Payout /\ \E n \in Nat : Credited(rail, u, n)
    BY DEF Inv, TypeOK, CreditFollows
  <2> QED
    BY <2>1 DEF RailGrows
<1> QED
  BY <1>1, <1>2, <1>3 DEF RowOK, Inv, TypeOK

\* The parts together.
LEMMA Together ==
  ASSUME RailFollows', ProcOK', RowOK', rail' \in [RailReference -> Seq(Status)],
         payable' \in Int, settled' \subseteq Payout, returned' \subseteq Payout,
         late' \subseteq RailReference, faults' \in 0..MaxFaults
  PROVE  Inv'
BY DEF Inv, TypeOK, ProcOK, RowOK, ReferencesFollow, CreditFollows, Local

-----------------------------------------------------------------------------
(* Each action keeps the invariant.                                        *)

\* A process with a payout in hand, and what it holds of it.
LEMMA InHand ==
  ASSUME Inv, NEW w \in Process, ~At(w, "idle")
  PROVE  /\ P(w) \in Payout /\ proc[w] \in Local /\ row[P(w)] \in Row
         /\ proc[w].ref \in 0..Len(Sent(rail, P(w))) /\ proc[w].ref \in Nat
         /\ row[P(w)].ref \in 0..Len(Sent(rail, P(w)))
         /\ At(w, "confirm") => \E n \in Nat : Credited(rail, P(w), n)
         /\ Amount[P(w)] \in Nat
BY PayoutAssumption DEF Inv, TypeOK, ReferencesFollow, CreditFollows, At, P, Local

\* A process lets go of its payout, or goes on to a step other than confirm.
LEMMA Goes ==
  ASSUME Inv, RailGrows, NEW w \in Process,
         \/ Finish(w)
         \/ ~At(w, "idle") /\ \E step \in Steps \ {"confirm"} : Goto(w, step)
  PROVE  ProcOK'
<1>1. CASE Finish(w)
  <2>1. Idle \in Local /\ Holds(Idle)
    BY DEF Idle, Local, Steps, Holds
  <2> QED
    BY <1>1, <2>1, ProcKept DEF Finish
<1>2. ASSUME NEW step \in Steps \ {"confirm"}, Goto(w, step), ~At(w, "idle")
      PROVE  ProcOK'
  <2> DEFINE new == [proc[w] EXCEPT !.at = step]
  <2>1. new \in Local /\ new.at = step /\ new.payout = P(w) /\ new.ref = proc[w].ref
    BY <1>2, InHand DEF Local, P
  <2>2. proc' = [proc EXCEPT ![w] = new]
    BY <1>2 DEF Goto, Inv, TypeOK
  <2>3. proc[w].ref \in 0..Len(Sent(rail', P(w))) /\ P(w) \in Payout
    <3>1. proc[w].ref \in 0..Len(Sent(rail, P(w))) /\ P(w) \in Payout
      BY <1>2, InHand
    <3>2. Len(Sent(rail, P(w))) \in Nat
      BY <3>1, SentType
    <3> QED
      BY <3>1, <3>2 DEF RailGrows
  <2> HIDE DEF new
  <2>4. Holds(new)
    BY <2>1, <2>3 DEF Holds
  <2> QED
    BY <2>1, <2>2, <2>4, ProcKept
<1> QED
  BY <1>1, <1>2

\* A step that writes neither rows nor books nor rail.
LEMMA QuietInv ==
  ASSUME Inv, UNCHANGED <<row, books, rail, late>>, faults' \in 0..MaxFaults, ProcOK'
  PROVE  Inv'
<1>1. RailGrows /\ RailFollows' /\ rail' \in [RailReference -> Seq(Status)]
  BY RailRests DEF Inv, RailFollows
<1>2. RowOK'
  BY <1>1, RowRests DEF books
<1> QED
  BY <1>1, <1>2, Together DEF Inv, TypeOK, books

\* submit up to the transfer, a refusal, and a process that stops.
LEMMA GoesInv ==
  ASSUME Inv, NEW w \in Process, Enquire(w) \/ Refuse(w) \/ Crash(w)
  PROVE  Inv'
<1>1. UNCHANGED <<row, books, rail, late>>
  BY DEF Enquire, Refuse, Crash
<1>2. faults' \in 0..MaxFaults
  BY FaultType DEF Inv, TypeOK, Enquire, Refuse, Crash
<1>3. \/ Finish(w)
      \/ ~At(w, "idle") /\ \E step \in Steps \ {"confirm"} : Goto(w, step)
  BY DEF Enquire, Refuse, Crash, Steps, At
<1>4. RailGrows
  BY <1>1, RailRests DEF Inv, RailFollows
<1> QED
  BY <1>1, <1>2, <1>3, <1>4, Goes, QuietInv

\* A payout is picked up: claimed, chased or abandoned.
LEMMA PickInv ==
  ASSUME Inv, NEW w \in Process, NEW p \in Payout,
         \/ Claim(w, p) \/ PickStale(w, p) \/ Abandon(w, p)
  PROVE  Inv'
<1>1. RailGrows /\ RailFollows' /\ rail' \in [RailReference -> Seq(Status)]
  <2>1. UNCHANGED <<rail, late>>
    BY DEF Claim, PickStale, Abandon
  <2> QED
    BY <2>1, RailRests DEF Inv, RailFollows
<1>2. row[p] \in Row /\ row[p].ref \in 0..Len(Sent(rail', p)) /\ row[p].attempts \in Nat
        /\ row[p].ref \in Nat /\ 0 \in 0..Len(Sent(rail', p))
  <2>1. row[p] \in Row /\ row[p].ref \in 0..Len(Sent(rail, p)) /\ Len(Sent(rail, p)) \in Nat
    BY SentType DEF Inv, TypeOK, ReferencesFollow
  <2> QED
    BY <1>1, <2>1 DEF RailGrows, Row
<1>3. PICK new \in Local : /\ proc' = [proc EXCEPT ![w] = new]
                           /\ new.at # "confirm" /\ new.payout = p
                           /\ new.ref \in {0, row[p].ref}
  <2>1. CASE Claim(w, p)
    <3> DEFINE new == [at |-> "enquire", payout |-> p, attempts |-> row[p].attempts + 1, ref |-> 0]
    <3>1. new \in Local
      BY <1>2 DEF Local, Steps
    <3> QED
      BY <2>1, <3>1 DEF Claim
  <2>2. CASE PickStale(w, p)
    <3> DEFINE new == [at |-> "chase", payout |-> p, attempts |-> row[p].attempts, ref |-> row[p].ref]
    <3>1. new \in Local
      BY <1>2 DEF Local, Steps
    <3> QED
      BY <2>2, <3>1 DEF PickStale
  <2>3. CASE Abandon(w, p)
    <3> DEFINE new == [at |-> "fail", payout |-> p, attempts |-> row[p].attempts, ref |-> 0]
    <3>1. new \in Local
      BY <1>2 DEF Local, Steps
    <3> QED
      BY <2>3, <3>1 DEF Abandon
  <2> QED
    BY <2>1, <2>2, <2>3
<1>4. ProcOK'
  <2>1. Holds(new)
    BY <1>2, <1>3 DEF Holds
  <2> QED
    BY <1>1, <1>3, <2>1, ProcKept
<1>5. RowOK'
  <2>1. CASE Claim(w, p)
    <3> DEFINE r == [row[p] EXCEPT !.state = "submitting", !.attempts = @ + 1]
    <3>1. r \in Row /\ r.state = "submitting" /\ r.ref = row[p].ref
      <4>1. row[p].attempts + 1 \in Nat
        BY <1>2
      <4> QED
        BY <1>2, <4>1 DEF Row, Waiting
    <3>2. row' = [row EXCEPT ![p] = r]
      BY <2>1 DEF Claim, Inv, TypeOK
    <3>3. UNCHANGED <<settled, returned>>
      BY <2>1 DEF Claim, books
    <3> HIDE DEF r
    <3> QED
      BY <1>1, <1>2, <3>1, <3>2, <3>3, RowKept
  <2>2. CASE ~Claim(w, p)
    BY <1>1, <2>2, RowRests DEF PickStale, Abandon, books
  <2> QED
    BY <2>1, <2>2
<1>6. UNCHANGED <<payable, settled, returned, late, faults>>
  BY DEF Claim, PickStale, Abandon, books
<1> QED
  BY <1>1, <1>4, <1>5, <1>6, Together DEF Inv, TypeOK

\* A row is written with a state that is not final, and the process lets go.
LEMMA MarkInv ==
  ASSUME Inv, NEW w \in Process,
         MarkSent(w) \/ MarkUnknown(w) \/ MarkTemporary(w) \/ SendAgain(w)
  PROVE  Inv'
<1>1. UNCHANGED <<books, rail, late, faults>> /\ ~At(w, "idle")
  BY DEF MarkSent, MarkUnknown, MarkTemporary, SendAgain, At
<1>2. RailGrows /\ RailFollows' /\ rail' \in [RailReference -> Seq(Status)]
  BY <1>1, RailRests DEF Inv, RailFollows
<1>3. ProcOK'
  <2>1. \/ Finish(w)
        \/ ~At(w, "idle") /\ \E step \in Steps \ {"confirm"} : Goto(w, step)
    BY <1>1 DEF MarkSent, MarkUnknown, MarkTemporary, SendAgain, Steps
  <2> QED
    BY <1>2, <2>1, Goes
<1>4. RowOK'
  <2>1. CASE UNCHANGED row
    BY <1>1, <1>2, <2>1, RowRests DEF books
  <2>2. CASE ~UNCHANGED row
    <3>1. PICK st \in {"sent", "unknown", "pending"}, ref \in {proc[w].ref, row[P(w)].ref} :
            row' = [row EXCEPT ![P(w)] = [@ EXCEPT !.state = st, !.ref = ref]]
      <4>1. row \in [Payout -> Row] /\ row[P(w)] \in Row
        BY <1>1, InHand DEF Inv, TypeOK
      <4>2. CASE MarkSent(w)
        BY <4>1, <4>2 DEF MarkSent
      <4>3. CASE MarkUnknown(w)
        <5>1. row' = [row EXCEPT ![P(w)] = [@ EXCEPT !.state = "unknown"]]
          BY <4>3 DEF MarkUnknown
        <5>2. [row[P(w)] EXCEPT !.state = "unknown"]
                = [row[P(w)] EXCEPT !.state = "unknown", !.ref = row[P(w)].ref]
          BY <4>1 DEF Row
        <5> QED
          BY <4>1, <5>1, <5>2
      <4>4. CASE MarkTemporary(w) \/ SendAgain(w)
        <5>1. row' = [row EXCEPT ![P(w)] = [@ EXCEPT !.state = "pending"]]
          BY <2>2, <4>4 DEF MarkTemporary, SendAgain
        <5>2. [row[P(w)] EXCEPT !.state = "pending"]
                = [row[P(w)] EXCEPT !.state = "pending", !.ref = row[P(w)].ref]
          BY <4>1 DEF Row
        <5> QED
          BY <4>1, <5>1, <5>2
      <4> QED
        BY <4>2, <4>3, <4>4
    <3> DEFINE r == [row[P(w)] EXCEPT !.state = st, !.ref = ref]
    <3>2. /\ P(w) \in Payout /\ ref \in 0..Len(Sent(rail', P(w))) /\ ref \in Nat
          /\ row[P(w)] \in Row
      <4>1. /\ P(w) \in Payout /\ proc[w].ref \in 0..Len(Sent(rail, P(w)))
            /\ row[P(w)].ref \in 0..Len(Sent(rail, P(w))) /\ row[P(w)] \in Row
        BY <1>1, InHand
      <4>2. Sent(rail', P(w)) = Sent(rail, P(w)) /\ Len(Sent(rail, P(w))) \in Nat
        BY <1>1, <4>1, SentType DEF Sent
      <4> QED
        BY <4>1, <4>2
    <3>3. r \in Row /\ r.state = st /\ r.ref = ref
      BY <3>2 DEF Row, Waiting
    <3>4. row' = [row EXCEPT ![P(w)] = r]
      BY <3>1
    <3>5. UNCHANGED <<settled, returned>>
      BY <1>1 DEF books
    <3> HIDE DEF r
    <3> QED
      BY <1>2, <3>2, <3>3, <3>4, <3>5, RowKept
  <2> QED
    BY <2>1, <2>2
<1> QED
  BY <1>1, <1>2, <1>3, <1>4, Together DEF Inv, TypeOK, books

\* Worker.Open.
LEMMA OpenInv ==
  ASSUME Inv, NEW p \in Payout, Open(p)
  PROVE  Inv'
<1>1. UNCHANGED <<settled, returned, rail, late, proc, faults>>
  BY DEF Open
<1>2. RailGrows /\ RailFollows' /\ rail' \in [RailReference -> Seq(Status)]
  BY <1>1, RailRests DEF Inv, RailFollows
<1>3. ProcOK'
  BY <1>1, ProcHolds DEF ProcOK, At, P
<1>4. RowOK'
  <2> DEFINE r == [row[p] EXCEPT !.state = "pending"]
  <2>1. row[p] \in Row
    BY DEF Inv, TypeOK
  <2>2. r \in Row /\ r.state = "pending" /\ r.ref = row[p].ref
    BY <2>1 DEF Row
  <2>3. row' = [row EXCEPT ![p] = r]
    BY DEF Open
  <2>4. row[p].ref \in 0..Len(Sent(rail', p))
    BY <1>1 DEF Inv, ReferencesFollow
  <2> HIDE DEF r
  <2> QED
    BY <1>1, <1>2, <2>2, <2>3, <2>4, RowKept
<1>5. payable' \in Int
  <2>1. payable' = payable + Amount[p] /\ Amount[p] \in Nat
    BY PayoutAssumption DEF Open
  <2> QED
    BY <2>1 DEF Inv, TypeOK
<1> QED
  BY <1>1, <1>2, <1>3, <1>4, <1>5, Together DEF Inv, TypeOK

\* confirm discharges a payout that has been credited.
LEMMA ConfirmInv ==
  ASSUME Inv, NEW w \in Process, Confirm(w)
  PROVE  Inv'
<1>1. At(w, "confirm") /\ Finish(w) /\ UNCHANGED <<returned, rail, late, faults>>
  BY DEF Confirm
<1>2. RailGrows /\ RailFollows' /\ rail' \in [RailReference -> Seq(Status)]
  BY <1>1, RailRests DEF Inv, RailFollows
<1>3. ProcOK'
  BY <1>1, <1>2, Goes
<1>4. /\ P(w) \in Payout /\ proc[w] \in Local /\ row[P(w)] \in Row
      /\ proc[w].ref \in 0..Len(Sent(rail, P(w))) /\ proc[w].ref \in Nat
      /\ row[P(w)].ref \in 0..Len(Sent(rail, P(w)))
      /\ \E n \in Nat : Credited(rail, P(w), n)
      /\ Amount[P(w)] \in Nat
  BY <1>1, InHand DEF At
<1>5. CASE P(w) \in settled
  <2>1. UNCHANGED <<settled, payable, row>>
    BY <1>5 DEF Confirm
  <2> QED
    BY <1>1, <1>2, <1>3, <2>1, RowRests, Together DEF Inv, TypeOK
<1>6. CASE P(w) \notin settled
  <2> DEFINE ref == IF row[P(w)].ref = 0 THEN proc[w].ref ELSE row[P(w)].ref
             r == [row[P(w)] EXCEPT !.state = "confirmed", !.ref = ref]
  <2>1. settled' = settled \cup {P(w)} /\ payable' = payable - Amount[P(w)]
    BY <1>6 DEF Confirm
  <2>2. ref \in Nat /\ ref \in 0..Len(Sent(rail, P(w)))
    BY <1>4 DEF Row
  <2>3. row' = [row EXCEPT ![P(w)].state = "confirmed", ![P(w)].ref = ref]
    BY <1>4, <1>6 DEF Confirm, Inv, TypeOK
  <2> HIDE DEF ref
  <2>4. r \in Row /\ r.state = "confirmed" /\ r.ref = ref
    BY <1>4, <2>2 DEF Row
  <2>5. row' = [row EXCEPT ![P(w)] = r]
    BY <1>4, <2>3 DEF Inv, TypeOK
  <2>6. ref \in 0..Len(Sent(rail', P(w)))
    BY <1>1, <2>2
  <2> HIDE DEF r
  <2>7. RowOK'
    BY <1>1, <1>2, <1>4, <2>1, <2>4, <2>5, <2>6, RowKept
  <2>8. payable' \in Int /\ settled' \subseteq Payout
    BY <1>4, <2>1 DEF Inv, TypeOK
  <2> QED
    BY <1>1, <1>2, <1>3, <2>7, <2>8, Together DEF Inv, TypeOK
<1> QED
  BY <1>5, <1>6

\* fail returns a payout, whatever its row says by now.
LEMMA FailInv ==
  ASSUME Inv, NEW w \in Process, Fail(w)
  PROVE  Inv'
<1>1. At(w, "fail") /\ Finish(w) /\ UNCHANGED <<settled, rail, late, faults>>
  BY DEF Fail
<1>2. RailGrows /\ RailFollows' /\ rail' \in [RailReference -> Seq(Status)]
  BY <1>1, RailRests DEF Inv, RailFollows
<1>3. ProcOK'
  BY <1>1, <1>2, Goes
<1>4. /\ P(w) \in Payout /\ row[P(w)] \in Row
      /\ row[P(w)].ref \in 0..Len(Sent(rail, P(w)))
      /\ Amount[P(w)] \in Nat
  BY <1>1, InHand DEF At
<1>5. CASE ~Returnable(P(w))
  <2>1. UNCHANGED <<returned, payable, row>>
    BY <1>5 DEF Fail
  <2> QED
    BY <1>1, <1>2, <1>3, <2>1, RowRests, Together DEF Inv, TypeOK
<1>6. CASE Returnable(P(w))
  <2>1. returned' = returned \cup {P(w)} /\ payable' = payable - Amount[P(w)]
    BY <1>6 DEF Fail
  <2>2. PICK r \in Row : /\ row' = [row EXCEPT ![P(w)] = r] /\ r.ref = row[P(w)].ref
                         /\ r.state = "failed" \/ r.state = row[P(w)].state
    <3>1. CASE row[P(w)].state \in {"confirmed", "failed"}
      <4>1. row' = [row EXCEPT ![P(w)] = row[P(w)]]
        BY <1>4, <1>6, <3>1 DEF Fail, Inv, TypeOK
      <4> QED
        BY <1>4, <4>1
    <3>2. CASE row[P(w)].state \notin {"confirmed", "failed"}
      <4> DEFINE r == [row[P(w)] EXCEPT !.state = "failed"]
      <4>1. row' = [row EXCEPT ![P(w)] = r]
        BY <1>4, <1>6, <3>2 DEF Fail, Inv, TypeOK
      <4>2. r \in Row /\ r.ref = row[P(w)].ref /\ r.state = "failed"
        BY <1>4 DEF Row
      <4> QED
        BY <4>1, <4>2
    <3> QED
      BY <3>1, <3>2
  <2>3. RowOK'
    <3>1. r.ref \in 0..Len(Sent(rail', P(w)))
      BY <1>1, <1>4, <2>2
    <3>2. r.state = "confirmed" => P(w) \in settled'
      BY <1>1, <1>4, <2>2 DEF Inv, FinalStateIsBooked
    <3> QED
      BY <1>1, <1>2, <1>4, <2>1, <2>2, <3>1, <3>2, RowKept
  <2>4. payable' \in Int /\ returned' \subseteq Payout
    BY <1>4, <2>1 DEF Inv, TypeOK
  <2> QED
    BY <1>1, <1>2, <1>3, <2>3, <2>4, Together DEF Inv, TypeOK
<1> QED
  BY <1>5, <1>6

\* A process holds what the provider told it of its payout.
LEMMA Learns ==
  ASSUME Inv, RailGrows, NEW w \in Process, ~At(w, "idle"),
         NEW step \in Steps, NEW ref \in Nat,
         proc' = [proc EXCEPT ![w].at = step, ![w].ref = ref],
         ref \in 0..Len(Sent(rail', P(w))),
         step = "confirm" => Credited(rail', P(w), ref)
  PROVE  ProcOK'
<1> DEFINE new == [proc[w] EXCEPT !.at = step, !.ref = ref]
<1>1. P(w) \in Payout /\ proc[w] \in Local
  BY InHand
<1>2. new \in Local /\ new.at = step /\ new.payout = P(w) /\ new.ref = ref
  BY <1>1 DEF Local, P
<1>3. proc' = [proc EXCEPT ![w] = new]
  BY DEF Inv, TypeOK
<1> HIDE DEF new
<1>4. Holds(new)
  BY <1>1, <1>2 DEF Holds
<1> QED
  BY <1>2, <1>3, <1>4, ProcKept

\* The provider takes a request, answered or not, early or late; or decides.
LEMMA RailInv ==
  ASSUME Inv, \/ \E w \in Process : Transfer(w) \/ NoAnswer(w)
              \/ \E k \in RailReference : RailDecides(k) \/ ArriveLate(k)
  PROVE  Inv'
<1>1. ASSUME RailGrows, RailFollows', rail' \in [RailReference -> Seq(Status)], ProcOK',
             UNCHANGED <<row, books>>, late' \subseteq RailReference, faults' \in 0..MaxFaults
      PROVE  Inv'
  BY <1>1, RowRests, Together DEF Inv, TypeOK, books
<1>2. ASSUME NEW w \in Process, Transfer(w)
      PROVE  Inv'
  <2>1. P(w) \in Payout /\ ~At(w, "idle")
    BY <1>2, InHand DEF Transfer, At
  <2>2. PICK q \in Taken(rail[<<P(w), 0>>]) :
          /\ rail' = [rail EXCEPT ![<<P(w), 0>>] = q]
          /\ proc' = [proc EXCEPT ![w].at = AfterAnswer(Last(q)), ![w].ref = Len(q)]
    BY <1>2 DEF Transfer, Asked, Reference
  <2>3. Sends(P(w), q)
    BY <2>2 DEF Sends, Sent
  <2>4. UNCHANGED <<row, books, late, faults>>
    BY <1>2 DEF Transfer
  <2>5. RailGrows /\ RailFollows' /\ rail' \in [RailReference -> Seq(Status)]
    BY <2>1, <2>3, <2>4, SendsKeep DEF Inv, RailFollows
  <2>6. q \in Seq(Status) /\ Sent(rail', P(w)) = q /\ Len(q) \in Nat
    BY <2>1, <2>3, SendsEffect
  <2>7. q # << >>
    <3>1. Sent(rail, P(w)) \in Seq(Status)
      BY <2>1, SentType
    <3> QED
      BY <2>2, <3>1 DEF Taken, Live, Sent
  <2>8. AfterAnswer(Last(q)) \in Steps
          /\ (AfterAnswer(Last(q)) = "confirm" => Credited(rail', P(w), Len(q)))
    <3>1. AfterAnswer(Last(q)) \in Steps
      BY DEF AfterAnswer, Steps
    <3>2. AfterAnswer(Last(q)) = "confirm" => Last(q) = "success"
      BY DEF AfterAnswer
    <3>3. Len(q) \in 1..Len(q)
      BY <2>6, <2>7
    <3> QED
      BY <2>6, <3>1, <3>2, <3>3 DEF Credited, Last
  <2>9. ProcOK'
    <3> DEFINE step == AfterAnswer(Last(q))
               ref == Len(q)
    <3>1. ref \in 0..Len(Sent(rail', P(w))) /\ ref \in Nat
      BY <2>6
    <3>2. proc' = [proc EXCEPT ![w].at = step, ![w].ref = ref]
      BY <2>2
    <3>3. step \in Steps /\ (step = "confirm" => Credited(rail', P(w), ref))
      BY <2>8
    <3> HIDE DEF step, ref
    <3> QED
      BY <2>1, <2>5, <3>1, <3>2, <3>3, Learns
  <2> QED
    BY <1>1, <2>4, <2>5, <2>9 DEF Inv, TypeOK
<1>3. ASSUME NEW w \in Process, NoAnswer(w)
      PROVE  Inv'
  <2>1. P(w) \in Payout /\ ~At(w, "idle")
    BY <1>3, InHand DEF NoAnswer, At
  <2>2. UNCHANGED <<row, books>> /\ (\E step \in {"timeout", "temporary", "fail"} : Goto(w, step)) /\ Fault
    BY <1>3 DEF NoAnswer
  <2>3. late' \in {late, late \cup {<<P(w), 0>>}}
    BY <1>3 DEF NoAnswer, Asked, Reference
  <2>4. late' \subseteq RailReference /\ \A k \in late' : k[2] = 0
    BY <2>1, <2>3, FirstReference DEF Inv, TypeOK, RailFollows
  <2>5. UNCHANGED rail \/ \E q \in Taken(rail[<<P(w), 0>>]) : rail' = [rail EXCEPT ![<<P(w), 0>>] = q]
    BY <1>3 DEF NoAnswer, Asked, Reference
  <2>6. UNCHANGED rail \/ \E q : Sends(P(w), q)
    BY <2>5 DEF Sends, Sent
  <2>7. RailGrows /\ RailFollows' /\ rail' \in [RailReference -> Seq(Status)]
    BY <2>1, <2>4, <2>6, SendsKeep, RailRests
  <2>8. ProcOK'
    BY <2>1, <2>2, <2>7, Goes DEF Steps
  <2>9. faults' \in 0..MaxFaults
    BY <2>2, FaultType DEF Inv
  <2> QED
    BY <1>1, <2>2, <2>4, <2>7, <2>8, <2>9
<1>4. ASSUME NEW k \in RailReference, RailDecides(k) \/ ArriveLate(k)
      PROVE  Inv'
  <2>1. late' \subseteq late /\ UNCHANGED <<row, books, proc, faults>>
    BY <1>4 DEF RailDecides, ArriveLate
  <2>2. PICK p \in Payout : k = <<p, 0>>
    <3>1. k[2] = 0
      BY <1>4 DEF RailDecides, ArriveLate, Inv, RailFollows
    <3> QED
      BY <3>1 DEF RailReference
  <2>3. \E q : Sends(p, q)
    <3>1. CASE ArriveLate(k)
      BY <2>2, <3>1 DEF ArriveLate, Sends, Sent
    <3>2. CASE RailDecides(k)
      <4>1. PICK st \in {"success", "failed"} : rail' = [rail EXCEPT ![k][Len(rail[k])] = st]
        BY <3>2 DEF RailDecides
      <4> DEFINE q == [rail[k] EXCEPT ![Len(rail[k])] = st]
      <4>2. rail' = [rail EXCEPT ![k] = q]
        BY <4>1 DEF Inv, TypeOK
      <4>3. Sends(p, q)
        BY <2>2, <3>2, <4>2 DEF RailDecides, Sends, Sent
      <4> QED
        BY <4>3
    <3> QED
      BY <1>4, <3>1, <3>2
  <2>4. RailGrows /\ RailFollows' /\ rail' \in [RailReference -> Seq(Status)]
    BY <2>1, <2>3, SendsKeep DEF Inv, RailFollows
  <2>5. ProcOK'
    <3>1. ASSUME NEW w \in Process, ~At(w, "idle")
          PROVE  /\ proc[w].ref \in 0..Len(Sent(rail', P(w)))
                 /\ At(w, "confirm") => \E n \in Nat : Credited(rail', P(w), n)
      <4>1. /\ P(w) \in Payout /\ proc[w].ref \in 0..Len(Sent(rail, P(w)))
            /\ At(w, "confirm") => \E n \in Nat : Credited(rail, P(w), n)
        BY <3>1, InHand
      <4>2. Len(Sent(rail, P(w))) \in Nat
        BY <4>1, SentType
      <4> QED
        BY <2>4, <4>1, <4>2 DEF RailGrows
    <3>2. \A w \in Process : At(w, "confirm") => ~At(w, "idle")
      BY DEF At
    <3> QED
      BY <2>1, <3>1, <3>2, ProcHolds DEF ProcOK, At, P
  <2> QED
    BY <1>1, <2>1, <2>4, <2>5 DEF Inv, TypeOK
<1> QED
  BY <1>2, <1>3, <1>4

\* What the provider answers of a transfer it knows.
LEMMA ChaseInv ==
  ASSUME Inv, NEW w \in Process, ChaseAnswered(w)
  PROVE  Inv'
<1> DEFINE st == rail[<<P(w), 0>>][proc[w].ref]
<1>1. /\ At(w, "chase") /\ proc[w].ref > 0 /\ UNCHANGED <<row, books, rail, late, faults>>
      /\ IF st = "pending" THEN Finish(w) ELSE Goto(w, AfterAnswer(st))
  BY DEF ChaseAnswered, Asked, Reference
<1>2. RailGrows
  BY <1>1, RailRests DEF Inv, RailFollows
<1>3. P(w) \in Payout /\ proc[w].ref \in 0..Len(Sent(rail, P(w))) /\ ~At(w, "idle")
        /\ proc[w].ref \in Nat /\ proc[w] \in Local
  BY <1>1, InHand DEF At
<1>4. CASE Finish(w)
  BY <1>1, <1>2, <1>4, Goes, QuietInv DEF Inv, TypeOK
<1>5. CASE Goto(w, AfterAnswer(st))
  <2>1. AfterAnswer(st) \in Steps
    BY DEF AfterAnswer, Steps
  <2>2. AfterAnswer(st) = "confirm" => Credited(rail', P(w), proc[w].ref)
    <3>1. proc[w].ref \in 1..Len(Sent(rail, P(w)))
      <4>1. Len(Sent(rail, P(w))) \in Nat
        BY <1>3, SentType
      <4> QED
        BY <1>1, <1>3, <4>1
    <3>2. AfterAnswer(st) = "confirm" => st = "success"
      BY DEF AfterAnswer
    <3> QED
      BY <1>1, <3>1, <3>2 DEF Credited, Sent
  <2> DEFINE step == AfterAnswer(st)
  <2> HIDE DEF step, st
  <2>3. proc' = [proc EXCEPT ![w].at = step, ![w].ref = proc[w].ref]
    <3>1. proc' = [proc EXCEPT ![w] = [proc[w] EXCEPT !.at = step]]
      BY <1>5 DEF Goto, step
    <3>2. [proc[w] EXCEPT !.at = step] = [proc[w] EXCEPT !.at = step, !.ref = proc[w].ref]
      BY <1>3 DEF Local
    <3> QED
      BY <3>1, <3>2
  <2>4. proc[w].ref \in 0..Len(Sent(rail', P(w)))
    BY <1>1, <1>3
  <2>5. ProcOK'
    BY <1>2, <1>3, <2>1, <2>2, <2>3, <2>4, Learns DEF step
  <2> QED
    BY <1>1, <2>5, QuietInv DEF Inv, TypeOK
<1> QED
  BY <1>1, <1>4, <1>5

-----------------------------------------------------------------------------
\* The invariant holds at the start.
LEMMA InitInv == Init => Inv
<1> SUFFICES ASSUME Init PROVE Inv
  OBVIOUS
<1>1. TypeOK
  <2>1. row \in [Payout -> Row]
    BY DEF Init, Row
  <2>2. rail \in [RailReference -> Seq(Status)]
    BY DEF Init
  <2>3. proc \in [Process -> Local] /\ 0 \in 0..MaxFaults
    BY PayoutAssumption DEF Init, Idle, Local, Steps
  <2> QED
    BY <2>1, <2>2, <2>3 DEF Init, TypeOK, Idle, Local
<1>2. \A p \in Payout : Sent(rail, p) = << >>
  BY FirstReference DEF Init, Sent
<1>3. RailFollows
  BY <1>2 DEF Init, RailFollows
<1>4. ReferencesFollow
  BY <1>2 DEF Init, ReferencesFollow, At, Idle
<1>5. CreditFollows /\ FinalStateIsBooked
  BY DEF Init, CreditFollows, FinalStateIsBooked, At, Idle
<1> QED
  BY <1>1, <1>3, <1>4, <1>5 DEF Inv

\* Every step keeps the invariant.
LEMMA NextInv == Inv /\ [Next]_vars => Inv'
<1> SUFFICES ASSUME Inv, [Next]_vars PROVE Inv'
  OBVIOUS
<1>1. CASE UNCHANGED vars
  BY <1>1 DEF vars, books, Inv, TypeOK, RailFollows, ReferencesFollow, CreditFollows,
              FinalStateIsBooked, At, P
<1>2. Worker \subseteq Process /\ Operator \subseteq Process
  BY DEF Process
<1>3. ASSUME NEW w \in Worker, \/ Submit(w) \/ Record(w) \/ Chase(w)
                               \/ \E p \in Payout : Claim(w, p) \/ PickStale(w, p)
      PROVE  Inv'
  BY <1>2, <1>3, GoesInv, RailInv, ConfirmInv, MarkInv, ChaseInv, PickInv
     DEF Submit, Record, Chase
<1>4. ASSUME NEW o \in Operator, NEW p \in Payout, Abandon(o, p)
      PROVE  Inv'
  BY <1>2, <1>4, PickInv
<1>5. ASSUME NEW w \in Process, Fail(w) \/ Crash(w)
      PROVE  Inv'
  BY <1>5, FailInv, GoesInv
<1> QED
  BY <1>1, <1>3, <1>4, <1>5, OpenInv, RailInv DEF Next

\* The invariant holds throughout.
LEMMA Invariance == Spec => []Inv
BY InitInv, NextInv, PTL DEF Spec

-----------------------------------------------------------------------------
\* Every row, balance, transfer and local is well typed, for any constants.
THEOREM TypeCorrect == Spec => []TypeOK
<1>1. Inv => TypeOK
  BY DEF Inv
<1> QED
  BY <1>1, Invariance, PTL

\* A transfer delivered is one credited under the payout's own reference.
LEMMA DeliveredIs ==
  ASSUME Inv, NEW p \in Payout
  PROVE  \A d : d \in Delivered(p) <=> \E n \in Nat : d = << <<p, 0>>, n>> /\ Credited(rail, p, n)
<1>1. Sent(rail, p) \in Seq(Status) /\ Len(Sent(rail, p)) \in Nat /\ <<p, 0>> \in RailReference
  BY SentType, FirstReference
<1>2. ASSUME NEW d \in Delivered(p)
      PROVE  \E n \in Nat : d = << <<p, 0>>, n>> /\ Credited(rail, p, n)
  <2>1. PICK k \in RailReference :
          /\ k[1] = p /\ rail[k] # << >>
          /\ d \in {<<k, g>> : g \in {n \in 1..Len(rail[k]) : rail[k][n] = "success"}}
    BY <1>2 DEF Delivered
  <2>2. k = <<p, 0>>
    BY <2>1 DEF Inv, RailFollows, RailReference
  <2>3. PICK n \in 1..Len(rail[k]) : d = <<k, n>> /\ rail[k][n] = "success"
    BY <2>1
  <2>4. n \in Nat
    BY <1>1, <2>2 DEF Sent
  <2> QED
    BY <2>2, <2>3, <2>4 DEF Credited, Sent
<1>3. ASSUME NEW n \in Nat, Credited(rail, p, n)
      PROVE  << <<p, 0>>, n>> \in Delivered(p)
  <2>1. rail[<<p, 0>>] # << >> /\ n \in 1..Len(rail[<<p, 0>>]) /\ rail[<<p, 0>>][n] = "success"
    BY <1>1, <1>3 DEF Credited, Sent
  <2>2. <<p, 0>>[1] = p
    OBVIOUS
  <2> QED
    BY <1>1, <2>1, <2>2 DEF Delivered
<1> QED
  BY <1>2, <1>3

\* "A payout is discharged when the PROVIDER CONFIRMS the credit", whatever
\* was lost, late or sent again (settlement.go).
THEOREM Discharged == Spec => []DischargedIsDelivered
<1>1. Inv => DischargedIsDelivered
  <2> SUFFICES ASSUME Inv, NEW p \in settled PROVE Delivered(p) # {}
    BY DEF DischargedIsDelivered
  <2>1. p \in Payout /\ \E n \in Nat : Credited(rail, p, n)
    BY DEF Inv, TypeOK, CreditFollows
  <2> QED
    BY <2>1, DeliveredIs
<1> QED
  BY <1>1, Invariance, PTL

\* However often a payout is sent again, its bank account is credited once.
THEOREM Once == Spec => []DeliveredOnce
<1>1. Inv => DeliveredOnce
  <2> SUFFICES ASSUME Inv, NEW p \in Payout, NEW d \in Delivered(p), NEW e \in Delivered(p)
               PROVE  d = e
    BY DEF DeliveredOnce
  <2>1. PICK m \in Nat : d = << <<p, 0>>, m>> /\ Credited(rail, p, m)
    BY DeliveredIs
  <2>2. PICK n \in Nat : e = << <<p, 0>>, n>> /\ Credited(rail, p, n)
    BY DeliveredIs
  <2>3. \A i \in 1..Len(Sent(rail, p)) : i < Len(Sent(rail, p)) => Sent(rail, p)[i] = "failed"
    BY DEF Inv, RailFollows
  <2>4. m = Len(Sent(rail, p)) /\ n = Len(Sent(rail, p))
    BY <2>1, <2>2, <2>3, SentType DEF Credited
  <2> QED
    BY <2>1, <2>2, <2>4
<1> QED
  BY <1>1, Invariance, PTL

\* A confirmed row has been discharged and a failed one returned, through
\* every race of workers and operators (confirm, fail).
THEOREM FinalBooked == Spec => []FinalStateIsBooked
<1>1. Inv => FinalStateIsBooked
  BY DEF Inv
<1> QED
  BY <1>1, Invariance, PTL

-----------------------------------------------------------------------------
(* One worker.                                                             *)

\* What the worker has in hand is not confirmed: only it confirms.
HeldIsOpen(w) == ~At(w, "idle") => row[P(w)].state # "confirmed"

\* Each step of anybody leaves a confirmed payout confirmed, and the worker
\* with an open one.
LEMMA OneWorker ==
  ASSUME NEW w, Worker = {w}, Inv, HeldIsOpen(w), [Next]_vars
  PROVE  /\ HeldIsOpen(w)'
         /\ \A p \in Payout : row[p].state = "confirmed" => row'[p].state = "confirmed"
<1> DEFINE Kept == \A p \in Payout : row[p].state = "confirmed" => row'[p].state = "confirmed"
<1>1. w \in Process /\ row \in [Payout -> Row] /\ proc \in [Process -> Local]
  BY DEF Process, Inv, TypeOK, Local
<1>2. ASSUME NEW v \in Process \ {w}, Fail(v) \/ Crash(v) \/ \E p \in Payout : Abandon(v, p)
      PROVE  HeldIsOpen(w)' /\ Kept
  <2>1. proc'[w] = proc[w]
    BY <1>1, <1>2 DEF Fail, Crash, Abandon, Finish
  <2>2. ~At(w, "idle") => P(w) \in Payout
    BY <1>1, InHand
  <2>3. \A p \in Payout : \/ row'[p].state = row[p].state
                          \/ row[p].state # "confirmed" /\ row'[p].state = "failed"
    <3>1. CASE UNCHANGED row
      BY <3>1
    <3>2. CASE ~UNCHANGED row
      <4>1. /\ P(v) \in Payout /\ row[P(v)].state # "confirmed"
            /\ row' = [row EXCEPT ![P(v)].state = "failed"]
        <5>1. Fail(v) /\ ~At(v, "idle")
          BY <1>2, <3>2 DEF Fail, Crash, Abandon, At
        <5> QED
          BY <3>2, <5>1, InHand DEF Fail
      <4> QED
        BY <1>1, <4>1 DEF Row
    <3> QED
      BY <3>1, <3>2
  <2> QED
    BY <2>1, <2>2, <2>3 DEF HeldIsOpen, At, P
<1>3. ASSUME UNCHANGED <<row, proc>>
      PROVE  HeldIsOpen(w)' /\ Kept
  BY <1>3 DEF HeldIsOpen, At, P
<1>4. ASSUME NEW p \in Payout, Claim(w, p) \/ PickStale(w, p)
      PROVE  HeldIsOpen(w)' /\ Kept
  <2>1. /\ row[p].state \in {"pending"} \cup Waiting /\ proc'[w].payout = p
        /\ \A u \in Payout : \/ row'[u].state = row[u].state
                             \/ u = p /\ row'[u].state = "submitting"
    <3>1. CASE Claim(w, p)
      BY <1>1, <3>1 DEF Claim, Row
    <3>2. CASE PickStale(w, p)
      BY <1>1, <3>2 DEF PickStale
    <3> QED
      BY <1>4, <3>1, <3>2
  <2> QED
    BY <2>1 DEF HeldIsOpen, At, P, Waiting
<1>5. ASSUME NEW p \in Payout, Open(p)
      PROVE  HeldIsOpen(w)' /\ Kept
  <2>1. /\ UNCHANGED proc
        /\ \A u \in Payout : \/ row'[u].state = row[u].state
                             \/ row[u].state = "none" /\ row'[u].state = "pending"
    BY <1>1, <1>5 DEF Open, Row
  <2>2. ~At(w, "idle") => P(w) \in Payout
    BY <1>1, InHand
  <2> QED
    BY <2>1, <2>2 DEF HeldIsOpen, At, P
<1>6. ASSUME ~At(w, "idle"), proc'[w].payout = P(w), UNCHANGED row
      PROVE  HeldIsOpen(w)' /\ Kept
  BY <1>6 DEF HeldIsOpen, At, P
<1>7. ASSUME ~At(w, "idle"), Finish(w),
             \A p \in Payout \ {P(w)} : row'[p] = row[p]
      PROVE  HeldIsOpen(w)' /\ Kept
  <2>1. proc'[w].at = "idle"
    BY <1>1, <1>7 DEF Finish, Idle
  <2>2. row[P(w)].state # "confirmed"
    BY <1>7 DEF HeldIsOpen
  <2> QED
    BY <1>7, <2>1, <2>2 DEF HeldIsOpen, At
<1>8. ASSUME Enquire(w) \/ Refuse(w) \/ Transfer(w) \/ NoAnswer(w) \/ ChaseAnswered(w)
      PROVE  HeldIsOpen(w)' /\ Kept
  <2>1. ~At(w, "idle") /\ UNCHANGED row
    BY <1>8 DEF Enquire, Refuse, Transfer, NoAnswer, ChaseAnswered, At
  <2>2. proc'[w].payout = P(w) \/ Finish(w)
    BY <1>1, <1>8 DEF Enquire, Refuse, Transfer, NoAnswer, ChaseAnswered, Goto, P, Local
  <2> QED
    BY <1>6, <1>7, <2>1, <2>2
<1>9. ASSUME \/ Confirm(w) \/ MarkSent(w) \/ MarkUnknown(w) \/ MarkTemporary(w) \/ SendAgain(w)
             \/ Fail(w) \/ Crash(w)
      PROVE  HeldIsOpen(w)' /\ Kept
  <2>1. ~At(w, "idle")
    BY <1>9 DEF Confirm, MarkSent, MarkUnknown, MarkTemporary, SendAgain, Fail, Crash, At
  <2>2. \A p \in Payout \ {P(w)} : row'[p] = row[p]
    BY <1>1, <1>9 DEF Confirm, MarkSent, MarkUnknown, MarkTemporary, SendAgain, Fail, Crash
  <2>3. Finish(w) \/ (Goto(w, "fail") /\ UNCHANGED row)
    BY <1>9 DEF Confirm, MarkSent, MarkUnknown, MarkTemporary, SendAgain, Fail, Crash
  <2>4. Goto(w, "fail") => proc'[w].payout = P(w)
    BY <1>1 DEF Goto, P, Local
  <2> QED
    BY <1>6, <1>7, <2>1, <2>2, <2>3, <2>4
<1>10. ASSUME NEW k \in RailReference, RailDecides(k) \/ ArriveLate(k)
       PROVE  HeldIsOpen(w)' /\ Kept
  BY <1>3, <1>10 DEF RailDecides, ArriveLate
<1>11. w \notin Operator
  BY PayoutAssumption
<1> QED
  <2>1. CASE UNCHANGED vars
    BY <1>3, <2>1 DEF vars
  <2>2. CASE Next
    BY <1>1, <1>2, <1>4, <1>5, <1>8, <1>9, <1>10, <1>11, <2>2
       DEF Next, Submit, Record, Chase, Process
  <2> QED
    BY <2>1, <2>2

\* With one worker, as main.go deploys it, and any number of operators, a
\* confirmed payout stays confirmed, although only fail's write tests for it.
THEOREM Confirmed ==
  ASSUME NEW w, Worker = {w}
  PROVE  Spec => ConfirmedIsFinal
<1>1. Init => HeldIsOpen(w)
  BY DEF Init, HeldIsOpen, At, Idle, Process
<1>2. Inv /\ HeldIsOpen(w) /\ [Next]_vars => HeldIsOpen(w)'
  BY OneWorker
<1>3. Inv /\ HeldIsOpen(w) /\ [Next]_vars
        => [\A p \in Payout : row[p].state = "confirmed" => row'[p].state = "confirmed"]_vars
  BY OneWorker
<1> QED
  BY <1>1, <1>2, <1>3, Invariance, PTL DEF Spec, ConfirmedIsFinal
=============================================================================
