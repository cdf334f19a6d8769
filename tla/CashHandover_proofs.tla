------------------------- MODULE CashHandover_proofs -------------------------
(***************************************************************************)
(* For any pledges, agents, requests, sweepers and faults: a pledge that   *)
(* reads matched or handed over has the one live meeting that locks float  *)
(* for it, an open one has none, and a trader has been paid only by        *)
(* meetings that both sides confirmed.                                     *)
(*                                                                         *)
(* The index cash_handovers_live is what a pledge's state rests on: with   *)
(* at most one live meeting, the one the sweeper closes was the last. A    *)
(* confirmation holds its row from the check to the commit, so what it     *)
(* locked is still a step that side may take.                              *)
(***************************************************************************)
EXTENDS CashHandover, Sums_proofs, SequenceTheorems, TLAPS

\* What the columns of a handover say of each other.
Consistent(r) ==
  /\ r.state = "proposed" => r.confirmed = {}
  /\ r.state = "trader_confirmed" => r.confirmed = {"trader"}
  /\ r.state = "agent_confirmed" => r.confirmed = {"agent"}
  /\ r.state = "completed" => r.confirmed = Side
  /\ r.state = "expired" => r.confirmed # Side
  /\ r.lock # "none" => Advance(r.state, r.lock) # r.state

MeetingsFollow == \A h \in DOMAIN handovers : Consistent(handovers[h])

\* Index cash_handovers_live.
OneLive ==
  \A h, k \in DOMAIN handovers :
    Live(h) /\ Live(k) /\ handovers[h].pledge = handovers[k].pledge => h = k

\* Nothing is matched before it is pledged.
PledgedFirst ==
  \A p \in Pledge : pledge[p] = "none" =>
    /\ \A h \in DOMAIN handovers : handovers[h].pledge # p
    /\ \A m \in Matcher : matching[m].pledge # p

\* A request with agents left to try has a pledge in hand.
HandsFull == \A m \in Matcher : matching[m].pledge = NoPledge => matching[m].left = {}

SweepersAreTyped == sweeping \in [Sweeper -> [at : {"idle", "release", "free"}, due : SUBSET Nat]]

\* The meetings, of those in hs, that pay a pledge.
Agreed(hs, p) == {h \in DOMAIN hs : hs[h].pledge = p /\ hs[h].confirmed = Side}

Inv ==
  /\ TypeOK /\ SweepersAreTyped /\ HandsFull
  /\ MeetingsFollow /\ OneLive /\ PledgedFirst
  /\ MatchedIsLocked /\ PaidByBothOnly

-----------------------------------------------------------------------------
\* Writing one handover.
LEMMA OneHandover ==
  ASSUME Inv, NEW h \in DOMAIN handovers, NEW new \in Handover,
         handovers' = [handovers EXCEPT ![h] = new]
  PROVE  /\ handovers' \in Seq(Handover) /\ Len(handovers') = Len(handovers)
         /\ DOMAIN handovers' = DOMAIN handovers
         /\ handovers'[h] = new
         /\ \A k \in DOMAIN handovers : k # h => handovers'[k] = handovers[k]
<1>1. handovers \in Seq(Handover) /\ h \in 1..Len(handovers) /\ DOMAIN handovers = 1..Len(handovers)
  BY DEF Inv, TypeOK
<1>2. handovers' \in Seq(Handover) /\ Len(handovers') = Len(handovers)
  BY <1>1, ExceptSeq
<1>3. \A j \in 1..Len(handovers) : handovers'[j] = IF j = h THEN new ELSE handovers[j]
  BY <1>1, ExceptSeq
<1>4. DOMAIN handovers' = 1..Len(handovers)
  BY <1>2
<1> QED
  BY <1>1, <1>2, <1>3, <1>4

\* A handover, and the row that holds it.
LEMMA HandoverType ==
  ASSUME Inv, NEW h \in DOMAIN handovers
  PROVE  /\ handovers[h] \in Handover /\ Consistent(handovers[h])
         /\ handovers[h].pledge \in Pledge /\ handovers[h].agent \in Agent
         /\ Amount[handovers[h].pledge] \in Nat
<1>1. handovers[h] \in Handover
  BY ElementOfSeq DEF Inv, TypeOK
<1>2. handovers[h].pledge \in Pledge /\ handovers[h].agent \in Agent
  BY <1>1 DEF Handover
<1> QED
  BY <1>1, <1>2, CashAssumption DEF Inv, MeetingsFollow

\* A side that holds the row takes the step it may.
LEMMA Advances ==
  ASSUME NEW r \in Handover, Consistent(r), r.lock # "none"
  PROVE  LET new == [r EXCEPT !.state = Advance(@, r.lock), !.confirmed = @ \cup {r.lock}, !.lock = "none"]
         IN /\ r.lock \in Side /\ new \in Handover /\ Consistent(new)
            /\ r.state \in Meeting /\ r.confirmed # Side
            /\ new.pledge = r.pledge /\ new.agent = r.agent /\ new.lock = "none"
            /\ r.state = "proposed" => new.state \in Meeting /\ new.confirmed # Side
            /\ r.state # "proposed" => new.state = "completed" /\ new.confirmed = Side
<1> DEFINE new == [r EXCEPT !.state = Advance(@, r.lock), !.confirmed = @ \cup {r.lock}, !.lock = "none"]
<1>1. /\ r.lock \in {"trader", "agent"} /\ Advance(r.state, r.lock) # r.state
      /\ r.state \in Meeting \cup {"completed", "expired"} /\ r.confirmed \in SUBSET Side
  BY DEF Handover, Side, Consistent
<1>2. \/ r.state = "proposed" /\ r.lock = "trader" /\ Advance(r.state, r.lock) = "trader_confirmed"
      \/ r.state = "proposed" /\ r.lock = "agent" /\ Advance(r.state, r.lock) = "agent_confirmed"
      \/ r.state = "trader_confirmed" /\ r.lock = "agent" /\ Advance(r.state, r.lock) = "completed"
      \/ r.state = "agent_confirmed" /\ r.lock = "trader" /\ Advance(r.state, r.lock) = "completed"
  BY <1>1 DEF Advance, Meeting
<1>3. /\ new.state = Advance(r.state, r.lock) /\ new.confirmed = r.confirmed \cup {r.lock}
      /\ new.lock = "none" /\ new.pledge = r.pledge /\ new.agent = r.agent /\ new.due = r.due
      /\ DOMAIN new = DOMAIN r
  BY DEF Handover
<1>4. new \in Handover
  BY <1>1, <1>2 DEF Handover, Meeting, Side
<1> HIDE DEF new
<1>5. Consistent(new)
  BY <1>2, <1>3 DEF Consistent, Side
<1>6. r.confirmed # Side /\ (r.state = "proposed" => r.confirmed = {} /\ new.confirmed # Side)
  BY <1>2, <1>3 DEF Consistent, Side
<1>7. r.state # "proposed" => new.confirmed = Side
  BY <1>2, <1>3 DEF Consistent, Side
<1> QED
  BY <1>1, <1>2, <1>3, <1>4, <1>5, <1>6, <1>7 DEF Side, Meeting, new

-----------------------------------------------------------------------------
(* How pledges, meetings and payments are related.                         *)

Related == MeetingsFollow /\ OneLive /\ PledgedFirst /\ MatchedIsLocked /\ PaidByBothOnly

\* Nothing of it changes, but which pledges requests have in hand.
LEMMA NothingMoves ==
  ASSUME Inv, UNCHANGED <<pledge, handovers, credited>>,
         \A m \in Matcher : \/ matching'[m].pledge \in {matching[m].pledge, NoPledge}
                            \/ matching'[m].pledge \in Pledge /\ pledge[matching'[m].pledge] = "open"
  PROVE  Related'
<1>1. MeetingsFollow' /\ OneLive' /\ MatchedIsLocked' /\ PaidByBothOnly'
  BY DEF Inv, MeetingsFollow, OneLive, MatchedIsLocked, PaidByBothOnly, Live, LiveOf
<1>2. PledgedFirst'
  BY CashAssumption DEF Inv, PledgedFirst
<1> QED
  BY <1>1, <1>2 DEF Related

\* A handover is written, and lives or not as before.
LEMMA SameMeetings ==
  ASSUME Inv, NEW h \in DOMAIN handovers, NEW new \in Handover, Consistent(new),
         handovers' = [handovers EXCEPT ![h] = new],
         new.pledge = handovers[h].pledge, new.confirmed = handovers[h].confirmed,
         new.state = handovers[h].state,
         UNCHANGED <<pledge, credited, matching>>
  PROVE  Related'
<1>1. /\ DOMAIN handovers' = DOMAIN handovers
      /\ \A k \in DOMAIN handovers :
           /\ handovers'[k].pledge = handovers[k].pledge /\ handovers'[k].state = handovers[k].state
           /\ handovers'[k].confirmed = handovers[k].confirmed
           /\ Consistent(handovers'[k])
  BY OneHandover DEF Inv, MeetingsFollow
<1>2. MeetingsFollow' /\ OneLive' /\ PledgedFirst'
  BY <1>1 DEF Inv, MeetingsFollow, OneLive, PledgedFirst, Live
<1>3. MatchedIsLocked'
  BY <1>1 DEF Inv, MatchedIsLocked, LiveOf, Live
<1>4. \A p \in Pledge : Agreed(handovers', p) = Agreed(handovers, p)
  BY <1>1 DEF Agreed
<1>5. PaidByBothOnly'
  BY <1>4 DEF Inv, PaidByBothOnly, Agreed
<1> QED
  BY <1>2, <1>3, <1>5 DEF Related

\* One side confirms.
LEMMA OneConfirms ==
  ASSUME Inv, NEW h \in DOMAIN handovers, ConfirmOne(h)
  PROVE  Related' /\ handovers' \in Seq(Handover) /\ Len(handovers') = Len(handovers)
<1> DEFINE r == handovers[h]
           new == [r EXCEPT !.state = Advance(@, r.lock), !.confirmed = @ \cup {r.lock}, !.lock = "none"]
           p == r.pledge
<1>1. r \in Handover /\ Consistent(r) /\ r.lock # "none" /\ r.state = "proposed" /\ p \in Pledge
  BY HandoverType DEF ConfirmOne
<1>2. /\ new \in Handover /\ Consistent(new) /\ new.pledge = p /\ new.state \in Meeting
      /\ new.confirmed # Side /\ r.confirmed # Side /\ r.state \in Meeting
  BY <1>1, Advances
<1>3. handovers' = [handovers EXCEPT ![h] = new]
  BY DEF ConfirmOne, Confirmed
<1> HIDE DEF new
<1>4. /\ DOMAIN handovers' = DOMAIN handovers
      /\ handovers' \in Seq(Handover) /\ Len(handovers') = Len(handovers)
      /\ \A k \in DOMAIN handovers :
           /\ handovers'[k].pledge = handovers[k].pledge
           /\ handovers'[k].state \in Meeting <=> handovers[k].state \in Meeting
           /\ handovers'[k].confirmed = Side <=> handovers[k].confirmed = Side
           /\ Consistent(handovers'[k])
  BY <1>2, <1>3, OneHandover DEF Inv, MeetingsFollow
<1>5. pledge' = [pledge EXCEPT ![p] = "handed_over"] /\ UNCHANGED <<credited, matching>>
  BY DEF ConfirmOne, accounts
<1>6. MeetingsFollow' /\ OneLive'
  <2>1. MeetingsFollow'
    BY <1>4 DEF MeetingsFollow
  <2>2. \A k \in DOMAIN handovers : Live(k)' <=> Live(k)
    BY <1>4 DEF Live
  <2> QED
    BY <1>4, <2>1, <2>2 DEF Inv, OneLive
<1>7. PledgedFirst'
  <2>1. \A q \in Pledge : pledge'[q] = "none" => pledge[q] = "none"
    BY <1>1, <1>5 DEF Inv, TypeOK
  <2> QED
    BY <1>4, <1>5, <2>1 DEF Inv, PledgedFirst
<1>8. MatchedIsLocked'
  <2>1. \A q \in Pledge : LiveOf(q)' = LiveOf(q)
    BY <1>4 DEF LiveOf, Live
  <2>2. LiveOf(p) # {}
    BY <1>2 DEF LiveOf, Live
  <2> QED
    BY <1>1, <1>5, <2>1, <2>2 DEF Inv, TypeOK, MatchedIsLocked
<1>9. PaidByBothOnly'
  <2>1. \A q \in Pledge : Agreed(handovers', q) = Agreed(handovers, q)
    BY <1>4 DEF Agreed
  <2> QED
    BY <1>5, <2>1 DEF Inv, PaidByBothOnly, Agreed
<1> QED
  BY <1>4, <1>6, <1>7, <1>8, <1>9 DEF Related

\* Both have, and the trader is paid.
LEMMA BothConfirm ==
  ASSUME Inv, NEW h \in DOMAIN handovers, Settle(h)
  PROVE  Related' /\ handovers' \in Seq(Handover) /\ Len(handovers') = Len(handovers)
<1> DEFINE r == handovers[h]
           new == [r EXCEPT !.state = Advance(@, r.lock), !.confirmed = @ \cup {r.lock}, !.lock = "none"]
           p == r.pledge
<1>1. r \in Handover /\ Consistent(r) /\ r.lock # "none" /\ r.state # "proposed" /\ p \in Pledge
  BY HandoverType DEF Settle
<1>2. /\ new \in Handover /\ Consistent(new) /\ new.pledge = p /\ new.state = "completed"
      /\ new.confirmed = Side /\ r.confirmed # Side /\ r.state \in Meeting
  BY <1>1, Advances
<1>3. handovers' = [handovers EXCEPT ![h] = new]
  BY DEF Settle, Confirmed
<1> HIDE DEF new
<1>4. /\ DOMAIN handovers' = DOMAIN handovers
      /\ handovers' \in Seq(Handover) /\ Len(handovers') = Len(handovers)
      /\ handovers'[h] = new
      /\ \A k \in DOMAIN handovers : k # h => handovers'[k] = handovers[k]
  BY <1>2, <1>3, OneHandover
<1>5. /\ pledge' = [pledge EXCEPT ![p] = "settled"] /\ UNCHANGED matching
      /\ credited' = [credited EXCEPT ![p] = @ + Amount[p]]
  BY DEF Settle
<1>6. MeetingsFollow' /\ OneLive'
  <2>1. MeetingsFollow'
    BY <1>2, <1>4 DEF Inv, MeetingsFollow
  <2>2. \A k \in DOMAIN handovers : Live(k)' => Live(k) /\ handovers'[k].pledge = handovers[k].pledge
    BY <1>2, <1>4 DEF Live, Meeting
  <2> QED
    BY <1>4, <2>1, <2>2 DEF Inv, OneLive
<1>7. PledgedFirst'
  <2>1. \A q \in Pledge : pledge'[q] = "none" => pledge[q] = "none"
    BY <1>1, <1>5 DEF Inv, TypeOK
  <2>2. \A k \in DOMAIN handovers : handovers'[k].pledge = handovers[k].pledge
    BY <1>2, <1>4
  <2> QED
    BY <1>4, <1>5, <2>1, <2>2 DEF Inv, PledgedFirst
<1>8. MatchedIsLocked'
  <2>1. \A q \in Pledge \ {p} : LiveOf(q)' = LiveOf(q)
    BY <1>2, <1>4 DEF LiveOf, Live
  <2> QED
    BY <1>1, <1>5, <2>1 DEF Inv, TypeOK, MatchedIsLocked
<1>9. PaidByBothOnly'
  <2>1. \A q \in Pledge \ {p} : Agreed(handovers', q) = Agreed(handovers, q)
    BY <1>2, <1>4 DEF Agreed
  <2>2. Agreed(handovers', p) = Agreed(handovers, p) \cup {h} /\ h \notin Agreed(handovers, p)
    BY <1>2, <1>4 DEF Agreed
  <2>3. IsFiniteSet(Agreed(handovers, p))
    <3>1. Agreed(handovers, p) \subseteq 1..Len(handovers) /\ Len(handovers) \in Nat
      BY DEF Agreed, Inv, TypeOK
    <3>2. IsFiniteSet(1..Len(handovers))
      BY <3>1, FS_Interval
    <3> QED
      BY <3>1, <3>2, FS_Subset
  <2>4. Cardinality(Agreed(handovers', p)) = Cardinality(Agreed(handovers, p)) + 1 /\ Cardinality(Agreed(handovers, p)) \in Nat
    BY <2>2, <2>3, FS_AddElement, FS_CardinalityType
  <2>5. credited[p] = Amount[p] * Cardinality(Agreed(handovers, p)) /\ Amount[p] \in Nat
    BY <1>1, CashAssumption DEF Inv, PaidByBothOnly, Agreed
  <2>6. credited'[p] = credited[p] + Amount[p] /\ \A q \in Pledge \ {p} : credited'[q] = credited[q]
    BY <1>1, <1>5 DEF Inv, TypeOK
  <2>7. ASSUME NEW n \in Nat, NEW a \in Nat PROVE a * n + a = a * (n + 1)
    OBVIOUS
  <2>8. credited'[p] = Amount[p] * Cardinality(Agreed(handovers', p))
    BY <2>4, <2>5, <2>6, <2>7
  <2>9. \A q \in Pledge : credited'[q] = Amount[q] * Cardinality(Agreed(handovers', q))
    <3> SUFFICES ASSUME NEW q \in Pledge \ {p}
                 PROVE  credited'[q] = Amount[q] * Cardinality(Agreed(handovers', q))
      BY <2>8
    <3>1. credited[q] = Amount[q] * Cardinality(Agreed(handovers, q))
      BY DEF Inv, PaidByBothOnly, Agreed
    <3> QED
      BY <2>1, <2>6, <3>1
  <2> QED
    BY <2>9 DEF PaidByBothOnly, Agreed
<1> QED
  BY <1>4, <1>6, <1>7, <1>8, <1>9 DEF Related

\* The sweeper closes a meeting that ran out.
LEMMA OneExpires ==
  ASSUME Inv, NEW s \in Sweeper, NEW h \in DOMAIN handovers, ReleaseExpired(s, h)
  PROVE  Related' /\ handovers' \in Seq(Handover) /\ Len(handovers') = Len(handovers)
<1> DEFINE r == handovers[h]
           new == [r EXCEPT !.state = "expired"]
           p == r.pledge
<1>1. /\ r \in Handover /\ Consistent(r) /\ r.lock = "none" /\ r.state \in Meeting
      /\ p \in Pledge
  BY HandoverType DEF ReleaseExpired, Live
<1>2. /\ new \in Handover /\ new.pledge = p /\ new.state = "expired" /\ new.lock = "none"
      /\ new.confirmed = r.confirmed
  BY <1>1 DEF Handover
<1>3. r.confirmed # Side
  BY <1>1 DEF Consistent, Meeting, Side
<1>4. handovers' = [handovers EXCEPT ![h] = new]
  BY DEF ReleaseExpired
<1> HIDE DEF new
<1>5. Consistent(new)
  BY <1>2, <1>3 DEF Consistent
<1>6. /\ DOMAIN handovers' = DOMAIN handovers
      /\ handovers' \in Seq(Handover) /\ Len(handovers') = Len(handovers)
      /\ handovers'[h] = new
      /\ \A k \in DOMAIN handovers : k # h => handovers'[k] = handovers[k]
  BY <1>2, <1>4, OneHandover
<1>7. pledge' = [pledge EXCEPT ![p] = Reopened(p)] /\ UNCHANGED <<credited, matching>>
  BY DEF ReleaseExpired
<1>8. MeetingsFollow' /\ OneLive'
  <2>1. MeetingsFollow'
    BY <1>5, <1>6 DEF Inv, MeetingsFollow
  <2>2. \A k \in DOMAIN handovers : Live(k)' => Live(k) /\ handovers'[k].pledge = handovers[k].pledge
    BY <1>2, <1>6 DEF Live, Meeting
  <2> QED
    BY <1>6, <2>1, <2>2 DEF Inv, OneLive
<1>9. PledgedFirst'
  <2>1. \A q \in Pledge : pledge'[q] = "none" => pledge[q] = "none"
    BY <1>1, <1>7 DEF Inv, TypeOK, Reopened
  <2>2. \A k \in DOMAIN handovers : handovers'[k].pledge = handovers[k].pledge
    BY <1>2, <1>6
  <2> QED
    BY <1>6, <1>7, <2>1, <2>2 DEF Inv, PledgedFirst
<1>10. MatchedIsLocked'
  <2>1. \A q \in Pledge \ {p} : LiveOf(q)' = LiveOf(q)
    BY <1>2, <1>6 DEF LiveOf, Live
  <2>2. h \in LiveOf(p)
    BY <1>1 DEF LiveOf, Live
  <2>3. \A q \in Pledge : q = p => LiveOf(q)' = {}
    BY <1>2, <1>6, <2>2 DEF LiveOf, Live, Meeting, Inv, OneLive
  <2>4. pledge'[p] = Reopened(p) /\ Reopened(p) \notin {"matched", "handed_over"}
    BY <1>1, <1>7 DEF Inv, TypeOK, Reopened
  <2>5. \A q \in Pledge \ {p} : pledge'[q] = pledge[q]
    BY <1>1, <1>7 DEF Inv, TypeOK
  <2> QED
    BY <2>1, <2>3, <2>4, <2>5 DEF Inv, MatchedIsLocked
<1>11. PaidByBothOnly'
  <2>1. \A q \in Pledge : Agreed(handovers', q) = Agreed(handovers, q)
    BY <1>2, <1>3, <1>6 DEF Agreed
  <2> QED
    BY <1>7, <2>1 DEF Inv, PaidByBothOnly, Agreed
<1> QED
  BY <1>6, <1>8, <1>9, <1>10, <1>11 DEF Related

\* A meeting is proposed for a pledge that has none.
LEMMA OneProposed ==
  ASSUME Inv, NEW m \in Matcher, NEW a \in Agent, Propose(m, a)
  PROVE  /\ Related' /\ handovers' \in Seq(Handover) /\ Len(handovers') = Len(handovers) + 1
         /\ matching[m].pledge \in Pledge
<1> DEFINE p == matching[m].pledge
           new == [pledge |-> p, agent |-> a, state |-> "proposed", confirmed |-> {},
                   due |-> FALSE, lock |-> "none"]
           n == Len(handovers) + 1
<1>1. p \in Pledge /\ pledge[p] # "none"
  <2>1. p \in Pledge \cup {NoPledge}
    BY DEF Inv, TypeOK
  <2>2. p # NoPledge
    BY DEF Propose, Inv, HandsFull
  <2> QED
    BY <2>1, <2>2 DEF Inv, PledgedFirst
<1>2. new \in Handover /\ Consistent(new) /\ new.confirmed # Side /\ new.state \in Meeting
  BY <1>1 DEF Handover, Meeting, Side, Consistent
<1>3. new.pledge = p
  OBVIOUS
<1>4. handovers' = Append(handovers, new) /\ LiveOf(p) = {} /\ UNCHANGED credited
  BY DEF Propose
<1> HIDE DEF new
<1>5. /\ handovers' \in Seq(Handover) /\ Len(handovers') = n /\ handovers'[n] = new
      /\ DOMAIN handovers' = DOMAIN handovers \cup {n} /\ n \notin DOMAIN handovers
      /\ \A k \in DOMAIN handovers : handovers'[k] = handovers[k]
  <2>1. handovers \in Seq(Handover) /\ Len(handovers) \in Nat /\ DOMAIN handovers = 1..Len(handovers)
    BY DEF Inv, TypeOK
  <2>2. /\ handovers' \in Seq(Handover) /\ Len(handovers') = n /\ handovers'[n] = new
        /\ \A k \in 1..Len(handovers) : handovers'[k] = handovers[k]
    BY <1>2, <1>4, <2>1, AppendProperties
  <2>3. DOMAIN handovers' = 1..n
    BY <2>2
  <2>4. 1..n = 1..Len(handovers) \cup {n} /\ n \notin 1..Len(handovers)
    BY <2>1
  <2> QED
    BY <2>1, <2>2, <2>3, <2>4
<1> HIDE DEF n
<1>6. pledge' = [pledge EXCEPT ![p] = IF @ = "open" THEN "matched" ELSE @]
  BY DEF Propose
<1>7. MeetingsFollow' /\ OneLive'
  <2>1. MeetingsFollow'
    BY <1>2, <1>5 DEF Inv, MeetingsFollow
  <2>2. \A k \in DOMAIN handovers : Live(k)' = Live(k) /\ (Live(k) => handovers[k].pledge # p)
    BY <1>4, <1>5 DEF Live, LiveOf
  <2> QED
    BY <1>3, <1>5, <2>1, <2>2 DEF Inv, OneLive
<1>8. PledgedFirst'
  <2>1. \A q \in Pledge : pledge'[q] = "none" => pledge[q] = "none" /\ q # p
    BY <1>1, <1>6 DEF Inv, TypeOK
  <2>2. \A o \in Matcher : matching'[o].pledge \in {matching[o].pledge, NoPledge}
    BY DEF Propose, Inv, TypeOK, Waiting
  <2> QED
    BY <1>3, <1>5, <2>1, <2>2, CashAssumption DEF Inv, PledgedFirst
<1>9. MatchedIsLocked'
  <2>1. \A q \in Pledge \ {p} : LiveOf(q)' = LiveOf(q)
    BY <1>3, <1>5 DEF LiveOf, Live
  <2>2. \A q \in Pledge : q = p => LiveOf(q)' # {}
    <3>1. handovers'[n].state \in Meeting /\ handovers'[n].pledge = p /\ n \in DOMAIN handovers'
      BY <1>2, <1>3, <1>5
    <3> QED
      BY <3>1 DEF LiveOf, Live
  <2>3. pledge'[p] # "open" /\ \A q \in Pledge \ {p} : pledge'[q] = pledge[q]
    BY <1>1, <1>6 DEF Inv, TypeOK
  <2> QED
    BY <2>1, <2>2, <2>3 DEF Inv, MatchedIsLocked
<1>10. PaidByBothOnly'
  <2>1. \A q \in Pledge : Agreed(handovers', q) = Agreed(handovers, q)
    BY <1>2, <1>5 DEF Agreed
  <2> QED
    BY <1>4, <2>1 DEF Inv, PaidByBothOnly, Agreed
<1> QED
  BY <1>1, <1>5, <1>7, <1>8, <1>9, <1>10 DEF Related, n

\* A pledge is opened or refused, or expires with nobody to meet.
LEMMA PledgesChange ==
  ASSUME Inv, UNCHANGED <<handovers, credited, matching>>,
         \/ \E p \in Pledge : OpenPledge(p) \/ RefusePledge(p)
         \/ \E s \in Sweeper : ExpirePledges(s)
  PROVE  Related'
<1>1. \A q \in Pledge : /\ pledge'[q] = "none" => pledge[q] = "none"
                        /\ pledge'[q] \in {"matched", "handed_over"} => pledge'[q] = pledge[q]
                        /\ pledge'[q] = "open" => pledge[q] \in {"open", "none"}
  BY DEF OpenPledge, RefusePledge, ExpirePledges, Inv, TypeOK
<1>2. MeetingsFollow' /\ OneLive' /\ PledgedFirst'
  BY <1>1 DEF Inv, MeetingsFollow, OneLive, PledgedFirst, Live
<1>3. \A q \in Pledge : LiveOf(q)' = LiveOf(q) /\ (pledge[q] = "none" => LiveOf(q) = {})
  BY DEF LiveOf, Live, Inv, PledgedFirst
<1>4. MatchedIsLocked'
  BY <1>1, <1>3 DEF Inv, MatchedIsLocked
<1>5. PaidByBothOnly'
  BY DEF Inv, PaidByBothOnly
<1> QED
  BY <1>2, <1>4, <1>5 DEF Related

-----------------------------------------------------------------------------
(* Types.                                                                  *)

\* Faults stay within their bound.
LEMMA FaultsStay ==
  ASSUME Inv, [Next]_vars
  PROVE  faults' \in 0..MaxFaults
<1>1. faults' = faults \/ (faults < MaxFaults /\ faults' = faults + 1)
  BY DEF Next, vars, OpenPledge, RefusePledge, PledgeRunsOut, Match, Load, Propose, NextAgent,
         AlreadyMatched, Confirm, ConfirmOne, Settle, ConfirmFails, HandoverRunsOut, BeginConfirm,
         Sweep, FindExpired, ReleaseExpired, AlreadyClosed, ReleaseFails, ExpirePledges, FreeNotes,
         Crash
<1> QED
  BY <1>1, CashAssumption DEF Inv, TypeOK

\* Handovers and what sweepers have read of them.
SweepsAreTyped ==
  /\ SweepersAreTyped
  /\ \A s \in Sweeper : /\ sweeping[s].at \in {"idle", "release", "free"}
                        /\ sweeping[s].due \subseteq DOMAIN handovers

\* A sweeper that read nothing new keeps its types while handovers grow.
LEMMA SweepersRest ==
  ASSUME Inv, UNCHANGED sweeping, DOMAIN handovers \subseteq DOMAIN handovers'
  PROVE  SweepsAreTyped'
BY DEF Inv, TypeOK, SweepsAreTyped, SweepersAreTyped

\* A sweeper at work keeps them.
LEMMA SweepersWork ==
  ASSUME Inv, DOMAIN handovers' = DOMAIN handovers, NEW s \in Sweeper,
         NEW new \in [at : {"idle", "release", "free"}, due : SUBSET DOMAIN handovers],
         sweeping' = [sweeping EXCEPT ![s] = new]
  PROVE  SweepsAreTyped'
<1>1. DOMAIN handovers \subseteq Nat
  BY DEF Inv, TypeOK
<1>2. new \in [at : {"idle", "release", "free"}, due : SUBSET Nat]
  BY <1>1
<1> QED
  BY <1>2 DEF Inv, TypeOK, SweepsAreTyped, SweepersAreTyped

\* Pledges, notes and payments, and what requests have in hand.
RowsAreTyped ==
  /\ pledge \in [Pledge -> LivePledge \cup Closed \cup {"none"}]
  /\ lapsed \subseteq Pledge /\ claimed \subseteq Pledge
  /\ float \in [Agent -> Nat] /\ escrow \in [Agent -> Nat]
  /\ credited \in [Pledge -> Nat]

RequestsAreTyped ==
  /\ matching \in [Matcher -> [pledge : Pledge \cup {NoPledge}, left : SUBSET Agent]]
  /\ HandsFull

\* A request that changes hands keeps its type.
LEMMA RequestsStay ==
  ASSUME Inv, NEW m \in Matcher,
         NEW new \in [pledge : Pledge \cup {NoPledge}, left : SUBSET Agent],
         new.pledge = NoPledge => new.left = {},
         matching' = [matching EXCEPT ![m] = new]
  PROVE  RequestsAreTyped'
BY DEF Inv, TypeOK, RequestsAreTyped, HandsFull

\* What each sort of step has to show for the whole invariant.
LEMMA Together ==
  ASSUME RowsAreTyped', RequestsAreTyped', SweepsAreTyped', Related', faults' \in 0..MaxFaults,
         handovers' \in Seq(Handover), Len(handovers') <= MaxHandovers
  PROVE  Inv'
BY DEF RowsAreTyped, RequestsAreTyped, SweepsAreTyped, Related, TypeOK, Inv

-----------------------------------------------------------------------------
(* Each action.                                                            *)

\* A pledge is opened, refused or runs out.
LEMMA PledgeInv ==
  ASSUME Inv, [Next]_vars, NEW p \in Pledge, OpenPledge(p) \/ RefusePledge(p) \/ PledgeRunsOut(p)
  PROVE  Inv'
<1>1. UNCHANGED <<handovers, credited, matching, sweeping, float, escrow>>
  BY DEF OpenPledge, RefusePledge, PledgeRunsOut, accounts
<1>2. RowsAreTyped'
  BY <1>1 DEF OpenPledge, RefusePledge, PledgeRunsOut, Inv, TypeOK, RowsAreTyped, LivePledge, Closed
<1>3. RequestsAreTyped'
  BY <1>1 DEF Inv, TypeOK, RequestsAreTyped, HandsFull
<1>4. Related'
  <2>1. CASE OpenPledge(p) \/ RefusePledge(p)
    BY <1>1, <2>1, PledgesChange
  <2>2. CASE PledgeRunsOut(p)
    BY <1>1, <2>2, NothingMoves DEF PledgeRunsOut
  <2> QED
    BY <2>1, <2>2
<1>5. handovers' \in Seq(Handover) /\ Len(handovers') <= MaxHandovers
  BY <1>1 DEF Inv, TypeOK
<1> QED
  BY <1>1, <1>2, <1>3, <1>4, <1>5, SweepersRest, FaultsStay, Together

\* A request loads a pledge, goes to the next agent, or proposes.
LEMMA MatchInv ==
  ASSUME Inv, [Next]_vars, NEW m \in Matcher, Match(m)
  PROVE  Inv'
<1>0. matching[m] \in [pledge : Pledge \cup {NoPledge}, left : SUBSET Agent] /\ Waiting.left = {}
      /\ Waiting \in [pledge : Pledge \cup {NoPledge}, left : SUBSET Agent]
      /\ Waiting.pledge = NoPledge
  BY DEF Inv, TypeOK, Waiting
<1>1. CASE \E a \in Agent : Propose(m, a)
  <2> PICK a \in Agent : Propose(m, a)
    BY <1>1
  <2> DEFINE p == matching[m].pledge
  <2>1. /\ Related' /\ handovers' \in Seq(Handover) /\ Len(handovers') = Len(handovers) + 1
        /\ p \in Pledge
    BY OneProposed
  <2>2. Len(handovers') <= MaxHandovers /\ DOMAIN handovers \subseteq DOMAIN handovers'
    <3>1. Len(handovers) \in Nat /\ MaxHandovers \in Nat /\ Len(handovers) < MaxHandovers
      BY CashAssumption DEF Propose, Inv, TypeOK
    <3>2. DOMAIN handovers = 1..Len(handovers) /\ DOMAIN handovers' = 1..(Len(handovers) + 1)
      BY <2>1 DEF Inv, TypeOK
    <3> QED
      BY <2>1, <3>1, <3>2
  <2>3. RowsAreTyped'
    <3>1. Amount[p] \in Nat /\ a \in Agent
      BY <2>1, CashAssumption
    <3>2. float[a] - Amount[p] \in Nat /\ escrow[a] + Amount[p] \in Nat
      BY <3>1 DEF Propose, Covers, Inv, TypeOK
    <3>3. float' \in [Agent -> Nat] /\ escrow' \in [Agent -> Nat]
      BY <3>2 DEF Propose, Inv, TypeOK
    <3>4. pledge' \in [Pledge -> LivePledge \cup Closed \cup {"none"}]
      BY DEF Propose, Inv, TypeOK, LivePledge
    <3> QED
      BY <3>3, <3>4 DEF Propose, Inv, TypeOK, RowsAreTyped
  <2>4. RequestsAreTyped'
    BY <1>0, RequestsStay DEF Propose
  <2>5. SweepsAreTyped'
    BY <2>2, SweepersRest DEF Propose
  <2> QED
    BY <2>1, <2>2, <2>3, <2>4, <2>5, FaultsStay, Together
<1>2. CASE ~\E a \in Agent : Propose(m, a)
  <2>1. UNCHANGED <<pledge, lapsed, claimed, handovers, float, escrow, credited, sweeping>>
    BY <1>2 DEF Match, Load, NextAgent, AlreadyMatched, accounts
  <2>2. PICK new \in [pledge : Pledge \cup {NoPledge}, left : SUBSET Agent] :
          /\ matching' = [matching EXCEPT ![m] = new]
          /\ new.pledge = NoPledge => new.left = {}
          /\ \/ new.pledge \in {matching[m].pledge, NoPledge}
             \/ new.pledge \in Pledge /\ pledge[new.pledge] = "open"
    <3>1. CASE \E p \in Pledge : Load(m, p)
      <4> PICK p \in Pledge, near \in SUBSET Agent :
            /\ pledge[p] = "open"
            /\ matching' = [matching EXCEPT ![m] = [pledge |-> p, left |-> near]]
        BY <3>1 DEF Load
      <4> DEFINE new == [pledge |-> p, left |-> near]
      <4>1. new \in [pledge : Pledge \cup {NoPledge}, left : SUBSET Agent] /\ new.pledge # NoPledge
        BY CashAssumption
      <4> QED
        BY <4>1
    <3>2. CASE \E a \in Agent : NextAgent(m, a)
      <4> PICK a \in Agent : NextAgent(m, a)
        BY <3>2
      <4> DEFINE left == matching[m].left \ {a}
                 new == IF left = {} THEN Waiting ELSE [matching[m] EXCEPT !.left = left]
      <4>1. matching' = [matching EXCEPT ![m] = new]
        BY DEF NextAgent, Inv, TypeOK
      <4>2. new \in [pledge : Pledge \cup {NoPledge}, left : SUBSET Agent]
        BY <1>0
      <4>3. new.pledge \in {matching[m].pledge, NoPledge}
        BY <1>0
      <4>4. new.pledge = NoPledge => new.left = {}
        BY <1>0 DEF Inv, HandsFull, NextAgent
      <4> QED
        BY <4>1, <4>2, <4>3, <4>4
    <3>3. CASE \E a \in Agent : AlreadyMatched(m, a)
      <4>1. matching' = [matching EXCEPT ![m] = Waiting]
        BY <3>3 DEF AlreadyMatched
      <4> QED
        BY <1>0, <4>1
    <3> QED
      BY <1>2, <3>1, <3>2, <3>3 DEF Match
  <2>3. \A o \in Matcher : \/ matching'[o].pledge \in {matching[o].pledge, NoPledge}
                           \/ matching'[o].pledge \in Pledge /\ pledge[matching'[o].pledge] = "open"
    BY <2>2 DEF Inv, TypeOK
  <2>4. Related' /\ RequestsAreTyped' /\ SweepsAreTyped'
    BY <2>1, <2>2, <2>3, NothingMoves, RequestsStay, SweepersRest
  <2>5. RowsAreTyped' /\ handovers' \in Seq(Handover) /\ Len(handovers') <= MaxHandovers
    BY <2>1 DEF Inv, TypeOK, RowsAreTyped
  <2> QED
    BY <2>4, <2>5, FaultsStay, Together
<1> QED
  BY <1>1, <1>2

\* A handover is confirmed, locked or runs out.
LEMMA MeetingInv ==
  ASSUME Inv, [Next]_vars, NEW h \in DOMAIN handovers,
         Confirm(h) \/ HandoverRunsOut(h) \/ \E side \in Side : BeginConfirm(h, side)
  PROVE  Inv'
<1> DEFINE r == handovers[h]
<1>0. /\ r \in Handover /\ Consistent(r) /\ r.pledge \in Pledge /\ r.agent \in Agent
      /\ Amount[r.pledge] \in Nat
  BY HandoverType
<1>1. UNCHANGED <<matching, sweeping>>
  BY DEF Confirm, ConfirmOne, Settle, ConfirmFails, HandoverRunsOut, BeginConfirm
<1>2. RequestsAreTyped'
  BY <1>1 DEF Inv, TypeOK, RequestsAreTyped, HandsFull
<1>3. ASSUME Related', handovers' \in Seq(Handover), Len(handovers') = Len(handovers), RowsAreTyped'
      PROVE  Inv'
  <2>1. DOMAIN handovers' = DOMAIN handovers /\ Len(handovers') <= MaxHandovers
    BY <1>3 DEF Inv, TypeOK
  <2> QED
    BY <1>1, <1>2, <1>3, <2>1, SweepersRest, FaultsStay, Together
<1>4. CASE ConfirmOne(h)
  <2>1. Related' /\ handovers' \in Seq(Handover) /\ Len(handovers') = Len(handovers)
    BY <1>4, OneConfirms
  <2>2. RowsAreTyped'
    BY <1>4 DEF ConfirmOne, accounts, Inv, TypeOK, RowsAreTyped, LivePledge
  <2> QED
    BY <1>3, <2>1, <2>2
<1>5. CASE Settle(h)
  <2>1. Related' /\ handovers' \in Seq(Handover) /\ Len(handovers') = Len(handovers)
    BY <1>5, BothConfirm
  <2>2. escrow[r.agent] - Amount[r.pledge] \in Nat /\ credited[r.pledge] + Amount[r.pledge] \in Nat
    BY <1>0, <1>5 DEF Settle, Inv, TypeOK
  <2>3. escrow' \in [Agent -> Nat] /\ credited' \in [Pledge -> Nat]
    BY <1>5, <2>2 DEF Settle, Inv, TypeOK
  <2>4. pledge' \in [Pledge -> LivePledge \cup Closed \cup {"none"}]
    BY <1>5 DEF Settle, Inv, TypeOK, Closed
  <2>5. RowsAreTyped'
    BY <1>5, <2>3, <2>4 DEF Settle, Inv, TypeOK, RowsAreTyped
  <2> QED
    BY <1>3, <2>1, <2>5
<1>6. ASSUME NEW new \in Handover, Consistent(new), handovers' = [handovers EXCEPT ![h] = new],
             new.pledge = r.pledge, new.confirmed = r.confirmed, new.state = r.state,
             UNCHANGED <<pledge, lapsed, claimed, float, escrow, credited>>
      PROVE  Inv'
  <2>1. Related' /\ handovers' \in Seq(Handover) /\ Len(handovers') = Len(handovers)
    BY <1>1, <1>6, SameMeetings, OneHandover
  <2>2. RowsAreTyped'
    BY <1>6 DEF Inv, TypeOK, RowsAreTyped
  <2> QED
    BY <1>3, <2>1, <2>2
<1>7. ASSUME NEW lock \in Side \cup {"none"}, handovers' = [handovers EXCEPT ![h].lock = lock],
             lock # "none" => Advance(r.state, lock) # r.state,
             UNCHANGED <<pledge, lapsed, claimed, float, escrow, credited>>
      PROVE  Inv'
  <2> DEFINE new == [r EXCEPT !.lock = lock]
  <2>1. handovers' = [handovers EXCEPT ![h] = new]
    BY <1>7
  <2>2. /\ new \in Handover /\ new.pledge = r.pledge /\ new.confirmed = r.confirmed
        /\ new.state = r.state /\ new.lock = lock
    BY <1>0 DEF Handover
  <2> HIDE DEF new
  <2>3. Consistent(new)
    BY <1>0, <1>7, <2>2 DEF Consistent
  <2> QED
    BY <1>6, <1>7, <2>1, <2>2, <2>3
<1>8. CASE ConfirmFails(h)
  BY <1>7, <1>8 DEF ConfirmFails, accounts
<1>9. CASE \E side \in Side : BeginConfirm(h, side)
  BY <1>7, <1>9 DEF BeginConfirm, accounts
<1>10. CASE HandoverRunsOut(h)
  <2> DEFINE new == [r EXCEPT !.due = TRUE]
  <2>1. handovers' = [handovers EXCEPT ![h] = new]
    BY <1>10 DEF HandoverRunsOut
  <2>2. /\ new \in Handover /\ new.pledge = r.pledge /\ new.confirmed = r.confirmed
        /\ new.state = r.state /\ new.lock = r.lock
    BY <1>0 DEF Handover
  <2> HIDE DEF new
  <2>3. Consistent(new)
    BY <1>0, <2>2 DEF Consistent
  <2> QED
    BY <1>6, <1>10, <2>1, <2>2, <2>3 DEF HandoverRunsOut, accounts
<1> QED
  BY <1>4, <1>5, <1>8, <1>9, <1>10 DEF Confirm

\* The sweeper reads, closes meetings, and expires pledges and notes.
LEMMA SweepInv ==
  ASSUME Inv, [Next]_vars, NEW s \in Sweeper, Sweep(s)
  PROVE  Inv'
<1> DEFINE Type == [at : {"idle", "release", "free"}, due : SUBSET DOMAIN handovers]
<1>0. sweeping[s] \in Type /\ sweeping \in [Sweeper -> [at : {"idle", "release", "free"}, due : SUBSET Nat]]
  <2>1. /\ sweeping \in [Sweeper -> [at : {"idle", "release", "free"}, due : SUBSET Nat]]
        /\ sweeping[s].due \subseteq DOMAIN handovers
    BY DEF Inv, TypeOK, SweepersAreTyped
  <2> QED
    BY <2>1
<1>1. UNCHANGED <<lapsed, credited, matching>>
  BY DEF Sweep, FindExpired, ExpirePledges, FreeNotes, ReleaseExpired, AlreadyClosed, ReleaseFails,
         accounts
<1>2. RequestsAreTyped'
  BY <1>1 DEF Inv, TypeOK, RequestsAreTyped, HandsFull
<1>3. ASSUME NEW new \in Type, sweeping' = [sweeping EXCEPT ![s] = new], Related', RowsAreTyped',
             handovers' \in Seq(Handover), Len(handovers') = Len(handovers)
      PROVE  Inv'
  <2>1. DOMAIN handovers' = DOMAIN handovers /\ Len(handovers') <= MaxHandovers
    BY <1>3 DEF Inv, TypeOK
  <2>2. SweepsAreTyped'
    BY <1>3, <2>1, SweepersWork
  <2> QED
    BY <1>2, <1>3, <2>1, <2>2, FaultsStay, Together
<1>4. ASSUME NEW new \in Type, sweeping' = [sweeping EXCEPT ![s] = new],
             UNCHANGED <<pledge, handovers, float, escrow>>, claimed' \subseteq claimed
      PROVE  Inv'
  <2>1. Related'
    BY <1>1, <1>4, NothingMoves
  <2>2. RowsAreTyped' /\ handovers' \in Seq(Handover)
    BY <1>1, <1>4 DEF Inv, TypeOK, RowsAreTyped
  <2> QED
    BY <1>3, <1>4, <2>1, <2>2
<1>5. CASE FindExpired(s)
  <2> DEFINE new == [at |-> "release", due |-> {h \in DOMAIN handovers : Live(h) /\ handovers[h].due}]
  <2>1. new \in Type
    OBVIOUS
  <2>2. sweeping' = [sweeping EXCEPT ![s] = new] /\ UNCHANGED <<pledge, handovers, float, escrow, claimed>>
    BY <1>5 DEF FindExpired, accounts
  <2> QED
    BY <1>4, <2>1, <2>2
<1>6. CASE FreeNotes(s)
  <2>1. Resting \in Type
    BY DEF Resting
  <2> QED
    BY <1>4, <1>6, <2>1 DEF FreeNotes, accounts
<1>7. CASE ExpirePledges(s)
  <2> DEFINE new == [sweeping[s] EXCEPT !.at = "free"]
  <2>1. new \in Type
    BY <1>0
  <2>2. sweeping' = [sweeping EXCEPT ![s] = new] /\ UNCHANGED <<handovers, float, escrow, claimed>>
    BY <1>0, <1>7 DEF ExpirePledges, accounts
  <2>3. Related'
    BY <1>1, <1>7, <2>2, PledgesChange
  <2>4. RowsAreTyped' /\ handovers' \in Seq(Handover)
    BY <1>1, <1>7, <2>2 DEF ExpirePledges, Inv, TypeOK, RowsAreTyped, Closed
  <2> QED
    BY <1>3, <2>1, <2>2, <2>3, <2>4
<1>8. ASSUME NEW h \in DOMAIN handovers, SweptFrom(s, h)
      PROVE  \E new \in Type : sweeping' = [sweeping EXCEPT ![s] = new]
  <2> DEFINE new == [sweeping[s] EXCEPT !.due = @ \ {h}]
  <2>1. new \in Type
    BY <1>0
  <2>2. sweeping' = [sweeping EXCEPT ![s] = new]
    BY <1>0, <1>8 DEF SweptFrom
  <2> QED
    BY <2>1, <2>2
<1>9. ASSUME NEW h \in DOMAIN handovers, AlreadyClosed(s, h) \/ ReleaseFails(s, h)
      PROVE  Inv'
  <2>1. SweptFrom(s, h) /\ UNCHANGED <<pledge, handovers, float, escrow, claimed>>
    BY <1>9 DEF AlreadyClosed, ReleaseFails, accounts
  <2> QED
    BY <1>4, <1>8, <2>1
<1>10. ASSUME NEW h \in DOMAIN handovers, ReleaseExpired(s, h)
       PROVE  Inv'
  <2> DEFINE p == handovers[h].pledge
             a == handovers[h].agent
  <2>1. Related' /\ handovers' \in Seq(Handover) /\ Len(handovers') = Len(handovers)
    BY <1>10, OneExpires
  <2>2. p \in Pledge /\ a \in Agent /\ Amount[p] \in Nat
    BY HandoverType
  <2>3. escrow[a] - Amount[p] \in Nat /\ float[a] + Amount[p] \in Nat
    BY <1>10, <2>2 DEF ReleaseExpired, Releases, Inv, TypeOK
  <2>4. escrow' \in [Agent -> Nat] /\ float' \in [Agent -> Nat]
    BY <1>10, <2>3 DEF ReleaseExpired, Releases, Inv, TypeOK
  <2>5. pledge' \in [Pledge -> LivePledge \cup Closed \cup {"none"}]
    <3>1. Reopened(p) \in LivePledge \cup Closed \cup {"none"}
      BY <2>2 DEF Reopened, Inv, TypeOK, LivePledge, Closed
    <3> QED
      BY <1>10, <3>1 DEF ReleaseExpired, Inv, TypeOK
  <2>6. RowsAreTyped'
    BY <1>10, <2>4, <2>5 DEF ReleaseExpired, Inv, TypeOK, RowsAreTyped
  <2>7. SweptFrom(s, h)
    BY <1>10 DEF ReleaseExpired
  <2> QED
    BY <1>3, <1>8, <2>1, <2>6, <2>7
<1> QED
  BY <1>5, <1>6, <1>7, <1>9, <1>10 DEF Sweep

\* What a process had read is lost.
LEMMA CrashInv ==
  ASSUME Inv, [Next]_vars, Crash
  PROVE  Inv'
<1>1. UNCHANGED <<pledge, lapsed, claimed, handovers, float, escrow, credited>>
  BY DEF Crash, accounts
<1>2. RowsAreTyped' /\ handovers' \in Seq(Handover) /\ Len(handovers') <= MaxHandovers
  BY <1>1 DEF Inv, TypeOK, RowsAreTyped
<1>3. CASE \E m \in Matcher : matching' = [matching EXCEPT ![m] = Waiting] /\ UNCHANGED sweeping
  <2>1. Waiting \in [pledge : Pledge \cup {NoPledge}, left : SUBSET Agent] /\ Waiting.left = {}
        /\ Waiting.pledge = NoPledge
    BY DEF Waiting
  <2>2. RequestsAreTyped' /\ SweepsAreTyped'
    BY <1>1, <1>3, <2>1, RequestsStay, SweepersRest
  <2>3. \A m \in Matcher : matching'[m].pledge \in {matching[m].pledge, NoPledge}
    BY <1>3, <2>1 DEF Inv, TypeOK
  <2> QED
    BY <1>1, <1>2, <2>2, <2>3, NothingMoves, FaultsStay, Together
<1>4. CASE \E s \in Sweeper : sweeping' = [sweeping EXCEPT ![s] = Resting] /\ UNCHANGED matching
  <2>1. Resting \in [at : {"idle", "release", "free"}, due : SUBSET DOMAIN handovers]
    BY DEF Resting
  <2>2. SweepsAreTyped'
    BY <1>1, <1>4, <2>1, SweepersWork
  <2>3. RequestsAreTyped'
    BY <1>4 DEF Inv, TypeOK, RequestsAreTyped, HandsFull
  <2> QED
    BY <1>1, <1>2, <1>4, <2>2, <2>3, NothingMoves, FaultsStay, Together
<1> QED
  BY <1>3, <1>4 DEF Crash

\* The invariant holds initially.
LEMMA InitInv == Init => Inv
<1> SUFFICES ASSUME Init PROVE Inv
  OBVIOUS
<1>1. handovers = << >> /\ handovers \in Seq(Handover) /\ Len(handovers) = 0 /\ DOMAIN handovers = {}
  BY DEF Init
<1>2. TypeOK
  BY <1>1, CashAssumption DEF Init, TypeOK, Waiting, Resting
<1>3. SweepersAreTyped /\ HandsFull
  BY DEF Init, SweepersAreTyped, HandsFull, Waiting, Resting
<1>4. MeetingsFollow /\ OneLive
  BY <1>1 DEF MeetingsFollow, OneLive
<1>5. PledgedFirst
  BY <1>1, CashAssumption DEF Init, PledgedFirst, Waiting
<1>6. MatchedIsLocked
  BY <1>1 DEF Init, MatchedIsLocked, LiveOf
<1>7. PaidByBothOnly
  <2>1. \A p \in Pledge : Agreed(handovers, p) = {}
    BY <1>1 DEF Agreed
  <2>2. \A p \in Pledge : credited[p] = Amount[p] * Cardinality(Agreed(handovers, p))
    <3> SUFFICES ASSUME NEW p \in Pledge
                 PROVE credited[p] = Amount[p] * Cardinality(Agreed(handovers, p))
      OBVIOUS
    <3>1. Cardinality(Agreed(handovers, p)) = 0
      BY <2>1, FS_EmptySet
    <3>2. Amount[p] \in Int /\ credited[p] = 0
      BY CashAssumption DEF Init
    <3> QED
      BY <3>1, <3>2
  <2> QED
    BY <2>2 DEF PaidByBothOnly, Agreed
<1> QED
  BY <1>2, <1>3, <1>4, <1>5, <1>6, <1>7 DEF Inv

\* Every step preserves it.
LEMMA NextInv == Inv /\ [Next]_vars => Inv'
<1> SUFFICES ASSUME Inv, [Next]_vars PROVE Inv'
  OBVIOUS
<1>1. CASE UNCHANGED vars
  <2>1. UNCHANGED <<pledge, lapsed, claimed, handovers, float, escrow, credited, matching, sweeping, faults>>
    BY <1>1 DEF vars, accounts
  <2>2. Related'
    BY <2>1, NothingMoves
  <2> QED
    BY <2>1, <2>2 DEF Inv, TypeOK, SweepersAreTyped, HandsFull, Related
<1>2. CASE Next
  BY <1>2, PledgeInv, MatchInv, MeetingInv, SweepInv, CrashInv DEF Next
<1> QED
  BY <1>1, <1>2

\* The invariant holds throughout.
LEMMA Invariance == Spec => []Inv
BY InitInv, NextInv, PTL DEF Spec

\* Rows, balances and what each process has in hand are well typed; no
\* balance of an agent is negative.
THEOREM TypeCorrect == Spec => []TypeOK
<1>1. Inv => TypeOK
  BY DEF Inv
<1> QED
  BY <1>1, Invariance, PTL

\* Whoever matches, confirms and sweeps at once, a matched or handed-over
\* pledge has a live meeting and an open one has none (Match, Sweep).
THEOREM Matched == Spec => []MatchedIsLocked
<1>1. Inv => MatchedIsLocked
  BY DEF Inv
<1> QED
  BY <1>1, Invariance, PTL

\* A trader has been paid for each meeting that both sides confirmed, and for
\* nothing else (confirm).
THEOREM PaidByBoth == Spec => []PaidByBothOnly
<1>1. Inv => PaidByBothOnly
  BY DEF Inv
<1> QED
  BY <1>1, Invariance, PTL
-----------------------------------------------------------------------------
(* An agent's escrow is what their live meetings lock.                     *)

\* What handovers have locked of an agent is a finite sum of amounts.
LEMMA LocksAreAmounts ==
  ASSUME Inv, NEW a \in Agent
  PROVE  /\ IsFiniteSet(DOMAIN handovers) /\ escrow[a] \in Nat
         /\ \A h \in DOMAIN handovers :
              /\ LockedFor(a)[h] \in Nat
              /\ LockedFor(a)[h] = IF Live(h) /\ handovers[h].agent = a
                                   THEN Amount[handovers[h].pledge] ELSE 0
<1>1. DOMAIN handovers = 1..Len(handovers) /\ Len(handovers) \in Nat /\ escrow[a] \in Nat
  BY DEF Inv, TypeOK
<1>2. IsFiniteSet(1..Len(handovers))
  BY <1>1, FS_Interval
<1>3. \A h \in DOMAIN handovers : Amount[handovers[h].pledge] \in Nat
  BY HandoverType
<1> QED
  BY <1>1, <1>2, <1>3 DEF LockedFor

\* No meeting begins or ends, and nothing is locked or released.
LEMMA NothingLocked ==
  ASSUME Inv, EscrowIsLocked, Inv', UNCHANGED escrow, DOMAIN handovers' = DOMAIN handovers,
         \A h \in DOMAIN handovers :
           /\ handovers'[h].agent = handovers[h].agent /\ handovers'[h].pledge = handovers[h].pledge
           /\ (handovers'[h].state \in Meeting) <=> (handovers[h].state \in Meeting)
  PROVE  EscrowIsLocked'
<1> SUFFICES ASSUME NEW a \in Agent
             PROVE  escrow'[a] = Total(LockedFor(a)', DOMAIN handovers')
  BY DEF EscrowIsLocked
<1> DEFINE f == LockedFor(a)
           g == LockedFor(a)'
           S == DOMAIN handovers
<1>1. IsFiniteSet(S) /\ escrow[a] = Total(f, S)
  BY LocksAreAmounts DEF EscrowIsLocked
<1>2. \A h \in S : f[h] = g[h]
  BY DEF LockedFor, Live
<1> HIDE DEF f, g, S
<1>3. Total(f, S) = Total(g, S)
  BY <1>1, <1>2, TotalSame
<1> QED
  BY <1>1, <1>3 DEF f, g, S

\* A meeting ends, and what it locked leaves its agent's escrow.
LEMMA OneReleased ==
  ASSUME Inv, EscrowIsLocked, Inv', NEW h \in DOMAIN handovers, Live(h),
         handovers'[h].state \notin Meeting, DOMAIN handovers' = DOMAIN handovers,
         \A k \in DOMAIN handovers : k # h => handovers'[k] = handovers[k],
         escrow' = [escrow EXCEPT ![handovers[h].agent] = @ - Amount[handovers[h].pledge]]
  PROVE  EscrowIsLocked'
<1> SUFFICES ASSUME NEW a \in Agent
             PROVE  escrow'[a] = Total(LockedFor(a)', DOMAIN handovers')
  BY DEF EscrowIsLocked
<1> DEFINE f == LockedFor(a)
           g == LockedFor(a)'
           S == DOMAIN handovers
<1>1. /\ IsFiniteSet(S) /\ escrow[a] = Total(f, S) /\ h \in S /\ S = DOMAIN handovers'
      /\ \A k \in S : f[k] \in Int
  BY LocksAreAmounts DEF EscrowIsLocked
<1>2. \A k \in S : g[k] = IF handovers'[k].state \in Meeting /\ handovers'[k].agent = a
                          THEN Amount[handovers'[k].pledge] ELSE 0
  BY DEF LockedFor, Live
<1>3. \A k \in S \ {h} : g[k] = f[k]
  BY <1>2 DEF LockedFor, Live
<1>4. g[h] = 0 /\ f[h] = IF handovers[h].agent = a THEN Amount[handovers[h].pledge] ELSE 0
  BY <1>2, LocksAreAmounts
<1>5. \A k \in S : g[k] \in Int
  BY <1>1, <1>3, <1>4
<1>6. escrow'[a] = escrow[a] - f[h]
  <2>1. handovers[h].agent \in Agent /\ escrow \in [Agent -> Nat] /\ Amount[handovers[h].pledge] \in Nat
    BY HandoverType DEF Inv, TypeOK
  <2> QED
    BY <1>4, <2>1
<1> HIDE DEF f, g, S
<1>7. Total(g, S) = Total(f, S) + g[h] - f[h]
  BY <1>1, <1>3, <1>5, TotalChange
<1>8. Total(f, S) \in Int
  BY <1>1, TotalInt
<1>9. escrow'[a] = Total(g, S)
  BY <1>1, <1>4, <1>6, <1>7, <1>8
<1> QED
  BY <1>1, <1>9 DEF g

\* A meeting is proposed, and locks its amount.
LEMMA OneLocked ==
  ASSUME Inv, EscrowIsLocked, Inv', NEW m \in Matcher, NEW b \in Agent, Propose(m, b)
  PROVE  EscrowIsLocked'
<1> SUFFICES ASSUME NEW a \in Agent
             PROVE  escrow'[a] = Total(LockedFor(a)', DOMAIN handovers')
  BY DEF EscrowIsLocked
<1> DEFINE p == matching[m].pledge
           new == [pledge |-> p, agent |-> b, state |-> "proposed", confirmed |-> {},
                   due |-> FALSE, lock |-> "none"]
           n == Len(handovers) + 1
           f == LockedFor(a)
           g == LockedFor(a)'
           S == DOMAIN handovers
<1>1. p \in Pledge /\ Amount[p] \in Nat
  <2>1. p \in Pledge \cup {NoPledge} /\ matching[m].left # {}
    BY DEF Propose, Inv, TypeOK
  <2> QED
    BY <2>1, CashAssumption DEF Inv, HandsFull
<1>2. /\ handovers' = Append(handovers, new) /\ handovers \in Seq(Handover)
      /\ escrow' = [escrow EXCEPT ![b] = @ + Amount[p]]
  BY DEF Propose, Inv, TypeOK
<1>3. /\ new.state \in Meeting /\ new.agent = b /\ new.pledge = p
  BY DEF Meeting
<1> HIDE DEF new
<1>4. /\ S = 1..Len(handovers) /\ DOMAIN handovers' = 1..n /\ Len(handovers) \in Nat
      /\ handovers'[n] = new /\ \A k \in S : handovers'[k] = handovers[k]
  <2>1. new \in Handover
    BY <1>1 DEF new, Handover, Meeting, Side
  <2> QED
    BY <1>2, <2>1, AppendProperties
<1>5. DOMAIN handovers' = S \cup {n} /\ n \notin S
  BY <1>4
<1>6. /\ IsFiniteSet(S) /\ escrow[a] = Total(f, S) /\ \A k \in S : f[k] \in Int
  BY LocksAreAmounts DEF EscrowIsLocked
<1>7. \A k \in S \cup {n} : g[k] = IF handovers'[k].state \in Meeting /\ handovers'[k].agent = a
                                   THEN Amount[handovers'[k].pledge] ELSE 0
  BY <1>5 DEF LockedFor, Live
<1>8. \A k \in S : f[k] = g[k]
  BY <1>4, <1>7 DEF LockedFor, Live
<1>9. g[n] = (IF b = a THEN Amount[p] ELSE 0) /\ g[n] \in Int
  BY <1>1, <1>3, <1>4, <1>7
<1>10. escrow'[a] = escrow[a] + g[n] 
  <2>1. escrow \in [Agent -> Nat]
    BY DEF Inv, TypeOK
  <2> QED
    BY <1>1, <1>2, <1>9, <2>1
<1> HIDE DEF f, g, S, n
<1>11. \A k \in S : g[k] \in Int
  BY <1>6, <1>8
<1>12. Total(g, S \cup {n}) = Total(g, S) + g[n]
  BY <1>5, <1>6, <1>9, <1>11, TotalAdd
<1>13. Total(f, S) = Total(g, S)
  BY <1>6, <1>8, TotalSame
<1>14. escrow'[a] = Total(g, S \cup {n})
  BY <1>6, <1>10, <1>12, <1>13
<1> QED
  BY <1>5, <1>14 DEF g

\* Every step keeps it: escrow moves with the meetings and only with them.
LEMMA EscrowStep == Inv /\ EscrowIsLocked /\ [Next]_vars => EscrowIsLocked'
<1> SUFFICES ASSUME Inv, EscrowIsLocked, [Next]_vars PROVE EscrowIsLocked'
  OBVIOUS
<1>0. Inv'
  BY NextInv
<1>1. ASSUME UNCHANGED <<handovers, escrow>> PROVE EscrowIsLocked'
  BY <1>0, <1>1, NothingLocked
<1>2. ASSUME NEW m \in Matcher, NEW a \in Agent, Propose(m, a) PROVE EscrowIsLocked'
  BY <1>0, <1>2, OneLocked
<1>3. ASSUME NEW h \in DOMAIN handovers, Settle(h) PROVE EscrowIsLocked'
  <2> DEFINE r == handovers[h]
             new == [r EXCEPT !.state = Advance(@, r.lock), !.confirmed = @ \cup {r.lock}, !.lock = "none"]
  <2>1. r \in Handover /\ Consistent(r) /\ r.lock # "none" /\ r.state # "proposed"
    BY <1>3, HandoverType DEF Settle
  <2>2. new \in Handover /\ new.state = "completed" /\ r.state \in Meeting
    BY <2>1, Advances
  <2>3. handovers' = [handovers EXCEPT ![h] = new] /\ escrow' = [escrow EXCEPT ![r.agent] = @ - Amount[r.pledge]]
    BY <1>3 DEF Settle, Confirmed
  <2> HIDE DEF new
  <2>4. /\ DOMAIN handovers' = DOMAIN handovers /\ handovers'[h] = new
        /\ \A k \in DOMAIN handovers : k # h => handovers'[k] = handovers[k]
    BY <2>2, <2>3, OneHandover
  <2>5. Live(h) /\ handovers'[h].state \notin Meeting
    BY <2>2, <2>4 DEF Live, Meeting
  <2> QED
    BY <1>0, <2>3, <2>4, <2>5, OneReleased
<1>4. ASSUME NEW s \in Sweeper, NEW h \in DOMAIN handovers, ReleaseExpired(s, h) PROVE EscrowIsLocked'
  <2> DEFINE r == handovers[h]
             new == [r EXCEPT !.state = "expired"]
  <2>1. r \in Handover /\ Live(h)
    BY <1>4, HandoverType DEF ReleaseExpired
  <2>2. new \in Handover /\ new.state = "expired"
    BY <2>1 DEF Handover
  <2>3. handovers' = [handovers EXCEPT ![h] = new] /\ escrow' = [escrow EXCEPT ![r.agent] = @ - Amount[r.pledge]]
    BY <1>4 DEF ReleaseExpired, Releases
  <2> HIDE DEF new
  <2>4. /\ DOMAIN handovers' = DOMAIN handovers /\ handovers'[h] = new
        /\ \A k \in DOMAIN handovers : k # h => handovers'[k] = handovers[k]
    BY <2>2, <2>3, OneHandover
  <2>5. handovers'[h].state \notin Meeting
    BY <2>2, <2>4 DEF Meeting
  <2> QED
    BY <1>0, <2>1, <2>3, <2>4, <2>5, OneReleased
<1>5. ASSUME NEW h \in DOMAIN handovers, NEW new \in Handover, handovers' = [handovers EXCEPT ![h] = new],
             new.agent = handovers[h].agent, new.pledge = handovers[h].pledge,
             (new.state \in Meeting) <=> (handovers[h].state \in Meeting), UNCHANGED escrow
      PROVE  EscrowIsLocked'
  <2>1. /\ DOMAIN handovers' = DOMAIN handovers /\ handovers'[h] = new
        /\ \A k \in DOMAIN handovers : k # h => handovers'[k] = handovers[k]
    BY <1>5, OneHandover
  <2> QED
    BY <1>0, <1>5, <2>1, NothingLocked
<1>6. ASSUME NEW h \in DOMAIN handovers, ConfirmOne(h) PROVE EscrowIsLocked'
  <2> DEFINE r == handovers[h]
             new == [r EXCEPT !.state = Advance(@, r.lock), !.confirmed = @ \cup {r.lock}, !.lock = "none"]
  <2>1. r \in Handover /\ Consistent(r) /\ r.lock # "none" /\ r.state = "proposed"
    BY <1>6, HandoverType DEF ConfirmOne
  <2>2. /\ new \in Handover /\ new.state \in Meeting /\ r.state \in Meeting
        /\ new.agent = r.agent /\ new.pledge = r.pledge
    BY <2>1, Advances
  <2>3. handovers' = [handovers EXCEPT ![h] = new] /\ UNCHANGED escrow
    BY <1>6 DEF ConfirmOne, Confirmed, accounts
  <2> HIDE DEF new
  <2> QED
    BY <1>5, <2>2, <2>3
<1>7. ASSUME NEW h \in DOMAIN handovers, NEW lock \in Side \cup {"none"},
             handovers' = [handovers EXCEPT ![h].lock = lock], UNCHANGED escrow
      PROVE  EscrowIsLocked'
  <2> DEFINE r == handovers[h]
             new == [r EXCEPT !.lock = lock]
  <2>1. r \in Handover
    BY HandoverType
  <2>2. new \in Handover /\ new.agent = r.agent /\ new.pledge = r.pledge /\ new.state = r.state
    BY <2>1 DEF Handover
  <2>3. handovers' = [handovers EXCEPT ![h] = new]
    BY <1>7
  <2> HIDE DEF new
  <2> QED
    BY <1>5, <1>7, <2>2, <2>3
<1>8. ASSUME NEW h \in DOMAIN handovers, HandoverRunsOut(h) PROVE EscrowIsLocked'
  <2> DEFINE r == handovers[h]
             new == [r EXCEPT !.due = TRUE]
  <2>1. r \in Handover
    BY HandoverType
  <2>2. new \in Handover /\ new.agent = r.agent /\ new.pledge = r.pledge /\ new.state = r.state
    BY <2>1 DEF Handover
  <2>3. handovers' = [handovers EXCEPT ![h] = new] /\ UNCHANGED escrow
    BY <1>8 DEF HandoverRunsOut, accounts
  <2> HIDE DEF new
  <2> QED
    BY <1>5, <2>2, <2>3
<1>9. CASE UNCHANGED vars
  BY <1>1, <1>9 DEF vars, accounts
<1>10. CASE \E p \in Pledge : OpenPledge(p) \/ RefusePledge(p) \/ PledgeRunsOut(p)
  BY <1>1, <1>10 DEF OpenPledge, RefusePledge, PledgeRunsOut, accounts
<1>11. CASE \E m \in Matcher : Match(m)
  BY <1>1, <1>2, <1>11 DEF Match, Load, NextAgent, AlreadyMatched, accounts
<1>12. CASE \E h \in DOMAIN handovers :
              Confirm(h) \/ HandoverRunsOut(h) \/ \E side \in Side : BeginConfirm(h, side)
  BY <1>3, <1>6, <1>7, <1>8, <1>12 DEF Confirm, ConfirmFails, BeginConfirm, accounts
<1>13. CASE \E s \in Sweeper : Sweep(s)
  BY <1>1, <1>4, <1>13
     DEF Sweep, FindExpired, ExpirePledges, FreeNotes, AlreadyClosed, ReleaseFails, accounts
<1>14. CASE Crash
  BY <1>1, <1>14 DEF Crash, accounts
<1> QED
  BY <1>9, <1>10, <1>11, <1>12, <1>13, <1>14 DEF Next

\* However requests, confirmations and sweepers interleave, and whichever of
\* them fail, an agent's escrow is the sum of what their live meetings lock:
\* float is released or settled once, never both (Sweep, settle).
THEOREM Locked == Spec => []EscrowIsLocked
<1>1. Init => EscrowIsLocked
  <2> SUFFICES ASSUME Init, NEW a \in Agent
               PROVE  escrow[a] = Total(LockedFor(a), DOMAIN handovers)
    BY DEF EscrowIsLocked
  <2>1. DOMAIN handovers = {} /\ escrow[a] = 0
    BY DEF Init
  <2> QED
    BY <2>1, TotalEmpty
<1> QED
  BY <1>1, EscrowStep, Invariance, PTL DEF Spec
=============================================================================
