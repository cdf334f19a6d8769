---------------------------- MODULE CashHandover ----------------------------
(***************************************************************************)
(* Cash pledges and their handovers: package internal/cash.                *)
(*                                                                         *)
(* A trader pledges banknotes, is matched with an agent whose float is     *)
(* locked for them, walks there, and both confirm; or nobody comes and the *)
(* sweeper closes what has run out of time. Match and Sweep each read once *)
(* and then write in several transactions, while everything else goes on.  *)
(*                                                                         *)
(* Each step is one database transaction, except that a confirmation holds *)
(* the handover's row from its check of the clock to its commit. Time is   *)
(* an event: a pledge or a handover runs out at some moment. Distances,    *)
(* codes, photographs' contents and risk scores are abstracted.            *)
(***************************************************************************)
EXTENDS Integers, Sequences, FiniteSets, Sums

CONSTANTS
  Pledge, Agent,
  Matcher,       \* requests that run Match
  Sweeper,       \* processes that run Sweep
  NoPledge,
  Notes,         \* the banknotes in each pledge's photograph
  Photo,         \* the photograph
  Amount,        \* what each pledge declares
  Capital,       \* the agents' float when the run begins
  MaxHandovers,  \* bound: handovers proposed in a behaviour
  MaxFaults      \* bound: crashes and cancelled requests

ASSUME CashAssumption ==
  /\ NoPledge \notin Pledge
  /\ DOMAIN Notes = Pledge /\ DOMAIN Photo = Pledge
  /\ Amount \in [Pledge -> Nat \ {0}]
  /\ Capital \in [Agent -> Nat]
  /\ MaxHandovers \in Nat /\ MaxFaults \in Nat

VARIABLES
  pledge,     \* cash_pledges.state, "none" before the row exists
  lapsed,     \* pledges past their expires_at
  claimed,    \* pledges whose rows of pledged_notes are not released
  handovers,  \* cash_handovers, in the order they were proposed
  float, escrow,   \* balances of each agent
  credited,   \* what each pledge has paid its trader
  matching,   \* each Match request: the pledge it loaded, agents left to try
  sweeping,   \* each sweeper: where it is, handovers it read as expired
  faults

accounts == <<float, escrow, credited>>
vars == <<pledge, lapsed, claimed, handovers, accounts, matching, sweeping, faults>>

Side == {"trader", "agent"}
Meeting == {"proposed", "trader_confirmed", "agent_confirmed"}
LivePledge == {"open", "matched", "handed_over"}
Closed == {"expired", "refused", "settled"}

\* confirmed is the set of the two ..._confirmed_at columns that are set, and
\* lock the side whose confirmation holds the row FOR UPDATE.
Handover == [pledge : Pledge, agent : Agent, state : Meeting \cup {"completed", "expired"},
             confirmed : SUBSET Side, due : BOOLEAN, lock : Side \cup {"none"}]

\* Rows, balances and what each process has in hand are well typed.
TypeOK ==
  /\ pledge \in [Pledge -> LivePledge \cup Closed \cup {"none"}]
  /\ lapsed \subseteq Pledge /\ claimed \subseteq Pledge
  /\ handovers \in Seq(Handover) /\ Len(handovers) <= MaxHandovers
  /\ float \in [Agent -> Nat] /\ escrow \in [Agent -> Nat]
  /\ credited \in [Pledge -> Nat]
  /\ matching \in [Matcher -> [pledge : Pledge \cup {NoPledge}, left : SUBSET Agent]]
  /\ \A s \in Sweeper : /\ sweeping[s].at \in {"idle", "release", "free"}
                        /\ sweeping[s].due \subseteq DOMAIN handovers
  /\ faults \in 0..MaxFaults

Waiting == [pledge |-> NoPledge, left |-> {}]
Resting == [at |-> "idle", due |-> {}]

Init ==
  /\ pledge = [p \in Pledge |-> "none"]
  /\ lapsed = {} /\ claimed = {}
  /\ handovers = << >>
  /\ float = Capital /\ escrow = [a \in Agent |-> 0]
  /\ credited = [p \in Pledge |-> 0]
  /\ matching = [m \in Matcher |-> Waiting]
  /\ sweeping = [s \in Sweeper |-> Resting]
  /\ faults = 0

-----------------------------------------------------------------------------
Live(h) == handovers[h].state \in Meeting
LiveOf(p) == {h \in DOMAIN handovers : handovers[h].pledge = p /\ Live(h)}

\* Index cash_pledges_image_live: one live pledge per photograph.
PhotoFree(p) ==
  \A q \in Pledge \ {p} : Photo[q] = Photo[p] => pledge[q] \notin LivePledge

\* Indexes pledged_notes_..._live: one unreleased row per note.
NotesFree(p) == \A q \in claimed : Notes[q] \cap Notes[p] = {}

\* Service.Pledge, screening passed. A violated index rolls it all back.
OpenPledge(p) ==
  /\ pledge[p] = "none" /\ PhotoFree(p) /\ NotesFree(p)
  /\ pledge' = [pledge EXCEPT ![p] = "open"]
  /\ claimed' = claimed \cup {p}
  /\ UNCHANGED <<lapsed, handovers, accounts, matching, sweeping, faults>>

\* Service.Pledge, screening denied: the row is kept and claims no notes.
RefusePledge(p) ==
  /\ pledge[p] = "none"
  /\ pledge' = [pledge EXCEPT ![p] = "refused"]
  /\ UNCHANGED <<lapsed, claimed, handovers, accounts, matching, sweeping, faults>>

-----------------------------------------------------------------------------
(* Match.                                                                  *)

Covers(a, p) == float[a] >= Amount[p]

\* The pledge is read as open, and some agents are near and, for the moment,
\* have the float.
Load(m, p) ==
  /\ matching[m] = Waiting
  /\ pledge[p] = "open"
  /\ \E near \in SUBSET {a \in Agent : Covers(a, p)} \ {{}} :
       matching' = [matching EXCEPT ![m] = [pledge |-> p, left |-> near]]
  /\ UNCHANGED <<pledge, lapsed, claimed, handovers, accounts, sweeping, faults>>

\* LockAgentFloat, the handover's row and the pledge's, in one transaction.
\* The pledge's update is conditional and nobody looks whether it matched.
Propose(m, a) ==
  LET p == matching[m].pledge IN
  /\ a \in matching[m].left /\ Covers(a, p) /\ LiveOf(p) = {}
  /\ Len(handovers) < MaxHandovers
  /\ float' = [float EXCEPT ![a] = @ - Amount[p]]
  /\ escrow' = [escrow EXCEPT ![a] = @ + Amount[p]]
  /\ handovers' = Append(handovers,
       [pledge |-> p, agent |-> a, state |-> "proposed", confirmed |-> {},
        due |-> FALSE, lock |-> "none"])
  /\ pledge' = [pledge EXCEPT ![p] = IF @ = "open" THEN "matched" ELSE @]
  /\ matching' = [matching EXCEPT ![m] = Waiting]
  /\ UNCHANGED <<lapsed, claimed, credited, sweeping, faults>>

\* ErrInsufficientFunds moves on to the next agent; none left is ErrNoAgent.
NextAgent(m, a) ==
  LET left == matching[m].left \ {a} IN
  /\ a \in matching[m].left /\ ~Covers(a, matching[m].pledge)
  /\ matching' = [matching EXCEPT ![m] = IF left = {} THEN Waiting ELSE [@ EXCEPT !.left = left]]
  /\ UNCHANGED <<pledge, lapsed, claimed, handovers, accounts, sweeping, faults>>

\* Index cash_handovers_live: the pledge already has a meeting.
AlreadyMatched(m, a) ==
  LET p == matching[m].pledge IN
  /\ a \in matching[m].left /\ Covers(a, p) /\ LiveOf(p) # {}
  /\ matching' = [matching EXCEPT ![m] = Waiting]
  /\ UNCHANGED <<pledge, lapsed, claimed, handovers, accounts, sweeping, faults>>

-----------------------------------------------------------------------------
(* confirm and settle.                                                     *)

\* Mutant: whoever confirms second need not be the other side.
AdvanceBySame(state, side) ==
  CASE state = "proposed" /\ side = "trader" -> "trader_confirmed"
    [] state = "proposed" /\ side = "agent" -> "agent_confirmed"
    [] OTHER -> "completed"

\* advance: one step of the meeting, or none.
Advance(state, side) ==
  CASE state = "proposed" /\ side = "trader" -> "trader_confirmed"
    [] state = "proposed" /\ side = "agent" -> "agent_confirmed"
    [] state = "trader_confirmed" /\ side = "agent" -> "completed"
    [] state = "agent_confirmed" /\ side = "trader" -> "completed"
    [] OTHER -> state

\* loadHandover takes the row FOR UPDATE, then the clock is checked.
BeginConfirm(h, side) ==
  /\ handovers[h].lock = "none" /\ ~handovers[h].due
  /\ Advance(handovers[h].state, side) # handovers[h].state
  /\ handovers' = [handovers EXCEPT ![h].lock = side]
  /\ UNCHANGED <<pledge, lapsed, claimed, accounts, matching, sweeping, faults>>

Confirmed(h) ==
  LET side == handovers[h].lock IN
  [handovers EXCEPT ![h].state = Advance(@, side), ![h].confirmed = @ \cup {side},
                    ![h].lock = "none"]

\* One side has confirmed. The pledge is handed over whatever it was; one
\* that is closed becomes live again, which its photograph's index may refuse.
ConfirmOne(h) ==
  LET p == handovers[h].pledge IN
  /\ handovers[h].lock # "none" /\ handovers[h].state = "proposed"
  /\ PhotoFree(p)
  /\ handovers' = Confirmed(h)
  /\ pledge' = [pledge EXCEPT ![p] = "handed_over"]
  /\ UNCHANGED <<lapsed, claimed, accounts, matching, sweeping, faults>>

\* Both have: SettleHandover, the pledge is settled and its notes are freed.
Settle(h) ==
  LET p == handovers[h].pledge
      a == handovers[h].agent IN
  /\ handovers[h].lock # "none" /\ handovers[h].state # "proposed"
  /\ escrow[a] >= Amount[p]
  /\ escrow' = [escrow EXCEPT ![a] = @ - Amount[p]]
  /\ credited' = [credited EXCEPT ![p] = @ + Amount[p]]
  /\ handovers' = Confirmed(h)
  /\ pledge' = [pledge EXCEPT ![p] = "settled"]
  /\ claimed' = claimed \ {p}
  /\ UNCHANGED <<lapsed, float, matching, sweeping, faults>>

\* The request is cancelled, or a statement of it failed.
ConfirmFails(h) ==
  /\ handovers[h].lock # "none"
  /\ handovers' = [handovers EXCEPT ![h].lock = "none"]
  /\ \/ ~PhotoFree(handovers[h].pledge) /\ UNCHANGED faults
     \/ faults < MaxFaults /\ faults' = faults + 1
  /\ UNCHANGED <<pledge, lapsed, claimed, accounts, matching, sweeping>>

Confirm(h) == ConfirmOne(h) \/ Settle(h) \/ ConfirmFails(h)

-----------------------------------------------------------------------------
(* Time and the sweeper.                                                   *)

HandoverRunsOut(h) ==
  /\ Live(h) /\ ~handovers[h].due
  /\ handovers' = [handovers EXCEPT ![h].due = TRUE]
  /\ UNCHANGED <<pledge, lapsed, claimed, accounts, matching, sweeping, faults>>

PledgeRunsOut(p) ==
  /\ pledge[p] \in LivePledge /\ p \notin lapsed
  /\ lapsed' = lapsed \cup {p}
  /\ UNCHANGED <<pledge, claimed, handovers, accounts, matching, sweeping, faults>>

\* Mutant: only meetings nobody has confirmed are swept.
FindProposed(s) ==
  /\ sweeping[s] = Resting
  /\ sweeping' = [sweeping EXCEPT ![s] = [at |-> "release",
       due |-> {h \in DOMAIN handovers : handovers[h].state = "proposed" /\ handovers[h].due}]]
  /\ UNCHANGED <<pledge, lapsed, claimed, handovers, accounts, matching, faults>>

\* Sweep, the query for expired handovers.
FindExpired(s) ==
  /\ sweeping[s] = Resting
  /\ sweeping' = [sweeping EXCEPT ![s] = [at |-> "release",
       due |-> {h \in DOMAIN handovers : Live(h) /\ handovers[h].due}]]
  /\ UNCHANGED <<pledge, lapsed, claimed, handovers, accounts, matching, faults>>

\* ReleaseAgentFloat: back from escrow, if it is there.
Releases(a, n) ==
  /\ escrow[a] >= n
  /\ escrow' = [escrow EXCEPT ![a] = @ - n]
  /\ float' = [float EXCEPT ![a] = @ + n]

\* Where a pledge goes when its meeting expires.
Reopened(p) ==
  IF pledge[p] \notin {"matched", "handed_over"} THEN pledge[p]
  ELSE IF p \in lapsed THEN "expired" ELSE "open"

SweptFrom(s, h) == sweeping' = [sweeping EXCEPT ![s].due = @ \ {h}]

\* Mutant: the handover's state is not tested again before its release.
ReleaseAnyState(s, h) ==
  LET p == handovers[h].pledge IN
  /\ h \in sweeping[s].due /\ handovers[h].lock = "none"
  /\ Releases(handovers[h].agent, Amount[p])
  /\ handovers' = [handovers EXCEPT ![h].state = "expired"]
  /\ pledge' = [pledge EXCEPT ![p] = Reopened(p)]
  /\ SweptFrom(s, h)
  /\ UNCHANGED <<lapsed, claimed, credited, matching, faults>>

\* Mutant: the pledge is left as it was when its meeting expires.
ReleaseFloatAlone(s, h) ==
  LET p == handovers[h].pledge IN
  /\ h \in sweeping[s].due /\ handovers[h].lock = "none"
  /\ Live(h)
  /\ Releases(handovers[h].agent, Amount[p])
  /\ handovers' = [handovers EXCEPT ![h].state = "expired"]
  /\ SweptFrom(s, h)
  /\ UNCHANGED <<pledge, lapsed, claimed, credited, matching, faults>>

\* Sweep, one expired handover: claimed by the statement that changes its
\* state, its float released and its pledge reopened or expired with it.
ReleaseExpired(s, h) ==
  LET p == handovers[h].pledge IN
  /\ h \in sweeping[s].due /\ handovers[h].lock = "none"
  /\ Live(h)
  /\ Releases(handovers[h].agent, Amount[p])
  /\ handovers' = [handovers EXCEPT ![h].state = "expired"]
  /\ pledge' = [pledge EXCEPT ![p] = Reopened(p)]
  /\ SweptFrom(s, h)
  /\ UNCHANGED <<lapsed, claimed, credited, matching, faults>>

\* A confirmation or another sweeper moved it first: the claim matches nothing.
AlreadyClosed(s, h) ==
  /\ h \in sweeping[s].due /\ handovers[h].lock = "none"
  /\ ~Live(h)
  /\ SweptFrom(s, h)
  /\ UNCHANGED <<pledge, lapsed, claimed, handovers, accounts, matching, faults>>

\* The transaction of one release fails: it is logged and the sweep goes on.
ReleaseFails(s, h) ==
  /\ h \in sweeping[s].due
  /\ faults < MaxFaults /\ faults' = faults + 1
  /\ SweptFrom(s, h)
  /\ UNCHANGED <<pledge, lapsed, claimed, handovers, accounts, matching>>

\* Sweep, pledges that ran out with no handover at all.
ExpirePledges(s) ==
  /\ sweeping[s].at = "release" /\ sweeping[s].due = {}
  /\ pledge' = [p \in Pledge |->
                  IF pledge[p] = "open" /\ p \in lapsed THEN "expired" ELSE pledge[p]]
  /\ sweeping' = [sweeping EXCEPT ![s].at = "free"]
  /\ UNCHANGED <<lapsed, claimed, handovers, accounts, matching, faults>>

\* Mutant: a pledge that expired keeps its notes claimed.
FreeSettledNotes(s) ==
  /\ sweeping[s].at = "free"
  /\ claimed' = {p \in claimed : pledge[p] \notin {"refused", "settled"}}
  /\ sweeping' = [sweeping EXCEPT ![s] = Resting]
  /\ UNCHANGED <<pledge, lapsed, handovers, accounts, matching, faults>>

\* Sweep, last: the notes of everything that closed.
FreeNotes(s) ==
  /\ sweeping[s].at = "free"
  /\ claimed' = {p \in claimed : pledge[p] \notin Closed}
  /\ sweeping' = [sweeping EXCEPT ![s] = Resting]
  /\ UNCHANGED <<pledge, lapsed, handovers, accounts, matching, faults>>

\* The process dies or a statement fails, and what it had read is gone.
Crash ==
  /\ faults < MaxFaults /\ faults' = faults + 1
  /\ \/ \E m \in Matcher : /\ matching[m] # Waiting
                           /\ matching' = [matching EXCEPT ![m] = Waiting]
                           /\ UNCHANGED sweeping
     \/ \E s \in Sweeper : /\ sweeping[s] # Resting
                           /\ sweeping' = [sweeping EXCEPT ![s] = Resting]
                           /\ UNCHANGED matching
  /\ UNCHANGED <<pledge, lapsed, claimed, handovers, accounts>>

-----------------------------------------------------------------------------
Match(m) ==
  \/ \E p \in Pledge : Load(m, p)
  \/ \E a \in Agent : Propose(m, a) \/ NextAgent(m, a) \/ AlreadyMatched(m, a)

Sweep(s) ==
  \/ FindExpired(s) \/ ExpirePledges(s) \/ FreeNotes(s)
  \/ \E h \in DOMAIN handovers : 
       ReleaseExpired(s, h) \/ AlreadyClosed(s, h) \/ ReleaseFails(s, h)

Next ==
  \/ \E p \in Pledge : OpenPledge(p) \/ RefusePledge(p) \/ PledgeRunsOut(p)
  \/ \E m \in Matcher : Match(m)
  \/ \E h \in DOMAIN handovers :
       Confirm(h) \/ HandoverRunsOut(h) \/ \E side \in Side : BeginConfirm(h, side)
  \/ \E s \in Sweeper : Sweep(s)
  \/ Crash

Spec == Init /\ [][Next]_vars

\* The sweeper runs on a timer, transactions end and time passes. Nobody has
\* to pledge, match or confirm.
FairSpec ==
  /\ Spec
  /\ \A s \in Sweeper : WF_vars(Sweep(s))
  /\ \A h \in 1..MaxHandovers :
       /\ WF_vars(h \in DOMAIN handovers /\ Confirm(h))
       /\ WF_vars(h \in DOMAIN handovers /\ HandoverRunsOut(h))

-----------------------------------------------------------------------------
(* Properties.                                                             *)

\* What each handover has locked of an agent's float.
LockedFor(a) ==
  [h \in DOMAIN handovers |->
     IF Live(h) /\ handovers[h].agent = a THEN Amount[handovers[h].pledge] ELSE 0]

\* An agent's escrow is what their live meetings lock, no more and no less:
\* float is released or settled, never both, though all of an agent's meetings
\* share one escrow account (Sweep: "settle on one winner per row").
EscrowIsLocked ==
  \A a \in Agent : escrow[a] = Total(LockedFor(a), DOMAIN handovers)

\* confirm: "the money moves only when two people who met each other agree
\* that they did". Only meetings both sides confirmed have paid the trader.
PaidByBothOnly ==
  \A p \in Pledge :
    credited[p] = Amount[p] * Cardinality({h \in DOMAIN handovers :
      handovers[h].pledge = p /\ handovers[h].confirmed = Side})

\* pledge_state: matched, "an agent has accepted; their float is locked". A
\* pledge that is matched or handed over has a meeting, an open one has none.
MatchedIsLocked ==
  \A p \in Pledge :
    /\ pledge[p] \in {"matched", "handed_over"} => LiveOf(p) # {}
    /\ pledge[p] = "open" => LiveOf(p) = {}

\* Sweep: an abandoned meeting costs nobody anything. Every meeting ends, and
\* the float it locked is free again or has paid the trader.
EveryMeetingEnds ==
  \A h \in 1..MaxHandovers :
    (h \in DOMAIN handovers /\ Live(h)) ~> ~(h \in DOMAIN handovers /\ Live(h))

\* release: "Keeping them claimed forever would mean one abandoned pledge
\* permanently burned somebody's money." An expired pledge frees its notes.
ExpiredFreesNotes == \A p \in Pledge : pledge[p] = "expired" ~> p \notin claimed

=============================================================================
