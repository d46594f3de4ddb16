------------------------------ MODULE StageBudget ------------------------------
(***************************************************************************)
(* How a live cycle sizes its orders: the stage and drawdown ladders of    *)
(* autonomy/risk_brain.py with their durable state, the division of one    *)
(* pot by candidate_allocation.py, the sizing at the end of                *)
(* Allocator.decide, and the parts of brain.run_cycle that call them.      *)
(*                                                                         *)
(* The ledger is seen through the facts run_cycle reads from it: which     *)
(* orders it counts and for how many contracts.  The bankroll is the cash  *)
(* balance the broker reports; anything may move it between two cycles.    *)
(***************************************************************************)
EXTENDS Naturals, Sequences, FiniteSets, FiniteSetsExt, Functions

CONSTANTS
  Candidate,      \* markets, by their tickers
  None,
  Group,          \* correlation groups
  GroupOf,        \* candidate -> group
  PriceOf,        \* candidate -> entry price in cents
  WeightOf,       \* candidate -> weight of its grading scope
  StageLimits,    \* STAGE_LIMITS, fractions in thousandths
  MinSettled,     \* PROMOTION_MIN_SETTLED
  MaxOrders,      \* MAX_ORDERS_PER_CYCLE
  TopK,           \* AllocationConfig.top_k
  Throttle,       \* AllocationConfig.throttle in thousandths
  Balance,        \* the balances the broker may report
  KellyBudget     \* what quarter-Kelly may grant

Stage == 0..3     \* SHADOW_ONLY, CANARY, RAMP, CRUISE

ASSUME BudgetConstants ==
  /\ IsFiniteSet(Candidate) /\ None \notin Candidate
  /\ GroupOf \in [Candidate -> Group]
  /\ PriceOf \in [Candidate -> Nat \ {0}]
  /\ WeightOf \in [Candidate -> Nat]
  /\ StageLimits \in [Stage -> [total : Nat, market : Nat, group : Nat, order : Nat,
                                markets : Nat, perGroup : Nat]]
  /\ MinSettled \in Nat /\ MaxOrders \in Nat /\ TopK \in Nat /\ Throttle \in 0..1000
  /\ Balance \subseteq Nat /\ KellyBudget \subseteq Nat

VARIABLES
  disk,      \* risk_state.json: "absent", "old", "valid" or "unreadable"
  file,      \* its content while it can be read
  st,        \* the cycle's RiskState
  pc,        \* "idle", "grade", "divide", "decide", "execute" or "halted"
  book,      \* what the ledger counts per candidate
  exposure, markets,         \* state.open_exposure_cents, state.open_markets
  pool, todo, policy, pot, spent, grant,   \* the division of the pot
  queue,     \* candidates still to be decided, best first
  placed,    \* orders of this cycle
  order,     \* the decision that is being executed
  (* history *)
  earned,        \* decisions graded since the stage in memory was reached
  earnedOnDisk,  \* ... since the stage in the file was reached
  stoppedOnce    \* a hard stop has been saved

diskVars == <<disk, file, earnedOnDisk, stoppedOnce>>
memVars  == <<st, earned>>
potVars  == <<pool, todo, policy, pot, spent, grant>>
planVars == <<exposure, markets, potVars, queue, placed, order>>
vars == <<diskVars, memVars, pc, book, planVars>>

Entry == [kind : {"none", "resting", "filled", "closed"}, count : Nat]
Absent == [kind |-> "none", count |-> 0]
Order == [candidate : Candidate \cup {None}, count : Nat]
NoOrder == [candidate |-> None, count |-> 0]

-----------------------------------------------------------------------------
(***************************************************************************)
(* The ladders                                                             *)
(***************************************************************************)

RiskState ==
  [bankroll : Nat, peak : Nat, stage : Stage, count : Nat, edge : BOOLEAN,
   demoted : {"never", "recent", "past"}, stopped : BOOLEAN]

Fresh(b) ==
  [bankroll |-> b, peak |-> b, stage |-> 1, count |-> 0, edge |-> FALSE,
   demoted |-> "never", stopped |-> FALSE]

Larger(a, b) == IF a > b THEN a ELSE b
Smaller(a, b) == IF a < b THEN a ELSE b

\* Faulty variant: a budget may be overdrawn.
Difference(a, b) == a - b

Left(a, b) == IF a > b THEN a - b ELSE 0

\* Faulty variant: state that cannot be read is state that was never there.
NeverUnavailable == FALSE

Unavailable == disk = "unreadable"

Kept(b) == [file EXCEPT !.bankroll = b, !.peak = Larger(file.peak, b)]

\* The evidence in a file of an older accounting version counted orders that
\* were never filled.
Loaded(b) ==
  CASE disk = "valid" -> Kept(b)
    [] disk = "old" -> [Kept(b) EXCEPT !.count = 0, !.edge = FALSE]
    [] OTHER -> Fresh(b)

\* The drawdown is at least tenths of the peak.
DownBy(s, tenths) == s.peak > 0 /\ 10 * Left(s.peak, s.bankroll) >= tenths * s.peak

\* sizing_multiplier, in quarters
Multiplier(s) ==
  CASE DownBy(s, 3) -> 0
    [] DownBy(s, 2) /\ ~DownBy(s, 3) -> 1
    [] DownBy(s, 1) /\ ~DownBy(s, 2) -> 2
    [] OTHER -> 4

\* Faulty variant: what was earned above counts below.
DemotionKeepsCount(s) ==
  CASE DownBy(s, 3) -> [s EXCEPT !.stopped = TRUE]
    [] DownBy(s, 2) /\ ~DownBy(s, 3) /\ s.stage > 1 ->
         [s EXCEPT !.stage = @ - 1, !.demoted = "recent"]
    [] OTHER -> s

DrawdownPolicy(s) ==
  CASE DownBy(s, 3) -> [s EXCEPT !.stopped = TRUE]
    [] DownBy(s, 2) /\ ~DownBy(s, 3) /\ s.stage > 1 ->
         [s EXCEPT !.stage = @ - 1, !.count = 0, !.demoted = "recent"]
    [] OTHER -> s

\* A drawdown of exactly a tenth is no obstacle: 1.0 - 0.9 < 0.10 in the
\* code's floats, and this comparison has no tolerance.
MayPromote(s) ==
  /\ s.stage < 3 /\ ~s.stopped
  /\ s.demoted # "recent"
  /\ s.count >= MinSettled /\ s.edge
  /\ 10 * Left(s.peak, s.bankroll) <= s.peak

Promoted(s) == IF MayPromote(s) THEN [s EXCEPT !.stage = @ + 1, !.count = 0] ELSE s

-----------------------------------------------------------------------------
(***************************************************************************)
(* What the ledger counts                                                  *)
(***************************************************************************)

Open == {m \in Candidate : book[m].kind \in {"resting", "filled"}}

Reserved(m) == book[m].count * PriceOf[m]
ReservedIn(S) == SumFunctionOnSet([m \in Candidate |-> Reserved(m)], S)

Peers(m) == {p \in Candidate : GroupOf[p] = GroupOf[m]}

-----------------------------------------------------------------------------
(***************************************************************************)
(* Saving                                                                  *)
(***************************************************************************)

Saved(s, e) ==
  /\ disk' = "valid"
  /\ file' = s
  /\ earnedOnDisk' = e
  /\ stoppedOnce' = (stoppedOnce \/ s.stopped)

\* allocate has returned.
NoDivision ==
  /\ pool' = {} /\ todo' = {} /\ policy' = "kelly_prorata" /\ spent' = 0

\* run_cycle has returned: what was in its variables is gone.
Return(next) ==
  /\ pc' = next
  /\ st' = file' /\ earned' = earnedOnDisk'
  /\ exposure' = 0 /\ markets' = 0
  /\ NoDivision /\ pot' = 0 /\ grant' = [m \in Candidate |-> 0]
  /\ queue' = <<>> /\ placed' = {} /\ order' = NoOrder

-----------------------------------------------------------------------------
(***************************************************************************)
(* The beginning of run_cycle                                              *)
(***************************************************************************)

\* An unread balance is replaced by the last one saved, or by zero.
Bankroll ==
  Balance \cup {IF disk \in {"valid", "old"} THEN file.bankroll ELSE 0}

RefuseState ==
  /\ pc = "idle"
  /\ Unavailable
  /\ pc' = "halted"
  /\ UNCHANGED <<diskVars, memVars, book, planVars>>

\* Load, drawdown policy, and the save that no cycle goes without.
StartCycle ==
  /\ pc = "idle"
  /\ ~Unavailable
  /\ \E b \in Bankroll :
       LET s == DrawdownPolicy(Loaded(b))
           e == IF s.stage = Loaded(b).stage THEN earnedOnDisk ELSE {}
       IN  /\ Saved(s, e)
           /\ \/ s.stopped /\ Return("halted")
              \/ ~s.stopped /\ pc' = "grade" /\ st' = s /\ earned' = e /\ UNCHANGED planVars
  /\ UNCHANGED book

\* The venue is in maintenance, or the scan fails after the settlements.
EndEarly ==
  /\ pc = "grade"
  /\ Saved(st, earned)
  /\ Return("idle")
  /\ UNCHANGED book

-----------------------------------------------------------------------------
(***************************************************************************)
(* Order polls and settlements                                             *)
(***************************************************************************)

PollFill(m) ==
  /\ pc = "grade"
  /\ book[m].kind = "resting"
  /\ \E n \in 1..book[m].count : book' = [book EXCEPT ![m] = [kind |-> "filled", count |-> n]]
  /\ UNCHANGED <<diskVars, memVars, pc, planVars>>

PollCancel(m) ==
  /\ pc = "grade"
  /\ book[m].kind = "resting"
  /\ book' = [book EXCEPT ![m] = Absent]
  /\ UNCHANGED <<diskVars, memVars, pc, planVars>>

\* The market of an order without a witnessed fill settles: no evidence.
ReleaseUnfilled(m) ==
  /\ pc = "grade"
  /\ book[m].kind = "resting"
  /\ book' = [book EXCEPT ![m] = [kind |-> "closed", count |-> 0]]
  /\ UNCHANGED <<diskVars, memVars, pc, planVars>>

Closed(m) == [kind |-> "closed", count |-> 0]

\* A settled position becomes evidence; the average edge keeps its sign or
\* takes that of the result.
Grade(m) ==
  /\ pc = "grade"
  /\ book[m].kind = "filled"
  /\ book' = [book EXCEPT ![m] = Closed(m)]
  /\ \E won \in BOOLEAN : \E edge \in {won, st.edge} :
       st' = [st EXCEPT !.count = @ + 1, !.edge = edge]
  /\ earned' = earned \cup {m}
  /\ earnedOnDisk' = earnedOnDisk \cup {m}
  /\ UNCHANGED <<disk, file, stoppedOnce, pc, planVars>>

-----------------------------------------------------------------------------
(***************************************************************************)
(* Promotion, and the pot                                                  *)
(***************************************************************************)

Pot(s, reserved) ==
  (Left((s.bankroll * StageLimits[s.stage].total) \div 1000, reserved) * Throttle) \div 1000

\* Markets are scanned once each.
Rankings == {r \in UNION {[1..n -> Candidate] : n \in 0..Cardinality(Candidate)} :
               /\ \A i, j \in DOMAIN r : r[i] = r[j] => i = j}

\* ranked is the cycle's list of candidates, empty when trading is halted.
Plan(ranked) ==
  /\ pc = "grade"
  /\ \A i \in DOMAIN ranked : book[ranked[i]].kind # "closed"
  /\ st' = Promoted(st)
  /\ earned' = IF MayPromote(st) THEN {} ELSE earned
  /\ exposure' = ReservedIn(Open)
  /\ markets' = Cardinality(Open)
  /\ queue' = ranked /\ placed' = {} /\ order' = NoOrder
  /\ LET slots == Left(StageLimits[st'.stage].markets, markets')
     IN  pool' = {ranked[i] : i \in 1..Smaller(slots, Len(ranked))}
  /\ todo' = pool'
  /\ policy' \in {"kelly_prorata", "proportional", "top_k"}
  /\ pot' = Pot(st', exposure') /\ spent' = 0
  /\ grant' = [m \in Candidate |-> 0]
  /\ pc' = "divide"
  /\ UNCHANGED <<diskVars, book>>

Ask == StageLimits[st.stage].order

Weight(S) == SumFunctionOnSet(WeightOf, S)

\* _proportional, and _kelly_prorata of an oversubscribed pot with equal asks
WeightedShare(m) == IF Weight(pool) = 0 THEN 0 ELSE (pot * WeightOf[m]) \div Weight(pool)

Share(m) ==
  CASE policy = "kelly_prorata" /\ WeightOf[m] = 0 -> 0
    [] policy = "kelly_prorata" /\ WeightOf[m] # 0 ->
         IF Ask * Cardinality({p \in pool : WeightOf[p] # 0}) <= pot THEN Ask
         ELSE WeightedShare(m)
    [] policy = "proportional" -> WeightedShare(m)
    [] policy = "top_k" -> IF Cardinality(pool \ todo) < TopK THEN Ask ELSE 0

\* Faulty variant: each candidate is held to its own ask only.
GrantedInTurn(m) == Smaller(Share(m), Ask)

Granted(m) == Smaller(Smaller(Share(m), Ask), Left(pot, spent))

\* One turn of the policy's loop; top_k ranks by weight, the others by ticker.
Divide(m) ==
  /\ pc = "divide"
  /\ m \in todo
  /\ policy = "top_k" => \A p \in todo : WeightOf[p] <= WeightOf[m]
  /\ grant' = [grant EXCEPT ![m] = Granted(m)]
  /\ spent' = spent + Granted(m)
  /\ todo' = todo \ {m}
  /\ UNCHANGED <<diskVars, memVars, pc, book, exposure, markets, pool, policy, pot, queue,
                 placed, order>>

Divided ==
  /\ pc = "divide"
  /\ todo = {}
  /\ pc' = "decide"
  /\ NoDivision
  /\ UNCHANGED <<diskVars, memVars, book, exposure, markets, pot, grant, queue, placed, order>>

-----------------------------------------------------------------------------
(***************************************************************************)
(* One decision                                                            *)
(***************************************************************************)

Budget(s, thousandths) == (s.bankroll * thousandths * Multiplier(s)) \div 4000

\* Orders of this cycle are in the ledger already, and counted here again.
GroupCount(m) == Cardinality(Open \cap Peers(m)) + Cardinality(placed \cap Peers(m))
GroupCents(m) == ReservedIn(Open \cap Peers(m)) + ReservedIn(placed \cap Peers(m))

SlotsFull == markets >= StageLimits[st.stage].markets

Notional(m, kelly) ==
  LET limits == StageLimits[st.stage] IN
  Min({limits.order, kelly, grant[m],
       Left(Budget(st, limits.total), exposure),
       Budget(st, limits.market),
       Left(Budget(st, limits.group), GroupCents(m))})

\* Faulty variant: the save at the beginning of the cycle is enough.
NoSaveBeforeOrder == UNCHANGED diskVars

SaveBeforeOrder == Saved(st, earned)

\* order_budget allows the order, and the risk state is saved before it is sent.
Decide ==
  /\ pc = "decide" /\ queue # <<>> /\ Cardinality(placed) < MaxOrders
  /\ LET m == Head(queue)
     IN  /\ m \notin Open
         /\ ~SlotsFull
         /\ GroupCount(m) < StageLimits[st.stage].perGroup
         /\ \E kelly \in KellyBudget :
              /\ Notional(m, kelly) >= PriceOf[m]
              /\ order' = [candidate |-> m, count |-> Notional(m, kelly) \div PriceOf[m]]
  /\ queue' = Tail(queue)
  /\ SaveBeforeOrder
  /\ pc' = "execute"
  /\ UNCHANGED <<memVars, book, exposure, markets, potVars, placed>>

\* The forecast, the quotes or the budget do not carry an order; the lack of a
\* slot ends the search.
Abstain ==
  /\ pc = "decide" /\ queue # <<>> /\ Cardinality(placed) < MaxOrders
  /\ \/ queue' = Tail(queue)
     \/ SlotsFull /\ Head(queue) \notin Open /\ queue' = <<>>
  /\ UNCHANGED <<diskVars, memVars, pc, book, exposure, markets, potVars, placed, order>>

\* Faulty variant: the counters are those of the beginning of the cycle.
CountedNextCycle(cents) == UNCHANGED <<exposure, markets>>

Counted(cents) == exposure' = exposure + cents /\ markets' = markets + 1

\* A taker plan may submit fewer contracts than the decision; the central
\* firewall wants a readable risk state.
Accepted ==
  /\ pc = "execute"
  /\ disk = "valid"
  /\ \E n \in 1..order.count :
       /\ book' = [book EXCEPT ![order.candidate] = [kind |-> "resting", count |-> n]]
       /\ Counted(n * PriceOf[order.candidate])
  /\ placed' = placed \cup {order.candidate}
  /\ order' = NoOrder
  /\ pc' = "decide"
  /\ UNCHANGED <<diskVars, memVars, potVars, queue>>

Refused ==
  /\ pc = "execute"
  /\ order' = NoOrder
  /\ pc' = "decide"
  /\ UNCHANGED <<diskVars, memVars, book, exposure, markets, potVars, queue, placed>>

EndCycle ==
  /\ pc = "decide"
  /\ queue = <<>> \/ Cardinality(placed) >= MaxOrders
  /\ Saved([st EXCEPT !.peak = Larger(@, st.bankroll)], earned)
  /\ Return("idle")
  /\ UNCHANGED book

-----------------------------------------------------------------------------
(***************************************************************************)
(* The world                                                               *)
(***************************************************************************)

\* The process dies, or a save has failed and the halted cycle ends the loop:
\* either way what was not saved is lost.
Stop ==
  /\ pc # "halted"
  /\ UNCHANGED <<diskVars, book>>
  /\ Return("halted")

Restart ==
  /\ pc = "halted"
  /\ pc' = "idle"
  /\ UNCHANGED <<diskVars, memVars, book, planVars>>

FileBreaks ==
  /\ disk \in {"valid", "old"}
  /\ disk' = "unreadable"
  /\ UNCHANGED <<file, earnedOnDisk, stoppedOnce, memVars, pc, book, planVars>>

Aged(s) == [s EXCEPT !.demoted = IF @ = "recent" THEN "past" ELSE @]

\* DEMOTION_COOLOFF_HOURS pass.
CoolOffEnds ==
  /\ "recent" \in {st.demoted, file.demoted}
  /\ st' = Aged(st) /\ file' = Aged(file)
  /\ UNCHANGED <<disk, earnedOnDisk, stoppedOnce, earned, pc, book, planVars>>

-----------------------------------------------------------------------------
\* Any stage that was ever saved, with enough evidence of the older accounting
\* for a promotion or none, or no file at all.
Init ==
  /\ \E b \in Balance, s \in Stage \ {0} :
       \/ disk \in {"absent", "valid"} /\ file = [Fresh(b) EXCEPT !.stage = s]
       \/ disk = "old" /\ file = [Fresh(b) EXCEPT !.stage = s, !.count = MinSettled, !.edge = TRUE]
  /\ st = file
  /\ pc = "halted"
  /\ book = [m \in Candidate |-> Absent]
  /\ exposure = 0 /\ markets = 0
  /\ pool = {} /\ todo = {} /\ policy = "kelly_prorata" /\ pot = 0 /\ spent = 0
  /\ grant = [m \in Candidate |-> 0]
  /\ queue = <<>> /\ placed = {} /\ order = NoOrder
  /\ earned = {} /\ earnedOnDisk = {} /\ stoppedOnce = FALSE

Cycle ==
  \/ RefuseState \/ StartCycle \/ EndEarly
  \/ \E m \in Candidate : \/ PollFill(m) \/ PollCancel(m) \/ ReleaseUnfilled(m)
                          \/ Grade(m) \/ Divide(m)
  \/ \E ranked \in Rankings : Plan(ranked)
  \/ Divided \/ Decide \/ Abstain \/ Accepted \/ Refused \/ EndCycle

Next == Cycle \/ Stop \/ Restart \/ FileBreaks \/ CoolOffEnds

Spec == Init /\ [][Next]_vars

-----------------------------------------------------------------------------
(***************************************************************************)
(* Properties                                                              *)
(***************************************************************************)

RiskTyped ==
  /\ disk \in {"absent", "old", "valid", "unreadable"}
  /\ file \in RiskState /\ st \in RiskState
  /\ pc \in {"idle", "grade", "divide", "decide", "execute", "halted"}
  /\ book \in [Candidate -> Entry]
  /\ earned \subseteq Candidate /\ earnedOnDisk \subseteq Candidate
  /\ stoppedOnce \in BOOLEAN

TypeOK ==
  /\ RiskTyped
  /\ exposure \in Nat /\ markets \in Nat
  /\ pool \subseteq Candidate /\ todo \subseteq Candidate
  /\ policy \in {"kelly_prorata", "proportional", "top_k"}
  /\ pot \in Nat /\ spent \in Nat /\ grant \in [Candidate -> Nat]
  /\ queue \in Seq(Candidate)
  /\ placed \subseteq Candidate /\ order \in Order

Placing == \E m \in Candidate : m \notin Open /\ m \in Open'

\* Whatever else was placed in the cycle, an accepted order leaves the ledger's
\* exposure, its markets and the order's group within the stage's limits: the
\* cycle's own counters stand for the ledger.
OrdersFitStage ==
  [][\A m \in Open' \ Open :
       LET limits == StageLimits[st.stage]
       IN  /\ ReservedIn(Open)' <= Budget(st, limits.total)
           /\ ReservedIn(Open \cap Peers(m))' <= Budget(st, limits.group)
           /\ Reserved(m)' <= Smaller(limits.order, Budget(st, limits.market))
           /\ Cardinality(Open') <= limits.markets
           /\ Cardinality(Open' \cap Peers(m)) <= limits.perGroup]_vars

\* candidate_allocation.py:18 "sum(granted) <= pot_cents" and "granted_i <= ask_i",
\* under every policy and in every order.
GrantsFitPot ==
  /\ SumFunctionOnSet(grant, Candidate) <= pot
  /\ pc \in {"divide", "decide", "execute"} => \A m \in Candidate : grant[m] <= Ask

\* A promotion rests on MinSettled different graded decisions since the last
\* change of stage, through crashes, failed saves and demotions.
PromotionIsEarned ==
  [][pc = "grade" /\ st'.stage > st.stage => Cardinality(earned) >= MinSettled]_vars

\* Once a hard stop is saved no order is placed, whatever happens to the file.
StopIsForever == [][stoppedOnce => ~Placing]_vars

\* What an order was sized by survives the death of the process.
OrdersAtSavedStage == [][Placing => file.stage = st.stage /\ ~file.stopped]_vars

=============================================================================
