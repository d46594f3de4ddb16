---------------------------- MODULE LiveExecution ----------------------------
(***************************************************************************)
(* Live trading, end to end: the brain's cycle (autonomy/brain.py), the    *)
(* executor and the central firewall's submit (live_firewall/firewall.py), *)
(* the order poll (autonomy/reconciler.py), the outcome ledger and the     *)
(* exposure tracker, against a broker that may accept late, answer late or *)
(* not at all, and a process that may die between any two durable writes.  *)
(*                                                                         *)
(* One asyncio process trades.  pc names the point where it is; a point    *)
(* where it awaits, or has just written durably, is a point of its own.    *)
(***************************************************************************)
EXTENDS ExposureTracker, Functions

CONSTANTS
  None,               \* no current decision
  FamilyOf,           \* market -> correlated family (the ticker up to '-')
  MaxSingleOrder, MaxMarketExposure, MaxTotalExposure, MaxCorrelated,
  MaxOpenMarkets, MaxOrdersPerHour, MaxDailyLoss,    \* configs/caps.json
  PriceImproves,      \* BOOLEAN: may the broker fill below the limit?
  WritesCanFail,      \* BOOLEAN: may the exposure file refuse a write?
  ProcessCanDie,      \* BOOLEAN
  FileCanBreak,       \* BOOLEAN: may a restart find the file unreadable?
  RiskFileCanFail     \* BOOLEAN: may a read or write of the risk file fail?

ASSUME FaultFlags ==
  {PriceImproves, WritesCanFail, ProcessCanDie, FileCanBreak, RiskFileCanFail}
    \subseteq BOOLEAN

\* The exposure caps of the sealed caps.json are numbers of cents.
ASSUME CapsInCents ==
  {MaxMarketExposure, MaxTotalExposure, MaxCorrelated} \subseteq Nat

VARIABLES
  broker,    \* decision -> the broker's order
  wire,      \* create_order requests still in the network
  venue,     \* market -> "open", or its settled result
  claimed,   \* markets whose settlement the ledger has recorded
  aged,      \* decisions whose order_history entry is over an hour old
  ledger,    \* decision -> latest outcome and largest witnessed fill
  booked,    \* settlement ids that ever reached STATE's risk file
  past,      \* those of earlier UTC days
  latched,   \* STATE.persistence_error is set
  polled,    \* decision -> outcome read in this cycle, not yet synced
  pc, cur, result

brokerVars  == <<broker, wire, venue, aged>>
riskVars    == <<booked, past, latched>>
bookVars    == <<claimed, ledger, riskVars>>
controlVars == <<polled, pc, cur, result>>
vars == <<trackerVars, brokerVars, bookVars, controlVars>>

Market == {MarketOf[d] : d \in Decision}

Writes  == IF WritesCanFail THEN BOOLEAN ELSE {TRUE}
Trouble == IF RiskFileCanFail THEN BOOLEAN ELSE {FALSE}

BrokerState == {"none", "resting", "executed", "canceled"}
OutcomeKind == {"none", "decided", "BLOCKED_LOCAL", "REJECTED", "ACCEPTED",
                "PARTIALLY_FILLED", "FILLED", "CANCELED", "EXPIRED", "SETTLED"}
Phase == {"idle", "poll", "record", "sync", "close", "pnl", "unreserve",
          "unposition", "decide", "evaluate", "sink", "reserve", "send",
          "wait", "done"}

NoOutcome == [stage |-> "none", kind |-> "none", filled |-> 0, price |-> NoPrice]

Goto(p) == pc' = p

-----------------------------------------------------------------------------
(***************************************************************************)
(* The broker and the venue                                                *)
(***************************************************************************)

BrokerAccepts(d) ==
  /\ d \in wire
  /\ venue[MarketOf[d]] = "open"
  /\ wire'   = wire \ {d}
  /\ broker' = [broker EXCEPT ![d].state = "resting"]
  /\ UNCHANGED <<trackerVars, venue, aged, bookVars, controlVars>>

\* Refused, or lost on the way.
BrokerNeverAccepts(d) ==
  /\ d \in wire
  /\ wire' = wire \ {d}
  /\ UNCHANGED <<trackerVars, broker, venue, aged, bookVars, controlVars>>

FillPrice(d) == IF PriceImproves THEN 1..LimitOf[d] ELSE {LimitOf[d]}

BrokerFills(d) ==
  /\ broker[d].state = "resting"
  /\ \E price \in FillPrice(d) :
       LET filled == broker[d].filled + 1
       IN  broker' = [broker EXCEPT ![d] =
             [state  |-> IF filled = SizeOf[d] THEN "executed" ELSE "resting",
              filled |-> filled,
              cost   |-> broker[d].cost + price]]
  /\ UNCHANGED <<trackerVars, wire, venue, aged, bookVars, controlVars>>

\* The order's expiration_ts passes, or the operator cancels it by hand.
BrokerCancels(d) ==
  /\ broker[d].state = "resting"
  /\ broker' = [broker EXCEPT ![d].state = "canceled"]
  /\ UNCHANGED <<trackerVars, wire, venue, aged, bookVars, controlVars>>

\* Settlement cancels what still rests on the market.
MarketSettles(m) ==
  /\ venue[m] = "open"
  /\ \E side \in {"yes", "no"} : venue' = [venue EXCEPT ![m] = side]
  /\ broker' = [d \in Decision |->
       IF MarketOf[d] = m /\ broker[d].state = "resting"
         THEN [broker[d] EXCEPT !.state = "canceled"] ELSE broker[d]]
  /\ UNCHANGED <<trackerVars, wire, aged, bookVars, controlVars>>

HourPasses(d) ==
  /\ d \in mem.history \ aged
  /\ aged' = aged \cup {d}
  /\ UNCHANGED <<trackerVars, broker, wire, venue, bookVars, controlVars>>

\* The UTC day ends: the next access of the risk state starts an empty one.
Midnight ==
  /\ past # booked
  /\ past' = booked
  /\ UNCHANGED <<trackerVars, brokerVars, claimed, ledger, booked, latched, controlVars>>

-----------------------------------------------------------------------------
(***************************************************************************)
(* Exposure and the firewall's caps                                        *)
(***************************************************************************)

PositionNotional(book, k) == book.positions[k].quantity * book.positions[k].avg
OrderNotional(book, d)    == Remaining(book, d) * LimitOf[d]

\* total, market and correlated exposure differ in the markets they cover.
Exposure(book, markets) ==
  SumFunctionOnSet([k \in Key |-> PositionNotional(book, k)],
                   {k \in Key : k[1] \in markets})
  + SumFunctionOnSet([d \in Decision |-> OrderNotional(book, d)],
                     {d \in Decision : MarketOf[d] \in markets})

\* Faulty variant: every market is a family of its own.
OwnFamily(m) == {m}

Family(m) == {n \in Market : FamilyOf[n] = FamilyOf[m]}

OpenOrders  == {d \in Decision : Present(mem, d)}
OpenMarkets == {k[1] : k \in {k \in Key : mem.positions[k].quantity > 0}}
               \cup {MarketOf[d] : d \in OpenOrders}

\* A settled decision's loss: what its filled contracts cost when its side lost.
Loss(d) ==
  IF venue[MarketOf[d]] = SideOf[d] THEN 0 ELSE ledger[d].filled * ledger[d].price
DailyLoss == SumFunctionOnSet([d \in Decision |-> Loss(d)], booked \ past)

\* Faulty variant: the caps are compared before the new order is added.
CapsAllowBeforeOrder(d) ==
  LET m == MarketOf[d]
  IN  /\ LimitOf[d] * SizeOf[d] <= MaxSingleOrder
      /\ Exposure(mem, {m}) < MaxMarketExposure
      /\ Exposure(mem, Market) < MaxTotalExposure
      /\ Exposure(mem, Family(m)) < MaxCorrelated
      /\ DailyLoss < MaxDailyLoss
      /\ Cardinality(OpenMarkets) < MaxOpenMarkets
      /\ Cardinality(mem.history \ aged) < MaxOrdersPerHour
      /\ Cardinality(OpenOrders) < MaxOrdersPerHour

\* The cap checks of evaluate, all on the book in memory.
CapsAllow(d) ==
  LET value == LimitOf[d] * SizeOf[d]
      m     == MarketOf[d]
  IN  /\ value <= MaxSingleOrder
      /\ Exposure(mem, {m}) + value <= MaxMarketExposure
      /\ Exposure(mem, Market) + value <= MaxTotalExposure
      /\ Exposure(mem, Family(m)) + value <= MaxCorrelated
      /\ DailyLoss < MaxDailyLoss
      /\ Cardinality(OpenMarkets) < MaxOpenMarkets
      /\ Cardinality(mem.history \ aged) < MaxOrdersPerHour
      /\ Cardinality(OpenOrders) < MaxOrdersPerHour

-----------------------------------------------------------------------------
(***************************************************************************)
(* The ledger                                                              *)
(***************************************************************************)

Active == {"ACCEPTED", "PARTIALLY_FILLED"}

\* Faulty variant: only active orders, not their filled positions.
OpenWhileActive(d) == ledger[d].kind \in Active

\* open_decisions("live"): active orders plus filled, unsettled positions.
OpenInLedger(d) ==
  /\ ledger[d].kind # "SETTLED"
  /\ ledger[d].kind \in Active \/ ledger[d].filled > 0

\* A decision's row, written before it is executed.
Decided(d) == [ledger EXCEPT ![d].kind = "decided"]

\* Outcomes are appended; the latest kind counts, and the largest fill.
Recorded(d, kind, filled, price) ==
  [ledger EXCEPT ![d] =
     [kind   |-> kind,
      filled |-> IF filled > @.filled THEN filled ELSE @.filled,
      price  |-> IF filled > 0 /\ filled >= @.filled THEN price ELSE @.price]]

-----------------------------------------------------------------------------
(***************************************************************************)
(* The cycle, part 1: poll the broker, record, project into the tracker    *)
(***************************************************************************)

BeginCycle ==
  /\ pc = "idle"
  /\ Goto("poll")
  /\ UNCHANGED <<trackerVars, brokerVars, bookVars, polled, cur, result>>

\* Faulty variant: the broker's total is taken for its average.
TotalForAverage(cost, filled) == IF filled = 0 THEN NoPrice ELSE cost

\* _broker_fill_evidence: the broker's total cost over its count, in whole
\* cents, halves up.
AveragePrice(cost, filled) ==
  IF filled = 0 THEN NoPrice ELSE (2 * cost + filled) \div (2 * filled)

\* What one status read makes of an order; "none" is no outcome.
StatusKind(d) ==
  CASE broker[d].state = "executed"            -> "FILLED"
    [] broker[d].state = "canceled"            -> "CANCELED"
    [] broker[d].filled > ledger[d].filled     -> "PARTIALLY_FILLED"
    [] OTHER                                   -> "none"

PollOrder(d) ==
  /\ pc = "poll"
  /\ ledger[d].kind \in Active
  /\ polled[d] = NoOutcome
  /\ StatusKind(d) # "none"
  /\ polled' = [polled EXCEPT ![d] =
       [stage  |-> "read", kind |-> StatusKind(d), filled |-> broker[d].filled,
        price  |-> AveragePrice(broker[d].cost, broker[d].filled)]]
  /\ UNCHANGED <<trackerVars, brokerVars, bookVars, pc, cur, result>>

\* A status read that raises is skipped, so the poll may miss an order.
EndPoll ==
  /\ pc = "poll"
  /\ Goto("record")
  /\ UNCHANGED <<trackerVars, brokerVars, bookVars, polled, cur, result>>

RecordPolled(d) ==
  /\ pc = "record"
  /\ polled[d].stage = "read"
  /\ ledger' = Recorded(d, polled[d].kind, polled[d].filled, polled[d].price)
  /\ polled' = [polled EXCEPT ![d].stage = "recorded"]
  /\ UNCHANGED <<trackerVars, brokerVars, claimed, riskVars, pc, cur, result>>

EndRecord ==
  /\ pc = "record"
  /\ \A d \in Decision : polled[d].stage # "read"
  /\ Goto("sync")
  /\ UNCHANGED <<trackerVars, brokerVars, bookVars, polled, cur, result>>

\* Faulty variant: a cancellation is not taken for a terminal state.
TerminalOnlyFilled(kind) == IF kind = "FILLED" THEN "filled" ELSE "none"

TerminalOf(kind) ==
  CASE kind = "FILLED" -> "filled" [] kind = "CANCELED" -> "canceled" [] OTHER -> "none"

\* Faulty variant: the tracker is told before the ledger.
SyncBeforeRecord(d) ==
  /\ pc = "record"
  /\ polled[d].stage = "read"
  /\ \E ok \in Writes :
       RecordCumulativeFill(d, "broker", polled[d].filled, polled[d].price,
                            TerminalOf(polled[d].kind), ok)
  /\ UNCHANGED <<brokerVars, bookVars, polled, pc, cur, result>>

SyncLiveExposure(d) ==
  /\ pc = "sync"
  /\ polled[d].stage = "recorded"
  /\ \E ok \in Writes :
       RecordCumulativeFill(d, "broker", polled[d].filled, polled[d].price,
                            TerminalOf(polled[d].kind), ok)
  /\ polled' = [polled EXCEPT ![d] = NoOutcome]
  /\ UNCHANGED <<brokerVars, bookVars, pc, cur, result>>

EndSync ==
  /\ pc = "sync"
  /\ \A d \in Decision : polled[d].stage = "none"
  /\ Goto("close")
  /\ UNCHANGED <<trackerVars, brokerVars, bookVars, polled, cur, result>>

-----------------------------------------------------------------------------
(***************************************************************************)
(* The cycle, part 2: close every open decision whose market has settled   *)
(***************************************************************************)

\* record_settlement_if_new: one transaction, and one caller owns the grading.
ClaimIfNew(m) == m \notin claimed /\ claimed' = claimed \cup {m}

ClaimSettlement(m) ==
  /\ pc = "close"
  /\ venue[m] # "open"
  /\ ClaimIfNew(m)
  /\ UNCHANGED <<trackerVars, brokerVars, ledger, riskVars, controlVars>>

Closable(d) == OpenInLedger(d) /\ MarketOf[d] \in claimed

\* An order without a witnessed fill: the ledger outcome is all that happens.
CloseUnfilled(d) ==
  /\ pc = "close"
  /\ Closable(d)
  /\ ledger[d].filled = 0
  /\ ledger' = Recorded(d, "EXPIRED", 0, NoPrice)
  /\ UNCHANGED <<trackerVars, brokerVars, claimed, riskVars, controlVars>>

\* A filled one: the ledger, then STATE, then the tracker's order, then its
\* position, each its own durable write.
CloseFilled(d) ==
  /\ pc = "close"
  /\ Closable(d)
  /\ ledger[d].filled > 0
  /\ ledger' = Recorded(d, "SETTLED", ledger[d].filled, ledger[d].price)
  /\ cur' = d
  /\ Goto("pnl")
  /\ UNCHANGED <<trackerVars, brokerVars, claimed, riskVars, polled, result>>

\* STATE drops the loss while an earlier failure is latched; a write that is
\* refused latches, and the next refresh takes the loss back out of memory.
\* The brain reads neither answer.
RecordRealizedPnl ==
  /\ pc = "pnl"
  /\ \/ latched /\ UNCHANGED <<booked, latched>>
     \/ /\ ~latched
        /\ latched' \in Trouble
        /\ booked' = IF latched' THEN booked ELSE booked \cup {cur}
  /\ Goto("unreserve")
  /\ UNCHANGED <<trackerVars, brokerVars, claimed, ledger, past, polled, cur, result>>

ReleaseOrder ==
  /\ pc = "unreserve"
  /\ \E ok \in Writes : RemoveOpenOrder(cur, "broker", ok)
  /\ Goto("unposition")
  /\ UNCHANGED <<brokerVars, bookVars, polled, cur, result>>

ReleasePosition ==
  /\ pc = "unposition"
  /\ \E ok \in Writes : RemovePosition(KeyOf(cur), ok)
  /\ cur' = None
  /\ Goto("close")
  /\ UNCHANGED <<brokerVars, bookVars, polled, result>>

EndClose ==
  /\ pc = "close"
  /\ ~ \E d \in Decision : Closable(d)
  /\ Goto("decide")
  /\ UNCHANGED <<trackerVars, brokerVars, bookVars, polled, cur, result>>

-----------------------------------------------------------------------------
(***************************************************************************)
(* The cycle, part 3: decide and submit                                    *)
(***************************************************************************)

RecordDecision(d) ==
  /\ pc = "decide"
  /\ ledger[d].kind = "none"
  /\ venue[MarketOf[d]] = "open"
  /\ ledger' = Decided(d)
  /\ cur' = d
  /\ Goto("evaluate")
  /\ UNCHANGED <<trackerVars, brokerVars, claimed, riskVars, polled, result>>

Finish(kind) == result' = kind /\ Goto("done")

\* What the gates besides the caps may say: mode, authority, risk snapshot,
\* secrets, adapters, freshness, spread, depth, net EV.
GateVerdict == BOOLEAN

\* The executor's own gates refuse: nothing is evaluated, nothing written.
ExecutorBlocks ==
  /\ pc = "evaluate"
  /\ Finish("BLOCKED_LOCAL")
  /\ UNCHANGED <<trackerVars, brokerVars, bookVars, polled, cur>>

\* The awaited reads of the market's metadata or book fail or refuse.
SinkReadsBlock ==
  /\ pc = "sink"
  /\ Finish("BLOCKED_LOCAL")
  /\ UNCHANGED <<trackerVars, brokerVars, bookVars, polled, cur>>

\* evaluate stops at the risk state, which it reads and writes before all else:
\* either may fail, or the file holds a stop.
RiskStateBlocks ==
  /\ pc \in {"evaluate", "sink"}
  /\ latched' \in Trouble
  /\ Finish("BLOCKED_LOCAL")
  /\ UNCHANGED <<trackerVars, brokerVars, claimed, ledger, booked, past, polled, cur>>

\* One run of evaluate past the risk state, which the refresh has unlatched:
\* the probing write, then the caps and the other gates.
Evaluate(allow, next) ==
  /\ \E ok \in Writes :
       /\ VerifyPersistence(ok)
       /\ \/ /\ ok /\ Healthy /\ CapsAllow(cur) /\ allow
             /\ Goto(next)
             /\ UNCHANGED result
          \/ /\ ~(ok /\ Healthy /\ CapsAllow(cur) /\ allow)
             /\ Finish("BLOCKED_LOCAL")
  /\ latched' = FALSE
  /\ UNCHANGED <<brokerVars, claimed, ledger, booked, past, polled, cur>>

\* Before the awaited metadata and order-book reads.
FirstEvaluation == pc = "evaluate" /\ \E allow \in GateVerdict : Evaluate(allow, "sink")
\* After them, with no await before the reservation.
FinalEvaluation == pc = "sink" /\ \E allow \in GateVerdict : Evaluate(allow, "reserve")

ReserveSubmission ==
  /\ pc = "reserve"
  /\ \E ok \in Writes :
       /\ ReserveOrderSubmission(cur, ok)
       /\ \/ ReserveSucceeds(cur, ok) /\ Goto("send") /\ UNCHANGED result
          \/ ~ReserveSucceeds(cur, ok) /\ Finish("BLOCKED_LOCAL")
  /\ UNCHANGED <<brokerVars, bookVars, polled, cur>>

CreateOrder ==
  /\ pc = "send"
  /\ wire' = wire \cup {cur}
  /\ Goto("wait")
  /\ UNCHANGED <<trackerVars, broker, venue, aged, bookVars, polled, cur, result>>

\* The broker's order id arrives.  A failed confirm write still reports success.
BrokerAnswers ==
  /\ pc = "wait"
  /\ broker[cur].state # "none"
  /\ \E ok \in Writes : ConfirmOpenOrder(cur, ok)
  /\ Finish("ACCEPTED")
  /\ UNCHANGED <<brokerVars, bookVars, polled, cur>>

\* Faulty variant: an ambiguous submission is sent once more.
UnknownOutcomeRetried ==
  /\ pc = "wait"
  /\ \E ok \in Writes : MarkOrderOutcomeUnknown(cur, ok)
  /\ Goto("send")
  /\ UNCHANGED <<brokerVars, bookVars, polled, cur, result>>

\* Faulty variant: the tracker's word for the outcome reaches the ledger.
UnknownOutcomeUntranslated ==
  /\ pc = "wait"
  /\ \E ok \in Writes : MarkOrderOutcomeUnknown(cur, ok)
  /\ Finish("submit_outcome_unknown")
  /\ UNCHANGED <<brokerVars, bookVars, polled, cur>>

\* A timeout, an error or an answer without an id, whatever the broker did.
BrokerOutcomeUnknown ==
  /\ pc = "wait"
  /\ \E ok \in Writes : MarkOrderOutcomeUnknown(cur, ok)
  /\ Finish("REJECTED")
  /\ UNCHANGED <<brokerVars, bookVars, polled, cur>>

RecordExecution ==
  /\ pc = "done"
  /\ ledger' = Recorded(cur, result, 0, NoPrice)
  /\ cur' = None
  /\ result' = "none"
  /\ Goto("decide")
  /\ UNCHANGED <<trackerVars, brokerVars, claimed, riskVars, polled>>

EndCycle ==
  /\ pc = "decide"
  /\ Goto("idle")
  /\ UNCHANGED <<trackerVars, brokerVars, bookVars, polled, cur, result>>

-----------------------------------------------------------------------------
(***************************************************************************)
(* Process death                                                           *)
(***************************************************************************)

ForgetControl ==
  /\ polled' = [d \in Decision |-> NoOutcome]
  /\ pc'     = "idle"
  /\ cur'    = None
  /\ result' = "none"

\* STATE is loaded from its own file, which may be refused.
ReloadRiskState ==
  /\ latched' \in Trouble
  /\ UNCHANGED <<booked, past>>

\* The process dies and is started again on the files it left.
Restart ==
  /\ ProcessCanDie
  /\ mem' = Load(disk)
  /\ ReloadRiskState
  /\ ForgetControl
  /\ UNCHANGED <<disk, brokerVars, claimed, ledger>>

RestartOnBrokenFile ==
  /\ FileCanBreak
  /\ disk' = [disk EXCEPT !.readable = FALSE]
  /\ mem'  = Load(disk')
  /\ ReloadRiskState
  /\ ForgetControl
  /\ UNCHANGED <<brokerVars, claimed, ledger>>

-----------------------------------------------------------------------------
Init ==
  /\ mem     = EmptyBook
  /\ disk    = Payload(EmptyBook)
  /\ broker  = [d \in Decision |-> [state |-> "none", filled |-> 0, cost |-> 0]]
  /\ wire    = {}
  /\ venue   = [m \in Market |-> "open"]
  /\ claimed = {}
  /\ aged    = {}
  /\ ledger  = [d \in Decision |-> [kind |-> "none", filled |-> 0, price |-> NoPrice]]
  /\ booked  = {}
  /\ past    = {}
  /\ latched = FALSE
  /\ polled  = [d \in Decision |-> NoOutcome]
  /\ pc      = "idle"
  /\ cur     = None
  /\ result  = "none"

BrokerStep ==
  \/ \E d \in Decision : \/ BrokerAccepts(d) \/ BrokerNeverAccepts(d)
                         \/ BrokerFills(d)   \/ BrokerCancels(d)
                         \/ HourPasses(d)
  \/ \E m \in Market : MarketSettles(m)
  \/ Midnight

CycleStep ==
  \/ BeginCycle \/ EndPoll \/ EndRecord \/ EndSync \/ EndClose \/ EndCycle
  \/ \E d \in Decision : \/ PollOrder(d)     \/ RecordPolled(d)
                         \/ SyncLiveExposure(d)
                         \/ CloseUnfilled(d) \/ CloseFilled(d)
                         \/ RecordDecision(d)
  \/ \E m \in Market : ClaimSettlement(m)
  \/ RecordRealizedPnl \/ ReleaseOrder \/ ReleasePosition

SubmitStep ==
  \/ ExecutorBlocks \/ RiskStateBlocks \/ FirstEvaluation \/ SinkReadsBlock \/ FinalEvaluation
  \/ ReserveSubmission \/ CreateOrder
  \/ BrokerAnswers \/ BrokerOutcomeUnknown \/ RecordExecution

Next == BrokerStep \/ CycleStep \/ SubmitStep \/ Restart \/ RestartOnBrokenFile

Spec == Init /\ [][Next]_vars

\* The trading process keeps running, the poll does not miss an order for ever
\* and the settlement feed does not miss a market for ever.
Fairness ==
  /\ WF_vars(CycleStep \/ SubmitStep)
  /\ \A d \in Decision : SF_vars(PollOrder(d))
  /\ \A m \in Market : SF_vars(ClaimSettlement(m))

FairSpec == Spec /\ Fairness

-----------------------------------------------------------------------------
(***************************************************************************)
(* Properties                                                              *)
(***************************************************************************)

BrokerOrder == [state : BrokerState, filled : Nat, cost : Nat]
LedgerRow   == [kind : OutcomeKind, filled : Nat, price : Nat]
PolledRow   == [stage : {"none", "read", "recorded"}, kind : OutcomeKind,
                filled : Nat, price : Nat]

\* Shapes of the state of the process, its two durable stores and the broker.
TypeOK ==
  /\ BookOK(mem) /\ FileOK(disk)
  /\ broker \in [Decision -> BrokerOrder]
  /\ wire \subseteq Decision
  /\ venue \in [Market -> {"open", "yes", "no"}]
  /\ claimed \subseteq Market
  /\ aged \subseteq Decision
  /\ ledger \in [Decision -> LedgerRow]
  /\ booked \subseteq Decision
  /\ past \subseteq Decision
  /\ latched \in BOOLEAN
  /\ polled \in [Decision -> PolledRow]
  /\ pc \in Phase
  /\ cur \in Decision \cup {None}
  /\ result \in OutcomeKind

\* The write-ahead rule of reserve_order_submission: an order that is on its
\* way to the broker, or rests there, is reserved in the file, and the file
\* has not taken more of it for filled than the broker has filled.  Whenever
\* the process dies, its successor starts with the order counted.
MayStillFill(d) == d \in wire \/ broker[d].state = "resting"

ReservedBeforeSent ==
  \A d \in Decision : MayStillFill(d) =>
    disk.orders[d].state # "none" /\ disk.orders[d].filled <= broker[d].filled

\* What the account has really at stake in a set of unsettled markets.
TrueOrder(d) ==
  broker[d].cost
  + (IF MayStillFill(d) THEN (SizeOf[d] - broker[d].filled) * LimitOf[d] ELSE 0)

Unsettled(markets) == {d \in Decision : MarketOf[d] \in markets /\ venue[MarketOf[d]] = "open"}
AtStake(markets) ==
  SumFunctionOnSet([d \in Decision |-> TrueOrder(d)], Unsettled(markets))
FilledContracts(markets) ==
  SumFunctionOnSet([d \in Decision |-> broker[d].filled], Unsettled(markets))

\* The tracked exposure is never below what is at stake by more than the half
\* cent a contract that _broker_fill_evidence rounds an average price by:
\* in memory and in the file, through timeouts, late acceptances, partial
\* fills, failed writes and restarts.
ExposureCoversBroker ==
  \A m \in Market : venue[m] = "open" =>
    /\ 2 * Exposure(mem, {m})  + FilledContracts({m}) >= 2 * AtStake({m})
    /\ 2 * Exposure(disk, {m}) + FilledContracts({m}) >= 2 * AtStake({m})

\* The exposure caps of evaluate hold of the account itself, up to the same
\* rounding, and not just of the tracker's book.
CapsHoldAtBroker ==
  /\ 2 * AtStake(Market) <= 2 * MaxTotalExposure + FilledContracts(Market)
  /\ \A m \in Market :
       /\ 2 * AtStake({m}) <= 2 * MaxMarketExposure + FilledContracts({m})
       /\ LET related == {n \in Market : FamilyOf[n] = FamilyOf[m]}
          IN  2 * AtStake(related) <= 2 * MaxCorrelated + FilledContracts(related)

\* No position without fills: the tracked quantity of an unsettled contract
\* never exceeds what the broker filled, although every poll reports
\* cumulative counts and restarts repeat polls.
NoPhantomPosition ==
  \A k \in Key : venue[k[1]] = "open" =>
    LET filled == SumFunctionOnSet([d \in Decision |-> broker[d].filled],
                                   {d \in Decision : KeyOf(d) = k})
    IN  mem.positions[k].quantity <= filled /\ disk.positions[k].quantity <= filled

\* The ledger learns a fill before the tracker: after a crash between the two
\* writes the tracker still holds the reservation, never the reverse.
LedgerLeadsTracker ==
  \A d \in Decision :
    /\ ledger[d].filled <= broker[d].filled
    /\ mem.orders[d].filled  <= ledger[d].filled
    /\ disk.orders[d].filled <= ledger[d].filled

\* An accepted order that the broker has resolved leaves the book of resting
\* orders, unless its market settles first (see SettledDecisionFreesSlot).
ResolvedOrderLeavesBook ==
  \A d \in Decision :
    (ledger[d].kind \in Active /\ broker[d].state \in {"executed", "canceled"})
      ~> (~Present(mem, d) \/ venue[MarketOf[d]] # "open")

\* A recorded fill in a market that settles is booked into the daily loss and
\* its order and position leave the tracker.
SettledFillIsClosed ==
  \A d \in Decision :
    (ledger[d].filled > 0 /\ venue[MarketOf[d]] # "open")
      ~> (d \in booked /\ ~Present(mem, d) /\ mem.positions[KeyOf(d)] = NoPosition)

\* brain.py:453 "Settlement releases it without inventing a position or P&L",
\* brain.py:564 "A settled market must always release its slot": when the
\* closing pass is over, no decision the ledger has closed holds a slot.
SettledDecisionFreesSlot ==
  pc = "decide" =>
    \A d \in Decision : ledger[d].kind \in {"EXPIRED", "SETTLED"} => ~Present(mem, d)

\* core/state.py:18 "the live firewall cannot forget losses on restart": the
\* loss of a settled decision has reached the risk file, or is about to.
SettledLossIsBooked ==
  \A d \in Decision :
    ledger[d].kind = "SETTLED" => d \in booked \/ (pc = "pnl" /\ cur = d)

\* The half of the quarantine that holds: on an unreadable file the latch that
\* _load set keeps every order from being sent and every probing write from
\* replacing the file.  Only the release of a settled position gets past it.
BrokenBookBlocksOrders ==
  [][~disk.readable /\ pc \notin {"unreserve", "unposition"} =>
       disk' = disk /\ wire' \subseteq wire]_vars

\* exposure_tracker.py:144 "Never overwrite a corrupt/unknown prior position
\* book with an empty optimistic one": an unreadable file stays as it is.
BrokenBookIsKept == [][~disk.readable => disk' = disk]_vars

=============================================================================
