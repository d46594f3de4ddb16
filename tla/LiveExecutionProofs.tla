------------------------- MODULE LiveExecutionProofs -------------------------
(***************************************************************************)
(* Live trading, for any number of decisions, markets, sizes, limits and   *)
(* caps.  With every fault of the model but a damaged file: an order that  *)
(* can still fill is reserved on disk, LiveExecution implements OrderLife, *)
(* the tracked exposure covers what the account has at stake, and the      *)
(* exposure caps hold of the account.  Damaged files included: the ledger  *)
(* leads the tracker, no position is tracked that was not filled, no order *)
(* leaves on a file that cannot be read, and every step is a call of the   *)
(* tracker that its own model allows, or none.  Without a death of the     *)
(* process, no settled loss is forgotten.                                  *)
(***************************************************************************)
EXTENDS LiveRefinement, ExposureTrackerLemmas, SumTheorems

-----------------------------------------------------------------------------
(***************************************************************************)
(* The inductive invariant                                                 *)
(***************************************************************************)

Untouched(d) == d \notin wire /\ broker[d].state = "none"
Resolved(d)  == broker[d].state \in {"executed", "canceled"}

\* The broker knows an order only after its request, nothing rests on a
\* settled market, and only decisions in the ledger have been sent.
BrokerInv ==
  /\ \A d \in Decision :
       /\ broker[d].state = "none" => broker[d].filled = 0
       /\ d \in wire => broker[d].state = "none"
       /\ venue[MarketOf[d]] # "open" => broker[d].state # "resting"
       /\ ledger[d].kind = "none" => Untouched(d)
  /\ \A m \in claimed : venue[m] # "open"

\* A polled outcome stays true of the broker until it is projected.
PolledInv ==
  \A d \in Decision : polled[d].stage # "none" =>
    /\ polled[d].kind \in {"FILLED", "CANCELED", "PARTIALLY_FILLED"}
    /\ polled[d].kind # "PARTIALLY_FILLED" => Resolved(d)
    /\ polled[d].filled <= broker[d].filled
    /\ polled[d].stage = "recorded" => polled[d].filled <= ledger[d].filled

Submitting == {"evaluate", "sink", "reserve", "send"}

\* What the point of control says about the current decision.
ControlInv ==
  /\ pc \in Submitting \cup {"wait", "done"} =>
       cur \in Decision /\ ledger[cur].kind # "none"
  /\ pc \in Submitting => Untouched(cur)
  /\ pc = "send" => Present(mem, cur) /\ Present(disk, cur)
  /\ pc = "done" => result # "none"
  /\ pc \in {"pnl", "unreserve", "unposition"} => cur \in Decision
  /\ pc \in {"pnl", "unreserve"} => ~MayStillFill(cur)

\* Memory and file hold every order that may still fill.
Covered ==
  /\ disk.readable
  /\ \A d \in Decision : MayStillFill(d) => Present(mem, d) /\ Present(disk, d)

IInv ==
  /\ TypeOK
  /\ BrokerInv
  /\ PolledInv
  /\ LedgerLeadsTracker
  /\ ControlInv
  /\ ~FileCanBreak => Covered

-----------------------------------------------------------------------------
(***************************************************************************)
(* Steps that leave the tracker alone                                      *)
(***************************************************************************)

\* A step that leaves the tracker alone leaves it well formed.
LEMMA TrackerUnchanged ==
  ASSUME IInv, UNCHANGED trackerVars
  PROVE  BookOK(mem') /\ FileOK(disk')
BY DEF IInv, TypeOK, trackerVars

\* The rounded average price of _broker_fill_evidence is a number of cents.
LEMMA AveragePriceNat ==
  ASSUME NEW cost \in Nat, NEW filled \in Nat
  PROVE  AveragePrice(cost, filled) \in Nat
BY DEF AveragePrice, NoPrice

\* What the broker has filled and charged of an order.
LEMMA BrokerNumbers ==
  ASSUME IInv, NEW d \in Decision
  PROVE  broker[d].filled \in Nat /\ broker[d].cost \in Nat
<1>1. broker \in [Decision -> BrokerOrder]
  BY DEF IInv, TypeOK
<1> QED
  BY <1>1 DEF BrokerOrder

\* A move between two points of the cycle keeps the invariant.
LEMMA ControlMove ==
  ASSUME IInv, UNCHANGED <<trackerVars, brokerVars, bookVars, polled, cur, result>>,
         pc' \in {"idle", "poll", "record", "sync", "close", "decide"}
  PROVE  IInv'
<1> USE DEF IInv, trackerVars, brokerVars, bookVars, riskVars
<1>1. TypeOK'
  BY TrackerUnchanged DEF TypeOK, Phase
<1>2. BrokerInv' /\ PolledInv' /\ LedgerLeadsTracker'
  BY DEF BrokerInv, PolledInv, LedgerLeadsTracker, Untouched, Resolved
<1>3. ControlInv'
  BY DEF ControlInv, Submitting
<1>4. ~FileCanBreak => Covered'
  BY DEF Covered, MayStillFill, Present
<1> QED
  BY <1>1, <1>2, <1>3, <1>4

\* The broker accepts a request.
LEMMA AcceptStep ==
  ASSUME IInv, NEW d \in Decision, BrokerAccepts(d)
  PROVE  IInv'
<1> USE DEF IInv, BrokerAccepts, trackerVars, bookVars, riskVars, controlVars
<1>1. TypeOK'
  BY TrackerUnchanged DEF TypeOK, BrokerOrder, BrokerState
<1>2. BrokerInv'
  BY DEF BrokerInv, Untouched, ControlInv, Submitting, MayStillFill,
         LedgerLeadsTracker, PolledInv, TypeOK, BrokerOrder, LedgerRow, PolledRow
<1>3. PolledInv'
  BY DEF PolledInv, Resolved, BrokerInv, TypeOK, BrokerOrder, PolledRow, LedgerRow
<1>4. LedgerLeadsTracker'
  BY DEF LedgerLeadsTracker, PolledInv, TypeOK, BrokerOrder, LedgerRow, PolledRow
<1>5. ControlInv'
  BY DEF ControlInv, Submitting, Untouched, MayStillFill, Present, BrokerInv,
         LedgerLeadsTracker, TypeOK, BrokerOrder, LedgerRow
<1>6. ~FileCanBreak => Covered'
  BY DEF Covered, MayStillFill, Present, ControlInv, BrokerInv, TypeOK, BrokerOrder
<1> QED
  BY <1>1, <1>2, <1>3, <1>4, <1>5, <1>6

\* The broker never sees a request.
LEMMA NeverAcceptStep ==
  ASSUME IInv, NEW d \in Decision, BrokerNeverAccepts(d)
  PROVE  IInv'
<1> USE DEF IInv, BrokerNeverAccepts, trackerVars, bookVars, riskVars, controlVars
<1>1. TypeOK'
  BY TrackerUnchanged DEF TypeOK
<1>2. BrokerInv'
  BY DEF BrokerInv, Untouched, ControlInv, Submitting, MayStillFill,
         LedgerLeadsTracker, PolledInv, TypeOK, BrokerOrder, LedgerRow, PolledRow
<1>3. PolledInv'
  BY DEF PolledInv, Resolved, BrokerInv, TypeOK, BrokerOrder, PolledRow, LedgerRow
<1>4. LedgerLeadsTracker'
  BY DEF LedgerLeadsTracker, PolledInv, TypeOK, BrokerOrder, LedgerRow, PolledRow
<1>5. ControlInv'
  BY DEF ControlInv, Submitting, Untouched, MayStillFill, Present, BrokerInv,
         LedgerLeadsTracker, TypeOK, BrokerOrder, LedgerRow
<1>6. ~FileCanBreak => Covered'
  BY DEF Covered, MayStillFill, Present, ControlInv, BrokerInv, TypeOK, BrokerOrder
<1> QED
  BY <1>1, <1>2, <1>3, <1>4, <1>5, <1>6

\* The broker fills a contract.
LEMMA BrokerFillStep ==
  ASSUME IInv, NEW d \in Decision, BrokerFills(d)
  PROVE  IInv'
<1> USE DEF IInv, BrokerFills, trackerVars, bookVars, riskVars, controlVars
<1>a. FillPrice(d) \subseteq Nat
  BY FaultFlags, DecisionTerms DEF FillPrice
<1>b. broker' \in [Decision -> BrokerOrder]
  BY <1>a DEF TypeOK, BrokerOrder, BrokerState
<1>1. TypeOK'
  BY TrackerUnchanged, <1>a, <1>b DEF TypeOK, BrokerOrder, BrokerState
<1>2. BrokerInv'
  BY DEF BrokerInv, Untouched, ControlInv, Submitting, MayStillFill,
         LedgerLeadsTracker, PolledInv, TypeOK, BrokerOrder, LedgerRow, PolledRow
<1>3. PolledInv'
  BY DEF PolledInv, Resolved, BrokerInv, TypeOK, BrokerOrder, PolledRow, LedgerRow
<1>4. LedgerLeadsTracker'
  BY DEF LedgerLeadsTracker, PolledInv, TypeOK, BrokerOrder, LedgerRow, PolledRow
<1>5. ControlInv'
  BY DEF ControlInv, Submitting, Untouched, MayStillFill, Present, BrokerInv,
         LedgerLeadsTracker, TypeOK, BrokerOrder, LedgerRow
<1>6. ~FileCanBreak => Covered'
  BY DEF Covered, MayStillFill, Present, ControlInv, BrokerInv, TypeOK, BrokerOrder
<1> QED
  BY <1>1, <1>2, <1>3, <1>4, <1>5, <1>6

\* The broker cancels an order.
LEMMA BrokerCancelStep ==
  ASSUME IInv, NEW d \in Decision, BrokerCancels(d)
  PROVE  IInv'
<1> USE DEF IInv, BrokerCancels, trackerVars, bookVars, riskVars, controlVars
<1>1. TypeOK'
  BY TrackerUnchanged DEF TypeOK, BrokerOrder, BrokerState
<1>2. BrokerInv'
  BY DEF BrokerInv, Untouched, ControlInv, Submitting, MayStillFill,
         LedgerLeadsTracker, PolledInv, TypeOK, BrokerOrder, LedgerRow, PolledRow
<1>3. PolledInv'
  BY DEF PolledInv, Resolved, BrokerInv, TypeOK, BrokerOrder, PolledRow, LedgerRow
<1>4. LedgerLeadsTracker'
  BY DEF LedgerLeadsTracker, PolledInv, TypeOK, BrokerOrder, LedgerRow, PolledRow
<1>5. ControlInv'
  BY DEF ControlInv, Submitting, Untouched, MayStillFill, Present, BrokerInv,
         LedgerLeadsTracker, TypeOK, BrokerOrder, LedgerRow
<1>6. ~FileCanBreak => Covered'
  BY DEF Covered, MayStillFill, Present, ControlInv, BrokerInv, TypeOK, BrokerOrder
<1> QED
  BY <1>1, <1>2, <1>3, <1>4, <1>5, <1>6

\* A market settles and what rests there is cancelled.
LEMMA MarketSettleStep ==
  ASSUME IInv, NEW m \in Market, MarketSettles(m)
  PROVE  IInv'
<1> USE DEF IInv, MarketSettles, trackerVars, bookVars, riskVars, controlVars
<1>1. TypeOK'
  BY TrackerUnchanged DEF TypeOK, BrokerOrder, BrokerState
<1>2. BrokerInv'
  BY DEF BrokerInv, Untouched, ControlInv, Submitting, MayStillFill,
         LedgerLeadsTracker, PolledInv, TypeOK, BrokerOrder, LedgerRow, PolledRow
<1>3. PolledInv'
  BY DEF PolledInv, Resolved, BrokerInv, TypeOK, BrokerOrder, PolledRow, LedgerRow
<1>4. LedgerLeadsTracker'
  BY DEF LedgerLeadsTracker, PolledInv, TypeOK, BrokerOrder, LedgerRow, PolledRow
<1>5. ControlInv'
  BY DEF ControlInv, Submitting, Untouched, MayStillFill, Present, BrokerInv,
         LedgerLeadsTracker, TypeOK, BrokerOrder, LedgerRow
<1>6. ~FileCanBreak => Covered'
  BY DEF Covered, MayStillFill, Present, ControlInv, BrokerInv, TypeOK, BrokerOrder
<1> QED
  BY <1>1, <1>2, <1>3, <1>4, <1>5, <1>6

\* An order leaves the hour the frequency cap looks at.
LEMMA HourStep ==
  ASSUME IInv, NEW d \in Decision, HourPasses(d)
  PROVE  IInv'
<1> USE DEF IInv, HourPasses, trackerVars, bookVars, riskVars, controlVars
<1>1. TypeOK'
  BY TrackerUnchanged DEF TypeOK, BookOK
<1>2. BrokerInv'
  BY DEF BrokerInv, Untouched, ControlInv, Submitting, MayStillFill,
         LedgerLeadsTracker, PolledInv, TypeOK, BrokerOrder, LedgerRow, PolledRow
<1>3. PolledInv'
  BY DEF PolledInv, Resolved, BrokerInv, TypeOK, BrokerOrder, PolledRow, LedgerRow
<1>4. LedgerLeadsTracker'
  BY DEF LedgerLeadsTracker, PolledInv, TypeOK, BrokerOrder, LedgerRow, PolledRow
<1>5. ControlInv'
  BY DEF ControlInv, Submitting, Untouched, MayStillFill, Present, BrokerInv,
         LedgerLeadsTracker, TypeOK, BrokerOrder, LedgerRow
<1>6. ~FileCanBreak => Covered'
  BY DEF Covered, MayStillFill, Present, ControlInv, BrokerInv, TypeOK, BrokerOrder
<1> QED
  BY <1>1, <1>2, <1>3, <1>4, <1>5, <1>6

\* A new UTC day for the risk state.
LEMMA MidnightStep ==
  ASSUME IInv, Midnight
  PROVE  IInv'
<1> USE DEF IInv, Midnight, trackerVars, brokerVars, controlVars
<1>1. TypeOK'
  BY TrackerUnchanged DEF TypeOK
<1>2. BrokerInv' /\ PolledInv' /\ LedgerLeadsTracker' /\ ControlInv'
  BY DEF BrokerInv, Untouched, PolledInv, Resolved, LedgerLeadsTracker, ControlInv,
         Submitting, MayStillFill, Present
<1>3. ~FileCanBreak => Covered'
  BY DEF Covered, MayStillFill, Present
<1> QED
  BY <1>1, <1>2, <1>3

\* The poll reads an order's status: what it reads is true of the broker.
LEMMA PollStep ==
  ASSUME IInv, NEW d \in Decision, PollOrder(d)
  PROVE  IInv'
<1> USE DEF IInv, PollOrder, trackerVars, brokerVars, bookVars, riskVars
<1>a. /\ AveragePrice(broker[d].cost, broker[d].filled) \in Nat
      /\ StatusKind(d) \in {"FILLED", "CANCELED", "PARTIALLY_FILLED"}
      /\ StatusKind(d) # "PARTIALLY_FILLED" => Resolved(d)
  BY AveragePriceNat DEF StatusKind, Resolved, TypeOK, BrokerOrder
<1>1. TypeOK'
  BY TrackerUnchanged, <1>a DEF TypeOK, PolledRow, BrokerOrder, OutcomeKind
<1>2. BrokerInv'
  BY DEF BrokerInv, Untouched, ControlInv, Submitting, MayStillFill,
         LedgerLeadsTracker, PolledInv, TypeOK, BrokerOrder, LedgerRow, PolledRow
<1>3. PolledInv'
  BY <1>a DEF PolledInv, Resolved, BrokerInv, TypeOK, BrokerOrder, PolledRow, LedgerRow
<1>4. LedgerLeadsTracker'
  BY DEF LedgerLeadsTracker, PolledInv, TypeOK, BrokerOrder, LedgerRow, PolledRow
<1>5. ControlInv'
  BY DEF ControlInv, Submitting, Untouched, MayStillFill, Present, BrokerInv,
         LedgerLeadsTracker, TypeOK, BrokerOrder, LedgerRow
<1>6. ~FileCanBreak => Covered'
  BY DEF Covered, MayStillFill, Present, ControlInv, BrokerInv, TypeOK, BrokerOrder
<1> QED
  BY <1>1, <1>2, <1>3, <1>4, <1>5, <1>6

\* The ledger takes a polled outcome.
LEMMA RecordPolledStep ==
  ASSUME IInv, NEW d \in Decision, RecordPolled(d)
  PROVE  IInv'
<1> USE DEF IInv, RecordPolled, Recorded, trackerVars, brokerVars, riskVars
<1>a. \A e \in Decision : /\ ledger'[e].filled \in Nat
                          /\ ledger[e].filled <= ledger'[e].filled
                          /\ ledger'[e].filled <= broker[e].filled
  BY DEF LedgerLeadsTracker, PolledInv, TypeOK, LedgerRow, PolledRow, BrokerOrder
<1>1. TypeOK'
  BY TrackerUnchanged DEF TypeOK, PolledRow, LedgerRow
<1>2. BrokerInv'
  BY DEF BrokerInv, Untouched, ControlInv, Submitting, MayStillFill,
         LedgerLeadsTracker, PolledInv, TypeOK, BrokerOrder, LedgerRow, PolledRow
<1>3. PolledInv'
  BY DEF PolledInv, Resolved, BrokerInv, TypeOK, BrokerOrder, PolledRow, LedgerRow
<1>4. LedgerLeadsTracker'
  BY <1>a DEF LedgerLeadsTracker, BookOK, FileOK, Books, Order, PolledInv, TypeOK, BrokerOrder, LedgerRow, PolledRow
<1>5. ControlInv'
  BY DEF ControlInv, Submitting, Untouched, MayStillFill, Present, BrokerInv,
         LedgerLeadsTracker, TypeOK, BrokerOrder, LedgerRow
<1>6. ~FileCanBreak => Covered'
  BY DEF Covered, MayStillFill, Present, ControlInv, BrokerInv, TypeOK, BrokerOrder
<1> QED
  BY <1>1, <1>2, <1>3, <1>4, <1>5, <1>6

\* The ledger takes a settlement.
LEMMA ClaimStep ==
  ASSUME IInv, NEW m \in Market, ClaimSettlement(m)
  PROVE  IInv'
<1> USE DEF IInv, ClaimSettlement, ClaimIfNew, trackerVars, brokerVars, controlVars, riskVars
<1>1. TypeOK'
  BY TrackerUnchanged DEF TypeOK
<1>2. BrokerInv'
  BY DEF BrokerInv, Untouched, ControlInv, Submitting, MayStillFill,
         LedgerLeadsTracker, PolledInv, TypeOK, BrokerOrder, LedgerRow, PolledRow
<1>3. PolledInv'
  BY DEF PolledInv, Resolved, BrokerInv, TypeOK, BrokerOrder, PolledRow, LedgerRow
<1>4. LedgerLeadsTracker'
  BY DEF LedgerLeadsTracker, PolledInv, TypeOK, BrokerOrder, LedgerRow, PolledRow
<1>5. ControlInv'
  BY DEF ControlInv, Submitting, Untouched, MayStillFill, Present, BrokerInv,
         LedgerLeadsTracker, TypeOK, BrokerOrder, LedgerRow
<1>6. ~FileCanBreak => Covered'
  BY DEF Covered, MayStillFill, Present, ControlInv, BrokerInv, TypeOK, BrokerOrder
<1> QED
  BY <1>1, <1>2, <1>3, <1>4, <1>5, <1>6

\* A settled decision without fills is closed in the ledger.
LEMMA CloseUnfilledStep ==
  ASSUME IInv, NEW d \in Decision, CloseUnfilled(d)
  PROVE  IInv'
<1> USE DEF IInv, CloseUnfilled, Recorded, trackerVars, brokerVars, controlVars, riskVars
<1>1. TypeOK'
  BY TrackerUnchanged DEF TypeOK, LedgerRow, OutcomeKind, NoPrice
<1>2. BrokerInv'
  BY DEF BrokerInv, Untouched, ControlInv, Submitting, MayStillFill,
         LedgerLeadsTracker, PolledInv, TypeOK, BrokerOrder, LedgerRow, PolledRow
<1>3. PolledInv'
  BY DEF PolledInv, Resolved, BrokerInv, TypeOK, BrokerOrder, PolledRow, LedgerRow
<1>4. LedgerLeadsTracker'
  BY DEF LedgerLeadsTracker, PolledInv, TypeOK, BrokerOrder, LedgerRow, PolledRow
<1>5. ControlInv'
  BY DEF ControlInv, Submitting, Untouched, MayStillFill, Present, BrokerInv,
         LedgerLeadsTracker, TypeOK, BrokerOrder, LedgerRow
<1>6. ~FileCanBreak => Covered'
  BY DEF Covered, MayStillFill, Present, ControlInv, BrokerInv, TypeOK, BrokerOrder
<1> QED
  BY <1>1, <1>2, <1>3, <1>4, <1>5, <1>6

\* A settled decision with fills is closed in the ledger.
LEMMA CloseFilledStep ==
  ASSUME IInv, NEW d \in Decision, CloseFilled(d)
  PROVE  IInv'
<1> USE DEF IInv, CloseFilled, Closable, Goto, Recorded, trackerVars, brokerVars, riskVars
<1>1. TypeOK'
  BY TrackerUnchanged DEF TypeOK, LedgerRow, OutcomeKind, Phase
<1>2. BrokerInv'
  BY DEF BrokerInv, Untouched, ControlInv, Submitting, MayStillFill,
         LedgerLeadsTracker, PolledInv, TypeOK, BrokerOrder, LedgerRow, PolledRow
<1>3. PolledInv'
  BY DEF PolledInv, Resolved, BrokerInv, TypeOK, BrokerOrder, PolledRow, LedgerRow
<1>4. LedgerLeadsTracker'
  BY DEF LedgerLeadsTracker, PolledInv, TypeOK, BrokerOrder, LedgerRow, PolledRow
<1>5. ControlInv'
  BY DEF ControlInv, Submitting, Untouched, MayStillFill, Present, BrokerInv,
         LedgerLeadsTracker, TypeOK, BrokerOrder, LedgerRow
<1>6. ~FileCanBreak => Covered'
  BY DEF Covered, MayStillFill, Present, ControlInv, BrokerInv, TypeOK, BrokerOrder
<1> QED
  BY <1>1, <1>2, <1>3, <1>4, <1>5, <1>6

\* The loss of a settled decision is booked.
LEMMA PnlStep ==
  ASSUME IInv, RecordRealizedPnl
  PROVE  IInv'
<1> USE DEF IInv, RecordRealizedPnl, Goto, trackerVars, brokerVars, riskVars
<1>1. TypeOK'
  <2>1. booked' \subseteq Decision /\ latched' \in BOOLEAN
    BY FaultFlags DEF TypeOK, ControlInv, Trouble
  <2> QED
    BY <2>1, TrackerUnchanged DEF TypeOK, Phase
<1>2. BrokerInv'
  BY DEF BrokerInv, Untouched, ControlInv, Submitting, MayStillFill,
         LedgerLeadsTracker, PolledInv, TypeOK, BrokerOrder, LedgerRow, PolledRow
<1>3. PolledInv'
  BY DEF PolledInv, Resolved, BrokerInv, TypeOK, BrokerOrder, PolledRow, LedgerRow
<1>4. LedgerLeadsTracker'
  BY DEF LedgerLeadsTracker, PolledInv, TypeOK, BrokerOrder, LedgerRow, PolledRow
<1>5. ControlInv'
  BY DEF ControlInv, Submitting, Untouched, MayStillFill, Present, BrokerInv,
         LedgerLeadsTracker, TypeOK, BrokerOrder, LedgerRow
<1>6. ~FileCanBreak => Covered'
  BY DEF Covered, MayStillFill, Present, ControlInv, BrokerInv, TypeOK, BrokerOrder
<1> QED
  BY <1>1, <1>2, <1>3, <1>4, <1>5, <1>6

\* A decision is recorded and becomes the current one.
LEMMA DecisionStep ==
  ASSUME IInv, NEW d \in Decision, RecordDecision(d)
  PROVE  IInv'
<1> USE DEF IInv, RecordDecision, Decided, Goto, trackerVars, brokerVars, riskVars
<1>1. TypeOK'
  BY TrackerUnchanged DEF TypeOK, LedgerRow, OutcomeKind, Phase
<1>2. BrokerInv'
  BY DEF BrokerInv, Untouched, ControlInv, Submitting, MayStillFill,
         LedgerLeadsTracker, PolledInv, TypeOK, BrokerOrder, LedgerRow, PolledRow
<1>3. PolledInv'
  BY DEF PolledInv, Resolved, BrokerInv, TypeOK, BrokerOrder, PolledRow, LedgerRow
<1>4. LedgerLeadsTracker'
  BY DEF LedgerLeadsTracker, PolledInv, TypeOK, BrokerOrder, LedgerRow, PolledRow
<1>5. ControlInv'
  BY DEF ControlInv, Submitting, Untouched, MayStillFill, Present, BrokerInv,
         LedgerLeadsTracker, TypeOK, BrokerOrder, LedgerRow
<1>6. ~FileCanBreak => Covered'
  BY DEF Covered, MayStillFill, Present, ControlInv, BrokerInv, TypeOK, BrokerOrder
<1> QED
  BY <1>1, <1>2, <1>3, <1>4, <1>5, <1>6

\* create_order is sent: the write-ahead rule is needed here.
LEMMA CreateStep ==
  ASSUME IInv, CreateOrder
  PROVE  IInv'
<1> USE DEF IInv, CreateOrder, Goto, trackerVars, bookVars, riskVars
<1>1. TypeOK'
  BY TrackerUnchanged DEF TypeOK, ControlInv, Submitting, Phase
<1>2. BrokerInv'
  BY DEF BrokerInv, Untouched, ControlInv, Submitting, MayStillFill,
         LedgerLeadsTracker, PolledInv, TypeOK, BrokerOrder, LedgerRow, PolledRow
<1>3. PolledInv'
  BY DEF PolledInv, Resolved, BrokerInv, TypeOK, BrokerOrder, PolledRow, LedgerRow
<1>4. LedgerLeadsTracker'
  BY DEF LedgerLeadsTracker, PolledInv, TypeOK, BrokerOrder, LedgerRow, PolledRow
<1>5. ControlInv'
  BY DEF ControlInv, Submitting, Untouched, MayStillFill, Present, BrokerInv,
         LedgerLeadsTracker, TypeOK, BrokerOrder, LedgerRow
<1>6. ~FileCanBreak => Covered'
  BY DEF Covered, MayStillFill, Present, ControlInv, BrokerInv, TypeOK, BrokerOrder
<1> QED
  BY <1>1, <1>2, <1>3, <1>4, <1>5, <1>6

\* The execution outcome is recorded.
LEMMA RecordExecutionStep ==
  ASSUME IInv, RecordExecution
  PROVE  IInv'
<1> USE DEF IInv, RecordExecution, Recorded, Goto, trackerVars, brokerVars, riskVars
<1>1. TypeOK'
  BY TrackerUnchanged DEF TypeOK, ControlInv, LedgerRow, OutcomeKind, NoPrice, Phase
<1>2. BrokerInv'
  BY DEF BrokerInv, Untouched, ControlInv, Submitting, MayStillFill,
         LedgerLeadsTracker, PolledInv, TypeOK, BrokerOrder, LedgerRow, PolledRow
<1>3. PolledInv'
  BY DEF PolledInv, Resolved, BrokerInv, TypeOK, BrokerOrder, PolledRow, LedgerRow
<1>4. LedgerLeadsTracker'
  BY DEF LedgerLeadsTracker, PolledInv, TypeOK, BrokerOrder, LedgerRow, PolledRow
<1>5. ControlInv'
  BY DEF ControlInv, Submitting, Untouched, MayStillFill, Present, BrokerInv,
         LedgerLeadsTracker, TypeOK, BrokerOrder, LedgerRow
<1>6. ~FileCanBreak => Covered'
  BY DEF Covered, MayStillFill, Present, ControlInv, BrokerInv, TypeOK, BrokerOrder
<1> QED
  BY <1>1, <1>2, <1>3, <1>4, <1>5, <1>6

-----------------------------------------------------------------------------
(***************************************************************************)
(* Steps of the tracker                                                    *)
(***************************************************************************)

\* What a call of the tracker may do without harm: no order that may still
\* fill is dropped, and no fill is taken that the ledger does not know.
Keeps(orders) ==
  \A d \in Decision :
    /\ MayStillFill(d) /\ mem.orders[d].state # "none" => orders[d].state # "none"
    /\ orders[d].filled <= ledger[d].filled

TrackerSafe ==
  /\ BookOK(mem') /\ FileOK(disk')
  /\ disk.readable => disk'.readable
  /\ disk'.orders \in {disk.orders, mem'.orders}
  /\ Keeps(mem'.orders)

\* The orders in memory are safe to write.
LEMMA KeepsMem ==
  ASSUME IInv
  PROVE  Keeps(mem.orders)
BY DEF IInv, LedgerLeadsTracker, Keeps

\* A write of a book with safe orders is safe, whether it succeeds or fails.
LEMMA WriteSafe ==
  ASSUME IInv, NEW b, BookOK(b), NEW ok \in BOOLEAN, Persist(b, ok), Keeps(b.orders)
  PROVE  TrackerSafe
<1>1. BookOK(mem') /\ mem'.orders = b.orders
  BY DEF Persist, BookOK
<1>2. FileOK(disk') /\ disk'.orders \in {disk.orders, b.orders}
  BY PayloadOK DEF IInv, TypeOK, Persist, Payload
<1>3. disk.readable => disk'.readable
  BY DEF Persist, Payload
<1> QED
  BY <1>1, <1>2, <1>3 DEF TrackerSafe

\* A step that leaves the tracker alone is safe.
LEMMA StaySafe ==
  ASSUME IInv, UNCHANGED trackerVars
  PROVE  TrackerSafe
BY KeepsMem DEF IInv, TypeOK, trackerVars, TrackerSafe

\* Setting persistence_error is safe.
LEMMA LatchSafe ==
  ASSUME IInv, LatchError
  PROVE  TrackerSafe
<1>1. BookOK(mem') /\ mem'.orders = mem.orders
  BY DEF IInv, TypeOK, BookOK, LatchError
<1> QED
  BY <1>1, KeepsMem DEF IInv, TypeOK, LatchError, TrackerSafe

\* The probing write is safe.
LEMMA VerifySafe ==
  ASSUME IInv, NEW ok \in BOOLEAN, VerifyPersistence(ok)
  PROVE  TrackerSafe
BY StaySafe, WriteSafe, KeepsMem DEF VerifyPersistence, IInv, TypeOK

\* A reservation is safe.
LEMMA ReserveSafe ==
  ASSUME IInv, NEW d \in Decision, NEW ok \in BOOLEAN, ReserveOrderSubmission(d, ok)
  PROVE  TrackerSafe
<1>1. BookOK(Reserved(d)) /\ Reserved(d).orders = [mem.orders EXCEPT ![d] = NewOrder]
  BY ReservedOK DEF IInv, TypeOK, Reserved, BookOK
<1>2. Keeps(Reserved(d).orders)
  BY <1>1, KeepsMem DEF Keeps, NewOrder, IInv, TypeOK, BookOK, Books, LedgerRow
<1> QED
  BY <1>1, <1>2, StaySafe, LatchSafe, WriteSafe DEF ReserveOrderSubmission

\* Binding the broker's order id is safe.
LEMMA ConfirmSafe ==
  ASSUME IInv, NEW d \in Decision, NEW ok \in BOOLEAN, ConfirmOpenOrder(d, ok)
  PROVE  TrackerSafe
<1> DEFINE b == [mem EXCEPT !.orders[d] =
                   [@ EXCEPT !.state = "open", !.bound = TRUE]]
<1>1. Present(mem, d) => BookOK(b)
  BY ConfirmedOK DEF IInv, TypeOK
<1>2. Keeps(b.orders)
  BY KeepsMem DEF Keeps, IInv, TypeOK, BookOK, Books, Order
<1> HIDE DEF b
<1>3. Present(mem, d) /\ Persist(b, ok) => TrackerSafe
  BY <1>1, <1>2, WriteSafe
<1> QED
  BY <1>3, StaySafe, LatchSafe DEF ConfirmOpenOrder, b

\* Marking an outcome unknown is safe: the entry stays.
LEMMA UnknownSafe ==
  ASSUME IInv, NEW d \in Decision, NEW ok \in BOOLEAN, MarkOrderOutcomeUnknown(d, ok)
  PROVE  TrackerSafe
<1> DEFINE b == [mem EXCEPT !.orders[d].state = "submit_outcome_unknown"]
<1>1. Present(mem, d) => BookOK(b)
  BY UnknownOK DEF IInv, TypeOK
<1>2. Keeps(b.orders)
  BY KeepsMem DEF Keeps, IInv, TypeOK, BookOK, Books, Order
<1> HIDE DEF b
<1>3. Present(mem, d) /\ Persist(b, ok) => TrackerSafe
  BY <1>1, <1>2, WriteSafe
<1> QED
  BY <1>3, LatchSafe DEF MarkOrderOutcomeUnknown, b

\* A terminal report drops only an order that the broker has resolved.
LEMMA FillSafe ==
  ASSUME IInv, NEW d \in Decision, NEW id \in IdKind, NEW ok \in BOOLEAN,
         NEW cum \in Nat, NEW price \in Nat, NEW terminal \in Terminal,
         RecordCumulativeFill(d, id, cum, price, terminal, ok),
         cum <= ledger[d].filled,
         terminal # "none" => ~MayStillFill(d)
  PROVE  TrackerSafe
<1> DEFINE b == Filled(d, cum, price, terminal)
<1>1. ASSUME Present(mem, d), FillConsistent(d, cum, price, terminal), Persist(b, ok)
      PROVE  TrackerSafe
  <2>1. BookOK(b)
    BY <1>1, FilledOK DEF IInv, TypeOK
  <2>2. b.orders = [mem.orders EXCEPT
                      ![d] = FilledOrder(mem.orders[d], cum, price, terminal)]
    BY DEF Filled, IInv, TypeOK, BookOK
  <2>3. mem.orders[d] \in Order /\ ledger[d].filled \in Nat
    BY DEF IInv, TypeOK, BookOK, Books, LedgerRow
  <2> DEFINE o == FilledOrder(mem.orders[d], cum, price, terminal)
  <2>4. CASE terminal # "none"
    <3>1. o.filled <= ledger[d].filled
      BY <2>3, <2>4 DEF FilledOrder, NoOrder
    <3> HIDE DEF o
    <3>2. Keeps(b.orders)
      BY <2>2, <2>4, <3>1, KeepsMem DEF Keeps, IInv, TypeOK, BookOK, Books, o
    <3> HIDE DEF b
    <3> QED
      BY <1>1, <2>1, <3>2, WriteSafe
  <2>5. CASE terminal = "none"
    <3>1. o.filled = cum /\ o.state # "none"
      BY <1>1, <2>3, <2>5 DEF FilledOrder, Order, Present
    <3> HIDE DEF o
    <3>2. Keeps(b.orders)
      BY <2>2, <3>1, KeepsMem DEF Keeps, IInv, TypeOK, BookOK, Books, o
    <3> QED
      BY <1>1, <2>1, <3>2, WriteSafe
  <2> QED
    BY <2>4, <2>5
<1> QED
  BY <1>1, StaySafe, LatchSafe DEF RecordCumulativeFill, Matches

\* Removing an order that cannot fill any more is safe.
LEMMA RemoveOrderSafe ==
  ASSUME IInv, NEW d \in Decision, NEW id \in IdKind, NEW ok \in BOOLEAN,
         RemoveOpenOrder(d, id, ok), ~MayStillFill(d)
  PROVE  TrackerSafe
<1> DEFINE b == [mem EXCEPT !.orders[d] = NoOrder]
<1>1. BookOK(mem) /\ BookOK(b)
  BY NoOrderOK, BookWithOrderOK DEF IInv, TypeOK
<1>2. Keeps(b.orders)
  BY KeepsMem DEF Keeps, NoOrder, IInv, TypeOK, BookOK, Books, LedgerRow
<1>3. Persist(mem, ok) \/ Persist(b, ok)
  BY DEF RemoveOpenOrder
<1> HIDE DEF b
<1> QED
  BY <1>1, <1>2, <1>3, KeepsMem, WriteSafe

\* Removing a position is safe.
LEMMA RemovePositionSafe ==
  ASSUME IInv, NEW k \in Key, NEW ok \in BOOLEAN, RemovePosition(k, ok)
  PROVE  TrackerSafe
<1> DEFINE b == [mem EXCEPT !.positions[k] = NoPosition]
<1>1. BookOK(b) /\ b.orders = mem.orders
  BY PositionRemovedOK DEF IInv, TypeOK, BookOK
<1>2. Persist(b, ok)
  BY DEF RemovePosition
<1> HIDE DEF b
<1> QED
  BY <1>1, <1>2, KeepsMem, WriteSafe

-----------------------------------------------------------------------------
(***************************************************************************)
(* Steps that call the tracker                                             *)
(***************************************************************************)

\* A safe call, with the rest of the world as it was.
LEMMA TrackerPart ==
  ASSUME IInv, TrackerSafe, UNCHANGED <<brokerVars, claimed, ledger>>
  PROVE  /\ BookOK(mem') /\ FileOK(disk')
         /\ BrokerInv'
         /\ LedgerLeadsTracker'
         /\ ~FileCanBreak => Covered'
<1> USE DEF IInv, TrackerSafe, brokerVars
<1>1. BrokerInv'
  BY DEF BrokerInv, Untouched
<1>2. LedgerLeadsTracker'
  BY DEF LedgerLeadsTracker, Keeps
<1>3. ~FileCanBreak => Covered'
  BY DEF Covered, Keeps, Present, MayStillFill
<1> QED
  BY <1>1, <1>2, <1>3

\* The projection of a polled outcome into the tracker.
LEMMA SyncStep ==
  ASSUME IInv, NEW d \in Decision, SyncLiveExposure(d)
  PROVE  IInv'
<1> USE DEF IInv
<1>1. PICK ok \in Writes :
        RecordCumulativeFill(d, "broker", polled[d].filled, polled[d].price,
                             TerminalOf(polled[d].kind), ok)
  BY DEF SyncLiveExposure
<1>2. ok \in BOOLEAN
  BY <1>1, FaultFlags DEF Writes
<1>3. /\ polled[d].filled \in Nat /\ polled[d].price \in Nat
      /\ polled[d].filled <= ledger[d].filled
      /\ TerminalOf(polled[d].kind) \in Terminal
  BY DEF SyncLiveExposure, TypeOK, PolledRow, PolledInv, TerminalOf, Terminal
<1>4. TerminalOf(polled[d].kind) # "none" => ~MayStillFill(d)
  BY DEF SyncLiveExposure, TerminalOf, PolledInv, BrokerInv, Resolved, MayStillFill
<1>5. TrackerSafe
  BY <1>1, <1>2, <1>3, <1>4, FillSafe DEF IdKind
<1>6. UNCHANGED <<brokerVars, claimed, ledger, riskVars>>
  BY DEF SyncLiveExposure, bookVars
<1>7. TypeOK'
  BY <1>5, <1>6, TrackerPart
     DEF TypeOK, SyncLiveExposure, brokerVars, bookVars, riskVars, PolledRow, NoOutcome,
         OutcomeKind, NoPrice
<1>8. PolledInv'
  BY <1>6 DEF PolledInv, SyncLiveExposure, NoOutcome, brokerVars, bookVars, riskVars, TypeOK,
              Resolved
<1>9. ControlInv'
  BY <1>6 DEF ControlInv, SyncLiveExposure, Submitting, brokerVars, bookVars, riskVars
<1> QED
  BY <1>5, <1>6, <1>7, <1>8, <1>9, TrackerPart

\* Every other call leaves `polled` alone.
LEMMA TrackerRest ==
  ASSUME IInv, TrackerSafe, UNCHANGED <<brokerVars, claimed, ledger, booked, past, polled>>,
         latched' \in BOOLEAN, pc' \in Phase, cur' \in Decision \cup {None}, result' \in OutcomeKind
  PROVE  TypeOK' /\ PolledInv' /\ (ControlInv' => IInv')
<1> USE DEF IInv
<1>1. TypeOK'
  BY TrackerPart DEF TypeOK, brokerVars
<1>2. PolledInv'
  BY DEF PolledInv, Resolved, brokerVars
<1> QED
  BY <1>1, <1>2, TrackerPart

\* The release of a settled order.
LEMMA ReleaseOrderStep ==
  ASSUME IInv, ReleaseOrder
  PROVE  IInv'
<1> USE DEF IInv
<1>1. cur \in Decision /\ ~MayStillFill(cur)
  BY DEF ReleaseOrder, ControlInv
<1>2. TrackerSafe
  BY <1>1, RemoveOrderSafe, FaultFlags DEF ReleaseOrder, Writes, IdKind
<1>3. ControlInv'
  BY <1>1 DEF ReleaseOrder, Goto, ControlInv, Submitting, brokerVars, bookVars, riskVars
<1> QED
  BY <1>1, <1>2, <1>3, TrackerRest
     DEF ReleaseOrder, Goto, Phase, TypeOK, bookVars, riskVars

\* The release of a settled position.
LEMMA ReleasePositionStep ==
  ASSUME IInv, ReleasePosition
  PROVE  IInv'
<1> USE DEF IInv
<1>1. KeyOf(cur) \in Key
  BY DEF ReleasePosition, ControlInv, Key
<1>2. TrackerSafe
  BY <1>1, RemovePositionSafe, FaultFlags DEF ReleasePosition, Writes
<1>3. ControlInv'
  BY DEF ReleasePosition, Goto, ControlInv, Submitting
<1> QED
  BY <1>2, <1>3, TrackerRest
     DEF ReleasePosition, Goto, Phase, TypeOK, bookVars, riskVars

\* A refusal that writes nothing.
LEMMA BlockStep ==
  ASSUME IInv, ExecutorBlocks \/ SinkReadsBlock \/ RiskStateBlocks
  PROVE  IInv'
<1>a. /\ UNCHANGED <<trackerVars, brokerVars, claimed, ledger, booked, past, polled, cur>>
      /\ pc \in {"evaluate", "sink"} /\ pc' = "done" /\ result' = "BLOCKED_LOCAL"
      /\ latched' \in BOOLEAN
  BY FaultFlags
     DEF ExecutorBlocks, SinkReadsBlock, RiskStateBlocks, Finish, Goto, bookVars, riskVars,
         Trouble, IInv, TypeOK
<1> USE <1>a DEF IInv, trackerVars, brokerVars
<1>1. TypeOK'
  BY TrackerUnchanged DEF TypeOK, Phase, OutcomeKind
<1>2. BrokerInv' /\ PolledInv' /\ LedgerLeadsTracker'
  BY DEF BrokerInv, PolledInv, LedgerLeadsTracker, Untouched, Resolved
<1>3. ControlInv'
  BY DEF ControlInv, Submitting, Untouched
<1>4. ~FileCanBreak => Covered'
  BY DEF Covered, MayStillFill, Present
<1> QED
  BY <1>1, <1>2, <1>3, <1>4

\* A run of evaluate.
LEMMA EvaluateStep ==
  ASSUME IInv, NEW allow \in BOOLEAN, NEW next \in {"sink", "reserve"},
         pc \in {"evaluate", "sink"}, Evaluate(allow, next)
  PROVE  IInv'
<1> USE DEF IInv
<1>1. TrackerSafe
  BY VerifySafe, FaultFlags DEF Evaluate, Writes
<1>2. /\ UNCHANGED <<brokerVars, claimed, ledger, booked, past, polled, cur>>
      /\ latched' = FALSE
      /\ \/ pc' = next /\ result' = result
         \/ pc' = "done" /\ result' = "BLOCKED_LOCAL"
  BY DEF Evaluate, Goto, Finish
<1>3. ControlInv'
  BY <1>2 DEF ControlInv, Submitting, Untouched, brokerVars
<1> QED
  BY <1>1, <1>2, <1>3, TrackerRest DEF Phase, OutcomeKind, TypeOK

\* A reservation that succeeds is in memory and in the file.
LEMMA ReservationWritten ==
  ASSUME IInv, NEW d \in Decision, NEW ok \in BOOLEAN,
         ReserveOrderSubmission(d, ok), ReserveSucceeds(d, ok)
  PROVE  Present(mem', d) /\ Present(disk', d)
<1>1. Persist(Reserved(d), TRUE)
  BY DEF ReserveOrderSubmission, ReserveSucceeds
<1>2. BookOK(Reserved(d)) /\ Reserved(d).orders = [mem.orders EXCEPT ![d] = NewOrder]
  BY ReservedOK DEF IInv, TypeOK, Reserved, BookOK
<1>3. Reserved(d).orders[d].state = "submitting"
  BY <1>2 DEF NewOrder, IInv, TypeOK, BookOK, Books
<1>4. mem'.orders = Reserved(d).orders /\ disk'.orders = Reserved(d).orders
  BY <1>1, <1>2 DEF Persist, Payload, BookOK
<1> QED
  BY <1>3, <1>4 DEF Present

\* The reservation: both copies hold the order before it is sent.
LEMMA ReserveStep ==
  ASSUME IInv, ReserveSubmission
  PROVE  IInv'
<1> USE DEF IInv
<1>1. PICK ok \in Writes :
        /\ ReserveOrderSubmission(cur, ok)
        /\ \/ ReserveSucceeds(cur, ok) /\ Goto("send") /\ UNCHANGED result
           \/ ~ReserveSucceeds(cur, ok) /\ Finish("BLOCKED_LOCAL")
  BY DEF ReserveSubmission
<1>2. ok \in BOOLEAN /\ cur \in Decision
  BY <1>1, FaultFlags DEF Writes, ReserveSubmission, ControlInv, Submitting
<1>3. TrackerSafe
  BY <1>1, <1>2, ReserveSafe
<1>4. UNCHANGED <<brokerVars, claimed, ledger, riskVars, polled, cur>>
  BY DEF ReserveSubmission, bookVars
<1>5. CASE ReserveSucceeds(cur, ok)
  <2>1. pc' = "send" /\ result' = result
    BY <1>1, <1>5 DEF Goto
  <2>2. Present(mem', cur) /\ Present(disk', cur)
    BY <1>1, <1>2, <1>5, ReservationWritten
  <2>3. ControlInv'
    BY <1>2, <1>4, <2>1, <2>2
       DEF ControlInv, ReserveSubmission, Submitting, Untouched, brokerVars, bookVars, riskVars,
           Present
  <2> QED
    BY <1>3, <1>4, <2>1, <2>3, TrackerRest DEF Phase, TypeOK, riskVars
<1>6. CASE ~ReserveSucceeds(cur, ok)
  <2>1. pc' = "done" /\ result' = "BLOCKED_LOCAL"
    BY <1>1, <1>6 DEF Finish, Goto
  <2>2. ControlInv'
    BY <1>2, <1>4, <2>1
       DEF ControlInv, ReserveSubmission, Submitting, brokerVars, bookVars, riskVars
  <2> QED
    BY <1>3, <1>4, <2>1, <2>2, TrackerRest DEF Phase, OutcomeKind, TypeOK, riskVars
<1> QED
  BY <1>5, <1>6

\* The broker's answer, or its absence.
LEMMA AnswerStep ==
  ASSUME IInv, BrokerAnswers \/ BrokerOutcomeUnknown
  PROVE  IInv'
<1> USE DEF IInv
<1>1. cur \in Decision
  BY DEF BrokerAnswers, BrokerOutcomeUnknown, ControlInv
<1>2. TrackerSafe
  BY <1>1, ConfirmSafe, UnknownSafe, FaultFlags
     DEF BrokerAnswers, BrokerOutcomeUnknown, Writes
<1>3. /\ UNCHANGED <<brokerVars, claimed, ledger, riskVars, polled, cur>>
      /\ pc = "wait" /\ pc' = "done" /\ result' \in {"ACCEPTED", "REJECTED"}
  BY DEF BrokerAnswers, BrokerOutcomeUnknown, Finish, Goto, bookVars
<1>4. ControlInv'
  BY <1>1, <1>3 DEF ControlInv, Submitting, brokerVars, bookVars, riskVars
<1> QED
  BY <1>1, <1>2, <1>3, <1>4, TrackerRest DEF Phase, OutcomeKind, TypeOK, riskVars

\* A process dies and its successor loads the file.
LEMMA RestartStep ==
  ASSUME IInv, Restart \/ RestartOnBrokenFile
  PROVE  IInv'
<1> USE DEF IInv
<1>1. /\ mem' = Load(disk')
      /\ UNCHANGED <<brokerVars, claimed, ledger, booked, past>> /\ latched' \in BOOLEAN
      /\ polled' = [d \in Decision |-> NoOutcome]
      /\ pc' = "idle" /\ cur' = None /\ result' = "none"
  BY FaultFlags DEF Restart, RestartOnBrokenFile, ForgetControl, ReloadRiskState, Trouble
<1>2. FileOK(disk') /\ disk'.orders = disk.orders
  BY DEF Restart, RestartOnBrokenFile, TypeOK, FileOK
<1>3. BookOK(mem')
  BY <1>1, <1>2, LoadOK
<1>4. TypeOK'
  BY <1>1, <1>2, <1>3
     DEF TypeOK, brokerVars, PolledRow, NoOutcome, OutcomeKind, NoPrice, Phase
<1>5. BrokerInv' /\ PolledInv' /\ ControlInv'
  BY <1>1 DEF BrokerInv, Untouched, PolledInv, NoOutcome, ControlInv, Submitting,
              brokerVars, bookVars, riskVars
<1>6. LedgerLeadsTracker'
  <2>1. \A d \in Decision : mem'.orders[d] \in {disk.orders[d], NoOrder}
    BY <1>1, <1>2 DEF Load, EmptyBook
  <2> QED
    BY <1>1, <1>2, <2>1
       DEF LedgerLeadsTracker, NoOrder, TypeOK, LedgerRow, brokerVars, bookVars, riskVars
<1>7. ~FileCanBreak => Covered'
  <2>1. ASSUME ~FileCanBreak
        PROVE  disk' = disk /\ disk.readable /\ mem'.orders = disk.orders
    BY <1>1, <2>1 DEF Restart, RestartOnBrokenFile, Covered, Load
  <2> QED
    BY <1>1, <2>1 DEF Covered, MayStillFill, Present, brokerVars
<1> QED
  BY <1>4, <1>5, <1>6, <1>7

-----------------------------------------------------------------------------
(***************************************************************************)
(* The theorems                                                            *)
(***************************************************************************)

\* The invariant holds of an empty account.
LEMMA InitIInv == Init => IInv
<1> SUFFICES ASSUME Init PROVE IInv
  OBVIOUS
<1> USE DEF Init
<1>1. TypeOK
  BY EmptyBookOK, PayloadOK
     DEF TypeOK, BrokerOrder, BrokerState, LedgerRow, OutcomeKind, PolledRow,
         NoOutcome, NoPrice, Phase
<1>2. BrokerInv /\ PolledInv /\ ControlInv
  BY DEF BrokerInv, Untouched, PolledInv, NoOutcome, ControlInv, Submitting
<1>3. LedgerLeadsTracker
  BY DEF LedgerLeadsTracker, Payload, EmptyBook, NoOrder
<1>4. Covered
  BY DEF Covered, MayStillFill, Payload
<1> QED
  BY <1>1, <1>2, <1>3, <1>4 DEF IInv

\* A stuttering step keeps the invariant.
LEMMA StutterStep ==
  ASSUME IInv, UNCHANGED vars
  PROVE  IInv'
<1> USE DEF IInv, vars, trackerVars, brokerVars, bookVars, riskVars, controlVars
<1>1. TypeOK'
  BY TrackerUnchanged DEF TypeOK
<1>2. BrokerInv' /\ PolledInv' /\ LedgerLeadsTracker' /\ ControlInv'
  BY DEF BrokerInv, Untouched, PolledInv, Resolved, LedgerLeadsTracker, ControlInv,
         Submitting, MayStillFill, Present
<1>3. ~FileCanBreak => Covered'
  BY DEF Covered, MayStillFill, Present
<1> QED
  BY <1>1, <1>2, <1>3

\* The invariant is inductive.
LEMMA NextIInv == IInv /\ [Next]_vars => IInv'
<1> SUFFICES ASSUME IInv, [Next]_vars PROVE IInv'
  OBVIOUS
<1>1. CASE UNCHANGED vars
  BY <1>1, StutterStep
<1>2. CASE BrokerStep
  BY <1>2, AcceptStep, NeverAcceptStep, BrokerFillStep, BrokerCancelStep,
     MarketSettleStep, HourStep, MidnightStep DEF BrokerStep
<1>3. CASE CycleStep
  <2>1. CASE BeginCycle \/ EndPoll \/ EndRecord \/ EndSync \/ EndClose \/ EndCycle
    BY <2>1, ControlMove
       DEF BeginCycle, EndPoll, EndRecord, EndSync, EndClose, EndCycle, Goto
  <2>2. ASSUME NEW d \in Decision,
               \/ PollOrder(d)     \/ RecordPolled(d) \/ SyncLiveExposure(d)
               \/ CloseUnfilled(d) \/ CloseFilled(d)  \/ RecordDecision(d)
        PROVE  IInv'
    BY <2>2, PollStep, RecordPolledStep, SyncStep, CloseUnfilledStep,
       CloseFilledStep, DecisionStep
  <2>3. CASE \E m \in Market : ClaimSettlement(m)
    BY <2>3, ClaimStep
  <2>4. CASE RecordRealizedPnl \/ ReleaseOrder \/ ReleasePosition
    BY <2>4, PnlStep, ReleaseOrderStep, ReleasePositionStep
  <2> QED
    BY <1>3, <2>1, <2>2, <2>3, <2>4 DEF CycleStep
<1>4. CASE SubmitStep
  <2>1. CASE FirstEvaluation \/ FinalEvaluation
    BY <2>1, EvaluateStep DEF FirstEvaluation, FinalEvaluation, GateVerdict
  <2>2. CASE ExecutorBlocks \/ SinkReadsBlock \/ RiskStateBlocks
    BY <2>2, BlockStep
  <2> QED
    BY <1>4, <2>1, <2>2, ReserveStep, CreateStep, AnswerStep, RecordExecutionStep
       DEF SubmitStep
<1>5. CASE Restart \/ RestartOnBrokenFile
  BY <1>5, RestartStep
<1> QED
  BY <1>1, <1>2, <1>3, <1>4, <1>5 DEF Next

\* The invariant of live trading: the tracker and its file, the ledger, the
\* poll and the point of control agree with the broker as IInv says.
THEOREM Invariance == Spec => []IInv
BY InitIInv, NextIInv, PTL DEF Spec

\* Type correctness of the whole of live trading.
THEOREM LiveTypeCorrect == Spec => []TypeOK
<1>1. IInv => TypeOK
  BY DEF IInv
<1> QED
  BY <1>1, Invariance, PTL

\* The ledger is never behind the tracker, nor the broker behind the ledger,
\* whatever is lost, retried or restarted, damaged files included.
THEOREM LedgerLeads == Spec => []LedgerLeadsTracker
<1>1. IInv => LedgerLeadsTracker
  BY DEF IInv
<1> QED
  BY <1>1, Invariance, PTL

\* While the file is not damaged, every order that the broker may still fill
\* is reserved on disk with at least its unfilled remainder.
THEOREM WriteAhead == ~FileCanBreak => (Spec => []ReservedBeforeSent)
<1>1. ASSUME ~FileCanBreak, IInv
      PROVE  ReservedBeforeSent
  <2>1. \A d \in Decision : disk.orders[d].filled <= broker[d].filled
    BY <1>1 DEF IInv, LedgerLeadsTracker, TypeOK, FileOK, Books, Order, LedgerRow,
                BrokerOrder
  <2> QED
    BY <1>1, <2>1 DEF IInv, Covered, Present, ReservedBeforeSent
<1>2. ~FileCanBreak /\ IInv => ReservedBeforeSent
  BY <1>1
<1>3. CASE FileCanBreak
  BY <1>3
<1>4. CASE ~FileCanBreak
  <2>1. IInv => ReservedBeforeSent
    BY <1>2, <1>4
  <2> QED
    BY <2>1, Invariance, PTL
<1> QED
  BY <1>3, <1>4

-----------------------------------------------------------------------------
(***************************************************************************)
(* The invariant the refinement needs besides IInv                         *)
(***************************************************************************)

BeforeReservation(d) ==
  ledger[d].kind = "none" \/ (cur = d /\ pc \in {"evaluate", "sink", "reserve"})

\* What has not come to its reservation is in neither copy of the book.
UnreservedInv ==
  \A d \in Decision : BeforeReservation(d) => ~Present(mem, d) /\ ~Present(disk, d)

\* A call of the tracker adds no order, except for those in `added`.
AddsOnly(added) ==
  \A d \in Decision \ added : ~Present(mem, d) => ~Present(mem', d)

\* The empty account has reserved nothing.
LEMMA InitUnreserved == Init => UnreservedInv
BY DEF Init, UnreservedInv, Present, EmptyBook, Payload, NoOrder

\* A call that adds nothing keeps it, and so does one that adds what is past
\* its reservation.
LEMMA CallKeepsUnreserved ==
  ASSUME UnreservedInv, TrackerSafe, NEW added, AddsOnly(added),
         \A d \in Decision : BeforeReservation(d)' => BeforeReservation(d) /\ d \notin added
  PROVE  UnreservedInv'
BY DEF UnreservedInv, TrackerSafe, AddsOnly, Present

\* A step that leaves the tracker alone keeps it, if no decision returns to
\* the time before its reservation.
LEMMA QuietKeepsUnreserved ==
  ASSUME UnreservedInv, UNCHANGED trackerVars,
         \A d \in Decision : BeforeReservation(d)' => BeforeReservation(d)
  PROVE  UnreservedInv'
BY DEF UnreservedInv, trackerVars, Present

-----------------------------------------------------------------------------
(***************************************************************************)
(* The calls of the tracker                                                *)
(***************************************************************************)

\* A write of a book with orders that were there adds nothing.
LEMMA WriteAdds ==
  ASSUME NEW b, BookOK(b), NEW ok \in BOOLEAN, Persist(b, ok), NEW added,
         \A d \in Decision \ added : ~Present(mem, d) => ~Present(b, d)
  PROVE  AddsOnly(added)
<1>1. mem'.orders = b.orders
  BY DEF Persist, BookOK
<1> QED
  BY <1>1 DEF AddsOnly, Present

\* A step that leaves the tracker alone, or only latches, adds nothing.
LEMMA StayAdds ==
  ASSUME BookOK(mem), UNCHANGED trackerVars \/ LatchError, NEW added
  PROVE  AddsOnly(added)
BY DEF trackerVars, LatchError, AddsOnly, Present, BookOK

\* A change of one entry that is there adds nothing.
LEMMA ReplaceAdds ==
  ASSUME BookOK(mem), NEW e \in Decision, Present(mem, e), NEW b, BookOK(b), NEW o,
         b.orders = [mem.orders EXCEPT ![e] = o], NEW ok \in BOOLEAN, Persist(b, ok)
  PROVE  AddsOnly({})
<1>1. \A d \in Decision : ~Present(mem, d) => ~Present(b, d)
  BY DEF Present, BookOK, Books
<1> QED
  BY <1>1, WriteAdds

\* The projection of a polled outcome.
LEMMA SyncCall ==
  ASSUME IInv, NEW d \in Decision, SyncLiveExposure(d)
  PROVE  TrackerSafe /\ AddsOnly({})
<1> USE DEF IInv
<1>1. PICK ok \in Writes :
        RecordCumulativeFill(d, "broker", polled[d].filled, polled[d].price,
                             TerminalOf(polled[d].kind), ok)
  BY DEF SyncLiveExposure
<1>2. ok \in BOOLEAN
  BY <1>1, FaultFlags DEF Writes
<1>3. /\ polled[d].filled \in Nat /\ polled[d].price \in Nat
      /\ polled[d].filled <= ledger[d].filled
      /\ TerminalOf(polled[d].kind) \in Terminal
  BY DEF SyncLiveExposure, TypeOK, PolledRow, PolledInv, TerminalOf, Terminal
<1>4. TerminalOf(polled[d].kind) # "none" => ~MayStillFill(d)
  BY DEF SyncLiveExposure, TerminalOf, PolledInv, BrokerInv, Resolved, MayStillFill
<1>5. TrackerSafe
  BY <1>1, <1>2, <1>3, <1>4, FillSafe DEF IdKind
<1>6. AddsOnly({})
  <2> DEFINE b == Filled(d, polled[d].filled, polled[d].price, TerminalOf(polled[d].kind))
             o == FilledOrder(mem.orders[d], polled[d].filled, polled[d].price,
                              TerminalOf(polled[d].kind))
  <2>1. ASSUME Present(mem, d), Persist(b, ok),
               FillConsistent(d, polled[d].filled, polled[d].price,
                              TerminalOf(polled[d].kind))
        PROVE  AddsOnly({})
    <3>1. BookOK(b)
      BY <1>3, <2>1, FilledOK DEF TypeOK
    <3>2. b.orders = [mem.orders EXCEPT ![d] = o]
      BY DEF Filled, TypeOK, BookOK
    <3> HIDE DEF b, o
    <3> QED
      BY <1>2, <2>1, <3>1, <3>2, ReplaceAdds DEF TypeOK
  <2> QED
    BY <1>1, <2>1, StayAdds DEF RecordCumulativeFill, Matches, TypeOK
<1> QED
  BY <1>5, <1>6

\* The two releases of a settled decision.
LEMMA ReleaseCall ==
  ASSUME IInv, ReleaseOrder \/ ReleasePosition
  PROVE  TrackerSafe /\ AddsOnly({})
<1> USE DEF IInv
<1>0. BookOK(mem) /\ cur \in Decision
  BY DEF TypeOK, ReleaseOrder, ReleasePosition, ControlInv
<1>1. CASE ReleaseOrder
  <2>1. PICK ok \in BOOLEAN : RemoveOpenOrder(cur, "broker", ok)
    BY <1>1, FaultFlags DEF ReleaseOrder, Writes
  <2>2. TrackerSafe
    BY <1>0, <1>1, <2>1, RemoveOrderSafe DEF ReleaseOrder, IdKind, ControlInv
  <2> DEFINE b == [mem EXCEPT !.orders[cur] = NoOrder]
  <2>3. BookOK(b) /\ b.orders = [mem.orders EXCEPT ![cur] = NoOrder]
    BY <1>0, NoOrderOK, BookWithOrderOK DEF BookOK
  <2> HIDE DEF b
  <2>4. \A d \in Decision : ~Present(mem, d) => ~Present(b, d)
    BY <1>0, <2>3 DEF Present, NoOrder, BookOK, Books
  <2>5. Persist(mem, ok) \/ Persist(b, ok)
    BY <2>1 DEF RemoveOpenOrder, b
  <2> QED
    BY <1>0, <2>2, <2>3, <2>4, <2>5, WriteAdds
<1>2. CASE ReleasePosition
  <2>1. PICK ok \in BOOLEAN : RemovePosition(KeyOf(cur), ok)
    BY <1>2, FaultFlags DEF ReleasePosition, Writes
  <2>2. KeyOf(cur) \in Key
    BY <1>0 DEF Key
  <2>3. TrackerSafe
    BY <2>1, <2>2, RemovePositionSafe
  <2> DEFINE b == [mem EXCEPT !.positions[KeyOf(cur)] = NoPosition]
  <2>4. BookOK(b) /\ b.orders = mem.orders /\ Persist(b, ok)
    BY <1>0, <2>1, <2>2, PositionRemovedOK DEF BookOK, RemovePosition
  <2> HIDE DEF b
  <2> QED
    BY <2>3, <2>4, WriteAdds DEF Present
<1> QED
  BY <1>1, <1>2

\* The probing write of an evaluation.
LEMMA EvaluateCall ==
  ASSUME IInv, NEW allow, NEW next, Evaluate(allow, next)
  PROVE  TrackerSafe /\ AddsOnly({})
<1>1. PICK ok \in BOOLEAN : VerifyPersistence(ok)
  BY FaultFlags DEF Evaluate, Writes
<1>2. BookOK(mem)
  BY DEF IInv, TypeOK
<1> QED
  BY <1>1, <1>2, VerifySafe, WriteAdds, StayAdds DEF VerifyPersistence

\* The reservation adds the current decision.
LEMMA ReserveCall ==
  ASSUME IInv, ReserveSubmission
  PROVE  TrackerSafe /\ AddsOnly({cur})
<1>1. PICK ok \in BOOLEAN : ReserveOrderSubmission(cur, ok)
  BY FaultFlags DEF ReserveSubmission, Writes
<1>2. BookOK(mem) /\ cur \in Decision
  BY DEF IInv, TypeOK, ReserveSubmission, ControlInv, Submitting
<1>3. BookOK(Reserved(cur)) /\ Reserved(cur).orders = [mem.orders EXCEPT ![cur] = NewOrder]
  BY <1>2, ReservedOK DEF Reserved, BookOK
<1>4. \A d \in Decision \ {cur} : ~Present(mem, d) => ~Present(Reserved(cur), d)
  BY <1>2, <1>3 DEF Present, BookOK, Books
<1> QED
  BY <1>1, <1>2, <1>3, <1>4, ReserveSafe, WriteAdds, StayAdds DEF ReserveOrderSubmission

\* The broker's answer, or its absence, adds nothing.
LEMMA AnswerCall ==
  ASSUME IInv, BrokerAnswers \/ BrokerOutcomeUnknown
  PROVE  TrackerSafe /\ AddsOnly({})
<1>1. PICK ok \in BOOLEAN : ConfirmOpenOrder(cur, ok) \/ MarkOrderOutcomeUnknown(cur, ok)
  BY FaultFlags DEF BrokerAnswers, BrokerOutcomeUnknown, Writes
<1>2. BookOK(mem) /\ cur \in Decision
  BY DEF IInv, TypeOK, BrokerAnswers, BrokerOutcomeUnknown, ControlInv
<1>3. TrackerSafe
  BY <1>1, <1>2, ConfirmSafe, UnknownSafe
<1> DEFINE confirmed == [mem.orders[cur] EXCEPT !.state = "open", !.bound = TRUE]
           unknown   == [mem.orders[cur] EXCEPT !.state = "submit_outcome_unknown"]
           b         == [mem EXCEPT !.orders[cur] = confirmed]
           u         == [mem EXCEPT !.orders[cur] = unknown]
<1>4. ASSUME Present(mem, cur), Persist(b, ok)
      PROVE  AddsOnly({})
  <2>1. BookOK(b)
    BY <1>2, <1>4, ConfirmedOK
  <2>2. b.orders = [mem.orders EXCEPT ![cur] = confirmed]
    BY <1>2 DEF BookOK
  <2> HIDE DEF b, confirmed
  <2> QED
    BY <1>2, <1>4, <2>1, <2>2, ReplaceAdds
<1>5. ASSUME Present(mem, cur), Persist(u, ok)
      PROVE  AddsOnly({})
  <2>1. BookOK(u)
    BY <1>2, <1>5, UnknownOK
  <2>2. u.orders = [mem.orders EXCEPT ![cur] = unknown]
    BY <1>2 DEF BookOK
  <2> HIDE DEF u, unknown
  <2> QED
    BY <1>2, <1>5, <2>1, <2>2, ReplaceAdds
<1> QED
  BY <1>1, <1>2, <1>3, <1>4, <1>5, StayAdds DEF ConfirmOpenOrder, MarkOrderOutcomeUnknown

-----------------------------------------------------------------------------
(***************************************************************************)
(* Steps of an order's life                                                *)
(***************************************************************************)

\* What may still fill has been sent.
LEMMA OpenIsSent ==
  ASSUME IInv, NEW d \in Decision, MayStillFill(d)
  PROVE  ~NotYetSent(d)
BY DEF IInv, BrokerInv, ControlInv, Untouched, MayStillFill, NotYetSent, Preparing,
       Submitting

\* Orders end, or nothing happens to them.
Ends ==
  \A d \in Decision :
    LifeOf'[d] = LifeOf[d] \/ (LifeOf[d] # "over" /\ LifeOf'[d] = "over")

\* The file gives up only orders that are over.
FileKeeps ==
  \A d \in Decision : Present(disk, d) /\ ~Present(disk', d) => LifeOf[d] = "over"

\* Such a step is one of OrderLife.
LEMMA EndsImplements ==
  ASSUME Ends, FileKeeps
  PROVE  Life!Next
<1> DEFINE ended == {d \in Decision : LifeOf'[d] # LifeOf[d]}
<1>1. ended \in SUBSET Decision /\ ended \cap Life!Over = {}
  BY DEF Ends, Life!Over
<1>2. LifeOf' = [d \in Decision |-> IF d \in ended THEN "over" ELSE LifeOf[d]]
  BY DEF Ends, LifeOf
<1>3. Life!Rebook
  BY DEF FileKeeps, Life!Rebook, Life!Over, ReservedInFile
<1> QED
  BY <1>1, <1>2, <1>3 DEF Life!Next, Life!End

\* A step of the process that leaves the broker alone and returns no decision
\* to the time before its sending ends orders or nothing.
LEMMA ProcessEnds ==
  ASSUME IInv, UNCHANGED brokerVars,
         \A d \in Decision : NotYetSent(d)' => NotYetSent(d)
  PROVE  Ends
<1>1. \A d \in Decision : MayStillFill(d)' <=> MayStillFill(d)
  BY DEF MayStillFill, brokerVars
<1> QED
  BY <1>1 DEF Ends, LifeOf

\* A step of the broker that opens nothing ends orders or nothing.
LEMMA BrokerEnds ==
  ASSUME IInv, UNCHANGED <<ledger, cur, pc>>,
         \A d \in Decision : MayStillFill(d)' => MayStillFill(d)
  PROVE  Ends
<1>1. \A d \in Decision : NotYetSent(d)' <=> NotYetSent(d)
  BY DEF NotYetSent
<1>2. \A d \in Decision : MayStillFill(d) => ~NotYetSent(d)
  BY OpenIsSent
<1> QED
  BY <1>1, <1>2 DEF Ends, LifeOf

\* A step that leaves the tracker alone leaves the file alone.
LEMMA QuietKeeps ==
  ASSUME UNCHANGED trackerVars
  PROVE  FileKeeps
BY DEF FileKeeps, trackerVars, Present

\* A call of the tracker gives up only orders that are over: the write-ahead
\* rule keeps those that are open, and those not yet sent are not in the book.
LEMMA CallKeeps ==
  ASSUME IInv, UnreservedInv, ~FileCanBreak, TrackerSafe, pc # "send"
  PROVE  FileKeeps
<1> SUFFICES ASSUME NEW d \in Decision, Present(disk, d), ~Present(disk', d)
             PROVE  LifeOf[d] = "over"
  BY DEF FileKeeps
<1>1. ~MayStillFill(d)
  <2> SUFFICES ASSUME MayStillFill(d) PROVE Present(disk', d)
    OBVIOUS
  <2>1. Present(mem, d) /\ Present(disk, d)
    BY DEF IInv, Covered
  <2> QED
    BY <2>1 DEF TrackerSafe, Keeps, Present
<1>2. ~NotYetSent(d)
  BY DEF UnreservedInv, BeforeReservation, NotYetSent, Preparing
<1> QED
  BY <1>1, <1>2 DEF LifeOf

-----------------------------------------------------------------------------
(***************************************************************************)
(* Every step is one of OrderLife, and keeps UnreservedInv                 *)
(***************************************************************************)

\* The broker's and the venue's steps.
LEMMA BrokerImplements ==
  ASSUME IInv, UnreservedInv, BrokerStep
  PROVE  Life!Next /\ UnreservedInv'
<1>1. UNCHANGED <<trackerVars, ledger, cur, pc>>
  BY DEF BrokerStep, BrokerAccepts, BrokerNeverAccepts, BrokerFills, BrokerCancels,
         MarketSettles, HourPasses, Midnight, bookVars, riskVars, controlVars
<1>2. \A d \in Decision : MayStillFill(d)' => MayStillFill(d)
  BY DEF BrokerStep, BrokerAccepts, BrokerNeverAccepts, BrokerFills, BrokerCancels,
         MarketSettles, HourPasses, Midnight, brokerVars, MayStillFill, IInv, TypeOK,
         BrokerOrder
<1>3. UnreservedInv'
  BY <1>1, QuietKeepsUnreserved DEF BeforeReservation
<1> QED
  BY <1>1, <1>2, <1>3, BrokerEnds, QuietKeeps, EndsImplements

\* The steps of the process that leave tracker and broker alone.
QuietStep ==
  \/ BeginCycle \/ EndPoll \/ EndRecord \/ EndSync \/ EndClose \/ EndCycle
  \/ \E d \in Decision : \/ PollOrder(d)     \/ RecordPolled(d)
                         \/ CloseUnfilled(d) \/ CloseFilled(d)
                         \/ RecordDecision(d)
  \/ \E m \in Market : ClaimSettlement(m)
  \/ RecordRealizedPnl \/ ExecutorBlocks \/ RiskStateBlocks \/ SinkReadsBlock
  \/ RecordExecution

\* A ledger row once written stays.
LEMMA QuietLedger ==
  ASSUME IInv, QuietStep
  PROVE  \A d \in Decision : ledger'[d].kind = "none" => ledger[d].kind = "none"
<1>1. ledger \in [Decision -> LedgerRow]
  BY DEF IInv, TypeOK
<1>2. ASSUME NEW d \in Decision, NEW kind, NEW filled, NEW price, kind # "none",
             ledger' = Recorded(d, kind, filled, price)
      PROVE  \A e \in Decision : ledger'[e].kind = "none" => ledger[e].kind = "none"
  BY ONLY <1>1, <1>2 DEF Recorded
<1>3. ASSUME NEW d \in Decision, RecordPolled(d)
      PROVE  \A e \in Decision : ledger'[e].kind = "none" => ledger[e].kind = "none"
  <2>1. polled[d].kind # "none"
    BY <1>3 DEF RecordPolled, IInv, PolledInv
  <2> QED
    BY <1>2, <1>3, <2>1 DEF RecordPolled
<1>4. ASSUME NEW d \in Decision, CloseUnfilled(d) \/ CloseFilled(d)
      PROVE  \A e \in Decision : ledger'[e].kind = "none" => ledger[e].kind = "none"
  BY <1>2, <1>4 DEF CloseUnfilled, CloseFilled
<1>5. CASE RecordExecution
  <2>1. cur \in Decision /\ result # "none"
    BY <1>5 DEF RecordExecution, IInv, ControlInv
  <2> QED
    BY <1>2, <1>5, <2>1 DEF RecordExecution
<1>6. ASSUME NEW d \in Decision, RecordDecision(d)
      PROVE  \A e \in Decision : ledger'[e].kind = "none" => ledger[e].kind = "none"
  <2>1. ledger' = [ledger EXCEPT ![d].kind = "decided"]
    BY <1>6 DEF RecordDecision, Decided
  <2> QED
    BY ONLY <1>1, <2>1
<1>7. CASE UNCHANGED ledger
  BY <1>7
<1>8. \/ \E d \in Decision : \/ RecordPolled(d)   \/ CloseUnfilled(d)
                             \/ CloseFilled(d)    \/ RecordDecision(d)
      \/ RecordExecution \/ UNCHANGED ledger
  BY DEF QuietStep, BeginCycle, EndPoll, EndRecord, EndSync, EndClose, EndCycle,
         PollOrder, ClaimSettlement, RecordRealizedPnl, ExecutorBlocks, SinkReadsBlock,
       RiskStateBlocks,
         bookVars, riskVars
<1> QED
  BY <1>3, <1>4, <1>5, <1>6, <1>7, <1>8

\* Only a decision the ledger did not know becomes the one in preparation.
LEMMA QuietControl ==
  ASSUME IInv, QuietStep
  PROVE  /\ UNCHANGED <<trackerVars, brokerVars>>
         /\ \A d \in Decision : cur' = d /\ pc' \in Preparing =>
              pc' \in {"evaluate", "sink", "reserve"} /\ ledger[d].kind = "none"
BY DEF QuietStep, BeginCycle, EndPoll, EndRecord, EndSync, EndClose, EndCycle,
       PollOrder, RecordPolled, CloseUnfilled, CloseFilled, RecordDecision,
       ClaimSettlement, RecordRealizedPnl, ExecutorBlocks, SinkReadsBlock,
       RiskStateBlocks, RecordExecution, Goto, Finish, Preparing, controlVars, bookVars, riskVars

\* Such a step ends orders or nothing.
LEMMA QuietImplements ==
  ASSUME IInv, UnreservedInv, QuietStep
  PROVE  Life!Next /\ UnreservedInv'
<1>1. \A d \in Decision : NotYetSent(d)' => NotYetSent(d)
  BY QuietLedger, QuietControl DEF NotYetSent
<1>2. \A d \in Decision : BeforeReservation(d)' => BeforeReservation(d)
  BY QuietLedger, QuietControl DEF BeforeReservation, Preparing
<1> QED
  BY <1>1, <1>2, QuietControl, ProcessEnds, QuietKeeps, EndsImplements,
     QuietKeepsUnreserved

\* The sending of the current decision.
LEMMA SendImplements ==
  ASSUME IInv, UnreservedInv, CreateOrder
  PROVE  Life!Next /\ UnreservedInv'
<1>1. cur \in Decision /\ Untouched(cur) /\ Present(disk, cur)
  BY DEF IInv, CreateOrder, ControlInv, Submitting
<1>2. \A d \in Decision \ {cur} : LifeOf'[d] = LifeOf[d]
  BY DEF LifeOf, MayStillFill, NotYetSent, CreateOrder, bookVars, riskVars
<1>3. LifeOf[cur] = "new" /\ LifeOf'[cur] = "open"
  BY <1>1 DEF LifeOf, MayStillFill, NotYetSent, CreateOrder, Preparing, Untouched
<1>4. LifeOf' = [LifeOf EXCEPT ![cur] = "open"]
  <2>1. /\ LifeOf  \in [Decision -> {"new", "open", "over"}]
        /\ LifeOf' \in [Decision -> {"new", "open", "over"}]
    BY DEF LifeOf
  <2> QED
    BY <1>1, <1>2, <1>3, <2>1
<1>5. cur \in ReservedInFile /\ UNCHANGED ReservedInFile
  BY <1>1 DEF ReservedInFile, CreateOrder, trackerVars, Present
<1>6. UnreservedInv'
  BY QuietKeepsUnreserved DEF CreateOrder, Goto, BeforeReservation, bookVars, riskVars
<1> QED
  BY <1>1, <1>3, <1>4, <1>5, <1>6 DEF Life!Next, Life!Send

\* The calls of the tracker.
LEMMA CallImplements ==
  ASSUME IInv, UnreservedInv, ~FileCanBreak,
         \/ \E d \in Decision : SyncLiveExposure(d)
         \/ ReleaseOrder \/ ReleasePosition \/ FirstEvaluation \/ FinalEvaluation
         \/ ReserveSubmission \/ BrokerAnswers \/ BrokerOutcomeUnknown
  PROVE  Life!Next /\ UnreservedInv'
<1>1. ASSUME UNCHANGED <<brokerVars, ledger>>, TrackerSafe, NEW added, AddsOnly(added),
             pc # "send",
             \A d \in Decision : NotYetSent(d)' => NotYetSent(d),
             \A d \in Decision : BeforeReservation(d)' => BeforeReservation(d) /\ d \notin added
      PROVE  Life!Next /\ UnreservedInv'
  BY <1>1, ProcessEnds, CallKeeps, EndsImplements, CallKeepsUnreserved
<1>2. CASE \E d \in Decision : SyncLiveExposure(d)
  <2>1. UNCHANGED <<brokerVars, ledger, cur, pc>> /\ pc # "send"
    BY <1>2 DEF SyncLiveExposure, bookVars
  <2> QED
    BY <1>1, <1>2, <2>1, SyncCall DEF NotYetSent, BeforeReservation
<1>3. CASE ReleaseOrder \/ ReleasePosition
  <2>1. UNCHANGED <<brokerVars, ledger>> /\ pc # "send" /\ pc' \notin Preparing
    BY <1>3 DEF ReleaseOrder, ReleasePosition, Goto, Preparing, bookVars
  <2> QED
    BY <1>1, <1>3, <2>1, ReleaseCall DEF NotYetSent, BeforeReservation, Preparing
<1>4. CASE FirstEvaluation \/ FinalEvaluation
  <2>1. PICK allow, next : Evaluate(allow, next)
    BY <1>4 DEF FirstEvaluation, FinalEvaluation
  <2>2. /\ UNCHANGED <<brokerVars, ledger, cur>> /\ pc \in {"evaluate", "sink"}
        /\ pc' \in {"sink", "reserve", "done"}
    BY <1>4 DEF FirstEvaluation, FinalEvaluation, Evaluate, Goto, Finish
  <2> QED
    BY <1>1, <2>1, <2>2, EvaluateCall DEF NotYetSent, BeforeReservation, Preparing
<1>5. CASE ReserveSubmission
  <2>1. /\ UNCHANGED <<brokerVars, ledger, cur>> /\ pc = "reserve"
        /\ pc' \in {"send", "done"} /\ ledger[cur].kind # "none"
    BY <1>5 DEF ReserveSubmission, Goto, Finish, IInv, ControlInv, Submitting, bookVars
  <2>2. \A d \in Decision : BeforeReservation(d)' => BeforeReservation(d) /\ d \notin {cur}
    BY <2>1 DEF BeforeReservation
  <2>3. \A d \in Decision : NotYetSent(d)' => NotYetSent(d)
    BY <2>1 DEF NotYetSent, Preparing
  <2> QED
    BY <1>1, <1>5, <2>1, <2>2, <2>3, ReserveCall
<1>6. CASE BrokerAnswers \/ BrokerOutcomeUnknown
  <2>1. UNCHANGED <<brokerVars, ledger>> /\ pc # "send" /\ pc' \notin Preparing
    BY <1>6 DEF BrokerAnswers, BrokerOutcomeUnknown, Goto, Finish, Preparing, bookVars
  <2> QED
    BY <1>1, <1>6, <2>1, AnswerCall DEF NotYetSent, BeforeReservation, Preparing
<1> QED
  BY <1>2, <1>3, <1>4, <1>5, <1>6

\* Process death and restart: what was in preparation is over.
LEMMA RestartImplements ==
  ASSUME IInv, UnreservedInv, ~FileCanBreak, Restart \/ RestartOnBrokenFile
  PROVE  Life!Next /\ UnreservedInv'
<1>1. /\ Restart /\ disk' = disk /\ mem'.orders = disk.orders
      /\ UNCHANGED <<brokerVars, ledger>> /\ pc' = "idle"
  BY DEF Restart, RestartOnBrokenFile, ForgetControl, IInv, Covered, Load
<1>2. UnreservedInv'
  BY <1>1 DEF UnreservedInv, BeforeReservation, Present
<1>3. FileKeeps
  BY <1>1 DEF FileKeeps
<1>4. \A d \in Decision : NotYetSent(d)' => NotYetSent(d)
  BY <1>1 DEF NotYetSent, Preparing
<1> QED
  BY <1>1, <1>2, <1>3, <1>4, ProcessEnds, EndsImplements

\* A stuttering step stutters.
LEMMA StutterImplements ==
  ASSUME UnreservedInv, UNCHANGED vars
  PROVE  UNCHANGED Life!lifeVars /\ UnreservedInv'
<1> USE DEF vars, trackerVars, brokerVars, bookVars, riskVars, controlVars
<1>1. UNCHANGED <<LifeOf, ReservedInFile>>
  BY DEF LifeOf, ReservedInFile, MayStillFill, NotYetSent, Present
<1> QED
  BY <1>1 DEF Life!lifeVars, UnreservedInv, BeforeReservation, Present

\* Every step is one of OrderLife or stutters.
LEMMA StepImplements ==
  ASSUME IInv, UnreservedInv, ~FileCanBreak, [Next]_vars
  PROVE  [Life!Next]_(Life!lifeVars) /\ UnreservedInv'
<1>1. CASE QuietStep
  BY <1>1, QuietImplements
<1>2. CASE \/ \E d \in Decision : SyncLiveExposure(d)
           \/ ReleaseOrder \/ ReleasePosition \/ FirstEvaluation \/ FinalEvaluation
           \/ ReserveSubmission \/ BrokerAnswers \/ BrokerOutcomeUnknown
  BY <1>2, CallImplements
<1>3. CycleStep \/ SubmitStep =>
        \/ QuietStep \/ CreateOrder
        \/ \E d \in Decision : SyncLiveExposure(d)
        \/ ReleaseOrder \/ ReleasePosition \/ FirstEvaluation \/ FinalEvaluation
        \/ ReserveSubmission \/ BrokerAnswers \/ BrokerOutcomeUnknown
  BY DEF CycleStep, SubmitStep, QuietStep
<1> QED
  BY <1>1, <1>2, <1>3, BrokerImplements, SendImplements, RestartImplements,
     StutterImplements DEF Next

\* The empty account maps to one without orders.
LEMMA InitImplements == Init => Life!Init
BY DEF Init, Life!Init, LifeOf, ReservedInFile, MayStillFill, NotYetSent, Present,
       Payload, EmptyBook, NoOrder

\* Live trading implements OrderLife: while the file is not damaged, an order
\* is sent once at most, is in the file before, and stays there until the
\* broker can no longer fill it.
THEOREM LiveImplementsOrderLife == ~FileCanBreak => (Spec => ImplementsOrderLife)
<1>1. CASE FileCanBreak
  BY <1>1
<1>2. CASE ~FileCanBreak
  <2>1. IInv /\ UnreservedInv /\ [Next]_vars =>
          [Life!Next]_(Life!lifeVars) /\ UnreservedInv'
    BY <1>2, StepImplements
  <2> QED
    BY <2>1, InitUnreserved, InitImplements, Invariance, PTL
       DEF Spec, ImplementsOrderLife, Life!Spec
<1> QED
  BY <1>1, <1>2

-----------------------------------------------------------------------------
(***************************************************************************)
(* The account: what the book says of open markets, set against what the   *)
(* broker has done                                                         *)
(***************************************************************************)

\* What the tracker books for an order that it drops: the broker's count at
\* the broker's average price.
BookedCost(d) ==
  CumulativeCost(broker[d].filled, AveragePrice(broker[d].cost, broker[d].filled))

\* What the positions of a book owe to a decision: what its entry says, or all
\* that the broker has filled where the entry is gone.
CreditCount(b) ==
  [d \in Decision |-> IF Present(b, d) THEN b.orders[d].filled ELSE broker[d].filled]
CreditCost(b) ==
  [d \in Decision |-> IF Present(b, d) THEN b.orders[d].cost ELSE BookedCost(d)]

Holders(k) == {d \in Decision : KeyOf(d) = k}

\* Positions of open markets: no contract that was not filled, and no less
\* than the fills cost.
CountsFills(b) ==
  \A k \in Key : venue[k[1]] = "open" =>
    b.positions[k].quantity <= SumFunctionOnSet(CreditCount(b), Holders(k))
CoversFills(b) ==
  \A k \in Key : venue[k[1]] = "open" =>
    PositionNotional(b, k) >= SumFunctionOnSet(CreditCost(b), Holders(k))

\* `filled` contracts at a rounded total of `cost` say enough of what the
\* broker has charged: the later fills cost at most the limit each.
SaysEnough(d, filled, cost) ==
  2 * broker[d].cost
    <= 2 * cost + filled + 2 * ((broker[d].filled - filled) * LimitOf[d])

OrdersSayEnough(b) ==
  \A d \in Decision : Present(b, d) =>
    SaysEnough(d, b.orders[d].filled, b.orders[d].cost)

\* A book that accounts for what the broker has done.
Sound(b) ==
  /\ OrdersSayEnough(b)
  /\ CountsFills(b)
  /\ ~FileCanBreak => CoversFills(b)

\* A contract costs a cent at least, and what rests has something to fill.
BrokerAccount ==
  \A d \in Decision :
    /\ broker[d].filled <= SizeOf[d]
    /\ broker[d].filled <= broker[d].cost
    /\ broker[d].filled = 0 => broker[d].cost = 0
    /\ broker[d].state = "resting" => broker[d].filled < SizeOf[d]

\* What a poll reported last of a resolved order is all that was filled.
PolledAccount ==
  \A d \in Decision : polled[d].stage # "none" =>
    /\ SaysEnough(d, polled[d].filled, CumulativeCost(polled[d].filled, polled[d].price))
    /\ polled[d].kind # "PARTIALLY_FILLED" =>
         /\ polled[d].filled = broker[d].filled
         /\ polled[d].price = AveragePrice(broker[d].cost, broker[d].filled)

ClosingSettled ==
  pc \in {"pnl", "unreserve", "unposition"} => venue[MarketOf[cur]] # "open"

AccountInv ==
  /\ BrokerAccount
  /\ PolledAccount
  /\ ClosingSettled
  /\ \A b \in {mem, disk} : Sound(b)

\* What an account of orders and positions is read from.
Shelf(b) == b.orders \in Books /\ b.positions \in Holdings

-----------------------------------------------------------------------------
(***************************************************************************)
(* Arithmetic                                                              *)
(***************************************************************************)

\* An average of halves rounded up loses no more than half a cent a contract.
LEMMA AverageCovers ==
  ASSUME NEW cost \in Nat, NEW filled \in Nat, filled = 0 => cost = 0
  PROVE  2 * CumulativeCost(filled, AveragePrice(cost, filled)) + filled >= 2 * cost
<1>1. CASE filled = 0
  BY <1>1 DEF CumulativeCost
<1>2. CASE filled > 0
  BY <1>2, DivBounds DEF CumulativeCost, AveragePrice
<1> QED
  BY <1>1, <1>2

-----------------------------------------------------------------------------
(***************************************************************************)
(* Books that change while the broker does nothing                         *)
(***************************************************************************)

\* The decisions of a position, and those of a set of markets, are finitely many.
LEMMA HoldersFinite ==
  ASSUME NEW k
  PROVE  IsFiniteSet(Holders(k)) /\ Holders(k) \subseteq Decision
BY DecisionTerms, FS_Subset DEF Holders

\* What is owed to a decision is a natural number.
LEMMA CreditNat ==
  ASSUME IInv, NEW b, Shelf(b), NEW d \in Decision
  PROVE  CreditCount(b)[d] \in Nat /\ CreditCost(b)[d] \in Nat /\ BookedCost(d) \in Nat
<1>1. broker[d].filled \in Nat /\ broker[d].cost \in Nat
  BY DEF IInv, TypeOK, BrokerOrder
<1>2. BookedCost(d) \in Nat
  BY <1>1, AveragePriceNat, CostNat DEF BookedCost
<1> QED
  BY <1>1, <1>2 DEF Shelf, Books, Order, CreditCount, CreditCost

\* A book owes the same with the same positions and the same credits.
LEMMA SameCredit ==
  ASSUME IInv, NEW b, Shelf(b), NEW c, Shelf(c), Sound(b), OrdersSayEnough(c),
         c.positions = b.positions,
         \A d \in Decision : venue[MarketOf[d]] = "open" =>
           CreditCount(c)[d] = CreditCount(b)[d] /\ CreditCost(c)[d] = CreditCost(b)[d]
  PROVE  Sound(c)
<1>1. ASSUME NEW k \in Key, venue[k[1]] = "open"
      PROVE  /\ SumFunctionOnSet(CreditCount(b), Holders(k))
                  = SumFunctionOnSet(CreditCount(c), Holders(k))
             /\ SumFunctionOnSet(CreditCost(b), Holders(k))
                  = SumFunctionOnSet(CreditCost(c), Holders(k))
  <2>1. \A d \in Holders(k) : d \in Decision /\ venue[MarketOf[d]] = "open"
    BY <1>1 DEF Holders, KeyOf
  <2> QED
    BY <2>1, HoldersFinite, CreditNat, SumSame
<1>2. CountsFills(c)
  BY <1>1 DEF Sound, CountsFills
<1>3. CoversFills(b) => CoversFills(c)
  BY <1>1 DEF CoversFills, PositionNotional
<1> QED
  BY <1>2, <1>3 DEF Sound

\* A reservation is owed nothing, as was the decision before it.
LEMMA ReservedSound ==
  ASSUME IInv, BrokerAccount, NEW b, Shelf(b), NEW c, Shelf(c), Sound(b), NEW d \in Decision,
         ~Present(b, d), broker[d].filled = 0,
         c.orders = [b.orders EXCEPT ![d] = NewOrder], c.positions = b.positions
  PROVE  Sound(c)
<1>1. broker[d].cost = 0 /\ BookedCost(d) = 0
  BY DEF BrokerAccount, BookedCost, CumulativeCost
<1>2. LimitOf[d] \in Int /\ (0 - 0) * LimitOf[d] = 0
  BY DecisionTerms
<1>3. SaysEnough(d, 0, 0)
  BY <1>1, <1>2 DEF SaysEnough
<1>4. \A e \in Decision : c.orders[e] = IF e = d THEN NewOrder ELSE b.orders[e]
  BY DEF Shelf, Books
<1>5. OrdersSayEnough(c)
  BY <1>3, <1>4 DEF OrdersSayEnough, Sound, Present, NewOrder
<1>6. \A e \in Decision : /\ CreditCount(c)[e] = CreditCount(b)[e]
                          /\ CreditCost(c)[e] = CreditCost(b)[e]
  BY <1>1, <1>4 DEF CreditCount, CreditCost, Present, NewOrder
<1> QED
  BY <1>5, <1>6, SameCredit

\* A relabelled entry is owed what it was.
LEMMA RelabelledSound ==
  ASSUME IInv, NEW b, Shelf(b), NEW c, Shelf(c), Sound(b), NEW d \in Decision,
         Present(b, d), NEW o, o.state # "none", o.filled = b.orders[d].filled,
         o.cost = b.orders[d].cost,
         c.orders = [b.orders EXCEPT ![d] = o], c.positions = b.positions
  PROVE  Sound(c)
<1>1. \A e \in Decision : c.orders[e] = IF e = d THEN o ELSE b.orders[e]
  BY DEF Shelf, Books
<1>2. OrdersSayEnough(c)
  BY <1>1 DEF OrdersSayEnough, Sound, Present
<1>3. \A e \in Decision : /\ CreditCount(c)[e] = CreditCount(b)[e]
                          /\ CreditCost(c)[e] = CreditCost(b)[e]
  BY <1>1 DEF CreditCount, CreditCost, Present
<1> QED
  BY <1>2, <1>3, SameCredit

\* An entry may go where the market has settled.
LEMMA OrderDroppedSound ==
  ASSUME IInv, NEW b, Shelf(b), NEW c, Shelf(c), Sound(b), NEW d \in Decision,
         venue[MarketOf[d]] # "open",
         c.orders = [b.orders EXCEPT ![d] = NoOrder], c.positions = b.positions
  PROVE  Sound(c)
<1>1. \A e \in Decision : c.orders[e] = IF e = d THEN NoOrder ELSE b.orders[e]
  BY DEF Shelf, Books
<1>2. OrdersSayEnough(c)
  BY <1>1 DEF OrdersSayEnough, Sound, Present, NoOrder
<1>3. \A e \in Decision : e # d => /\ CreditCount(c)[e] = CreditCount(b)[e]
                                   /\ CreditCost(c)[e] = CreditCost(b)[e]
  BY <1>1 DEF CreditCount, CreditCost, Present
<1> QED
  BY <1>2, <1>3, SameCredit

\* So may a position.
LEMMA PositionDroppedSound ==
  ASSUME IInv, NEW b, Shelf(b), NEW c, Shelf(c), Sound(b), NEW j \in Key,
         venue[j[1]] # "open", c.orders = b.orders,
         \A k \in Key : k # j => c.positions[k] = b.positions[k]
  PROVE  Sound(c)
<1>1. /\ CreditCount(c) = CreditCount(b)
      /\ CreditCost(c) = CreditCost(b)
  BY DEF CreditCount, CreditCost, Present
<1>2. OrdersSayEnough(c)
  BY DEF OrdersSayEnough, Sound, Present
<1>3. CountsFills(c)
  BY <1>1 DEF Sound, CountsFills
<1>4. CoversFills(b) => CoversFills(c)
  BY <1>1 DEF CoversFills, PositionNotional
<1> QED
  BY <1>2, <1>3, <1>4 DEF Sound

\* The orders and positions are all that matters.
LEMMA SameShelfSound ==
  ASSUME IInv, NEW b, Shelf(b), NEW c, Sound(b), c.orders = b.orders,
         c.positions = b.positions
  PROVE  Sound(c)
<1>1. Shelf(c)
  BY DEF Shelf
<1>2. OrdersSayEnough(c)
  BY DEF OrdersSayEnough, Sound, Present
<1>3. \A e \in Decision : /\ CreditCount(c)[e] = CreditCount(b)[e]
                          /\ CreditCost(c)[e] = CreditCost(b)[e]
  BY DEF CreditCount, CreditCost, Present
<1> QED
  BY <1>1, <1>2, <1>3, SameCredit

\* A fill that passes FillConsistent: position, entry and credit grow by the
\* same contracts and the same cost.
LEMMA FillSound ==
  ASSUME IInv, Sound(mem), NEW d \in Decision, Present(mem, d),
         NEW cum \in Nat, NEW price \in Nat, NEW terminal \in Terminal,
         FillConsistent(d, cum, price, terminal),
         SaysEnough(d, cum, CumulativeCost(cum, price)),
         terminal # "none" => /\ cum = broker[d].filled
                              /\ price = AveragePrice(broker[d].cost, broker[d].filled)
  PROVE  Sound(Filled(d, cum, price, terminal))
<1> DEFINE o    == mem.orders[d]
           newO == FilledOrder(o, cum, price, terminal)
           cost == CumulativeCost(cum, price)
           n    == cum - o.filled
           x    == cost - o.cost
           p    == mem.positions[KeyOf(d)]
           c    == Filled(d, cum, price, terminal)
<1>1. Shelf(mem) /\ BookOK(mem) /\ BookOK(c) /\ Shelf(c)
  BY FilledOK DEF IInv, TypeOK, BookOK, Shelf
<1>2. o \in Order /\ KeyOf(d) \in Key /\ p \in Position
  BY <1>1 DEF Shelf, Books, Holdings, Key
<1>3. cost \in Nat
  BY CostNat
<1>4. n \in Nat /\ x \in Int /\ (n > 0 => x >= n) /\ (n = 0 => x = 0)
  BY <1>2, <1>3 DEF FillConsistent, Order
<1>5. x \in Nat
  BY <1>4
<1>6. /\ \A e \in Decision : c.orders[e] = IF e = d THEN newO ELSE mem.orders[e]
      /\ \A k \in Key : c.positions[k] = IF k = KeyOf(d) THEN Grown(p, n, x)
                                                         ELSE mem.positions[k]
  BY <1>1, <1>2 DEF Filled, BookOK, Books, Holdings
<1>7. /\ terminal # "none" => newO.state = "none"
      /\ terminal = "none" => newO.state # "none" /\ newO.filled = cum /\ newO.cost = cost
  BY <1>2 DEF FilledOrder, NoOrder, Order, Present
<1>8. terminal # "none" => broker[d].filled = cum /\ BookedCost(d) = cost
  BY DEF BookedCost
<1> HIDE DEF c, newO, cost
<1>9. OrdersSayEnough(c)
  BY <1>6, <1>7 DEF OrdersSayEnough, Sound, Present, cost
<1>10. /\ CreditCount(mem)[d] = o.filled /\ CreditCost(mem)[d] = o.cost
       /\ CreditCount(c)[d] = cum /\ CreditCost(c)[d] = cost
  <2>1. CreditCount(mem)[d] = o.filled /\ CreditCost(mem)[d] = o.cost
    BY DEF CreditCount, CreditCost
  <2>2. CASE terminal = "none"
    BY <1>6, <1>7, <2>1, <2>2 DEF CreditCount, CreditCost, Present
  <2>3. CASE terminal # "none"
    BY <1>6, <1>7, <1>8, <2>1, <2>3 DEF CreditCount, CreditCost, Present
  <2> QED
    BY <2>2, <2>3, <2>1
<1>11. \A e \in Decision : e # d => /\ CreditCount(c)[e] = CreditCount(mem)[e]
                                    /\ CreditCost(c)[e] = CreditCost(mem)[e]
  BY <1>6 DEF CreditCount, CreditCost, Present
<1>12. \A k : \A e \in Holders(k) : e \in Decision
  BY DEF Holders
<1>13. \A e \in Decision : /\ CreditCount(mem)[e] \in Int /\ CreditCost(mem)[e] \in Int
                           /\ CreditCount(c)[e] \in Int /\ CreditCost(c)[e] \in Int
  BY <1>1, CreditNat
<1>14. d \in Holders(KeyOf(d)) /\ \A k \in Key : k # KeyOf(d) => d \notin Holders(k)
  BY DEF Holders
<1>15. /\ SumFunctionOnSet(CreditCount(c), Holders(KeyOf(d)))
            = SumFunctionOnSet(CreditCount(mem), Holders(KeyOf(d))) - o.filled + cum
       /\ SumFunctionOnSet(CreditCost(c), Holders(KeyOf(d)))
            = SumFunctionOnSet(CreditCost(mem), Holders(KeyOf(d))) - o.cost + cost
  BY <1>10, <1>11, <1>12, <1>13, <1>14, HoldersFinite, SumChanges
<1>16. ASSUME NEW k \in Key, k # KeyOf(d)
       PROVE  /\ SumFunctionOnSet(CreditCount(mem), Holders(k))
                   = SumFunctionOnSet(CreditCount(c), Holders(k))
              /\ SumFunctionOnSet(CreditCost(mem), Holders(k))
                   = SumFunctionOnSet(CreditCost(c), Holders(k))
  <2>1. \A e \in Holders(k) : e \in Decision /\ e # d
    BY <1>12, <1>14, <1>16
  <2> QED
    BY <1>11, <1>13, <2>1, HoldersFinite, SumSame
<1>17. /\ \A k : SumFunctionOnSet(CreditCount(mem), Holders(k)) \in Int
       /\ \A k : SumFunctionOnSet(CreditCost(mem), Holders(k)) \in Int
  BY <1>12, <1>13, HoldersFinite, SumInt
<1>18. CountsFills(c)
  <2>1. Grown(p, n, x).quantity = p.quantity + n
    BY <1>2, <1>4, <1>5, GrownPosition
  <2>2. p.quantity \in Nat /\ o.filled \in Nat
    BY <1>2 DEF Position, Order
  <2> SUFFICES ASSUME NEW k \in Key, venue[k[1]] = "open"
               PROVE  c.positions[k].quantity
                        <= SumFunctionOnSet(CreditCount(c), Holders(k))
    BY DEF CountsFills
  <2>3. mem.positions[k].quantity <= SumFunctionOnSet(CreditCount(mem), Holders(k))
    BY DEF Sound, CountsFills
  <2>4. CASE k = KeyOf(d)
    BY <1>6, <1>15, <1>17, <2>1, <2>2, <2>3, <2>4
  <2>5. CASE k # KeyOf(d)
    BY <1>6, <1>16, <2>3, <2>5
  <2> QED
    BY <2>4, <2>5
<1>19. ASSUME CoversFills(mem)
       PROVE  CoversFills(c)
  <2>1. PositionNotional(c, KeyOf(d)) >= PositionNotional(mem, KeyOf(d)) + x
    BY <1>2, <1>4, <1>5, <1>6, GrownCovers DEF PositionNotional
  <2>2. PositionNotional(mem, KeyOf(d)) \in Int /\ PositionNotional(c, KeyOf(d)) \in Int
    <3>1. mem.positions[KeyOf(d)] \in Position /\ c.positions[KeyOf(d)] \in Position
      BY <1>1, <1>2 DEF Shelf, Holdings
    <3> QED
      BY <3>1 DEF PositionNotional, Position
  <2>3. o.cost \in Nat
    BY <1>2 DEF Order
  <2> SUFFICES ASSUME NEW k \in Key, venue[k[1]] = "open"
               PROVE  PositionNotional(c, k)
                        >= SumFunctionOnSet(CreditCost(c), Holders(k))
    BY DEF CoversFills
  <2>4. PositionNotional(mem, k) >= SumFunctionOnSet(CreditCost(mem), Holders(k))
    BY <1>19 DEF CoversFills
  <2>5. CASE k = KeyOf(d)
    <3>1. SumFunctionOnSet(CreditCost(c), Holders(k))
            = SumFunctionOnSet(CreditCost(mem), Holders(k)) + x
      BY <1>3, <1>15, <1>17, <2>3, <2>5
    <3> HIDE DEF x
    <3> QED
      BY <1>5, <1>17, <2>1, <2>2, <2>4, <2>5, <3>1
  <2>6. CASE k # KeyOf(d)
    BY <1>6, <1>16, <2>4, <2>6 DEF PositionNotional
  <2> QED
    BY <2>5, <2>6
<1> QED
  BY <1>9, <1>18, <1>19 DEF Sound, c

-----------------------------------------------------------------------------
(***************************************************************************)
(* Steps of the process                                                    *)
(***************************************************************************)

SoundBooks == \A b \in {mem, disk} : Sound(b)

\* Both copies have the shape an account is read from.
LEMMA BothShelves ==
  ASSUME IInv
  PROVE  BookOK(mem) /\ Shelf(mem) /\ Shelf(disk)
BY DEF IInv, TypeOK, BookOK, FileOK, Shelf

\* What is said of a book stays said while the broker does nothing.
LEMMA SoundStays ==
  ASSUME UNCHANGED <<broker, venue>>, NEW b, Sound(b)
  PROVE  Sound(b)'
<1>1. CreditCount(b)' = CreditCount(b) /\ CreditCost(b)' = CreditCost(b)
  BY DEF CreditCount, CreditCost, BookedCost, Present
<1>2. OrdersSayEnough(b)'
  BY DEF Sound, OrdersSayEnough, SaysEnough, Present
<1>3. CountsFills(b)'
  BY <1>1 DEF Sound, CountsFills
<1>4. CoversFills(b) => CoversFills(b)'
  BY <1>1 DEF CoversFills, PositionNotional
<1> QED
  BY <1>2, <1>3, <1>4 DEF Sound

\* The write of a sound book, whether it succeeds or fails.
LEMMA WriteSound ==
  ASSUME IInv, SoundBooks, UNCHANGED <<broker, venue>>, NEW b, BookOK(b), Sound(b),
         NEW ok \in BOOLEAN, Persist(b, ok)
  PROVE  SoundBooks'
<1>1. Shelf(b)
  BY DEF BookOK, Shelf
<1>2. mem'.orders = b.orders /\ mem'.positions = b.positions
  BY DEF Persist, BookOK
<1>3. Sound(mem')
  BY <1>1, <1>2, SameShelfSound
<1>4. \/ disk' = disk
      \/ disk'.orders = b.orders /\ disk'.positions = b.positions
  BY DEF Persist, Payload
<1>5. Sound(disk')
  BY <1>1, <1>4, SameShelfSound DEF SoundBooks
<1>6. \A x : Sound(x) => Sound(x)'
  BY SoundStays
<1> QED
  BY <1>3, <1>5, <1>6 DEF SoundBooks

\* A step that leaves the tracker alone, or only latches.
LEMMA StaySound ==
  ASSUME IInv, SoundBooks, UNCHANGED <<broker, venue>>, UNCHANGED trackerVars \/ LatchError
  PROVE  SoundBooks'
<1>1. mem'.orders = mem.orders /\ mem'.positions = mem.positions /\ disk' = disk
  BY BothShelves DEF trackerVars, LatchError, BookOK
<1>2. Sound(mem') /\ Sound(disk')
  BY <1>1, BothShelves, SameShelfSound DEF SoundBooks
<1>3. \A x : Sound(x) => Sound(x)'
  BY SoundStays
<1> QED
  BY <1>2, <1>3 DEF SoundBooks

\* The broker's side and what was polled of it, while the broker does nothing.
LEMMA AccountStays ==
  ASSUME BrokerAccount, PolledAccount, UNCHANGED <<broker, polled>>
  PROVE  BrokerAccount' /\ PolledAccount'
BY DEF BrokerAccount, PolledAccount, SaysEnough

\* A poll reports what the broker has filled and charged.
LEMMA PollKeepsAccount ==
  ASSUME IInv, AccountInv, NEW d \in Decision, PollOrder(d)
  PROVE  AccountInv'
<1> DEFINE F    == broker[d].filled
           cost == broker[d].cost
<1>1. F \in Nat /\ cost \in Nat /\ LimitOf[d] \in Int
  BY BrokerNumbers, TermsNat
<1>2. F = 0 => cost = 0
  BY DEF AccountInv, BrokerAccount
<1>3. UNCHANGED <<broker, venue, trackerVars, pc, cur>>
  BY DEF PollOrder, brokerVars
<1>4. CumulativeCost(F, AveragePrice(cost, F)) \in Nat
  BY <1>1, AveragePriceNat, CostNat
<1>5. (F - F) * LimitOf[d] = 0
  BY <1>1
<1>6. SaysEnough(d, F, CumulativeCost(F, AveragePrice(cost, F)))
  <2> DEFINE said == CumulativeCost(F, AveragePrice(cost, F))
  <2>1. 2 * said + F >= 2 * cost
    BY <1>1, <1>2, AverageCovers
  <2> HIDE DEF said
  <2>2. said \in Nat
    BY <1>4 DEF said
  <2>3. SaysEnough(d, F, said)
    BY <1>1, <1>5, <2>1, <2>2 DEF SaysEnough
  <2> QED
    BY <2>3 DEF said
<1>7. \A e \in Decision : polled'[e] =
        IF e = d THEN [stage |-> "read", kind |-> StatusKind(d), filled |-> F,
                       price |-> AveragePrice(cost, F)]
                 ELSE polled[e]
  BY DEF PollOrder, IInv, TypeOK
<1>8. \A e \in Decision : \A f, x : SaysEnough(e, f, x) => SaysEnough(e, f, x)'
  BY <1>3 DEF SaysEnough
<1>9. PolledAccount'
  BY <1>3, <1>6, <1>7, <1>8 DEF PolledAccount, AccountInv
<1>10. BrokerAccount' /\ ClosingSettled'
  BY <1>3 DEF AccountInv, BrokerAccount, ClosingSettled
<1> QED
  BY <1>3, <1>9, <1>10, StaySound DEF AccountInv, SoundBooks

\* Other steps that leave tracker and broker alone.
LEMMA QuietKeepsAccount ==
  ASSUME IInv, AccountInv, QuietStep \/ CreateOrder
  PROVE  AccountInv'
<1>1. CASE \E d \in Decision : PollOrder(d)
  BY <1>1, PollKeepsAccount
<1>2. CASE ~ \E d \in Decision : PollOrder(d)
  <2>1. UNCHANGED <<broker, venue, trackerVars>>
    BY QuietControl DEF CreateOrder, brokerVars
  <2>2. \A d \in Decision : /\ polled'[d].stage # "none" => polled[d].stage # "none"
                            /\ polled'[d].kind = polled[d].kind
                            /\ polled'[d].filled = polled[d].filled
                            /\ polled'[d].price = polled[d].price
    BY <1>2 DEF QuietStep, CreateOrder, BeginCycle, EndPoll, EndRecord, EndSync,
       EndClose, EndCycle, RecordPolled, CloseUnfilled, CloseFilled, RecordDecision,
       ClaimSettlement, RecordRealizedPnl, ExecutorBlocks, SinkReadsBlock,
       RiskStateBlocks, RecordExecution, controlVars, IInv, TypeOK, PolledRow
  <2>3. PolledAccount' /\ BrokerAccount'
    BY <2>1, <2>2 DEF AccountInv, PolledAccount, BrokerAccount, SaysEnough
  <2>4. ClosingSettled'
    BY <1>2, <2>1 DEF QuietStep, CreateOrder, BeginCycle, EndPoll, EndRecord, EndSync,
       EndClose, EndCycle, RecordPolled, CloseUnfilled, CloseFilled, RecordDecision,
       ClaimSettlement, RecordRealizedPnl, ExecutorBlocks, SinkReadsBlock,
       RiskStateBlocks, RecordExecution, controlVars, Goto, Finish, Closable, AccountInv,
       ClosingSettled, IInv, BrokerInv
  <2> QED
    BY <2>1, <2>3, <2>4, StaySound DEF AccountInv, SoundBooks
<1> QED
  BY <1>1, <1>2

\* The projection of a polled outcome.
LEMMA SyncKeepsAccount ==
  ASSUME IInv, AccountInv, NEW d \in Decision, SyncLiveExposure(d)
  PROVE  AccountInv'
<1> DEFINE cum   == polled[d].filled
           price == polled[d].price
           end   == TerminalOf(polled[d].kind)
<1>1. PICK ok \in Writes : RecordCumulativeFill(d, "broker", cum, price, end, ok)
  BY DEF SyncLiveExposure
<1>2. ok \in BOOLEAN
  BY <1>1, FaultFlags DEF Writes
<1>3. UNCHANGED <<broker, venue, pc, cur>> /\ polled[d].stage = "recorded"
  BY DEF SyncLiveExposure, brokerVars
<1>4. cum \in Nat /\ price \in Nat /\ end \in Terminal
  BY DEF IInv, TypeOK, PolledRow, TerminalOf, Terminal
<1>5. /\ SaysEnough(d, cum, CumulativeCost(cum, price))
      /\ end # "none" => /\ cum = broker[d].filled
                         /\ price = AveragePrice(broker[d].cost, broker[d].filled)
  BY <1>3 DEF AccountInv, PolledAccount, TerminalOf
<1>6. ASSUME Present(mem, d), FillConsistent(d, cum, price, end),
             Persist(Filled(d, cum, price, end), ok)
      PROVE  SoundBooks'
  <2> HIDE DEF cum, price, end
  <2>1. Sound(Filled(d, cum, price, end))
    BY <1>4, <1>5, <1>6, FillSound DEF AccountInv
  <2>2. BookOK(Filled(d, cum, price, end))
    BY <1>4, <1>6, BothShelves, FilledOK
  <2> QED
    BY <1>2, <1>3, <1>6, <2>1, <2>2, WriteSound DEF AccountInv, SoundBooks
<1>7. SoundBooks'
  <2> HIDE DEF cum, price, end
  <2> QED
    BY <1>1, <1>3, <1>6, StaySound
       DEF RecordCumulativeFill, Matches, AccountInv, SoundBooks
<1>8. \A e \in Decision : polled'[e] = polled[e] \/ polled'[e].stage = "none"
  BY DEF SyncLiveExposure, NoOutcome, IInv, TypeOK
<1>9. PolledAccount' /\ BrokerAccount'
  BY <1>3, <1>8 DEF AccountInv, PolledAccount, BrokerAccount, SaysEnough
<1>10. ClosingSettled'
  BY <1>3 DEF AccountInv, ClosingSettled
<1> QED
  BY <1>7, <1>9, <1>10 DEF AccountInv, SoundBooks

\* The two releases of a settled decision.
LEMMA ReleaseKeepsAccount ==
  ASSUME IInv, AccountInv, ReleaseOrder \/ ReleasePosition
  PROVE  AccountInv'
<1>1. cur \in Decision /\ venue[MarketOf[cur]] # "open" /\ KeyOf(cur) \in Key
  BY DEF ReleaseOrder, ReleasePosition, IInv, ControlInv, AccountInv, ClosingSettled, Key
<1>2. UNCHANGED <<broker, venue, polled>>
  BY DEF ReleaseOrder, ReleasePosition, brokerVars
<1>3. CASE ReleaseOrder
  <2>1. PICK ok \in BOOLEAN : RemoveOpenOrder(cur, "broker", ok)
    BY <1>3, FaultFlags DEF ReleaseOrder, Writes
  <2> DEFINE b == [mem EXCEPT !.orders[cur] = NoOrder]
  <2>2. /\ BookOK(b) /\ b.orders = [mem.orders EXCEPT ![cur] = NoOrder]
        /\ b.positions = mem.positions
    BY <1>1, BothShelves, NoOrderOK, BookWithOrderOK DEF BookOK
  <2>3. Persist(mem, ok) \/ Persist(b, ok)
    BY <2>1 DEF RemoveOpenOrder
  <2> HIDE DEF b
  <2>4. Sound(b)
    BY <1>1, <2>2, BothShelves, OrderDroppedSound DEF AccountInv, BookOK, Shelf
  <2>5. SoundBooks'
    BY <1>2, <2>2, <2>3, <2>4, BothShelves, WriteSound DEF AccountInv, SoundBooks
  <2>6. ClosingSettled'
    BY <1>1, <1>2, <1>3 DEF ReleaseOrder, Goto, ClosingSettled
  <2> QED
    BY <1>2, <2>5, <2>6, AccountStays DEF AccountInv, SoundBooks
<1>4. CASE ReleasePosition
  <2>1. PICK ok \in BOOLEAN : RemovePosition(KeyOf(cur), ok)
    BY <1>4, FaultFlags DEF ReleasePosition, Writes
  <2> DEFINE b == [mem EXCEPT !.positions[KeyOf(cur)] = NoPosition]
  <2>2. /\ BookOK(b) /\ b.orders = mem.orders
        /\ \A k \in Key : k # KeyOf(cur) => b.positions[k] = mem.positions[k]
    BY <1>1, BothShelves, PositionRemovedOK DEF BookOK, Holdings
  <2>3. Persist(b, ok)
    BY <2>1 DEF RemovePosition
  <2> HIDE DEF b
  <2>4. venue[KeyOf(cur)[1]] # "open"
    BY <1>1 DEF KeyOf
  <2>5. Sound(b)
    BY <1>1, <2>2, <2>4, BothShelves, PositionDroppedSound DEF AccountInv, BookOK, Shelf
  <2>6. SoundBooks'
    BY <1>2, <2>2, <2>3, <2>5, WriteSound DEF AccountInv, SoundBooks
  <2>7. ClosingSettled'
    BY <1>4 DEF ReleasePosition, Goto, ClosingSettled
  <2> QED
    BY <1>2, <2>6, <2>7, AccountStays DEF AccountInv, SoundBooks
<1> QED
  BY <1>3, <1>4

\* A run of evaluate.
LEMMA EvaluateKeepsAccount ==
  ASSUME IInv, AccountInv, NEW allow, NEW next, next \in {"sink", "reserve"},
         Evaluate(allow, next)
  PROVE  AccountInv'
<1>1. PICK ok \in BOOLEAN : VerifyPersistence(ok)
  BY FaultFlags DEF Evaluate, Writes
<1>2. UNCHANGED <<broker, venue, polled>>
  BY DEF Evaluate, brokerVars
<1>3. SoundBooks'
  BY <1>1, <1>2, BothShelves, WriteSound, StaySound
     DEF VerifyPersistence, AccountInv, SoundBooks
<1>4. ClosingSettled'
  BY DEF Evaluate, Goto, Finish, ClosingSettled
<1> QED
  BY <1>2, <1>3, <1>4, AccountStays DEF AccountInv, SoundBooks

\* The reservation of a decision the broker does not know.
LEMMA ReserveKeepsAccount ==
  ASSUME IInv, AccountInv, ReserveSubmission
  PROVE  AccountInv'
<1>1. PICK ok \in BOOLEAN : ReserveOrderSubmission(cur, ok)
  BY FaultFlags DEF ReserveSubmission, Writes
<1>2. UNCHANGED <<broker, venue, polled>>
  BY DEF ReserveSubmission, brokerVars
<1>3. cur \in Decision /\ broker[cur].filled = 0
  BY DEF ReserveSubmission, IInv, ControlInv, Submitting, BrokerInv, Untouched
<1>4. /\ BookOK(Reserved(cur)) /\ Reserved(cur).orders = [mem.orders EXCEPT ![cur] = NewOrder]
      /\ Reserved(cur).positions = mem.positions
  BY <1>3, BothShelves, ReservedOK DEF Reserved, BookOK
<1>5. ~Present(mem, cur) => Sound(Reserved(cur))
  BY <1>3, <1>4, BothShelves, ReservedSound DEF AccountInv, BookOK, Shelf
<1>6. SoundBooks'
  BY <1>1, <1>2, <1>4, <1>5, WriteSound, StaySound
     DEF ReserveOrderSubmission, AccountInv, SoundBooks
<1>7. ClosingSettled'
  BY DEF ReserveSubmission, Goto, Finish, ClosingSettled
<1> QED
  BY <1>2, <1>6, <1>7, AccountStays DEF AccountInv, SoundBooks

\* The broker's answer, or its absence.
LEMMA AnswerKeepsAccount ==
  ASSUME IInv, AccountInv, BrokerAnswers \/ BrokerOutcomeUnknown
  PROVE  AccountInv'
<1>1. PICK ok \in BOOLEAN : ConfirmOpenOrder(cur, ok) \/ MarkOrderOutcomeUnknown(cur, ok)
  BY FaultFlags DEF BrokerAnswers, BrokerOutcomeUnknown, Writes
<1>2. UNCHANGED <<broker, venue, polled>>
  BY DEF BrokerAnswers, BrokerOutcomeUnknown, brokerVars
<1>3. cur \in Decision
  BY DEF IInv, BrokerAnswers, BrokerOutcomeUnknown, ControlInv
<1> DEFINE confirmed == [mem.orders[cur] EXCEPT !.state = "open", !.bound = TRUE]
           unknown   == [mem.orders[cur] EXCEPT !.state = "submit_outcome_unknown"]
           b         == [mem EXCEPT !.orders[cur] = confirmed]
           u         == [mem EXCEPT !.orders[cur] = unknown]
<1>4. ASSUME Present(mem, cur), Persist(b, ok)
      PROVE  SoundBooks'
  <2>1. BookOK(b)
    BY <1>3, <1>4, BothShelves, ConfirmedOK
  <2>2. b.orders = [mem.orders EXCEPT ![cur] = confirmed] /\ b.positions = mem.positions
    BY BothShelves DEF BookOK
  <2>3. /\ confirmed.state # "none" /\ confirmed.filled = mem.orders[cur].filled
        /\ confirmed.cost = mem.orders[cur].cost
    BY <1>3, BothShelves DEF Shelf, Books, Order
  <2> HIDE DEF b, confirmed
  <2>4. Sound(b)
    BY <1>3, <1>4, <2>1, <2>2, <2>3, BothShelves, RelabelledSound
       DEF AccountInv, BookOK, Shelf
  <2> QED
    BY <1>2, <1>4, <2>1, <2>4, WriteSound DEF AccountInv, SoundBooks
<1>5. ASSUME Present(mem, cur), Persist(u, ok)
      PROVE  SoundBooks'
  <2>1. BookOK(u)
    BY <1>3, <1>5, BothShelves, UnknownOK
  <2>2. u.orders = [mem.orders EXCEPT ![cur] = unknown] /\ u.positions = mem.positions
    BY BothShelves DEF BookOK
  <2>3. /\ unknown.state # "none" /\ unknown.filled = mem.orders[cur].filled
        /\ unknown.cost = mem.orders[cur].cost
    BY <1>3, BothShelves DEF Shelf, Books, Order
  <2> HIDE DEF u, unknown
  <2>4. Sound(u)
    BY <1>3, <1>5, <2>1, <2>2, <2>3, BothShelves, RelabelledSound
       DEF AccountInv, BookOK, Shelf
  <2> QED
    BY <1>2, <1>5, <2>1, <2>4, WriteSound DEF AccountInv, SoundBooks
<1>6. SoundBooks'
  BY <1>1, <1>2, <1>4, <1>5, StaySound
     DEF ConfirmOpenOrder, MarkOrderOutcomeUnknown, AccountInv, SoundBooks
<1>7. ClosingSettled'
  BY DEF BrokerAnswers, BrokerOutcomeUnknown, Goto, Finish, ClosingSettled
<1> QED
  BY <1>2, <1>6, <1>7, AccountStays DEF AccountInv, SoundBooks

\* An empty book owes nothing.
LEMMA EmptyCounts ==
  ASSUME IInv, NEW b, b.orders = EmptyBook.orders, b.positions = EmptyBook.positions
  PROVE  OrdersSayEnough(b) /\ CountsFills(b)
<1>1. OrdersSayEnough(b)
  BY DEF OrdersSayEnough, Present, EmptyBook, NoOrder
<1>2. Shelf(b)
  BY EmptyBookOK DEF BookOK, Shelf
<1>3. \A k : SumFunctionOnSet(CreditCount(b), Holders(k)) \in Nat
  <2>1. \A k : \A d \in Holders(k) : CreditCount(b)[d] \in Nat
    BY <1>2, CreditNat DEF Holders
  <2> QED
    BY <2>1, HoldersFinite, SumNat
<1>4. \A k \in Key : b.positions[k].quantity = 0
  BY DEF EmptyBook, NoPosition
<1> QED
  BY <1>1, <1>3, <1>4 DEF CountsFills

\* A process dies and its successor loads the file.
LEMMA RestartKeepsAccount ==
  ASSUME IInv, AccountInv, Restart \/ RestartOnBrokenFile
  PROVE  AccountInv'
<1>1. /\ mem' = Load(disk') /\ UNCHANGED <<broker, venue>>
      /\ polled' = [d \in Decision |-> NoOutcome] /\ pc' = "idle"
      /\ disk'.orders = disk.orders /\ disk'.positions = disk.positions
  BY DEF Restart, RestartOnBrokenFile, ForgetControl, brokerVars, IInv, TypeOK, FileOK
<1>2. Sound(disk')
  BY <1>1, BothShelves, SameShelfSound DEF AccountInv
<1>3. Sound(mem')
  <2>1. CASE disk'.readable
    <3>1. mem'.orders = disk.orders /\ mem'.positions = disk.positions
      BY <1>1, <2>1 DEF Load
    <3> QED
      BY <3>1, BothShelves, SameShelfSound DEF AccountInv
  <2>2. CASE ~disk'.readable
    <3>1. mem'.orders = EmptyBook.orders /\ mem'.positions = EmptyBook.positions
      BY <1>1, <2>2 DEF Load, EmptyBook
    <3>2. FileCanBreak
      BY <2>2 DEF Restart, RestartOnBrokenFile, IInv, Covered
    <3> QED
      BY <3>1, <3>2, EmptyCounts DEF Sound
  <2> QED
    BY <2>1, <2>2
<1>4. \A x : Sound(x) => Sound(x)'
  BY <1>1, SoundStays
<1>5. BrokerAccount' /\ PolledAccount' /\ ClosingSettled'
  BY <1>1 DEF AccountInv, BrokerAccount, PolledAccount, ClosingSettled, NoOutcome
<1> QED
  BY <1>2, <1>3, <1>4, <1>5 DEF AccountInv

-----------------------------------------------------------------------------
(***************************************************************************)
(* Steps of the broker and the venue                                       *)
(***************************************************************************)

\* What a step of the broker does to an account: it may fill a contract of a
\* resting order at its limit or below, and settle markets.
AccountMoves ==
  /\ UNCHANGED <<trackerVars, polled, pc, cur>>
  /\ \A m \in Market : venue'[m] = "open" => venue[m] = "open"
  /\ \A d \in Decision :
       /\ broker'[d].filled \in Nat /\ broker'[d].cost \in Nat
       /\ \/ /\ broker'[d].filled = broker[d].filled
             /\ broker'[d].cost = broker[d].cost
          \/ /\ broker[d].state = "resting"
             /\ broker'[d].filled = broker[d].filled + 1
             /\ broker'[d].cost \in (broker[d].cost + 1)..(broker[d].cost + LimitOf[d])

\* Every step of the broker and the venue is such a move.
LEMMA BrokerMoves ==
  ASSUME IInv, BrokerStep
  PROVE  AccountMoves
<1> USE DEF IInv, TypeOK, BrokerOrder
<1>1. CASE \E d \in Decision : BrokerAccepts(d) \/ BrokerNeverAccepts(d)
                               \/ BrokerCancels(d) \/ HourPasses(d)
  BY <1>1 DEF BrokerAccepts, BrokerNeverAccepts, BrokerCancels, HourPasses,
              AccountMoves, controlVars
<1>2. ASSUME NEW d \in Decision, BrokerFills(d)
      PROVE  AccountMoves
  <2>1. PICK price \in FillPrice(d) :
          broker' = [broker EXCEPT ![d] =
             [state  |-> IF broker[d].filled + 1 = SizeOf[d] THEN "executed" ELSE "resting",
              filled |-> broker[d].filled + 1,
              cost   |-> broker[d].cost + price]]
    BY <1>2 DEF BrokerFills
  <2>2. price \in Nat /\ 1 <= price /\ price <= LimitOf[d] /\ LimitOf[d] \in Nat
    BY ONLY price \in FillPrice(d), d \in Decision, TermsNat, FaultFlags DEF FillPrice
  <2> QED
    BY <1>2, <2>1, <2>2 DEF BrokerFills, AccountMoves, controlVars
<1>3. ASSUME NEW m \in Market, MarketSettles(m)
      PROVE  AccountMoves
  <2>1. \A d \in Decision : /\ broker'[d].filled = broker[d].filled
                            /\ broker'[d].cost = broker[d].cost
    BY <1>3 DEF MarketSettles
  <2>2. \A n \in Market : venue'[n] = "open" => venue[n] = "open"
    BY <1>3 DEF MarketSettles
  <2> QED
    BY <1>3, <2>1, <2>2 DEF MarketSettles, AccountMoves, controlVars
<1>4. CASE Midnight
  BY <1>4 DEF Midnight, AccountMoves, brokerVars, controlVars
<1> QED
  BY <1>1, <1>2, <1>3, <1>4 DEF BrokerStep

\* A fill at the limit or below leaves enough said.
LEMMA MoveKeepsSaid ==
  ASSUME IInv, AccountMoves, NEW d \in Decision, NEW filled \in Nat, NEW cost \in Nat,
         SaysEnough(d, filled, cost)
  PROVE  SaysEnough(d, filled, cost)'
<1> DEFINE F == broker[d].filled
           L == LimitOf[d]
<1>1. F \in Nat /\ L \in Nat /\ broker[d].cost \in Nat /\ F - filled \in Int
  BY BrokerNumbers, TermsNat
<1>2. ((F - filled) + 1) * L = (F - filled) * L + 1 * L
  <2> HIDE DEF F, L
  <2>1. PICK owed \in Int : owed = F - filled
    BY <1>1
  <2>2. (owed + 1) * L = owed * L + 1 * L
    BY ONLY <1>1, owed \in Int, Distribute
  <2> QED
    BY ONLY <2>1, <2>2
<1>3. (F + 1) - filled = (F - filled) + 1 /\ (F - filled) * L \in Int /\ 1 * L = L
  BY <1>1
<1>4. CASE broker'[d].filled = F /\ broker'[d].cost = broker[d].cost
  BY <1>4 DEF SaysEnough
<1>5. CASE broker'[d].filled = F + 1 /\ broker'[d].cost <= broker[d].cost + L
  <2>1. ((F + 1) - filled) * L = (F - filled) * L + L
    BY <1>2, <1>3
  <2>2. broker'[d].cost \in Nat
    BY DEF AccountMoves
  <2> DEFINE rest == (F - filled) * L
             more == ((F + 1) - filled) * L
  <2>3. 2 * broker[d].cost <= 2 * cost + filled + 2 * rest
    BY DEF SaysEnough
  <2>4. more = rest + L /\ rest \in Int
    BY <1>3, <2>1
  <2> HIDE DEF rest, more
  <2>5. 2 * broker'[d].cost <= 2 * cost + filled + 2 * more
    BY <1>1, <1>5, <2>2, <2>3, <2>4
  <2> QED
    BY <1>5, <2>5 DEF SaysEnough, more
<1> QED
  BY <1>1, <1>4, <1>5 DEF AccountMoves

\* Such a move keeps a book sound.
LEMMA MoveKeepsSound ==
  ASSUME IInv, AccountMoves, NEW b, Shelf(b), Sound(b),
         ~FileCanBreak => \A d \in Decision : broker[d].state = "resting" => Present(b, d)
  PROVE  Sound(b)'
<1>1. OrdersSayEnough(b)'
  <2> SUFFICES ASSUME NEW d \in Decision, Present(b, d)
               PROVE  SaysEnough(d, b.orders[d].filled, b.orders[d].cost)'
    BY DEF OrdersSayEnough, Present
  <2>1. b.orders[d].filled \in Nat /\ b.orders[d].cost \in Nat
    BY DEF Shelf, Books, Order
  <2>2. SaysEnough(d, b.orders[d].filled, b.orders[d].cost)
    BY DEF Sound, OrdersSayEnough
  <2> QED
    BY <2>1, <2>2, MoveKeepsSaid
<1>2. \A k \in Key : k[1] \in Market
  BY DEF Key, KeyOf, Market
<1>3. \A d \in Decision : /\ CreditCount(b)[d] \in Int
                          /\ CreditCount(b)'[d] \in Int
                          /\ CreditCount(b)[d] <= CreditCount(b)'[d]
  <2>1. \A d \in Decision : broker[d].filled \in Nat /\ broker'[d].filled \in Nat
                            /\ broker[d].filled <= broker'[d].filled
    BY DEF AccountMoves, IInv, TypeOK, BrokerOrder
  <2> QED
    BY <2>1 DEF CreditCount, Present, Shelf, Books, Order
<1>4. ASSUME NEW k \in Key
      PROVE  SumFunctionOnSet(CreditCount(b), Holders(k))
               <= SumFunctionOnSet(CreditCount(b)', Holders(k))
  <2>1. \A d \in Holders(k) : d \in Decision
    BY DEF Holders
  <2> QED
    BY <1>3, <2>1, HoldersFinite, SumMonotonic
<1>5. CountsFills(b)'
  <2> SUFFICES ASSUME NEW k \in Key, venue'[k[1]] = "open"
               PROVE  b.positions[k].quantity
                        <= SumFunctionOnSet(CreditCount(b)', Holders(k))
    BY DEF CountsFills
  <2>1. venue[k[1]] = "open"
    BY <1>2 DEF AccountMoves
  <2>2. b.positions[k].quantity <= SumFunctionOnSet(CreditCount(b), Holders(k))
    BY <2>1 DEF Sound, CountsFills
  <2>3. b.positions[k].quantity \in Nat
    BY DEF Shelf, Holdings, Position
  <2>4. /\ SumFunctionOnSet(CreditCount(b), Holders(k)) \in Int
        /\ SumFunctionOnSet(CreditCount(b)', Holders(k)) \in Int
    <3>1. \A d \in Holders(k) : d \in Decision
      BY DEF Holders
    <3> QED
      BY <1>3, <3>1, HoldersFinite, SumInt
  <2> QED
    BY <1>4, <2>2, <2>3, <2>4
<1>6. ASSUME ~FileCanBreak
      PROVE  CoversFills(b)'
  <2>1. \A d \in Decision : ~Present(b, d) => /\ broker'[d].filled = broker[d].filled
                                              /\ broker'[d].cost = broker[d].cost
    BY <1>6 DEF AccountMoves
  <2>2. CreditCost(b)' = CreditCost(b)
    BY <2>1 DEF CreditCost, BookedCost, Present
  <2> QED
    BY <1>2, <1>6, <2>2 DEF Sound, CoversFills, PositionNotional, AccountMoves
<1> QED
  BY <1>1, <1>5, <1>6 DEF Sound

\* The broker's steps keep the account.
LEMMA BrokerKeepsAccount ==
  ASSUME IInv, AccountInv, BrokerStep
  PROVE  AccountInv'
<1>1. AccountMoves
  BY BrokerMoves
<1>2. BrokerAccount'
  <2> USE DEF IInv, TypeOK, BrokerOrder, AccountInv, BrokerAccount
  <2>1. CASE \E d \in Decision : BrokerNeverAccepts(d) \/ BrokerCancels(d) \/ HourPasses(d)
    BY <2>1 DEF BrokerNeverAccepts, BrokerCancels, HourPasses
  <2>5. CASE Midnight
    BY <2>5 DEF Midnight, brokerVars
  <2>2. ASSUME NEW d \in Decision, BrokerAccepts(d)
        PROVE  BrokerAccount'
    <3>1. broker[d].filled = 0 /\ SizeOf[d] > 0
      <4>1. broker[d].filled = 0
        BY <2>2 DEF BrokerAccepts, BrokerInv
      <4>2. SizeOf[d] \in Nat \ {0}
        BY ONLY DecisionTerms, d \in Decision
      <4> QED
        BY <4>1, <4>2
    <3>2. \A e \in Decision : /\ broker'[e].filled = broker[e].filled
                              /\ broker'[e].cost = broker[e].cost
                              /\ e # d => broker'[e].state = broker[e].state
      BY <2>2 DEF BrokerAccepts
    <3> QED
      BY <3>1, <3>2
  <2>3. ASSUME NEW d \in Decision, BrokerFills(d)
        PROVE  BrokerAccount'
    <3>1. PICK price \in FillPrice(d) :
            broker' = [broker EXCEPT ![d] =
               [state  |-> IF broker[d].filled + 1 = SizeOf[d] THEN "executed" ELSE "resting",
                filled |-> broker[d].filled + 1,
                cost   |-> broker[d].cost + price]]
      BY <2>3 DEF BrokerFills
    <3>2. price \in Nat /\ 1 <= price /\ SizeOf[d] \in Nat
      BY ONLY price \in FillPrice(d), d \in Decision, TermsNat, FaultFlags DEF FillPrice
    <3>3. /\ broker'[d].filled = broker[d].filled + 1
          /\ broker'[d].cost = broker[d].cost + price
          /\ broker'[d].state = "resting" => broker[d].filled + 1 # SizeOf[d]
          /\ \A e \in Decision : e # d => broker'[e] = broker[e]
      BY <3>1
    <3>4. broker[d].filled \in Nat /\ broker[d].cost \in Nat
      OBVIOUS
    <3>5. broker[d].filled < SizeOf[d] /\ broker[d].filled <= broker[d].cost
      BY <2>3 DEF BrokerFills
    <3>6. /\ broker'[d].filled <= SizeOf[d]
          /\ broker'[d].filled <= broker'[d].cost
          /\ broker'[d].filled # 0
          /\ broker'[d].state = "resting" => broker'[d].filled < SizeOf[d]
      BY <3>2, <3>3, <3>4, <3>5
    <3> QED
      BY <3>3, <3>6
  <2>4. ASSUME NEW m \in Market, MarketSettles(m)
        PROVE  BrokerAccount'
    <3>1. \A d \in Decision : /\ broker'[d].filled = broker[d].filled
                              /\ broker'[d].cost = broker[d].cost
                              /\ broker'[d].state = "resting" => broker[d].state = "resting"
      BY <2>4 DEF MarketSettles
    <3> QED
      BY <3>1
  <2> QED
    BY <2>1, <2>2, <2>3, <2>4, <2>5 DEF BrokerStep
<1>3. PolledAccount'
  <2> SUFFICES ASSUME NEW d \in Decision, polled[d].stage # "none"
               PROVE  /\ SaysEnough(d, polled[d].filled,
                                    CumulativeCost(polled[d].filled, polled[d].price))'
                      /\ polled[d].kind # "PARTIALLY_FILLED" =>
                           /\ polled[d].filled = broker'[d].filled
                           /\ polled[d].price
                                = AveragePrice(broker'[d].cost, broker'[d].filled)
    BY <1>1 DEF PolledAccount, AccountMoves, SaysEnough
  <2> DEFINE f == polled[d].filled
             x == CumulativeCost(polled[d].filled, polled[d].price)
  <2>1. f \in Nat /\ x \in Nat
    BY CostNat DEF IInv, TypeOK, PolledRow
  <2>2. SaysEnough(d, f, x)
    BY DEF AccountInv, PolledAccount
  <2>3. \A n, y \in Nat : SaysEnough(d, n, y) => SaysEnough(d, n, y)'
    BY <1>1, MoveKeepsSaid
  <2>4. 2 * broker'[d].cost <= 2 * x + f + 2 * ((broker'[d].filled - f) * LimitOf[d])
    BY <2>1, <2>2, <2>3 DEF SaysEnough
  <2>5. polled[d].kind # "PARTIALLY_FILLED" => /\ broker'[d].filled = broker[d].filled
                                               /\ broker'[d].cost = broker[d].cost
    BY <1>1 DEF IInv, PolledInv, Resolved, AccountMoves
  <2> QED
    BY <1>1, <2>4, <2>5 DEF AccountInv, PolledAccount, SaysEnough, AccountMoves
<1>4. ClosingSettled'
  <2>1. pc \in {"pnl", "unreserve", "unposition"} => cur \in Decision
    BY DEF IInv, ControlInv
  <2>2. cur \in Decision => MarketOf[cur] \in Market
    BY DEF Market
  <2> QED
    BY <1>1, <2>1, <2>2 DEF ClosingSettled, AccountInv, AccountMoves
<1>5. \A b \in {mem, disk} : ~FileCanBreak =>
        \A d \in Decision : broker[d].state = "resting" => Present(b, d)
  BY DEF IInv, Covered, MayStillFill
<1>6. \A b \in {mem, disk} : Sound(b)'
  BY <1>1, <1>5, BothShelves, MoveKeepsSound DEF AccountInv
<1>7. mem' = mem /\ disk' = disk
  BY <1>1 DEF AccountMoves, trackerVars
<1> QED
  BY <1>2, <1>3, <1>4, <1>6, <1>7 DEF AccountInv

\* An empty account is sound.
LEMMA InitAccount == Init => AccountInv
<1> SUFFICES ASSUME Init PROVE AccountInv
  OBVIOUS
<1>1. BrokerAccount /\ PolledAccount /\ ClosingSettled
  BY DecisionTerms DEF Init, BrokerAccount, PolledAccount, ClosingSettled, NoOutcome
<1>2. ASSUME NEW b \in {mem, disk}
      PROVE  Sound(b)
  <2>1. b.orders = EmptyBook.orders /\ b.positions = EmptyBook.positions
    BY DEF Init, Payload, EmptyBook
  <2>2. OrdersSayEnough(b) /\ CountsFills(b)
    BY <2>1, InitIInv, EmptyCounts
  <2>3. \A d \in Decision : CreditCost(b)[d] = 0
    BY <2>1 DEF Init, CreditCost, BookedCost, CumulativeCost, Present, EmptyBook, NoOrder
  <2>4. \A k : SumFunctionOnSet(CreditCost(b), Holders(k)) = 0
    <3>1. \A k : \A d \in Holders(k) : CreditCost(b)[d] = 0
      BY <2>3 DEF Holders
    <3> QED
      BY <3>1, HoldersFinite, SumZero
  <2>5. CoversFills(b)
    BY <2>1, <2>4 DEF CoversFills, PositionNotional, EmptyBook, NoPosition
  <2> QED
    BY <2>2, <2>5 DEF Sound
<1> QED
  BY <1>1, <1>2 DEF AccountInv

\* Every step keeps the account.
LEMMA NextAccount == IInv /\ AccountInv /\ [Next]_vars => AccountInv'
<1> SUFFICES ASSUME IInv, AccountInv, [Next]_vars PROVE AccountInv'
  OBVIOUS
<1>1. CASE UNCHANGED vars
  <2>1. UNCHANGED <<broker, venue, polled, trackerVars, pc, cur>>
    BY <1>1 DEF vars, brokerVars, controlVars
  <2>2. SoundBooks'
    BY <2>1, StaySound DEF AccountInv, SoundBooks
  <2>3. ClosingSettled'
    BY <2>1 DEF AccountInv, ClosingSettled
  <2> QED
    BY <2>1, <2>2, <2>3, AccountStays DEF AccountInv, SoundBooks
<1>2. CASE FirstEvaluation \/ FinalEvaluation
  BY <1>2, EvaluateKeepsAccount DEF FirstEvaluation, FinalEvaluation
<1>3. CASE QuietStep \/ CreateOrder
  BY <1>3, QuietKeepsAccount
<1>4. CycleStep \/ SubmitStep =>
        \/ QuietStep \/ CreateOrder
        \/ \E d \in Decision : SyncLiveExposure(d)
        \/ ReleaseOrder \/ ReleasePosition \/ FirstEvaluation \/ FinalEvaluation
        \/ ReserveSubmission \/ BrokerAnswers \/ BrokerOutcomeUnknown
  BY DEF CycleStep, SubmitStep, QuietStep
<1> QED
  BY <1>1, <1>2, <1>3, <1>4, BrokerKeepsAccount, SyncKeepsAccount, ReleaseKeepsAccount,
     ReserveKeepsAccount, AnswerKeepsAccount, RestartKeepsAccount DEF Next

\* The account's invariant, damaged files included.
THEOREM AccountInvariance == Spec => []AccountInv
BY InitAccount, NextAccount, Invariance, PTL DEF Spec

\* No contract is tracked in an unsettled market that was not filled, whatever
\* is lost, retried or restarted, damaged files included.
THEOREM NoPhantom == Spec => []NoPhantomPosition
<1>1. ASSUME IInv, AccountInv
      PROVE  NoPhantomPosition
  <2> DEFINE fills == [d \in Decision |-> broker[d].filled]
  <2>1. ASSUME NEW b \in {mem, disk}, NEW k \in Key, venue[k[1]] = "open"
        PROVE  b.positions[k].quantity <= SumFunctionOnSet(fills, Holders(k))
    <3>1. Shelf(b) /\ b.positions[k].quantity \in Nat
      BY <1>1, BothShelves DEF Shelf, Holdings, Position
    <3>2. \A d \in Decision : /\ broker[d].filled \in Nat
                              /\ b.orders[d].filled <= broker[d].filled
      BY <1>1, <3>1 DEF IInv, TypeOK, BrokerOrder, LedgerRow, LedgerLeadsTracker, Shelf,
                        Books, Order
    <3>3. \A d \in Holders(k) : /\ CreditCount(b)[d] \in Int /\ fills[d] \in Int
                                /\ CreditCount(b)[d] <= fills[d]
      BY <3>1, <3>2 DEF CreditCount, Holders, Shelf, Books, Order
    <3> HIDE DEF fills
    <3>4. /\ SumFunctionOnSet(CreditCount(b), Holders(k)) <= SumFunctionOnSet(fills, Holders(k))
          /\ SumFunctionOnSet(CreditCount(b), Holders(k)) \in Int
          /\ SumFunctionOnSet(fills, Holders(k)) \in Int
      BY <3>3, HoldersFinite, SumMonotonic, SumInt
    <3>5. b.positions[k].quantity <= SumFunctionOnSet(CreditCount(b), Holders(k))
      BY <1>1, <2>1 DEF AccountInv, Sound, CountsFills
    <3> QED
      BY <3>1, <3>4, <3>5
  <2> QED
    BY <2>1 DEF NoPhantomPosition, Holders
<1>2. IInv /\ AccountInv => NoPhantomPosition
  BY <1>1
<1> QED
  BY <1>2, Invariance, AccountInvariance, PTL

-----------------------------------------------------------------------------
(***************************************************************************)
(* The tracked exposure covers what the account has at stake               *)
(***************************************************************************)

\* What a book holds against a decision, rounded as the account is.
HeldAgainst(b) ==
  [d \in Decision |-> CreditCost(b)[d] + OrderNotional(b, d)]

\* Twice what a decision has at stake, less the half cents of rounding: what
\* unsettled markets need of a cap.
Need == [d \in Decision |-> 2 * TrueOrder(d) - broker[d].filled]
NeedOf(markets) == SumFunctionOnSet(Need, Unsettled(markets))

\* Sets that sums are taken over.
LEMMA SummedFinite ==
  ASSUME NEW markets
  PROVE  /\ Unsettled(markets) \subseteq Decision
         /\ IsFiniteSet(Unsettled(markets))
         /\ IsFiniteSet({d \in Decision : MarketOf[d] \in markets})
         /\ IsFiniteSet(Key) /\ IsFiniteSet({k \in Key : k[1] \in markets})
<1>1. /\ Unsettled(markets) \subseteq Decision
      /\ {d \in Decision : MarketOf[d] \in markets} \subseteq Decision
  BY DEF Unsettled
<1>2. IsFiniteSet(Key)
  <2> DEFINE g == [d \in Decision |-> KeyOf(d)]
  <2>1. g \in Surjection(Decision, Key)
    BY DEF Key, Surjection
  <2> QED
    BY <2>1, DecisionTerms, FS_Surjection
<1>3. {k \in Key : k[1] \in markets} \subseteq Key
  OBVIOUS
<1> QED
  BY <1>1, <1>2, <1>3, DecisionTerms, FS_Subset

\* What is at stake, and what a book holds, are numbers of cents.
LEMMA StakeNat ==
  ASSUME IInv, BrokerAccount, NEW d \in Decision
  PROVE  /\ broker[d].filled \in Nat /\ broker[d].cost \in Nat
         /\ (SizeOf[d] - broker[d].filled) * LimitOf[d] \in Nat
         /\ TrueOrder(d) \in Nat /\ Need[d] \in Nat
<1>1. broker[d].filled \in Nat /\ broker[d].cost \in Nat
  BY DEF IInv, TypeOK, BrokerOrder
<1>2. SizeOf[d] - broker[d].filled \in Nat /\ LimitOf[d] \in Nat
  BY <1>1, DecisionTerms DEF BrokerAccount
<1>3. (SizeOf[d] - broker[d].filled) * LimitOf[d] \in Nat
  BY <1>2, ProductNat
<1> DEFINE rest == (SizeOf[d] - broker[d].filled) * LimitOf[d]
<1> HIDE DEF rest
<1>4. TrueOrder(d) = broker[d].cost + (IF MayStillFill(d) THEN rest ELSE 0)
  BY DEF TrueOrder, rest
<1>5. TrueOrder(d) \in Nat /\ TrueOrder(d) >= broker[d].cost
  BY <1>1, <1>3, <1>4 DEF rest
<1>6. broker[d].filled <= broker[d].cost
  BY DEF BrokerAccount
<1> QED
  BY <1>1, <1>3, <1>5, <1>6 DEF Need

\* The notional of a book's orders and positions.
LEMMA NotionalNat ==
  ASSUME NEW b, Shelf(b), \A d \in Decision : b.orders[d].filled <= SizeOf[d]
  PROVE  /\ \A d \in Decision : OrderNotional(b, d) \in Nat
         /\ \A k \in Key : PositionNotional(b, k) \in Nat
<1>1. \A d \in Decision : Remaining(b, d) \in Nat /\ LimitOf[d] \in Nat
  BY DecisionTerms DEF Remaining, Shelf, Books, Order
<1>2. \A k \in Key : b.positions[k].quantity \in Nat /\ b.positions[k].avg \in Nat
  BY DEF Shelf, Holdings, Position
<1> QED
  BY <1>1, <1>2, ProductNat DEF OrderNotional, PositionNotional

\* Decision by decision, a sound book holds no less than is needed.
LEMMA HoldsEnough ==
  ASSUME IInv, BrokerAccount, NEW b, Shelf(b), OrdersSayEnough(b), NEW d \in Decision,
         b.orders[d].filled <= broker[d].filled, b.orders[d].filled <= SizeOf[d],
         MayStillFill(d) => Present(b, d)
  PROVE  Need[d] <= 2 * HeldAgainst(b)[d]
<1> DEFINE F    == broker[d].filled
           C    == broker[d].cost
           L    == LimitOf[d]
           f    == b.orders[d].filled
           c    == b.orders[d].cost
           rest == (SizeOf[d] - F) * L
           late == (F - f) * L
           open == (SizeOf[d] - f) * L
<1>1. /\ F \in Nat /\ C \in Nat /\ L \in Nat /\ f \in Nat /\ c \in Nat
      /\ SizeOf[d] \in Nat /\ f <= F
  BY StakeNat, DecisionTerms DEF Shelf, Books, Order
<1>2. rest \in Nat /\ F <= SizeOf[d]
  BY StakeNat DEF BrokerAccount
<1>3. /\ Need[d] = 2 * TrueOrder(d) - F
      /\ TrueOrder(d) = C + (IF MayStillFill(d) THEN rest ELSE 0)
  BY DEF Need, TrueOrder
<1>4. HeldAgainst(b)[d] = CreditCost(b)[d] + OrderNotional(b, d)
  BY DEF HeldAgainst
<1>5. CASE Present(b, d)
  <2>1. open = rest + late
    <3>1. SizeOf[d] - f = (SizeOf[d] - F) + (F - f)
      BY <1>1
    <3> QED
      BY <1>1, <3>1, Distribute
  <2>2. late \in Nat
    BY <1>1, ProductNat
  <2>3. CreditCost(b)[d] = c /\ OrderNotional(b, d) = open
    BY <1>5 DEF CreditCost, OrderNotional, Remaining
  <2>4. 2 * C <= 2 * c + f + 2 * late
    BY <1>5 DEF OrdersSayEnough, SaysEnough
  <2> HIDE DEF F, C, L, f, c, rest, late, open
  <2> QED
    BY <1>1, <1>2, <1>3, <1>4, <2>1, <2>2, <2>3, <2>4
<1>6. CASE ~Present(b, d)
  <2>1. 0 * L = 0
    BY <1>1
  <2>2. CreditCost(b)[d] = BookedCost(d) /\ OrderNotional(b, d) = 0
    BY <1>6, <2>1 DEF CreditCost, OrderNotional, Remaining
  <2>3. 2 * BookedCost(d) + F >= 2 * C
    BY <1>1, AverageCovers DEF BookedCost, BrokerAccount
  <2>4. BookedCost(d) \in Nat
    BY CreditNat
  <2> HIDE DEF F, C, L, f, c, rest
  <2> QED
    BY <1>1, <1>2, <1>3, <1>4, <1>6, <2>2, <2>3, <2>4
<1> QED
  BY <1>5, <1>6

\* The exposure of a set of markets is no less than what the book holds
\* against the decisions of those that are open.
LEMMA ExposureHolds ==
  ASSUME IInv, BrokerAccount, NEW b, Shelf(b), CoversFills(b),
         \A d \in Decision : b.orders[d].filled <= SizeOf[d], NEW markets
  PROVE  /\ Exposure(b, markets) \in Int
         /\ SumFunctionOnSet(HeldAgainst(b), Unsettled(markets)) <= Exposure(b, markets)
<1> DEFINE P == [k \in Key |-> PositionNotional(b, k)]
           O == [d \in Decision |-> OrderNotional(b, d)]
           C == CreditCost(b)
           K == {k \in Key : k[1] \in markets}
           D == {d \in Decision : MarketOf[d] \in markets}
           J == {k \in Key : k[1] \in markets /\ venue[k[1]] = "open"}
           U == Unsettled(markets)
           H == [k \in J |-> SumFunctionOnSet(C, Holders(k))]
<1>1. /\ IsFiniteSet(K) /\ IsFiniteSet(D) /\ IsFiniteSet(U) /\ IsFiniteSet(J)
      /\ J \subseteq K /\ U \subseteq D /\ D \subseteq Decision /\ K \subseteq Key
  <2>1. J \subseteq K /\ U \subseteq D /\ D \subseteq Decision /\ K \subseteq Key
    BY DEF Unsettled
  <2> QED
    BY <2>1, SummedFinite, FS_Subset
<1>2. /\ \A k \in K : P[k] \in Nat
      /\ \A d \in D : O[d] \in Nat
      /\ \A d \in D : C[d] \in Nat
  BY NotionalNat, CreditNat
<1>3. \A d \in U : KeyOf(d) \in J
  BY DEF Unsettled, KeyOf, Key
<1>4. \A k \in J : Holders(k) = {d \in U : KeyOf(d) = k}
  BY DEF Holders, Unsettled, KeyOf
<1>5. \A k \in J : P[k] \in Int /\ H[k] \in Int /\ H[k] <= P[k]
  <2>1. \A k \in J : P[k] \in Int
    BY <1>1, <1>2
  <2>2. \A k \in J : \A d \in Holders(k) : C[d] \in Int
    BY CreditNat DEF Holders
  <2>3. \A k \in J : SumFunctionOnSet(C, Holders(k)) \in Int
    BY <2>2, HoldersFinite, SumInt
  <2> QED
    BY <2>1, <2>3 DEF CoversFills
<1>6. Exposure(b, markets) = SumFunctionOnSet(P, K) + SumFunctionOnSet(O, D)
  BY DEF Exposure
<1>7. HeldAgainst(b) = [d \in Decision |-> C[d] + O[d]]
  BY DEF HeldAgainst
<1>8. \A k \in J : H[k] = SumFunctionOnSet(C, Holders(k))
  OBVIOUS
<1> HIDE DEF P, O, C, K, D, J, U, H
<1>9. SumFunctionOnSet(H, J) = SumFunctionOnSet(C, U)
  <2> DEFINE g == [d \in Decision |-> KeyOf(d)]
  <2>1. \A d \in U : g[d] = KeyOf(d) /\ g[d] \in J
    BY <1>1, <1>3
  <2> DEFINE class == [k \in J |-> Holders(k)]
  <2>2. \A k \in J : \A d : d \in class[k] <=> d \in U /\ g[d] = k
    BY <1>1, <1>4, <2>1
  <2>3. \A k \in J : H[k] = SumFunctionOnSet(C, class[k])
    BY <1>8
  <2>4. \A d \in U : C[d] \in Int
    BY <1>1, <1>2
  <2>5. \A d \in U : g[d] \in J
    BY <2>1
  <2>6. IsFiniteSet(J) /\ IsFiniteSet(U)
    BY <1>1
  <2> HIDE DEF g, class
  <2> QED
    BY ONLY <2>2, <2>3, <2>4, <2>5, <2>6, SumOfClasses, SMTT(60)
<1>10. SumFunctionOnSet(H, J) <= SumFunctionOnSet(P, J)
  BY <1>1, <1>5, SumMonotonic
<1>11. SumFunctionOnSet(P, J) <= SumFunctionOnSet(P, K)
  BY <1>1, <1>2, SumOfPart
<1>12. SumFunctionOnSet(O, U) <= SumFunctionOnSet(O, D)
  BY <1>1, <1>2, SumOfPart
<1>13. SumFunctionOnSet(HeldAgainst(b), U) = SumFunctionOnSet(C, U) + SumFunctionOnSet(O, U)
  <2>1. \A d \in U : /\ C[d] \in Int /\ O[d] \in Int
                     /\ HeldAgainst(b)[d] = C[d] + O[d]
    BY <1>1, <1>2, <1>7
  <2> QED
    BY <1>1, <2>1, SumOfTwo
<1>14. /\ SumFunctionOnSet(P, J) \in Int /\ SumFunctionOnSet(P, K) \in Int
       /\ SumFunctionOnSet(H, J) \in Int /\ SumFunctionOnSet(C, U) \in Int
       /\ SumFunctionOnSet(O, U) \in Int /\ SumFunctionOnSet(O, D) \in Int
  <2>1. /\ \A k \in K : P[k] \in Int
        /\ \A k \in J : P[k] \in Int /\ H[k] \in Int
        /\ \A d \in U : C[d] \in Int /\ O[d] \in Int
        /\ \A d \in D : O[d] \in Int
    BY <1>1, <1>2, <1>5
  <2> QED
    BY <1>1, <2>1, SumInt
<1>15. SumFunctionOnSet(HeldAgainst(b), U) <= Exposure(b, markets)
  BY <1>6, <1>9, <1>10, <1>11, <1>12, <1>13, <1>14
<1> QED
  BY <1>6, <1>14, <1>15 DEF U

\* The tracked exposure is no less than what is needed.
LEMMA ExposureCoversNeed ==
  ASSUME IInv, AccountInv, ~FileCanBreak, NEW b \in {mem, disk}, NEW markets
  PROVE  /\ Exposure(b, markets) \in Int /\ NeedOf(markets) \in Int
         /\ NeedOf(markets) <= 2 * Exposure(b, markets)
<1> DEFINE U == Unsettled(markets)
           h == HeldAgainst(b)
           hh == [d \in Decision |-> h[d] + h[d]]
<1>1. Shelf(b) /\ Sound(b) /\ CoversFills(b) /\ BrokerAccount
  BY BothShelves DEF AccountInv, Sound
<1>2. \A d \in Decision : /\ b.orders[d].filled <= SizeOf[d]
                          /\ b.orders[d].filled <= broker[d].filled
                          /\ MayStillFill(d) => Present(b, d)
  BY <1>1 DEF IInv, TypeOK, BookOK, FileOK, LedgerLeadsTracker, Covered, LedgerRow,
              BrokerOrder, Shelf, Books, Order
<1>3. U \subseteq Decision /\ IsFiniteSet(U)
  BY SummedFinite
<1>3a. \A d \in Decision : b.orders[d].filled <= SizeOf[d]
  BY <1>2
<1>3b. OrdersSayEnough(b)
  BY <1>1 DEF Sound
<1>4. \A d \in Decision : h[d] \in Int
  <2>1. \A d \in Decision : CreditCost(b)[d] \in Nat
    BY <1>1, CreditNat
  <2>2. \A d \in Decision : OrderNotional(b, d) \in Nat
    BY <1>1, <1>3a, NotionalNat
  <2>3. \A d \in Decision : h[d] = CreditCost(b)[d] + OrderNotional(b, d)
    BY DEF HeldAgainst
  <2> QED
    BY <2>1, <2>2, <2>3
<1>5. \A d \in Decision : Need[d] \in Int /\ Need[d] <= 2 * h[d]
  <2>1. \A d \in Decision : Need[d] \in Int
    BY <1>1, StakeNat
  <2>2. \A d \in Decision : Need[d] <= 2 * HeldAgainst(b)[d]
    BY <1>1, <1>2, <1>3b, HoldsEnough
  <2> QED
    BY <2>1, <2>2
<1>6a. /\ Exposure(b, markets) \in Int
       /\ SumFunctionOnSet(h, U) <= Exposure(b, markets)
  BY <1>1, <1>3a, ExposureHolds
<1> HIDE DEF h, U
<1>6. \A d \in U : Need[d] \in Int /\ hh[d] \in Int /\ Need[d] <= hh[d]
                   /\ h[d] \in Int /\ hh[d] = h[d] + h[d]
  BY <1>3, <1>4, <1>5
<1> HIDE DEF hh
<1>7. /\ SumFunctionOnSet(Need, U) <= SumFunctionOnSet(hh, U)
      /\ SumFunctionOnSet(hh, U) = SumFunctionOnSet(h, U) + SumFunctionOnSet(h, U)
      /\ SumFunctionOnSet(Need, U) \in Int
      /\ SumFunctionOnSet(h, U) \in Int
      /\ SumFunctionOnSet(hh, U) \in Int
  BY <1>3, <1>6, SumMonotonic, SumOfTwo, SumInt
<1>8. SumFunctionOnSet(Need, U) <= 2 * Exposure(b, markets)
  BY <1>7, <1>6a
<1> QED
  BY <1>6a, <1>7, <1>8 DEF NeedOf, U

\* What is needed, written as the properties write it.
LEMMA NeedIsStake ==
  ASSUME IInv, AccountInv, NEW markets
  PROVE  /\ AtStake(markets) \in Int /\ FilledContracts(markets) \in Int
         /\ NeedOf(markets) + FilledContracts(markets) = 2 * AtStake(markets)
<1> DEFINE U == Unsettled(markets)
           t == [d \in Decision |-> TrueOrder(d)]
           tt == [d \in Decision |-> t[d] + t[d]]
           F == [d \in Decision |-> broker[d].filled]
<1>1. U \subseteq Decision /\ IsFiniteSet(U)
  BY SummedFinite
<1>2. \A d \in Decision : /\ t[d] \in Int /\ F[d] \in Int /\ Need[d] \in Int
                          /\ tt[d] = t[d] + t[d] /\ tt[d] = Need[d] + F[d]
  BY StakeNat DEF AccountInv, Need
<1>3. AtStake(markets) = SumFunctionOnSet(t, U) /\ FilledContracts(markets) = SumFunctionOnSet(F, U)
  BY DEF AtStake, FilledContracts
<1> HIDE DEF U, t, tt, F
<1>4. \A d \in U : /\ t[d] \in Int /\ F[d] \in Int /\ Need[d] \in Int
                   /\ tt[d] = t[d] + t[d] /\ tt[d] = Need[d] + F[d]
  BY <1>1, <1>2
<1>5. /\ SumFunctionOnSet(tt, U) = SumFunctionOnSet(t, U) + SumFunctionOnSet(t, U)
      /\ SumFunctionOnSet(tt, U) = SumFunctionOnSet(Need, U) + SumFunctionOnSet(F, U)
  BY <1>1, <1>4, SumOfTwo
<1>6. /\ SumFunctionOnSet(t, U) \in Int /\ SumFunctionOnSet(F, U) \in Int
      /\ SumFunctionOnSet(Need, U) \in Int
  BY <1>1, <1>4, SumInt
<1> QED
  BY <1>3, <1>5, <1>6 DEF NeedOf, U

\* While the file is not damaged, the tracked exposure of an unsettled market
\* is never below what is at stake there by more than the rounding of average
\* prices, in memory and in the file, with any number of orders and partial
\* fills, lost answers, failed writes and restarts.
THEOREM ExposureCovers == ~FileCanBreak => (Spec => []ExposureCoversBroker)
<1>1. ASSUME ~FileCanBreak, IInv, AccountInv
      PROVE  ExposureCoversBroker
  <2>1. \A b \in {mem, disk} : \A m :
          2 * Exposure(b, {m}) + FilledContracts({m}) >= 2 * AtStake({m})
    BY <1>1, ExposureCoversNeed, NeedIsStake
  <2> QED
    BY <2>1 DEF ExposureCoversBroker
<1>2. ~FileCanBreak /\ IInv /\ AccountInv => ExposureCoversBroker
  BY <1>1
<1>3. CASE FileCanBreak
  BY <1>3
<1>4. CASE ~FileCanBreak
  <2>1. IInv /\ AccountInv => ExposureCoversBroker
    BY <1>2, <1>4
  <2> QED
    BY <2>1, Invariance, AccountInvariance, PTL
<1> QED
  BY <1>3, <1>4

-----------------------------------------------------------------------------
(***************************************************************************)
(* The caps hold of the account                                            *)
(***************************************************************************)

\* The caps leave room for `extra` cents more in a market.
Room(m, extra) ==
  /\ NeedOf(Market) + 2 * extra <= 2 * MaxTotalExposure
  /\ NeedOf({m}) + 2 * extra <= 2 * MaxMarketExposure
  /\ NeedOf(Family(m)) + 2 * extra <= 2 * MaxCorrelated

Value(d) == LimitOf[d] * SizeOf[d]

\* What the evaluation found in the book is still true of the account when
\* the order is sent.
CapInv ==
  /\ NeedOf(Market) <= 2 * MaxTotalExposure
  /\ \A m \in Market : Room(m, 0)
  /\ pc \in {"reserve", "send"} =>
       \A d \in Decision : cur = d => Room(MarketOf[d], Value(d))

\* Every step of the process but the sending of an order.
Unsent ==
  \/ CycleStep \/ Restart \/ RestartOnBrokenFile
  \/ ExecutorBlocks \/ RiskStateBlocks \/ FirstEvaluation \/ SinkReadsBlock
  \/ FinalEvaluation \/ ReserveSubmission
  \/ BrokerAnswers \/ BrokerOutcomeUnknown \/ RecordExecution

\* They leave the broker as it is.
LEMMA UnsentKeepsBroker ==
  ASSUME Unsent
  PROVE  UNCHANGED <<broker, wire, venue>>
<1> USE DEF brokerVars
<1>1. CASE CycleStep
  BY <1>1 DEF CycleStep, BeginCycle, EndPoll, EndRecord, EndSync, EndClose, EndCycle,
     PollOrder, RecordPolled, SyncLiveExposure, CloseUnfilled, CloseFilled, RecordDecision,
     ClaimSettlement, RecordRealizedPnl, ReleaseOrder, ReleasePosition
<1>2. CASE FirstEvaluation \/ FinalEvaluation
  BY <1>2 DEF FirstEvaluation, FinalEvaluation, Evaluate
<1> QED
  BY <1>1, <1>2 DEF Unsent, Restart, RestartOnBrokenFile, ExecutorBlocks, SinkReadsBlock,
     RiskStateBlocks, ReserveSubmission, BrokerAnswers, BrokerOutcomeUnknown, RecordExecution

\* Only an evaluation leads to the reservation, and the reservation to the sending.
LEMMA UnsentControl ==
  ASSUME Unsent, ~FinalEvaluation, pc' \in {"reserve", "send"}
  PROVE  pc \in {"reserve", "send"} /\ cur' = cur
<1> USE DEF Goto, Finish
<1>1. CASE CycleStep
  BY <1>1 DEF CycleStep, BeginCycle, EndPoll, EndRecord, EndSync, EndClose, EndCycle,
     PollOrder, RecordPolled, SyncLiveExposure, CloseUnfilled, CloseFilled, RecordDecision,
     ClaimSettlement, RecordRealizedPnl, ReleaseOrder, ReleasePosition, controlVars
<1>2. CASE FirstEvaluation
  BY <1>2 DEF FirstEvaluation, Evaluate
<1>3. CASE Restart \/ RestartOnBrokenFile
  BY <1>3 DEF Restart, RestartOnBrokenFile, ForgetControl
<1> QED
  BY <1>1, <1>2, <1>3 DEF Unsent, ExecutorBlocks, SinkReadsBlock,
     RiskStateBlocks, ReserveSubmission, BrokerAnswers, BrokerOutcomeUnknown, RecordExecution

\* What is needed of unsettled markets, decision by decision.
LEMMA NeedInt ==
  ASSUME IInv, AccountInv, NEW markets
  PROVE  /\ \A d \in Decision : Need[d] \in Nat
         /\ NeedOf(markets) \in Int
<1>1. \A d \in Decision : Need[d] \in Nat
  BY StakeNat DEF AccountInv
<1>2. \A d \in Unsettled(markets) : Need[d] \in Int
  BY <1>1 DEF Unsettled
<1> QED
  BY <1>1, <1>2, SummedFinite, SumInt DEF NeedOf

\* Where no decision needs more and no market opens, no set of markets does.
LEMMA NeedFalls ==
  ASSUME IInv, AccountInv, NEW markets,
         \A m \in Market : venue'[m] = "open" => venue[m] = "open",
         \A d \in Decision : Need'[d] \in Int /\ Need'[d] <= Need[d]
  PROVE  NeedOf(markets)' \in Int /\ NeedOf(markets)' <= NeedOf(markets)
<1> DEFINE U == Unsettled(markets)
           V == Unsettled(markets)'
<1>1. V \subseteq U /\ U \subseteq Decision /\ IsFiniteSet(U) /\ IsFiniteSet(V)
  <2>1. \A d \in Decision : MarketOf[d] \in Market
    BY DEF Market
  <2>2. V \subseteq U
    BY <2>1 DEF Unsettled
  <2> QED
    BY <2>2, SummedFinite, FS_Subset
<1>2. \A d \in Decision : Need[d] \in Nat
  BY NeedInt
<1> HIDE DEF U, V
<1> DEFINE f == Need
           g == Need'
<1> HIDE DEF f, g
<1>3. /\ \A d \in V : g[d] \in Int /\ f[d] \in Int /\ g[d] <= f[d]
      /\ \A d \in U : f[d] \in Nat
  BY <1>1, <1>2 DEF f, g
<1>4. SumFunctionOnSet(g, V) <= SumFunctionOnSet(f, V)
  BY <1>1, <1>3, SumMonotonic
<1>5. SumFunctionOnSet(f, V) <= SumFunctionOnSet(f, U)
  BY <1>1, <1>3, SumOfPart
<1>6. /\ SumFunctionOnSet(g, V) \in Int /\ SumFunctionOnSet(f, V) \in Int
      /\ SumFunctionOnSet(f, U) \in Int
  BY <1>1, <1>3, SumInt
<1>7. NeedOf(markets)' = SumFunctionOnSet(g, V) /\ NeedOf(markets) = SumFunctionOnSet(f, U)
  BY DEF NeedOf, U, V, f, g
<1> QED
  BY <1>4, <1>5, <1>6, <1>7

\* Then what room there was is still there.
LEMMA RoomStays ==
  ASSUME IInv, AccountInv, NEW m, NEW extra \in Int, Room(m, extra),
         \A n \in Market : venue'[n] = "open" => venue[n] = "open",
         \A d \in Decision : Need'[d] \in Int /\ Need'[d] <= Need[d]
  PROVE  Room(m, extra)'
<1>1. \A markets : /\ NeedOf(markets)' \in Int /\ NeedOf(markets) \in Int
                   /\ NeedOf(markets)' <= NeedOf(markets)
  BY NeedFalls, NeedInt
<1>2. {MaxTotalExposure, MaxMarketExposure, MaxCorrelated} \subseteq Int
  BY CapsInCents
<1> QED
  BY <1>1, <1>2 DEF Room

\* What is needed, once the broker has moved, is a number.
LEMMA MovedNeed ==
  ASSUME IInv, AccountInv, BrokerStep, NEW d \in Decision
  PROVE  Need'[d] \in Int /\ Need'[d] <= Need[d]
<1> DEFINE F     == broker[d].filled
           C     == broker[d].cost
           L     == LimitOf[d]
           newF  == broker'[d].filled
           newC  == broker'[d].cost
           rest  == (SizeOf[d] - F) * L
           newR  == (SizeOf[d] - newF) * L
           owed  == IF MayStillFill(d) THEN rest ELSE 0
           newO  == IF MayStillFill(d)' THEN newR ELSE 0
<1>1. AccountMoves
  BY BrokerMoves
<1>2. MayStillFill(d)' => MayStillFill(d)
  BY DEF BrokerStep, BrokerAccepts, BrokerNeverAccepts, BrokerFills, BrokerCancels,
         HourPasses, Midnight, MarketSettles, brokerVars, MayStillFill, IInv, TypeOK,
         BrokerOrder
<1>3. F \in Nat /\ C \in Nat /\ L \in Nat /\ rest \in Nat /\ F <= SizeOf[d] /\ SizeOf[d] \in Nat
  BY StakeNat, DecisionTerms DEF AccountInv, BrokerAccount
<1>4. /\ newF \in Nat /\ newC \in Nat
      /\ \/ newF = F /\ newC = C
         \/ /\ broker[d].state = "resting"
            /\ newF = F + 1 /\ newC <= C + L
  BY <1>1 DEF AccountMoves
<1>5. Need[d] = 2 * (C + owed) - F /\ Need'[d] = 2 * (newC + newO) - newF
  BY DEF Need, TrueOrder
<1>6. broker[d].state = "resting" => MayStillFill(d) /\ F + 1 <= SizeOf[d]
  BY <1>3 DEF MayStillFill, AccountInv, BrokerAccount
<1>7. CASE newF = F /\ newC = C
  <2>1. newR = rest
    BY <1>7
  <2>2. owed \in Nat /\ newO \in Nat /\ newO <= owed
    BY <1>2, <1>3, <2>1
  <2> HIDE DEF owed, newO, F, C, newF, newC
  <2> QED
    BY <1>3, <1>5, <1>7, <2>2
<1>8. CASE broker[d].state = "resting" /\ newF = F + 1 /\ newC <= C + L
  <2>1. rest = newR + L /\ newR \in Nat
    <3>1. SizeOf[d] - F = (SizeOf[d] - newF) + 1 /\ SizeOf[d] - newF \in Nat
      BY <1>3, <1>6, <1>8
    <3>2. ((SizeOf[d] - newF) + 1) * L = newR + 1 * L
      BY <1>3, <3>1, Distribute
    <3> QED
      BY <1>3, <3>1, <3>2, ProductNat
  <2>2. owed = rest /\ newO \in Nat /\ newO <= newR
    BY <1>6, <1>8, <2>1
  <2> HIDE DEF owed, newO, F, C, L, newF, newC, rest, newR
  <2> QED
    BY <1>3, <1>4, <1>5, <1>8, <2>1, <2>2
<1> QED
  BY <1>4, <1>7, <1>8

\* Sending an order adds its value to what its own market needs.
LEMMA SentNeed ==
  ASSUME IInv, AccountInv, CreateOrder, NEW c, cur = c, NEW markets
  PROVE  /\ c \in Decision /\ Value(c) \in Nat
         /\ NeedOf(markets)' \in Int /\ NeedOf(markets) \in Int
         /\ NeedOf(markets)' <= NeedOf(markets) + 2 * Value(c)
         /\ MarketOf[c] \notin markets => NeedOf(markets)' = NeedOf(markets)
<1> DEFINE U == Unsettled(markets)
           f == Need
           g == Need'
<1>1. c \in Decision /\ c \notin wire /\ broker[c].state = "none"
  BY DEF CreateOrder, IInv, ControlInv, Submitting, Untouched
<1>2. broker[c].filled = 0 /\ broker[c].cost = 0
  BY <1>1 DEF IInv, BrokerInv, AccountInv, BrokerAccount
<1>3. SizeOf[c] \in Nat /\ LimitOf[c] \in Nat
  BY <1>1, DecisionTerms
<1>4. Value(c) \in Nat /\ (SizeOf[c] - 0) * LimitOf[c] = Value(c)
  BY <1>3, ProductNat DEF Value
<1>5. f[c] = 0
  BY <1>1, <1>2 DEF Need, TrueOrder, MayStillFill
<1>6. broker' = broker /\ venue' = venue /\ wire' = wire \cup {c}
  BY DEF CreateOrder
<1>7. g[c] = 2 * Value(c)
  <2>1. TrueOrder(c)' = 0 + (SizeOf[c] - 0) * LimitOf[c]
    BY <1>2, <1>6 DEF TrueOrder, MayStillFill
  <2>2. g[c] = 2 * TrueOrder(c)' - 0
    BY <1>1, <1>2, <1>6 DEF Need
  <2> QED
    BY <1>4, <2>1, <2>2
<1>8. \A d \in Decision : d # c => g[d] = f[d]
  BY <1>6 DEF Need, TrueOrder, MayStillFill
<1>9. U' = U /\ U \subseteq Decision /\ IsFiniteSet(U)
  BY <1>6, SummedFinite DEF Unsettled
<1>10. \A d \in Decision : f[d] \in Nat
  BY NeedInt
<1>11. NeedOf(markets) = SumFunctionOnSet(f, U) /\ NeedOf(markets)' = SumFunctionOnSet(g, U)
  BY <1>9 DEF NeedOf
<1>12. c \in U => MarketOf[c] \in markets
  BY DEF Unsettled
<1> HIDE DEF f, g, U
<1>13. \A d \in U : f[d] \in Int /\ g[d] \in Int
  BY <1>4, <1>7, <1>8, <1>9, <1>10
<1>14. SumFunctionOnSet(f, U) \in Int /\ SumFunctionOnSet(g, U) \in Int
  BY <1>9, <1>13, SumInt
<1>15. CASE c \in U
  <2>1. \A d \in U : d # c => g[d] = f[d]
    BY <1>8, <1>9
  <2>2. SumFunctionOnSet(g, U) = SumFunctionOnSet(f, U) - f[c] + g[c]
    BY <1>9, <1>13, <1>15, <2>1, SumChanges
  <2>3. SumFunctionOnSet(g, U) = SumFunctionOnSet(f, U) + 2 * Value(c)
    BY <1>4, <1>5, <1>7, <1>14, <2>2
  <2> QED
    BY <1>1, <1>4, <1>11, <1>12, <1>14, <1>15, <2>3
<1>16. CASE c \notin U
  <2>1. \A d \in U : g[d] = f[d] /\ f[d] \in Int
    BY <1>8, <1>9, <1>13, <1>16
  <2>2. SumFunctionOnSet(f, U) = SumFunctionOnSet(g, U)
    BY <1>9, <2>1, SumSame
  <2> QED
    BY <1>1, <1>4, <1>11, <1>14, <2>2
<1> QED
  BY <1>15, <1>16

\* The caps that the evaluation compares leave room for the order.
LEMMA CapsAllowRoom ==
  ASSUME IInv, AccountInv, ~FileCanBreak, NEW d \in Decision, CapsAllow(d)
  PROVE  Room(MarketOf[d], Value(d)) /\ Value(d) \in Int
<1>1. \A markets : /\ Exposure(mem, markets) \in Int /\ NeedOf(markets) \in Int
                   /\ NeedOf(markets) <= 2 * Exposure(mem, markets)
  BY ExposureCoversNeed
<1>2. SizeOf[d] \in Nat /\ LimitOf[d] \in Nat
  BY DecisionTerms
<1>3. Value(d) \in Int
  BY <1>2, ProductNat DEF Value
<1>4. /\ Exposure(mem, {MarketOf[d]}) + Value(d) <= MaxMarketExposure
      /\ Exposure(mem, Market) + Value(d) <= MaxTotalExposure
      /\ Exposure(mem, Family(MarketOf[d])) + Value(d) <= MaxCorrelated
  BY DEF CapsAllow, Value
<1>5. {MaxTotalExposure, MaxMarketExposure, MaxCorrelated} \subseteq Int
  BY CapsInCents
<1> QED
  BY <1>1, <1>3, <1>4, <1>5 DEF Room

\* What is needed of a market and its family is within their caps.
LEMMA WithinCaps ==
  ASSUME IInv, AccountInv, CapInv, NEW m \in Market
  PROVE  NeedOf({m}) <= 2 * MaxMarketExposure /\ NeedOf(Family(m)) <= 2 * MaxCorrelated
<1>1. /\ NeedOf({m}) + 2 * 0 <= 2 * MaxMarketExposure
      /\ NeedOf(Family(m)) + 2 * 0 <= 2 * MaxCorrelated
  BY DEF CapInv, Room
<1>2. NeedOf({m}) \in Int /\ NeedOf(Family(m)) \in Int
  BY NeedInt
<1>3. NeedOf({m}) + 2 * 0 = NeedOf({m}) /\ NeedOf(Family(m)) + 2 * 0 = NeedOf(Family(m))
  BY <1>2
<1> QED
  BY <1>1, <1>3

\* At the start nothing is at stake.
LEMMA InitCaps == Init => CapInv
<1> SUFFICES ASSUME Init PROVE CapInv
  OBVIOUS
<1>1. \A d \in Decision : Need[d] = 0
  BY DEF Init, Need, TrueOrder, MayStillFill
<1>2. \A markets : \A d \in Unsettled(markets) : Need[d] = 0
  BY <1>1 DEF Unsettled
<1>3. \A markets : NeedOf(markets) = 0
  BY <1>2, SummedFinite, SumZero DEF NeedOf
<1>4. {MaxTotalExposure, MaxMarketExposure, MaxCorrelated} \subseteq Nat
  BY CapsInCents
<1> QED
  BY <1>3, <1>4 DEF Init, CapInv, Room

\* Every step keeps the account within the caps.
LEMMA NextCaps == ~FileCanBreak /\ IInv /\ AccountInv /\ CapInv /\ [Next]_vars => CapInv'
<1> SUFFICES ASSUME ~FileCanBreak, IInv, AccountInv, CapInv, [Next]_vars PROVE CapInv'
  OBVIOUS
<1>1. \A m \in Market : FamilyOf[m] = FamilyOf[m] /\ Market' = Market
  BY DEF Market
<1>2. ASSUME \A n \in Market : venue'[n] = "open" => venue[n] = "open",
             \A d \in Decision : Need'[d] \in Int /\ Need'[d] <= Need[d],
             \A d \in Decision : pc' \in {"reserve", "send"} /\ cur' = d =>
               Room(MarketOf[d], Value(d)) /\ Value(d) \in Int
      PROVE  CapInv'
  <2>1. NeedOf(Market)' \in Int /\ NeedOf(Market)' <= NeedOf(Market) /\ NeedOf(Market) \in Int
    BY <1>2, NeedFalls, NeedInt
  <2>2. NeedOf(Market)' <= 2 * MaxTotalExposure
    BY <2>1, CapsInCents DEF CapInv
  <2>3. \A m \in Market : Room(m, 0)'
    BY <1>2, RoomStays DEF CapInv
  <2>4. \A d \in Decision : pc' \in {"reserve", "send"} /\ cur' = d =>
          Room(MarketOf[d], Value(d))'
    BY <1>2, RoomStays
  <2> QED
    BY <2>2, <2>3, <2>4 DEF CapInv
<1>3. \A d \in Decision : Value(d) \in Int /\ Need[d] \in Int
  BY DecisionTerms, ProductNat, NeedInt DEF Value
<1>4. ASSUME UNCHANGED <<broker, wire, venue>>
      PROVE  Need' = Need
  BY <1>4 DEF Need, TrueOrder, MayStillFill
<1>5. CASE BrokerStep
  <2>1. AccountMoves
    BY <1>5, BrokerMoves
  <2>2. \A d \in Decision : Need'[d] \in Int /\ Need'[d] <= Need[d]
    BY <1>5, MovedNeed
  <2> QED
    BY <1>2, <1>3, <2>1, <2>2 DEF AccountMoves, CapInv
<1>6. CASE Unsent
  <2>1. UNCHANGED <<broker, wire, venue>> /\ Need' = Need
    BY <1>4, <1>6, UnsentKeepsBroker
  <2>2. ASSUME NEW d \in Decision, pc' \in {"reserve", "send"}, cur' = d
        PROVE  Room(MarketOf[d], Value(d))
    <3>1. CASE FinalEvaluation
      <4>1. cur = d
        BY <2>2, <3>1 DEF FinalEvaluation, Evaluate
      <4>2. CapsAllow(cur)
        BY <2>2, <3>1 DEF FinalEvaluation, Evaluate, Finish, Goto
      <4> QED
        BY <4>1, <4>2, CapsAllowRoom
    <3>2. CASE ~FinalEvaluation
      BY <1>6, <2>2, <3>2, UnsentControl DEF CapInv
    <3> QED
      BY <3>1, <3>2
  <2> QED
    BY <1>2, <1>3, <2>1, <2>2
<1>7. CASE CreateOrder
  <2>0. cur \in Decision
    BY <1>7 DEF CreateOrder, IInv, ControlInv, Submitting
  <2> SUFFICES ASSUME NEW c \in Decision, cur = c
               PROVE  CapInv'
    BY <2>0
  <2>1. pc = "send" /\ pc' = "wait" /\ c \in Decision
    BY <1>7 DEF CreateOrder, Goto
  <2>2. /\ NeedOf(Market) + 2 * Value(c) <= 2 * MaxTotalExposure
        /\ NeedOf({MarketOf[c]}) + 2 * Value(c) <= 2 * MaxMarketExposure
        /\ NeedOf(Family(MarketOf[c])) + 2 * Value(c) <= 2 * MaxCorrelated
    BY <2>1 DEF CapInv, Room
  <2>3. \A markets : /\ NeedOf(markets)' \in Int /\ NeedOf(markets) \in Int
                     /\ NeedOf(markets)' <= NeedOf(markets) + 2 * Value(c)
                     /\ MarketOf[c] \notin markets => NeedOf(markets)' = NeedOf(markets)
    BY <1>7, SentNeed
  <2>4. Value(c) \in Int /\ {MaxTotalExposure, MaxMarketExposure, MaxCorrelated} \subseteq Int
    BY <1>3, <2>1, CapsInCents
  <2>5. NeedOf(Market)' <= 2 * MaxTotalExposure
    BY <2>2, <2>3, <2>4
  <2>6. ASSUME NEW m \in Market
        PROVE  Room(m, 0)'
    <3>1. NeedOf({m})' <= 2 * MaxMarketExposure
      <4>1. CASE m = MarketOf[c]
        BY <2>2, <2>3, <2>4, <4>1
      <4>2. CASE m # MarketOf[c]
        <5>1. NeedOf({m})' = NeedOf({m})
          BY <2>3, <4>2
        <5>2. NeedOf({m}) <= 2 * MaxMarketExposure
          BY <2>6, WithinCaps
        <5> QED
          BY <5>1, <5>2
      <4> QED
        BY <4>1, <4>2
    <3>2. NeedOf(Family(m))' <= 2 * MaxCorrelated
      <4>1. CASE FamilyOf[m] = FamilyOf[MarketOf[c]]
        <5>1. Family(m) = Family(MarketOf[c])
          BY <4>1 DEF Family
        <5>2. NeedOf(Family(MarketOf[c]))' <= 2 * MaxCorrelated
          BY <2>2, <2>3, <2>4
        <5>3. NeedOf(Family(m))' = NeedOf(Family(MarketOf[c]))'
          BY <5>1, Zenon
        <5> QED
          BY <5>2, <5>3
      <4>2. CASE FamilyOf[m] # FamilyOf[MarketOf[c]]
        <5>1. MarketOf[c] \notin Family(m)
          BY <4>2 DEF Family
        <5>2. NeedOf(Family(m))' = NeedOf(Family(m))
          BY <2>3, <5>1
        <5>3. NeedOf(Family(m)) <= 2 * MaxCorrelated
          BY <2>6, WithinCaps
        <5> QED
          BY <5>2, <5>3
      <4> QED
        BY <4>1, <4>2
    <3> QED
      BY <2>3, <2>4, <2>5, <3>1, <3>2 DEF Room
  <2> QED
    BY <2>1, <2>5, <2>6 DEF CapInv
<1>8. CASE UNCHANGED vars
  <2>1. UNCHANGED <<broker, wire, venue, pc, cur>>
    BY <1>8 DEF vars, brokerVars, controlVars
  <2> QED
    BY <1>2, <1>3, <1>4, <2>1 DEF CapInv
<1>9. Next => BrokerStep \/ Unsent \/ CreateOrder
  BY DEF Next, SubmitStep, Unsent
<1> QED
  BY <1>5, <1>6, <1>7, <1>8, <1>9

\* The caps of evaluate bound what the account has at stake, in all, in a
\* market and in a family of markets, up to the rounding, although they are
\* compared with the tracker's book before the order is sent.
THEOREM CapsHold == ~FileCanBreak => (Spec => []CapsHoldAtBroker)
<1>1. ASSUME IInv, AccountInv, CapInv
      PROVE  CapsHoldAtBroker
  <2>1. \A markets : /\ AtStake(markets) \in Int /\ FilledContracts(markets) \in Int
                     /\ NeedOf(markets) + FilledContracts(markets) = 2 * AtStake(markets)
                     /\ NeedOf(markets) \in Int
    BY <1>1, NeedIsStake, NeedInt
  <2>2. {MaxTotalExposure, MaxMarketExposure, MaxCorrelated} \subseteq Int
    BY CapsInCents
  <2>3. 2 * AtStake(Market) <= 2 * MaxTotalExposure + FilledContracts(Market)
    BY <1>1, <2>1, <2>2 DEF CapInv
  <2>4. ASSUME NEW m \in Market
        PROVE  /\ 2 * AtStake({m}) <= 2 * MaxMarketExposure + FilledContracts({m})
               /\ 2 * AtStake(Family(m)) <= 2 * MaxCorrelated + FilledContracts(Family(m))
    <3>1. NeedOf({m}) <= 2 * MaxMarketExposure /\ NeedOf(Family(m)) <= 2 * MaxCorrelated
      BY <1>1, <2>4, WithinCaps
    <3> QED
      BY <2>1, <2>2, <3>1
  <2> QED
    BY <2>3, <2>4 DEF CapsHoldAtBroker, Family
<1>2. IInv /\ AccountInv /\ CapInv => CapsHoldAtBroker
  BY <1>1
<1>3. CASE FileCanBreak
  BY <1>3
<1>4. CASE ~FileCanBreak
  <2>1. IInv /\ AccountInv /\ CapInv /\ [Next]_vars => CapInv'
    BY <1>4, NextCaps
  <2> QED
    BY <1>2, <2>1, InitCaps, Invariance, AccountInvariance, PTL DEF Spec
<1> QED
  BY <1>3, <1>4

-----------------------------------------------------------------------------
(***************************************************************************)
(* An unreadable file                                                      *)
(***************************************************************************)

\* On an unreadable file the tracker is latched, and no submission has come
\* past its first evaluation.
LatchInv ==
  ~disk.readable => ~Healthy /\ pc \notin {"sink", "reserve", "send", "wait"}

\* A latched tracker that neither removes nor marks anything stays as it is.
LatchedStep ==
  /\ ~disk.readable /\ ~Healthy
  /\ pc \notin {"sink", "reserve", "send", "wait", "unreserve", "unposition"}

\* A step of the process on an unreadable file, but for the release of a
\* settled position, leaves the tracker alone and sends nothing.
LEMMA LatchedStays ==
  ASSUME IInv, LatchedStep, CycleStep \/ SubmitStep
  PROVE  /\ UNCHANGED trackerVars /\ wire' = wire
         /\ pc' \notin {"sink", "reserve", "send", "wait"}
<1> USE DEF LatchedStep, brokerVars, Goto, Finish
<1>1. CASE \E d \in Decision : SyncLiveExposure(d)
  BY <1>1 DEF SyncLiveExposure, RecordCumulativeFill, controlVars
<1>2. CASE FirstEvaluation
  BY <1>2 DEF FirstEvaluation, Evaluate, VerifyPersistence
<1>3. CASE CycleStep /\ ~\E d \in Decision : SyncLiveExposure(d)
  BY <1>3 DEF CycleStep, BeginCycle, EndPoll, EndRecord, EndSync, EndClose, EndCycle,
     PollOrder, RecordPolled, CloseUnfilled, CloseFilled, RecordDecision,
     ClaimSettlement, RecordRealizedPnl, ReleaseOrder, ReleasePosition, controlVars
<1>4. CASE SubmitStep /\ ~FirstEvaluation
  BY <1>4 DEF SubmitStep, ExecutorBlocks, RiskStateBlocks, SinkReadsBlock, FinalEvaluation,
     ReserveSubmission, CreateOrder, BrokerAnswers, BrokerOutcomeUnknown, RecordExecution
<1> QED
  BY <1>1, <1>2, <1>3, <1>4

\* A call of the tracker leaves the file as it was or makes it readable.
LEMMA FileStaysOrMends ==
  ASSUME IInv, CycleStep \/ SubmitStep
  PROVE  disk' = disk \/ disk'.readable
<1> DEFINE Mends == disk' = disk \/ disk'.readable
<1>1. /\ \A b, ok : Persist(b, ok) => Mends
      /\ LatchError => Mends
      /\ UNCHANGED trackerVars => Mends
  BY DEF Persist, Payload, LatchError, trackerVars
<1> HIDE DEF Mends
<1>2. \A d, ok : /\ ReserveOrderSubmission(d, ok) => Mends
                 /\ ConfirmOpenOrder(d, ok) => Mends
                 /\ MarkOrderOutcomeUnknown(d, ok) => Mends
                 /\ VerifyPersistence(ok) => Mends
  BY <1>1 DEF ReserveOrderSubmission, ConfirmOpenOrder, MarkOrderOutcomeUnknown,
              VerifyPersistence
<1>3. \A d, id, cum, price, terminal, ok :
        /\ RecordCumulativeFill(d, id, cum, price, terminal, ok) => Mends
        /\ RemoveOpenOrder(d, id, ok) => Mends
        /\ RemovePosition(d, ok) => Mends
  BY <1>1 DEF RecordCumulativeFill, RemoveOpenOrder, RemovePosition
<1>4. QuietStep \/ CreateOrder => Mends
  BY <1>1, QuietControl DEF CreateOrder
<1>5. (\E d \in Decision : SyncLiveExposure(d)) \/ ReleaseOrder \/ ReleasePosition => Mends
  BY <1>3 DEF SyncLiveExposure, ReleaseOrder, ReleasePosition
<1>6. FirstEvaluation \/ FinalEvaluation \/ ReserveSubmission => Mends
  BY <1>2 DEF FirstEvaluation, FinalEvaluation, Evaluate, ReserveSubmission
<1>7. BrokerAnswers \/ BrokerOutcomeUnknown => Mends
  BY <1>2 DEF BrokerAnswers, BrokerOutcomeUnknown
<1> QED
  BY <1>4, <1>5, <1>6, <1>7 DEF CycleStep, SubmitStep, QuietStep, Mends

\* A release whose write fails latches.
LEMMA ReleaseLatches ==
  ASSUME IInv, ReleaseOrder \/ ReleasePosition, ~disk'.readable
  PROVE  mem'.err /\ pc' \in {"unposition", "close"}
<1> USE DEF Goto
<1>1. ASSUME NEW b, NEW ok \in Writes, BookOK(b), Persist(b, ok)
      PROVE  mem'.err
  <2>1. ~ok
    BY <1>1 DEF Persist, Payload
  <2> QED
    BY <1>1, <2>1 DEF Persist, BookOK
<1>2. CASE ReleaseOrder
  <2>1. PICK ok \in Writes : RemoveOpenOrder(cur, "broker", ok)
    BY <1>2 DEF ReleaseOrder
  <2>2. cur \in Decision /\ pc' = "unposition"
    BY <1>2 DEF ReleaseOrder, IInv, ControlInv
  <2> DEFINE b == IF Matches(cur, "broker") THEN [mem EXCEPT !.orders[cur] = NoOrder] ELSE mem
  <2>3. BookOK(b)
    BY <2>2, NoOrderOK, BookWithOrderOK DEF IInv, TypeOK
  <2>4. Persist(b, ok)
    BY <2>1 DEF RemoveOpenOrder
  <2> HIDE DEF b
  <2> QED
    BY <1>1, <2>2, <2>3, <2>4
<1>3. CASE ReleasePosition
  <2>1. PICK ok \in Writes : RemovePosition(KeyOf(cur), ok)
    BY <1>3 DEF ReleasePosition
  <2>2. KeyOf(cur) \in Key /\ pc' = "close"
    BY <1>3 DEF ReleasePosition, IInv, ControlInv, Key
  <2> DEFINE b == [mem EXCEPT !.positions[KeyOf(cur)] = NoPosition]
  <2>3. BookOK(b)
    BY <2>2, PositionRemovedOK DEF IInv, TypeOK
  <2>4. Persist(b, ok)
    BY <2>1 DEF RemovePosition
  <2> HIDE DEF b
  <2> QED
    BY <1>1, <2>2, <2>3, <2>4
<1> QED
  BY <1>2, <1>3

\* Broker and venue touch neither the tracker nor the point of control.
LEMMA BrokerIsElsewhere ==
  ASSUME BrokerStep
  PROVE  UNCHANGED <<trackerVars, pc, cur>> /\ wire' \subseteq wire
BY DEF BrokerStep, BrokerAccepts, BrokerNeverAccepts, BrokerFills, BrokerCancels,
       HourPasses, Midnight, MarketSettles, brokerVars, controlVars

\* A restart reads what the file says of itself.
LEMMA RestartLatches ==
  ASSUME Restart \/ RestartOnBrokenFile, ~disk'.readable
  PROVE  mem'.err /\ pc' = "idle" /\ wire' = wire
BY DEF Restart, RestartOnBrokenFile, ForgetControl, Load, EmptyBook, brokerVars

\* Every step keeps the latch on an unreadable file.
LEMMA NextLatch == IInv /\ LatchInv /\ [Next]_vars => LatchInv'
<1> SUFFICES ASSUME IInv, LatchInv, [Next]_vars, ~disk'.readable
             PROVE  (~Healthy /\ pc \notin {"sink", "reserve", "send", "wait"})'
  BY DEF LatchInv
<1> USE DEF Healthy
<1>1. CASE BrokerStep \/ UNCHANGED vars
  <2>1. UNCHANGED <<trackerVars, pc>>
    BY <1>1, BrokerIsElsewhere DEF vars, controlVars
  <2> QED
    BY <2>1 DEF LatchInv, trackerVars
<1>2. CASE Restart \/ RestartOnBrokenFile
  BY <1>2, RestartLatches
<1>3. CASE CycleStep \/ SubmitStep
  <2>1. ~disk.readable
    BY <1>3, FileStaysOrMends
  <2>2. CASE pc \notin {"unreserve", "unposition"}
    <3>1. LatchedStep
      BY <2>1, <2>2 DEF LatchInv, LatchedStep
    <3> QED
      BY <1>3, <3>1, LatchedStays DEF LatchedStep, trackerVars
  <2>3. CASE pc \in {"unreserve", "unposition"}
    <3>1. ReleaseOrder \/ ReleasePosition
      BY <1>3, <2>3 DEF CycleStep, SubmitStep, BeginCycle, EndPoll, EndRecord, EndSync,
         EndClose, EndCycle, PollOrder, RecordPolled, SyncLiveExposure, CloseUnfilled,
         CloseFilled, RecordDecision, ClaimSettlement, RecordRealizedPnl, ExecutorBlocks,
         RiskStateBlocks, FirstEvaluation, SinkReadsBlock, FinalEvaluation, ReserveSubmission,
         CreateOrder, BrokerAnswers, BrokerOutcomeUnknown, RecordExecution
    <3> QED
      BY <3>1, ReleaseLatches
  <2> QED
    BY <2>2, <2>3
<1> QED
  BY <1>1, <1>2, <1>3 DEF Next

\* On an unreadable file no order is sent and no write replaces it, except
\* for the release of a settled position.
THEOREM BrokenBookBlocks == Spec => BrokenBookBlocksOrders
<1> DEFINE Blocks == ~disk.readable /\ pc \notin {"unreserve", "unposition"} =>
                       disk' = disk /\ wire' \subseteq wire
<1>1. Init => LatchInv
  BY DEF Init, LatchInv, Payload
<1>2. ASSUME IInv, LatchInv, [Next]_vars, ~disk.readable, pc \notin {"unreserve", "unposition"}
      PROVE  [disk' = disk /\ wire' \subseteq wire]_vars
  <2>1. CASE BrokerStep
    BY <2>1, BrokerIsElsewhere DEF trackerVars
  <2>2. CASE Restart \/ RestartOnBrokenFile
    BY <1>2, <2>2 DEF Restart, RestartOnBrokenFile, brokerVars, IInv, TypeOK, FileOK
  <2>3. CASE CycleStep \/ SubmitStep
    <3>1. LatchedStep
      BY <1>2 DEF LatchInv, LatchedStep
    <3> QED
      BY <1>2, <2>3, <3>1, LatchedStays DEF trackerVars
  <2> QED
    BY <1>2, <2>1, <2>2, <2>3 DEF Next
<1>3. IInv /\ LatchInv /\ [Next]_vars => [Blocks]_vars
  BY <1>2
<1> QED
  BY <1>1, <1>3, NextLatch, Invariance, PTL DEF Spec, BrokenBookBlocksOrders

-----------------------------------------------------------------------------
(***************************************************************************)
(* A settled loss, where neither process nor risk file fails               *)
(***************************************************************************)

\* An execution never reports the ledger's word for a settled position.
LossInv == SettledLossIsBooked /\ result # "SETTLED"

LEMMA InitLoss == Init => LossInv
BY DEF Init, LossInv, SettledLossIsBooked

\* While the risk file takes every read and write, nothing latches.
LEMMA NothingLatches ==
  ASSUME ~RiskFileCanFail, ~latched, [Next]_vars
  PROVE  ~latched'
<1>1. CASE RecordRealizedPnl \/ RiskStateBlocks
  BY <1>1 DEF RecordRealizedPnl, RiskStateBlocks, Trouble
<1>2. CASE FirstEvaluation \/ FinalEvaluation
  BY <1>2 DEF FirstEvaluation, FinalEvaluation, Evaluate
<1>3. CASE Restart \/ RestartOnBrokenFile
  BY <1>3 DEF Restart, RestartOnBrokenFile, ReloadRiskState, Trouble
<1> USE DEF bookVars, riskVars
<1>4. CASE BrokerStep \/ UNCHANGED vars
  BY <1>4 DEF BrokerStep, BrokerAccepts, BrokerNeverAccepts, BrokerFills, BrokerCancels,
     HourPasses, Midnight, MarketSettles, vars
<1>5. CASE CycleStep /\ ~RecordRealizedPnl
  BY <1>5 DEF CycleStep, BeginCycle, EndPoll, EndRecord, EndSync, EndClose, EndCycle,
     PollOrder, RecordPolled, SyncLiveExposure, CloseUnfilled, CloseFilled, RecordDecision,
     ClaimSettlement, ReleaseOrder, ReleasePosition
<1>6. CASE SubmitStep /\ ~(RiskStateBlocks \/ FirstEvaluation \/ FinalEvaluation)
  BY <1>6 DEF SubmitStep, ExecutorBlocks, SinkReadsBlock, ReserveSubmission, CreateOrder,
     BrokerAnswers, BrokerOutcomeUnknown, RecordExecution
<1> QED
  BY <1>1, <1>2, <1>3, <1>4, <1>5, <1>6 DEF Next

\* Until the loss is booked the process is nowhere else.
LEMMA SettledNowhereNew ==
  ASSUME LossInv, result' # "SETTLED", booked \subseteq booked', pc # "pnl",
         \A d \in Decision : ledger'[d].kind = "SETTLED" => ledger[d].kind = "SETTLED"
  PROVE  LossInv'
BY DEF LossInv, SettledLossIsBooked

\* An outcome of another kind settles nothing.
LEMMA OtherKindSettlesNothing ==
  ASSUME IInv, NEW d \in Decision, NEW kind, NEW filled, NEW price, kind # "SETTLED",
         ledger' = Recorded(d, kind, filled, price)
  PROVE  \A e \in Decision : ledger'[e].kind = "SETTLED" => ledger[e].kind = "SETTLED"
<1>1. ledger \in [Decision -> LedgerRow]
  BY DEF IInv, TypeOK
<1> QED
  BY <1>1 DEF Recorded

LEMMA BrokerKeepsLoss ==
  ASSUME LossInv, BrokerStep
  PROVE  LossInv'
BY DEF BrokerStep, BrokerAccepts, BrokerNeverAccepts, BrokerFills, BrokerCancels,
       HourPasses, Midnight, MarketSettles, bookVars, riskVars, controlVars, LossInv,
       SettledLossIsBooked

LEMMA CycleKeepsLoss ==
  ASSUME IInv, LossInv, ~RiskFileCanFail, ~latched, CycleStep
  PROVE  LossInv'
<1>0. result # "SETTLED"
  BY DEF LossInv
<1>1. CASE \/ BeginCycle \/ EndPoll \/ EndRecord \/ EndSync \/ EndClose \/ EndCycle
           \/ ReleaseOrder \/ ReleasePosition
           \/ \E d \in Decision : PollOrder(d) \/ SyncLiveExposure(d)
           \/ \E m \in Market : ClaimSettlement(m)
  <2>1. UNCHANGED <<ledger, booked, result>> /\ pc # "pnl"
    BY <1>1 DEF BeginCycle, EndPoll, EndRecord, EndSync, EndClose, EndCycle, PollOrder,
                SyncLiveExposure, ClaimSettlement, ReleaseOrder, ReleasePosition,
                bookVars, riskVars, controlVars
  <2> QED
    BY <1>0, <2>1, SettledNowhereNew
<1>2. ASSUME NEW d \in Decision, RecordPolled(d)
      PROVE  LossInv'
  <2>1. polled[d].kind # "SETTLED"
    BY <1>2 DEF RecordPolled, IInv, PolledInv
  <2>2. \A e \in Decision : ledger'[e].kind = "SETTLED" => ledger[e].kind = "SETTLED"
    BY <1>2, <2>1, OtherKindSettlesNothing DEF RecordPolled
  <2>3. UNCHANGED <<booked, result>> /\ pc # "pnl"
    BY <1>2 DEF RecordPolled, riskVars
  <2> QED
    BY <1>0, <2>2, <2>3, SettledNowhereNew
<1>3. ASSUME NEW d \in Decision, CloseUnfilled(d)
      PROVE  LossInv'
  <2>1. \A e \in Decision : ledger'[e].kind = "SETTLED" => ledger[e].kind = "SETTLED"
    BY <1>3, OtherKindSettlesNothing DEF CloseUnfilled
  <2>2. UNCHANGED <<booked, result>> /\ pc # "pnl"
    BY <1>3 DEF CloseUnfilled, controlVars, riskVars
  <2> QED
    BY <1>0, <2>1, <2>2, SettledNowhereNew
<1>4. ASSUME NEW d \in Decision, RecordDecision(d)
      PROVE  LossInv'
  <2>1. ledger \in [Decision -> LedgerRow]
    BY DEF IInv, TypeOK
  <2>2. ledger' = [ledger EXCEPT ![d].kind = "decided"]
    BY <1>4 DEF RecordDecision, Decided
  <2>3. \A e \in Decision : ledger'[e].kind = "SETTLED" => ledger[e].kind = "SETTLED"
    BY ONLY <2>1, <2>2
  <2>4. UNCHANGED <<booked, result>> /\ pc # "pnl"
    BY <1>4 DEF RecordDecision, riskVars
  <2> QED
    BY <1>0, <2>3, <2>4, SettledNowhereNew
\* The position being settled is the one whose loss is booked next.
<1>5. ASSUME NEW d \in Decision, CloseFilled(d)
      PROVE  LossInv'
  <2>1. /\ ledger \in [Decision -> LedgerRow]
        /\ ledger' = Recorded(d, "SETTLED", ledger[d].filled, ledger[d].price)
        /\ cur' = d /\ pc' = "pnl" /\ pc # "pnl"
        /\ UNCHANGED <<booked, result>>
    BY <1>5 DEF CloseFilled, Goto, IInv, TypeOK, riskVars
  <2>2. ASSUME NEW e \in Decision \ {d}
        PROVE  ledger'[e] = ledger[e]
    BY ONLY <2>1, <2>2 DEF Recorded
  <2> QED
    BY <1>0, <2>1, <2>2 DEF LossInv, SettledLossIsBooked
<1>6. CASE RecordRealizedPnl
  BY <1>6 DEF RecordRealizedPnl, Trouble, LossInv, SettledLossIsBooked
<1> QED
  BY <1>1, <1>2, <1>3, <1>4, <1>5, <1>6 DEF CycleStep

LEMMA SubmitKeepsLoss ==
  ASSUME IInv, LossInv, SubmitStep
  PROVE  LossInv'
<1>1. CASE RecordExecution
  <2>1. /\ cur \in Decision
        /\ ledger' = Recorded(cur, result, 0, NoPrice)
        /\ result' = "none" /\ booked' = booked /\ pc # "pnl"
    BY <1>1 DEF RecordExecution, IInv, ControlInv, riskVars
  <2>2. result # "SETTLED"
    BY DEF LossInv
  <2>3. \A e \in Decision : ledger'[e].kind = "SETTLED" => ledger[e].kind = "SETTLED"
    BY <2>1, <2>2, OtherKindSettlesNothing
  <2> QED
    BY <2>1, <2>3, SettledNowhereNew
<1>2. CASE ~RecordExecution
  <2>1. /\ UNCHANGED <<ledger, booked>>
        /\ result' = result \/ result' \in {"BLOCKED_LOCAL", "ACCEPTED", "REJECTED"}
        /\ pc # "pnl"
    BY <1>2 DEF SubmitStep, ExecutorBlocks, FirstEvaluation, SinkReadsBlock,
                RiskStateBlocks, FinalEvaluation, Evaluate, ReserveSubmission, CreateOrder, BrokerAnswers,
                BrokerOutcomeUnknown, Goto, Finish, bookVars, riskVars
  <2> QED
    BY <2>1, SettledNowhereNew DEF LossInv
<1> QED
  BY <1>1, <1>2

\* One process that does not die, on a risk file that takes every read and
\* write: a settled position's loss has reached that file or does so in the
\* very next step, whatever the exposure file refuses.  Each assumption is
\* needed: a death (lost_loss) or a refused write loses the loss for good.
THEOREM LossBooked ==
  ~ProcessCanDie /\ ~FileCanBreak /\ ~RiskFileCanFail => (Spec => []SettledLossIsBooked)
<1> SUFFICES ASSUME ~ProcessCanDie, ~FileCanBreak, ~RiskFileCanFail
             PROVE  Spec => []SettledLossIsBooked
  OBVIOUS
<1>1. IInv /\ LossInv /\ ~latched /\ [Next]_vars => LossInv' /\ ~latched'
  <2> SUFFICES ASSUME IInv, LossInv, ~latched, [Next]_vars
               PROVE  LossInv'
    BY NothingLatches
  <2>1. CASE UNCHANGED vars
    BY <2>1 DEF vars, bookVars, riskVars, controlVars, LossInv, SettledLossIsBooked
  <2>2. ~(Restart \/ RestartOnBrokenFile)
    BY DEF Restart, RestartOnBrokenFile
  <2> QED
    BY <2>1, <2>2, BrokerKeepsLoss, CycleKeepsLoss, SubmitKeepsLoss DEF Next
<1>2. Init => ~latched
  BY DEF Init
<1>3. LossInv => SettledLossIsBooked
  BY DEF LossInv
<1> QED
  BY <1>1, <1>2, <1>3, InitLoss, Invariance, PTL DEF Spec

-----------------------------------------------------------------------------
(***************************************************************************)
(* Live trading as a caller of the tracker                                 *)
(***************************************************************************)

LEMMA SameReservations ==
  ASSUME NEW d, NEW ok
  PROVE  /\ VerifyPersistence(ok) => Tracker!VerifyPersistence(ok)
         /\ ReserveOrderSubmission(d, ok) => Tracker!ReserveOrderSubmission(d, ok)
         /\ ConfirmOpenOrder(d, ok) => Tracker!ConfirmOpenOrder(d, ok)
         /\ MarkOrderOutcomeUnknown(d, ok) => Tracker!MarkOrderOutcomeUnknown(d, ok)
<1>1. VerifyPersistence(ok) => Tracker!VerifyPersistence(ok)
  BY Zenon DEF VerifyPersistence, Tracker!VerifyPersistence, Healthy, Tracker!Healthy,
     Persist, Tracker!Persist, Payload, Tracker!Payload, trackerVars, Tracker!trackerVars
<1>2. ReserveOrderSubmission(d, ok) => Tracker!ReserveOrderSubmission(d, ok)
  BY Zenon DEF ReserveOrderSubmission, Tracker!ReserveOrderSubmission, Healthy, Tracker!Healthy,
     Persist, Tracker!Persist, Payload, Tracker!Payload, trackerVars, Tracker!trackerVars,
     Present, Tracker!Present, Reserved, Tracker!Reserved, NewOrder, Tracker!NewOrder,
     LatchError, Tracker!LatchError
<1>3. ConfirmOpenOrder(d, ok) => Tracker!ConfirmOpenOrder(d, ok)
  BY Zenon DEF ConfirmOpenOrder, Tracker!ConfirmOpenOrder, Healthy, Tracker!Healthy,
     Persist, Tracker!Persist, Payload, Tracker!Payload, trackerVars, Tracker!trackerVars,
     Present, Tracker!Present, LatchError, Tracker!LatchError
<1>4. MarkOrderOutcomeUnknown(d, ok) => Tracker!MarkOrderOutcomeUnknown(d, ok)
  BY Zenon DEF MarkOrderOutcomeUnknown, Tracker!MarkOrderOutcomeUnknown,
     Persist, Tracker!Persist, Payload, Tracker!Payload,
     Present, Tracker!Present, LatchError, Tracker!LatchError
<1> QED
  BY <1>1, <1>2, <1>3, <1>4

LEMMA SameFillReport ==
  ASSUME NEW d, NEW id, NEW cum, NEW price, NEW terminal, NEW ok
  PROVE  RecordCumulativeFill(d, id, cum, price, terminal, ok)
           => Tracker!RecordCumulativeFill(d, id, cum, price, terminal, ok)
BY Zenon DEF RecordCumulativeFill, Tracker!RecordCumulativeFill, Healthy, Tracker!Healthy,
   Matches, Tracker!Matches, Present, Tracker!Present, FillConsistent, Tracker!FillConsistent,
   CumulativeCost, Tracker!CumulativeCost, Filled, Tracker!Filled, FilledOrder,
   Tracker!FilledOrder, NoOrder, Tracker!NoOrder, Grown, Tracker!Grown, CeilDiv,
   Tracker!CeilDiv, KeyOf, Tracker!KeyOf, LatchError, Tracker!LatchError,
   Persist, Tracker!Persist, Payload, Tracker!Payload, trackerVars, Tracker!trackerVars

LEMMA SameRemovals ==
  ASSUME NEW d, NEW id, NEW ok
  PROVE  /\ RemoveOpenOrder(d, id, ok) => Tracker!RemoveOpenOrder(d, id, ok)
         /\ \A k : RemovePosition(k, ok) => Tracker!RemovePosition(k, ok)
BY Zenon DEF Persist, Tracker!Persist, Payload, Tracker!Payload, Matches, Tracker!Matches,
   Present, Tracker!Present, RemoveOpenOrder, Tracker!RemoveOpenOrder, RemovePosition, 
   Tracker!RemovePosition, NoOrder, Tracker!NoOrder, NoPosition, Tracker!NoPosition

\* And a load.
LEMMA SameLoad ==
  /\ EmptyBook = Tracker!EmptyBook /\ Payload(EmptyBook) = Tracker!Payload(EmptyBook)
  /\ \A file : Load(file) = Tracker!Load(file)
<1>1. Key = Tracker!Key
  BY DEF Key, Tracker!Key, KeyOf, Tracker!KeyOf
<1>2. EmptyBook = Tracker!EmptyBook
  BY <1>1 DEF EmptyBook, Tracker!EmptyBook, NoOrder, Tracker!NoOrder, NoPosition,
              Tracker!NoPosition
<1> QED
  BY <1>2 DEF Load, Tracker!Load, Payload, Tracker!Payload

-----------------------------------------------------------------------------
(***************************************************************************)
(* What the tracker relies on its caller for                               *)
(***************************************************************************)

\* A fill costs the limit at most, and so does a reported average.
CostInv  == \A d \in Decision : broker[d].cost <= broker[d].filled * LimitOf[d]
PriceInv == \A d \in Decision : polled[d].price <= LimitOf[d]

\* What has not come to its reservation was never reserved.
HistoryInv ==
  \A d \in Decision : BeforeReservation(d) => d \notin mem.history \cup disk.history

CallerInv == CostInv /\ PriceInv /\ HistoryInv

\* The rounded average of prices within the limit is within the limit.
LEMMA AverageBound ==
  ASSUME NEW cost \in Nat, NEW filled \in Nat, NEW L \in Nat, cost <= filled * L
  PROVE  AveragePrice(cost, filled) <= L
<1>1. CASE filled = 0
  BY <1>1 DEF AveragePrice, NoPrice
<1>2. CASE filled > 0
  <2> DEFINE n == 2 * cost + filled
             s == 2 * filled
             q == n \div s
  <2>1. n \in Nat /\ s \in Nat /\ s > 0
    BY <1>2
  <2>2. q \in Int /\ s * q <= n
    <3> HIDE DEF n, s
    <3> QED
      BY <2>1
  <2>3. ASSUME q >= L + 1 PROVE FALSE
    <3>1. s * q >= s * (L + 1)
      <4> HIDE DEF s, q
      <4>1. q - (L + 1) \in Nat
        BY <2>2, <2>3
      <4>2. s * (q - (L + 1)) \in Nat
        BY <2>1, <4>1
      <4>3. s * (q - (L + 1)) = s * q - s * (L + 1)
        BY <2>1, <2>2
      <4> QED
        BY <2>1, <2>2, <4>2, <4>3
    <3>2. s * (L + 1) = 2 * (filled * L) + 2 * filled
      BY <1>2
    <3> DEFINE x == filled * L
    <3>3. x \in Nat /\ cost <= x
      OBVIOUS
    <3> HIDE DEF x, q
    <3> QED
      BY <1>2, <2>2, <3>1, <3>2, <3>3 DEF x
  <2> HIDE DEF q
  <2> QED
    BY <1>2, <2>2, <2>3 DEF AveragePrice, q
<1> QED
  BY <1>1, <1>2

\* A call remembers only what is in `added`.
Remembers(added) ==
  mem'.history \subseteq mem.history \cup added
  /\ disk'.history \subseteq disk.history \cup mem.history \cup added

LEMMA WriteRemembers ==
  ASSUME NEW b, BookOK(b), NEW added, b.history \subseteq mem.history \cup added,
         NEW ok \in BOOLEAN, Persist(b, ok)
  PROVE  Remembers(added)
BY DEF Persist, Payload, BookOK, Remembers

LEMMA StayRemembers ==
  ASSUME BookOK(mem), NEW added, UNCHANGED trackerVars \/ LatchError
  PROVE  Remembers(added)
BY DEF LatchError, trackerVars, BookOK, Remembers

\* Every call of the tracker but a reservation remembers nothing new, and
\* a reservation the order reserved.
LEMMA CallsRemember ==
  ASSUME BookOK(mem), NEW d \in Decision, NEW ok \in BOOLEAN
  PROVE  /\ VerifyPersistence(ok) => Remembers({})
         /\ ReserveOrderSubmission(d, ok) => Remembers({d})
         /\ ConfirmOpenOrder(d, ok) => Remembers({})
         /\ MarkOrderOutcomeUnknown(d, ok) => Remembers({})
         /\ \A id : RemoveOpenOrder(d, id, ok) => Remembers({})
         /\ RemovePosition(KeyOf(d), ok) => Remembers({})
<1>1. VerifyPersistence(ok) => Remembers({})
  BY WriteRemembers, StayRemembers DEF VerifyPersistence
<1>2. ReserveOrderSubmission(d, ok) => Remembers({d})
  <2>1. BookOK(Reserved(d)) /\ Reserved(d).history \subseteq mem.history \cup {d}
    BY ReservedOK DEF Reserved, BookOK
  <2> QED
    BY <2>1, WriteRemembers, StayRemembers DEF ReserveOrderSubmission
<1>3. ConfirmOpenOrder(d, ok) => Remembers({})
  <2> DEFINE b == [mem EXCEPT !.orders[d] = [@ EXCEPT !.state = "open", !.bound = TRUE]]
  <2>1. Present(mem, d) => BookOK(b) /\ b.history \subseteq mem.history \cup {}
    BY ConfirmedOK DEF BookOK
  <2>2. ConfirmOpenOrder(d, ok) =>
          (UNCHANGED trackerVars \/ LatchError) \/ (Present(mem, d) /\ Persist(b, ok))
    BY DEF ConfirmOpenOrder
  <2> HIDE DEF b
  <2> QED
    BY <2>1, <2>2, WriteRemembers, StayRemembers
<1>4. MarkOrderOutcomeUnknown(d, ok) => Remembers({})
  <2> DEFINE b == [mem EXCEPT !.orders[d].state = "submit_outcome_unknown"]
  <2>1. Present(mem, d) => BookOK(b) /\ b.history \subseteq mem.history \cup {}
    BY UnknownOK DEF BookOK
  <2>2. MarkOrderOutcomeUnknown(d, ok) => LatchError \/ (Present(mem, d) /\ Persist(b, ok))
    BY DEF MarkOrderOutcomeUnknown
  <2> HIDE DEF b
  <2> QED
    BY <2>1, <2>2, WriteRemembers, StayRemembers
<1>5. \A id : RemoveOpenOrder(d, id, ok) => Remembers({})
  <2> DEFINE b == [mem EXCEPT !.orders[d] = NoOrder]
  <2>1. BookOK(b) /\ b.history \subseteq mem.history \cup {}
    BY NoOrderOK, BookWithOrderOK DEF BookOK
  <2>2. \A id : RemoveOpenOrder(d, id, ok) => Persist(mem, ok) \/ Persist(b, ok)
    BY DEF RemoveOpenOrder
  <2> HIDE DEF b
  <2> QED
    BY <2>1, <2>2, WriteRemembers
<1>6. RemovePosition(KeyOf(d), ok) => Remembers({})
  <2> DEFINE b == [mem EXCEPT !.positions[KeyOf(d)] = NoPosition]
  <2>1. BookOK(b) /\ b.history \subseteq mem.history \cup {}
    BY PositionRemovedOK DEF BookOK, Key
  <2> HIDE DEF b
  <2> QED
    BY <2>1, WriteRemembers DEF RemovePosition, b
<1> QED
  BY <1>1, <1>2, <1>3, <1>4, <1>5, <1>6

\* Nor does a report of fills.
LEMMA ReportRemembers ==
  ASSUME BookOK(mem), NEW d \in Decision, NEW id, NEW cum \in Nat, NEW price \in Nat,
         NEW terminal \in Terminal, NEW ok \in BOOLEAN,
         RecordCumulativeFill(d, id, cum, price, terminal, ok)
  PROVE  Remembers({})
<1> DEFINE b == Filled(d, cum, price, terminal)
<1>1. ASSUME Present(mem, d), FillConsistent(d, cum, price, terminal)
      PROVE  BookOK(b) /\ b.history \subseteq mem.history \cup {}
  BY <1>1, FilledOK DEF Filled, BookOK
<1>2. \/ UNCHANGED trackerVars \/ LatchError
      \/ Present(mem, d) /\ FillConsistent(d, cum, price, terminal) /\ Persist(b, ok)
  BY DEF RecordCumulativeFill, Matches
<1> HIDE DEF b
<1> QED
  BY <1>1, <1>2, WriteRemembers, StayRemembers

\* A call that remembers what is past its reservation keeps the history.
LEMMA CallKeepsHistory ==
  ASSUME HistoryInv, NEW added, Remembers(added),
         \A d \in Decision : BeforeReservation(d)' => BeforeReservation(d) /\ d \notin added
  PROVE  HistoryInv'
BY DEF HistoryInv, Remembers

\* The broker charges the limit at most, and a poll reports no more.
LEMMA PricesStay ==
  ASSUME IInv, CostInv, PriceInv, [Next]_vars
  PROVE  CostInv' /\ PriceInv'
<1>0. /\ broker \in [Decision -> BrokerOrder]
      /\ polled \in [Decision -> PolledRow]
      /\ \A d \in Decision : broker[d].filled \in Nat /\ broker[d].cost \in Nat
  BY DEF IInv, TypeOK, BrokerOrder
<1>d. \A d \in Decision : LimitOf[d] \in Nat
  BY DecisionTerms
<1>1. CASE BrokerStep
  <2>1. AccountMoves
    BY <1>1, BrokerMoves
  <2>2. ASSUME NEW d \in Decision
        PROVE  broker'[d].cost <= broker'[d].filled * LimitOf[d]
    <3>1. LimitOf[d] \in Nat /\ broker[d].filled \in Nat /\ broker[d].cost \in Nat
      BY <1>0, <1>d
    <3>2. (broker[d].filled + 1) * LimitOf[d] = broker[d].filled * LimitOf[d] + LimitOf[d]
      BY <3>1
    <3>3. broker[d].filled * LimitOf[d] \in Nat
      BY <3>1
    <3> DEFINE x == broker[d].filled * LimitOf[d]
    <3>4. broker[d].cost <= x
      BY DEF CostInv
    <3>5. CASE broker'[d].filled = broker[d].filled /\ broker'[d].cost = broker[d].cost
      BY <3>4, <3>5
    <3>6. CASE /\ broker'[d].filled = broker[d].filled + 1
               /\ broker'[d].cost \in (broker[d].cost + 1)..(broker[d].cost + LimitOf[d])
      <4> HIDE DEF x
      <4>1. broker'[d].cost <= x + LimitOf[d]
        BY <3>1, <3>3, <3>4, <3>6 DEF x
      <4>2. broker'[d].filled * LimitOf[d] = x + LimitOf[d]
        BY <3>2, <3>6 DEF x
      <4> QED
        BY <4>1, <4>2
    <3> QED
      BY <2>1, <3>5, <3>6 DEF AccountMoves
  <2>3. PriceInv'
    BY <2>1 DEF AccountMoves, PriceInv
  <2> QED
    BY <2>2, <2>3 DEF CostInv
<1>2. CASE \E d \in Decision : PollOrder(d)
  <2>1. PICK d \in Decision : PollOrder(d)
    BY <1>2
  <2>2. LimitOf[d] \in Nat /\ broker[d].filled \in Nat /\ broker[d].cost \in Nat
    BY <1>0, <1>d
  <2>3. AveragePrice(broker[d].cost, broker[d].filled) <= LimitOf[d]
    BY <2>2, AverageBound DEF CostInv
  <2> QED
    BY <1>0, <2>1, <2>3 DEF PollOrder, CostInv, PriceInv, brokerVars
<1>3. ASSUME UNCHANGED broker,
             \A d \in Decision : polled'[d].price = polled[d].price \/ polled'[d].price = 0
      PROVE  CostInv' /\ PriceInv'
  BY <1>3, <1>d DEF CostInv, PriceInv
<1>4. CASE QuietStep /\ ~ \E d \in Decision : PollOrder(d)
  <2>1. UNCHANGED broker
    BY <1>4, QuietControl DEF brokerVars
  <2>2. \A d \in Decision : polled'[d].price = polled[d].price
    BY <1>0, <1>4 DEF PolledRow, QuietStep, BeginCycle, EndPoll, EndRecord, EndSync,
       EndClose, EndCycle, RecordPolled, CloseUnfilled, CloseFilled, RecordDecision,
       ClaimSettlement, RecordRealizedPnl, ExecutorBlocks, SinkReadsBlock,
       RiskStateBlocks, RecordExecution, controlVars
  <2> QED
    BY <1>3, <2>1, <2>2
<1>5. CASE \/ ReleaseOrder \/ ReleasePosition \/ FirstEvaluation \/ FinalEvaluation
           \/ ReserveSubmission \/ CreateOrder \/ BrokerAnswers \/ BrokerOutcomeUnknown
           \/ UNCHANGED vars
  BY <1>3, <1>5 DEF ReleaseOrder, ReleasePosition, FirstEvaluation, FinalEvaluation,
     Evaluate, ReserveSubmission, CreateOrder, BrokerAnswers, BrokerOutcomeUnknown,
     vars, brokerVars, controlVars
<1>6. CASE (\E d \in Decision : SyncLiveExposure(d)) \/ Restart \/ RestartOnBrokenFile
  BY <1>0, <1>3, <1>6 DEF SyncLiveExposure, Restart, RestartOnBrokenFile, ForgetControl,
     NoOutcome, NoPrice, brokerVars
<1> QED
  BY <1>1, <1>2, <1>4, <1>5, <1>6 DEF Next, CycleStep, SubmitStep, QuietStep

-----------------------------------------------------------------------------
(***************************************************************************)
(* Every step is a call of the tracker, or none                            *)
(***************************************************************************)

\* The projection of a polled outcome is a report that the tracker expects.
LEMMA SyncIsReport ==
  ASSUME IInv, AccountInv, CallerInv, NEW d \in Decision, SyncLiveExposure(d)
  PROVE  Tracker!Next /\ HistoryInv'
<1>1. PICK ok \in BOOLEAN :
        RecordCumulativeFill(d, "broker", polled[d].filled, polled[d].price,
                             TerminalOf(polled[d].kind), ok)
  BY FaultFlags DEF SyncLiveExposure, Writes
<1>2. /\ polled[d].filled \in Nat /\ polled[d].price \in Nat
      /\ TerminalOf(polled[d].kind) \in Terminal
      /\ polled[d].filled <= broker[d].filled /\ broker[d].filled \in Nat
  BY DEF SyncLiveExposure, IInv, TypeOK, BrokerOrder, PolledRow, PolledInv, TerminalOf, Terminal
<1>3. polled[d].filled \in 0..(SizeOf[d] + 1)
  <2>1. broker[d].filled <= SizeOf[d] /\ SizeOf[d] \in Nat
    BY DecisionTerms DEF AccountInv, BrokerAccount
  <2> QED
    BY <1>2, <2>1
<1>4. polled[d].price \in PolledPrice
  <2>1. LimitOf[d] \in Nat /\ polled[d].price <= LimitOf[d]
    BY DecisionTerms DEF CallerInv, PriceInv
  <2>2. polled[d].price \in NoPrice..LimitOf[d]
    BY <1>2, <2>1 DEF NoPrice
  <2> QED
    BY <2>2 DEF PolledPrice
<1>5. Tracker!Fill(d, ok)
  BY <1>1, <1>2, <1>3, <1>4, SameFillReport DEF Tracker!Fill, Tracker!IdKind,
     Tracker!Terminal, Terminal
<1>6. Remembers({})
  BY <1>1, <1>2, ReportRemembers DEF IInv, TypeOK
<1>7. \A e \in Decision : BeforeReservation(e)' => BeforeReservation(e)
  BY DEF SyncLiveExposure, BeforeReservation, bookVars, riskVars
<1> QED
  BY <1>5, <1>6, <1>7, CallKeepsHistory DEF Tracker!Next, CallerInv

\* The reservation of the current decision is its first.
LEMMA ReservationIsFirst ==
  ASSUME IInv, CallerInv, ReserveSubmission
  PROVE  Tracker!Next /\ HistoryInv'
<1>1. PICK ok \in BOOLEAN : ReserveOrderSubmission(cur, ok)
  BY FaultFlags DEF ReserveSubmission, Writes
<1>2. cur \in Decision /\ BookOK(mem) /\ BeforeReservation(cur) /\ ledger[cur].kind # "none"
  BY DEF IInv, TypeOK, ControlInv, Submitting, ReserveSubmission, BeforeReservation
<1>3. cur \notin mem.history
  BY <1>2 DEF CallerInv, HistoryInv
<1>4. Tracker!Reserve(cur, ok)
  BY <1>1, <1>2, <1>3, SameReservations DEF Tracker!Reserve
<1>5. Remembers({cur})
  BY <1>1, <1>2, CallsRemember
<1>6. \A e \in Decision : BeforeReservation(e)' => BeforeReservation(e) /\ e \notin {cur}
  BY <1>2 DEF ReserveSubmission, BeforeReservation, bookVars, riskVars, Goto, Finish
<1> QED
  BY <1>2, <1>4, <1>5, <1>6, CallKeepsHistory DEF Tracker!Next, CallerInv

\* The other calls.
LEMMA OtherCalls ==
  ASSUME IInv, CallerInv,
         \/ ReleaseOrder \/ ReleasePosition \/ FirstEvaluation \/ FinalEvaluation
         \/ BrokerAnswers \/ BrokerOutcomeUnknown
  PROVE  Tracker!Next /\ HistoryInv'
<1>0. cur \in Decision /\ BookOK(mem)
  BY DEF ReleaseOrder, ReleasePosition, FirstEvaluation, FinalEvaluation, BrokerAnswers,
         BrokerOutcomeUnknown, IInv, TypeOK, ControlInv, Submitting
<1>1. PICK ok \in BOOLEAN :
        \/ RemoveOpenOrder(cur, "broker", ok) \/ RemovePosition(KeyOf(cur), ok)
        \/ VerifyPersistence(ok)
        \/ ConfirmOpenOrder(cur, ok) \/ MarkOrderOutcomeUnknown(cur, ok)
  BY FaultFlags DEF ReleaseOrder, ReleasePosition, FirstEvaluation, FinalEvaluation, Evaluate,
     BrokerAnswers, BrokerOutcomeUnknown, Writes
<1>2. Remembers({})
  BY <1>0, <1>1, CallsRemember
<1>3. Tracker!Next
  <2>1. KeyOf(cur) \in Tracker!Key
    BY <1>0 DEF Tracker!Key, Tracker!KeyOf, KeyOf
  <2>2. "broker" \in Tracker!IdKind
    BY DEF Tracker!IdKind
  <2>3. \/ Tracker!RemoveOpenOrder(cur, "broker", ok) \/ Tracker!RemovePosition(KeyOf(cur), ok)
        \/ Tracker!VerifyPersistence(ok)
        \/ Tracker!ConfirmOpenOrder(cur, ok) \/ Tracker!MarkOrderOutcomeUnknown(cur, ok)
    BY <1>1, SameReservations, SameRemovals
  <2> QED
    BY <1>0, <2>1, <2>2, <2>3 DEF Tracker!Next
<1>4. \A e \in Decision : BeforeReservation(e)' => BeforeReservation(e) /\ e \notin {}
  BY DEF ReleaseOrder, ReleasePosition, FirstEvaluation, FinalEvaluation, Evaluate,
     BrokerAnswers, BrokerOutcomeUnknown, BeforeReservation, bookVars, riskVars, Goto, Finish
<1> QED
  BY <1>2, <1>3, <1>4, CallKeepsHistory DEF CallerInv

\* A step that leaves the tracker alone calls nothing.
LEMMA NoCall ==
  ASSUME IInv, HistoryInv,
         \/ BrokerStep \/ QuietStep \/ CreateOrder \/ UNCHANGED vars
  PROVE  UNCHANGED Tracker!trackerVars /\ HistoryInv'
<1>1. UNCHANGED <<mem, disk>>
  BY BrokerMoves, QuietControl DEF AccountMoves, CreateOrder, vars, trackerVars
<1>2. \A d \in Decision : BeforeReservation(d)' => BeforeReservation(d)
  <2>1. CASE QuietStep
    BY <2>1, QuietLedger, QuietControl DEF BeforeReservation, Preparing
  <2>2. CASE BrokerStep
    <3>1. UNCHANGED <<ledger, cur, pc>>
      BY <2>2 DEF BrokerStep, BrokerAccepts, BrokerNeverAccepts, BrokerFills, BrokerCancels,
         HourPasses, Midnight, MarketSettles, bookVars, riskVars, controlVars
    <3> QED
      BY <3>1 DEF BeforeReservation
  <2>3. CASE CreateOrder \/ UNCHANGED vars
    BY <2>3 DEF CreateOrder, vars, bookVars, riskVars, controlVars, Goto, BeforeReservation
  <2> QED
    BY <2>1, <2>2, <2>3
<1> QED
  BY <1>1, <1>2 DEF Tracker!trackerVars, HistoryInv

\* A restart of live trading is one of the tracker.
LEMMA RestartIsRestart ==
  ASSUME IInv, HistoryInv, Restart \/ RestartOnBrokenFile
  PROVE  Tracker!Next /\ HistoryInv'
<1>1. Tracker!Restart \/ Tracker!RestartOnBrokenFile
  BY SameLoad DEF Restart, RestartOnBrokenFile, Tracker!Restart, Tracker!RestartOnBrokenFile
<1>2. /\ mem'.history \subseteq disk.history /\ disk'.history = disk.history
      /\ UNCHANGED ledger /\ pc' = "idle"
  BY DEF Restart, RestartOnBrokenFile, ForgetControl, Load, EmptyBook, bookVars, riskVars, IInv,
         TypeOK, FileOK
<1> QED
  BY <1>1, <1>2 DEF Tracker!Next, HistoryInv, BeforeReservation

\* Every step of live trading is a call of the tracker, or none.
LEMMA StepIsCall ==
  ASSUME IInv, AccountInv, CallerInv, [Next]_vars
  PROVE  [Tracker!Next]_(Tracker!trackerVars) /\ CallerInv'
<1>1. CostInv' /\ PriceInv'
  BY PricesStay DEF CallerInv
<1>2. [Tracker!Next]_(Tracker!trackerVars) /\ HistoryInv'
  <2>1. \/ \E d \in Decision : SyncLiveExposure(d)
        \/ ReserveSubmission
        \/ ReleaseOrder \/ ReleasePosition \/ FirstEvaluation \/ FinalEvaluation
        \/ BrokerAnswers \/ BrokerOutcomeUnknown
        \/ BrokerStep \/ QuietStep \/ CreateOrder \/ UNCHANGED vars
        \/ Restart \/ RestartOnBrokenFile
    BY DEF Next, CycleStep, SubmitStep, QuietStep
  <2> QED
    BY <2>1, SyncIsReport, ReservationIsFirst, OtherCalls, NoCall, RestartIsRestart
       DEF CallerInv
<1> QED
  BY <1>1, <1>2 DEF CallerInv

\* Both begin with an empty book, which nobody has called.
LEMMA InitCaller == Init => Tracker!Init /\ CallerInv
<1> SUFFICES ASSUME Init PROVE Tracker!Init /\ CallerInv
  OBVIOUS
<1>1. Tracker!Init
  BY SameLoad DEF Init, Tracker!Init
<1>2. \A d \in Decision : LimitOf[d] \in Nat
  BY DecisionTerms
<1>3. CostInv /\ PriceInv
  BY <1>2 DEF Init, CostInv, PriceInv, NoOutcome, NoPrice
<1>4. HistoryInv
  BY DEF Init, HistoryInv, EmptyBook, Payload
<1> QED
  BY <1>1, <1>3, <1>4 DEF CallerInv

\* Live trading is one of the tracker's callers: it reserves no decision twice
\* and reports only fills an order can have, damaged files included.  What is
\* proved of the tracker under every caller holds of it in live trading.
THEOREM LiveImplementsTracker == Spec => ImplementsTracker
<1>1. Init => Tracker!Init /\ CallerInv
  BY InitCaller
<1>2. IInv /\ AccountInv /\ CallerInv /\ [Next]_vars
        => [Tracker!Next]_(Tracker!trackerVars) /\ CallerInv'
  BY StepIsCall
<1> QED
  BY <1>1, <1>2, Invariance, AccountInvariance, PTL DEF Spec, ImplementsTracker, Tracker!Spec

-----------------------------------------------------------------------------
(***************************************************************************)
(* What holds of the tracker under every caller                            *)
(***************************************************************************)

Caller == INSTANCE ExposureTrackerProofs WITH Witness <- PolledPrice

\* The constants of live trading are constants of the tracker.
LEMMA CallerConstants ==
  Caller!IsFiniteSet(Decision) /\ PolledPrice \subseteq Nat /\ FileCanBreak \in BOOLEAN
<1>1. Caller!IsFiniteSet(Decision)
  BY DecisionTerms DEF IsFiniteSet, Caller!IsFiniteSet
<1>2. PolledPrice \subseteq Nat /\ FileCanBreak \in BOOLEAN
  BY FaultFlags, DecisionTerms DEF PolledPrice, NoPrice
<1> QED
  BY <1>1, <1>2

\* The tracker that the proofs speak of is the one of the refinement.
LEMMA SameSteps == Tracker!Next <=> Caller!Next
BY Zenon DEF Caller!VerifyPersistence, Tracker!VerifyPersistence, Caller!Reserve,
   Tracker!Reserve, Caller!ReserveOrderSubmission, Tracker!ReserveOrderSubmission,
   Caller!ConfirmOpenOrder, Tracker!ConfirmOpenOrder, Caller!MarkOrderOutcomeUnknown,
   Tracker!MarkOrderOutcomeUnknown, Caller!Fill, Tracker!Fill, Caller!RecordCumulativeFill,
   Tracker!RecordCumulativeFill, Caller!RemoveOpenOrder, Tracker!RemoveOpenOrder,
   Caller!RemovePosition, Tracker!RemovePosition, Caller!ReserveMalformed,
   Tracker!ReserveMalformed, Caller!Restart, Tracker!Restart, Caller!RestartOnBrokenFile,
   Tracker!RestartOnBrokenFile, Caller!OperatorRepair, Tracker!OperatorRepair,
   Caller!Persist, Tracker!Persist, Caller!Payload, Tracker!Payload, Caller!LatchError,
   Tracker!LatchError, Caller!Healthy, Tracker!Healthy, Caller!Present, Tracker!Present,
   Caller!Reserved, Tracker!Reserved, Caller!NewOrder, Tracker!NewOrder, Caller!NoOrder,
   Tracker!NoOrder, Caller!NoPosition, Tracker!NoPosition, Caller!Matches, Tracker!Matches,
   Caller!FillConsistent, Tracker!FillConsistent, Caller!CumulativeCost,
   Tracker!CumulativeCost, Caller!Filled, Tracker!Filled, Caller!FilledOrder,
   Tracker!FilledOrder, Caller!Grown, Tracker!Grown, Caller!CeilDiv, Tracker!CeilDiv,
   Caller!KeyOf, Tracker!KeyOf, Caller!Key, Tracker!Key, Caller!IdKind, Tracker!IdKind,
   Caller!Terminal, Tracker!Terminal, Caller!Load, Tracker!Load, Caller!EmptyBook,
   Tracker!EmptyBook, Caller!trackerVars, Tracker!trackerVars, Caller!Next, Tracker!Next

LEMMA SameTracker == ImplementsTracker => Caller!Spec
<1>1. Tracker!Init => Caller!Init
  BY DEF Caller!Init, Tracker!Init, Caller!EmptyBook, Tracker!EmptyBook, Caller!Key,
         Tracker!Key, Caller!KeyOf, Tracker!KeyOf, Caller!NoOrder, Tracker!NoOrder,
         Caller!NoPosition, Tracker!NoPosition, Caller!Payload, Tracker!Payload
<1>2. [Tracker!Next]_(Tracker!trackerVars) => [Caller!Next]_(Caller!trackerVars)
  BY SameSteps DEF Tracker!trackerVars, Caller!trackerVars
<1> QED
  BY <1>1, <1>2, PTL DEF ImplementsTracker, Tracker!Spec, Caller!Spec

LEMMA SamePromises ==
  /\ Caller!HealthyIsDurable => Tracker!HealthyIsDurable
  /\ Caller!FillMovesReservation => Tracker!FillMovesReservation
  /\ Caller!FillsAddTheirCost => Tracker!FillsAddTheirCost
<1>1. Caller!HealthyIsDurable => Tracker!HealthyIsDurable
  BY DEF Caller!HealthyIsDurable, Tracker!HealthyIsDurable, Caller!Healthy, Tracker!Healthy,
         Caller!Payload, Tracker!Payload
<1>2. Caller!FillMovesReservation => Tracker!FillMovesReservation
  BY DEF Caller!FillMovesReservation, Tracker!FillMovesReservation, Caller!Key, Tracker!Key,
         Caller!KeyOf, Tracker!KeyOf, Caller!GrowsFromReservation,
         Tracker!GrowsFromReservation, Caller!Remaining, Tracker!Remaining, Caller!Present,
         Tracker!Present, Caller!Reload, Tracker!Reload, Caller!Load, Tracker!Load,
         Caller!EmptyBook, Tracker!EmptyBook, Caller!NoOrder, Tracker!NoOrder,
         Caller!NoPosition, Tracker!NoPosition, Caller!trackerVars, Tracker!trackerVars
<1>3. Caller!FillsAddTheirCost => Tracker!FillsAddTheirCost
  BY DEF Caller!FillsAddTheirCost, Tracker!FillsAddTheirCost, Caller!AddsItsCost,
         Tracker!AddsItsCost, Caller!PositionCost, Tracker!PositionCost, Caller!Present,
         Tracker!Present, Caller!KeyOf, Tracker!KeyOf, Caller!trackerVars,
         Tracker!trackerVars
<1> QED
  BY <1>1, <1>2, <1>3

\* The tracker keeps its promises in live trading: a healthy book is in the
\* file, a position only grows by what a reservation gives up, and a fill adds
\* its whole cost.
THEOREM LiveKeepsPromises ==
  Spec => /\ []Tracker!HealthyIsDurable
          /\ Tracker!FillMovesReservation
          /\ Tracker!FillsAddTheirCost
<1>1. Caller!Spec => []Caller!HealthyIsDurable
  BY DecisionTerms, CallerConstants, Caller!HealthyDurable
<1>2. Caller!Spec => Caller!FillMovesReservation
  BY DecisionTerms, CallerConstants, Caller!FillsMoveReservations
<1>3. Caller!Spec => Caller!FillsAddTheirCost
  BY DecisionTerms, CallerConstants, Caller!FillsAddCost
<1> QED
  BY <1>1, <1>2, <1>3, LiveImplementsTracker, SameTracker, SamePromises, PTL

=============================================================================
