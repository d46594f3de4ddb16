--------------------------- MODULE LiveSessionProofs ---------------------------
(***************************************************************************)
(* What the KILL file and a flat receipt are worth, for any number of      *)
(* trading processes, decisions and commands.                              *)
(***************************************************************************)
EXTENDS LiveSession, FiniteSetTheorems, TLAPS

-----------------------------------------------------------------------------
(***************************************************************************)
(* The inductive invariant                                                 *)
(***************************************************************************)

\* Between gate and broker a trader has one decision, and it is its own.
ControlInv ==
  /\ \A t \in Trader : pc[t] \in {"gate", "submit"} => cur[t] \in Decision /\ life[cur[t]] = "new"
  /\ \A t, u \in Trader : t # u /\ cur[t] # None => cur[t] # cur[u]
  /\ \A d \in resting : life[d] = "open"

\* An order sent under KILL is the one its trader had past the gate when KILL
\* came.
KillInv ==
  /\ ~kill => \A t \in Trader : afterKill[t] = {}
  /\ \A t \in Trader : pc[t] = "submit" => afterKill[t] = {}
  /\ \A t \in Trader : afterKill[t] = {} \/ \E d \in Decision : afterKill[t] = {d}

\* Under KILL, with no order on its way, no order appears any more.
Calm ==
  /\ kill
  /\ \A t \in Trader : pc[t] # "submit"
  /\ \A d \in Decision : life[d] = "open" => d \in resting

ReceiptInv ==
  /\ calm => recon = "positions" /\ Calm /\ resting \subseteq listed
  /\ receipt = "flat" /\ quiet =>
       Calm /\ held = {} /\ \A d \in Decision : life[d] # "open"

\* TypeOK in parts that one prover each can keep.
FlagsTyped ==
  /\ session \in BOOLEAN /\ kill \in BOOLEAN
  /\ stopping \in BOOLEAN /\ calm \in BOOLEAN /\ quiet \in BOOLEAN

BookTyped ==
  /\ life \in [Decision -> {"new", "open", "over"}]
  /\ resting \subseteq Decision
  /\ held \subseteq Decision /\ listed \subseteq Decision

TradersTyped ==
  /\ pc \in [Trader -> {"idle", "cycle", "gate", "submit", "wait"}]
  /\ cur \in [Trader -> Decision \cup {None}]
  /\ alive \in [Trader -> BOOLEAN]
  /\ afterKill \in [Trader -> SUBSET Decision]

PlacesTyped ==
  /\ starting \in {"no", "balance", "clear"}
  /\ recon \in {"no", "cancel", "positions"}
  /\ receipt \in {"none", "pending", "open", "flat"}
  /\ commands \in 0..MaxCommands

Typed == FlagsTyped /\ BookTyped /\ TradersTyped /\ PlacesTyped

LEMMA TypedParts == TypeOK <=> Typed
BY DEF TypeOK, Typed, FlagsTyped, BookTyped, TradersTyped, PlacesTyped

IInv == Typed /\ ControlInv /\ KillInv /\ ReceiptInv

-----------------------------------------------------------------------------
(***************************************************************************)
(* Its preservation                                                        *)
(***************************************************************************)

\* Before the first command there is nothing to keep.
LEMMA InitIInv == Init => IInv
<1> SUFFICES ASSUME Init PROVE IInv
  OBVIOUS
<1> USE SessionConstants DEF Init
<1>1. FlagsTyped
  BY DEF FlagsTyped
<1>2. BookTyped /\ TradersTyped /\ PlacesTyped
  BY DEF BookTyped, TradersTyped, PlacesTyped
<1>3. ControlInv /\ KillInv /\ ReceiptInv
  BY DEF ControlInv, KillInv, ReceiptInv
<1> QED
  BY <1>1, <1>2, <1>3 DEF IInv, Typed

\* The broker touches no file, and fills only what rests with it.
LEMMA BrokerKeeps ==
  ASSUME IInv, BrokerStep
  PROVE  IInv'
<1> USE DEF IInv, Typed, EndOrders, traderVars, controlVars, startVars, reconVars,
            historyVars
<1>1. FlagsTyped' /\ PlacesTyped' /\ TradersTyped'
  <2>1. UNCHANGED <<traderVars, controlVars, historyVars>>
    BY DEF BrokerStep, BrokerAccepts, OrderEnds, BrokerFills, MarketSettles
  <2>2. FlagsTyped'
    BY <2>1 DEF FlagsTyped
  <2>3. PlacesTyped'
    BY <2>1 DEF PlacesTyped
  <2>4. TradersTyped'
    BY <2>1 DEF TradersTyped
  <2> QED
    BY <2>2, <2>3, <2>4
<1> USE DEF BookTyped, ControlInv, KillInv, ReceiptInv, Calm
<1>2. ASSUME NEW d \in Decision, BrokerAccepts(d)
      PROVE  BookTyped' /\ ControlInv' /\ KillInv' /\ ReceiptInv'
  BY <1>2 DEF BrokerAccepts
<1>3. ASSUME NEW d \in Decision, OrderEnds(d)
      PROVE  BookTyped' /\ ControlInv' /\ KillInv' /\ ReceiptInv'
  BY <1>3 DEF OrderEnds
<1>4. ASSUME NEW d \in Decision, BrokerFills(d)
      PROVE  BookTyped' /\ ControlInv' /\ KillInv' /\ ReceiptInv'
  BY <1>4 DEF BrokerFills
<1>5. ASSUME NEW d \in Decision, MarketSettles(d)
      PROVE  BookTyped' /\ ControlInv' /\ KillInv' /\ ReceiptInv'
  BY <1>5 DEF MarketSettles
<1> QED
  BY <1>1, <1>2, <1>3, <1>4, <1>5 DEF BrokerStep

\* A trader passes the gate only without KILL.
LEMMA TradeKeeps ==
  ASSUME IInv, NEW t \in Trader, Trade(t)
  PROVE  IInv'
<1> USE SessionConstants DEF IInv, Typed, Goto, Moves, brokerVars, controlVars, startVars,
            reconVars, historyVars
<1>1. FlagsTyped' /\ PlacesTyped'
  <2>1. UNCHANGED <<controlVars, quiet>>
    BY DEF Trade, StartCycle, LoopEnds, PassGate, Block, CreateOrder, EndWait, EndCycle, Decide
  <2>2. FlagsTyped'
    BY <2>1 DEF FlagsTyped
  <2>3. PlacesTyped'
    BY <2>1 DEF PlacesTyped
  <2> QED
    BY <2>2, <2>3
<1> USE DEF BookTyped, TradersTyped, ControlInv, KillInv, ReceiptInv, Calm
<1>2. CASE StartCycle(t) \/ EndCycle(t)
  BY <1>1, <1>2 DEF StartCycle, EndCycle
<1>3. CASE LoopEnds(t)
  BY <1>1, <1>3 DEF LoopEnds
<1>4. CASE PassGate(t)
  BY <1>1, <1>4 DEF PassGate, MayPass
<1>5. CASE Block(t)
  BY <1>1, <1>5 DEF Block, EndOrders
<1>6. CASE CreateOrder(t)
  BY <1>1, <1>6 DEF CreateOrder
<1>7. CASE EndWait(t)
  BY <1>1, <1>7 DEF EndWait
<1>8. ASSUME NEW d \in Decision, Decide(t, d) PROVE IInv'
  BY <1>1, <1>8 DEF Decide
<1> QED
  BY <1>1, <1>2, <1>3, <1>4, <1>5, <1>6, <1>7, <1>8 DEF Trade

\* The commands that write the two files.
LEMMA OperateKeeps ==
  ASSUME IInv, Operate
  PROVE  IInv'
<1> USE SessionConstants DEF IInv, Typed, Command, ordersAndTraders, brokerVars, traderVars,
            startVars, reconVars, historyVars
<1>1. UNCHANGED ordersAndTraders
  BY DEF Operate, BeginStart, AbandonStart, WriteSession, ClearKill, SessionExpires, WriteKill,
         FinishStop
<1>2. BookTyped' /\ TradersTyped'
  <2>1. UNCHANGED listed /\ afterKill' \in {afterKill, [t \in Trader |-> {}]}
    BY DEF Operate, BeginStart, AbandonStart, WriteSession, ClearKill, SessionExpires, WriteKill,
           FinishStop
  <2> QED
    BY <1>1, <2>1 DEF BookTyped, TradersTyped
<1>3. FlagsTyped'
  BY DEF FlagsTyped, Operate, BeginStart, AbandonStart, WriteSession, ClearKill, SessionExpires,
         WriteKill, FinishStop
<1>4. PlacesTyped'
  BY DEF PlacesTyped, Operate, BeginStart, AbandonStart, WriteSession, ClearKill, SessionExpires,
         WriteKill, FinishStop
<1>5. CASE BeginStart \/ AbandonStart \/ WriteSession \/ SessionExpires
  <2>1. UNCHANGED <<brokerVars, traderVars, kill, reconVars, historyVars>>
    BY <1>5 DEF BeginStart, AbandonStart, WriteSession, SessionExpires
  <2>2. ControlInv' /\ KillInv' /\ ReceiptInv'
    BY <2>1 DEF ControlInv, KillInv, ReceiptInv, Calm
  <2> QED
    BY <1>2, <1>3, <1>4, <2>2
<1>6. CASE WriteKill
  <2>1. ControlInv' /\ KillInv' /\ ReceiptInv'
    BY <1>6 DEF WriteKill, ControlInv, KillInv, ReceiptInv, Calm
  <2> QED
    BY <1>2, <1>3, <1>4, <2>1
<1>7. CASE ClearKill
  <2>1. ControlInv' /\ KillInv' /\ ReceiptInv'
    BY <1>7 DEF ClearKill, ControlInv, KillInv, ReceiptInv, Calm
  <2> QED
    BY <1>2, <1>3, <1>4, <2>1
<1>8. CASE FinishStop
  <2>1. ControlInv' /\ KillInv' /\ ReceiptInv'
    BY <1>8 DEF FinishStop, ControlInv, KillInv, ReceiptInv, Calm
  <2> QED
    BY <1>2, <1>3, <1>4, <2>1
<1> QED
  BY <1>5, <1>6, <1>7, <1>8 DEF Operate

\* A reconciliation cancels, and opens nothing.
LEMMA ReconcileKeeps ==
  ASSUME IInv, Reconcile
  PROVE  IInv'
<1> USE SessionConstants DEF IInv, Typed, Command, EndOrders, OpenAfter, FailedReceipt,
            ordersAndTraders, brokerVars, traderVars, startVars, historyVars
<1>1. UNCHANGED <<traderVars, startVars, kill, stopping, afterKill, held>>
  BY DEF Reconcile, ListOpenOrders, ListAgain, FinishReconciliation, RefuseReconciliation,
         CancelListed
<1>2. TradersTyped'
  BY <1>1 DEF TradersTyped
<1>3. FlagsTyped'
  <2>1. calm' \in BOOLEAN /\ quiet' \in BOOLEAN
    BY DEF FlagsTyped, Reconcile, ListOpenOrders, ListAgain, FinishReconciliation,
           RefuseReconciliation, CancelListed
  <2> QED
    BY <1>1, <2>1 DEF FlagsTyped
<1>4. PlacesTyped'
  BY <1>1 DEF PlacesTyped, Reconcile, ListOpenOrders, ListAgain, FinishReconciliation,
              RefuseReconciliation, CancelListed
<1>5. BookTyped'
  BY <1>1 DEF BookTyped, Reconcile, ListOpenOrders, ListAgain, FinishReconciliation,
              RefuseReconciliation, CancelListed
<1> USE DEF ControlInv, KillInv, ReceiptInv, Calm
<1>6. CASE ListOpenOrders
  <2>1. ControlInv' /\ KillInv' /\ ReceiptInv'
    BY <1>6 DEF ListOpenOrders
  <2> QED
    BY <1>2, <1>3, <1>4, <1>5, <2>1
<1>7. CASE ListAgain
  <2>1. ControlInv' /\ KillInv' /\ ReceiptInv'
    BY <1>7 DEF ListAgain, InFlight
  <2> QED
    BY <1>2, <1>3, <1>4, <1>5, <2>1
<1>8. CASE FinishReconciliation
  <2>1. ControlInv' /\ KillInv' /\ ReceiptInv'
    BY <1>8 DEF FinishReconciliation
  <2> QED
    BY <1>2, <1>3, <1>4, <1>5, <2>1
<1>9. ASSUME NEW d \in Decision, CancelListed(d)
      PROVE  IInv'
  <2>1. ControlInv' /\ KillInv' /\ ReceiptInv'
    BY <1>9 DEF CancelListed, BookTyped
  <2> QED
    BY <1>2, <1>3, <1>4, <1>5, <2>1
<1>10. CASE RefuseReconciliation
  <2>1. ControlInv' /\ KillInv' /\ ReceiptInv'
    BY <1>10 DEF RefuseReconciliation
  <2> QED
    BY <1>2, <1>3, <1>4, <1>5, <2>1
<1> QED
  BY <1>6, <1>7, <1>8, <1>9, <1>10 DEF Reconcile

\* Launch and death of a process.
LEMMA ProcessKeeps ==
  ASSUME IInv, NEW t \in Trader, Launch(t) \/ Die(t)
  PROVE  IInv'
<1> USE SessionConstants DEF IInv, Typed, EndOrders, brokerVars, controlVars, startVars,
            reconVars, historyVars
<1>1. UNCHANGED <<controlVars, historyVars>>
  BY DEF Launch, Die
<1>2. FlagsTyped' /\ PlacesTyped'
  <2>1. FlagsTyped'
    BY <1>1 DEF FlagsTyped
  <2>2. PlacesTyped'
    BY <1>1 DEF PlacesTyped
  <2> QED
    BY <2>1, <2>2
<1> USE DEF BookTyped, TradersTyped, ControlInv, KillInv, ReceiptInv, Calm
<1>3. CASE Launch(t)
  BY <1>2, <1>3 DEF Launch
<1>4. CASE Die(t)
  BY <1>2, <1>4 DEF Die
<1> QED
  BY <1>3, <1>4

\* The invariant is inductive.
LEMMA NextIInv == IInv /\ [Next]_vars => IInv'
<1>1. ASSUME IInv, UNCHANGED vars PROVE IInv'
  <2> USE <1>1 DEF vars, IInv, Typed, brokerVars, traderVars, startVars, reconVars, historyVars
  <2>1. FlagsTyped'
    BY DEF FlagsTyped
  <2>2. BookTyped' /\ TradersTyped' /\ PlacesTyped'
    BY DEF BookTyped, TradersTyped, PlacesTyped
  <2>3. ControlInv' /\ KillInv' /\ ReceiptInv'
    BY DEF ControlInv, KillInv, ReceiptInv, Calm
  <2> QED
    BY <2>1, <2>2, <2>3
<1> QED
  BY <1>1, BrokerKeeps, TradeKeeps, OperateKeeps, ReconcileKeeps, ProcessKeeps DEF Next

\* Every reachable state has it.
LEMMA Invariance == Spec => []IInv
BY InitIInv, NextIInv, PTL DEF Spec

-----------------------------------------------------------------------------
(***************************************************************************)
(* The theorems                                                            *)
(***************************************************************************)

\* Type correctness of the session's files, commands and orders.
THEOREM SessionTypeCorrect == Spec => []TypeOK
<1>1. IInv => TypeOK
  BY TypedParts DEF IInv
<1> QED
  BY <1>1, Invariance, PTL

\* However many processes trade, and however the operator's commands fall
\* between their steps, each of them sends one order at most while KILL stands.
THEOREM AtMostOneEachAfterKill == Spec => []OneOrderPerTraderAfterKill
<1>1. IInv => OneOrderPerTraderAfterKill
  <2> SUFFICES ASSUME IInv, NEW t \in Trader PROVE Cardinality(afterKill[t]) <= 1
    BY DEF OneOrderPerTraderAfterKill
  <2>1. CASE afterKill[t] = {}
    BY <2>1, FS_EmptySet
  <2>2. ASSUME NEW d \in Decision, afterKill[t] = {d} PROVE Cardinality(afterKill[t]) <= 1
    BY <2>2, FS_Singleton
  <2> QED
    BY <2>1, <2>2 DEF IInv, KillInv
<1> QED
  BY <1>1, Invariance, PTL

\* A flat receipt written with nothing on its way stays true while KILL stands.
THEOREM FlatReceiptHolds == Spec => []FlatWhileKilled
<1>1. IInv => FlatWhileKilled
  BY DEF IInv, ReceiptInv, FlatWhileKilled
<1> QED
  BY <1>1, Invariance, PTL

=============================================================================
