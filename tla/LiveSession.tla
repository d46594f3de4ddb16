------------------------------ MODULE LiveSession ------------------------------
(***************************************************************************)
(* The operator's control over live trading: the session file and the KILL *)
(* file of autonomy/session.py, the loop of scripts/run_dummy_autonomous,  *)
(* the gates of the cycle and of the executor, and the reconciliation of   *)
(* autonomy/kill_reconciliation.py.                                        *)
(*                                                                         *)
(* start, once, stop and reconcile are commands of processes of their own,  *)
(* which share the two files and the broker, and each of their durable     *)
(* writes is a step of its own.  Every start becomes a trading process, and*)
(* nothing keeps a second one out.  The books and ledgers of LiveExecution *)
(* are left out: no control looks at them.                                 *)
(***************************************************************************)
EXTENDS Naturals, FiniteSets

CONSTANTS
  Decision,
  Trader,       \* bound: the processes that trade, started or not
  None,
  MaxCommands   \* bound: how many commands the operator gives

ASSUME SessionConstants == None \notin Decision /\ MaxCommands \in Nat

VARIABLES
  life,       \* decision -> "new", "open" (sent, and not at its end), "over"
  resting,    \* open orders the broker has accepted
  held,       \* decisions with filled contracts in an unsettled market
  (* functions over the traders *)
  pc, cur,    \* "idle", "cycle", "gate", "submit", "wait"
  alive,      \* has it been started and not yet ended?
  session,    \* does load_session find a valid LIVE session?
  kill,       \* does the KILL file exist?
  starting,   \* where a start_session is: "no", "balance", "clear"
  stopping,   \* has a stop_session written KILL and not yet returned?
  recon,      \* where a reconciliation is: "no", "cancel", "positions"
  listed,     \* open orders: still to be cancelled, then found again
  receipt,    \* kill_reconciliation.json: "none", "pending", "open", "flat"
  commands,   \* commands given
  (* history *)
  afterKill,  \* trader -> decisions it has sent since KILL was written
  calm,       \* nothing was on its way when a reconciliation listed again
  quiet       \* the same of the last receipt, and KILL stands since

brokerVars  == <<life, resting, held>>
traderVars  == <<pc, cur, alive>>
startVars   == <<starting, session>>
reconVars   == <<recon, listed, receipt, calm>>
historyVars == <<afterKill, quiet>>
vars == <<brokerVars, traderVars, startVars, kill, stopping, reconVars,
          commands, historyVars>>

controlVars == <<startVars, kill, stopping, reconVars, commands>>

\* Orders come to their end, sent or not.
EndOrders(ended) ==
  /\ life'    = [d \in Decision |-> IF d \in ended THEN "over" ELSE life[d]]
  /\ resting' = resting \ ended

-----------------------------------------------------------------------------
(***************************************************************************)
(* The broker and the venue                                                *)
(***************************************************************************)

BrokerAccepts(d) ==
  /\ life[d] = "open" /\ d \notin resting
  /\ resting' = resting \cup {d}
  /\ UNCHANGED <<life, held, traderVars, controlVars, historyVars>>

\* A request is lost or refused, or an order is cancelled or expires.
OrderEnds(d) ==
  /\ life[d] = "open"
  /\ EndOrders({d})
  /\ UNCHANGED <<held, traderVars, controlVars, historyVars>>

BrokerFills(d) ==
  /\ d \in resting
  /\ held' = held \cup {d}
  /\ \E done \in {{}, {d}} : EndOrders(done)
  /\ UNCHANGED <<traderVars, controlVars, historyVars>>

MarketSettles(d) ==
  /\ d \in resting \cup held
  /\ held' = held \ {d}
  /\ EndOrders({d} \cap resting)
  /\ UNCHANGED <<traderVars, controlVars, historyVars>>

-----------------------------------------------------------------------------
(***************************************************************************)
(* The trading processes                                                   *)
(***************************************************************************)

Goto(t, p) == alive[t] /\ pc' = [pc EXCEPT ![t] = p]

\* A trader that decides nothing, and leaves everything else alone.
Moves(t, p) ==
  /\ Goto(t, p)
  /\ UNCHANGED <<brokerVars, cur, alive, controlVars, historyVars>>

\* Faulty variant: the cycle leaves KILL to the executor.
CycleUnderKill(t) == pc[t] = "idle" /\ Moves(t, "cycle")

\* run_cycle looks at KILL before anything else.
StartCycle(t) == pc[t] = "idle" /\ ~kill /\ Moves(t, "cycle")

\* HALTED_KILL_SWITCH breaks run_loop, and so does a session that is over.
LoopEnds(t) ==
  /\ alive[t] /\ pc[t] = "idle"
  /\ kill \/ ~session
  /\ alive' = [alive EXCEPT ![t] = FALSE]
  /\ UNCHANGED <<brokerVars, pc, cur, controlVars, historyVars>>

\* A decision has a fresh id.
Decide(t, d) ==
  /\ pc[t] = "cycle" /\ Goto(t, "gate")
  /\ life[d] = "new" /\ \A u \in Trader : cur[u] # d
  /\ cur' = [cur EXCEPT ![t] = d]
  /\ UNCHANGED <<brokerVars, alive, controlVars, historyVars>>

\* Faulty variant: a session is authority enough.
SessionIsEnough == session

\* "re-validate authority + kill switch at the moment of submit".
MayPass == session /\ ~kill

PassGate(t) == pc[t] = "gate" /\ MayPass /\ Moves(t, "submit")

\* The executor's gate, an evaluation or the reservation refuses.
Block(t) ==
  /\ pc[t] \in {"gate", "submit"} /\ Goto(t, "cycle")
  /\ EndOrders({cur[t]})
  /\ cur' = [cur EXCEPT ![t] = None]
  /\ UNCHANGED <<held, alive, controlVars, historyVars>>

\* After the gate nothing looks at the session or at KILL again.
CreateOrder(t) ==
  /\ pc[t] = "submit" /\ Goto(t, "wait")
  /\ life' = [life EXCEPT ![cur[t]] = "open"]
  /\ afterKill' = [afterKill EXCEPT ![t] = IF kill THEN @ \cup {cur[t]} ELSE @]
  /\ UNCHANGED <<resting, held, cur, alive, controlVars, quiet>>

\* The broker's answer, or none in time.
EndWait(t) ==
  /\ pc[t] = "wait" /\ Goto(t, "cycle")
  /\ cur' = [cur EXCEPT ![t] = None]
  /\ UNCHANGED <<brokerVars, alive, controlVars, historyVars>>

EndCycle(t) == pc[t] = "cycle" /\ Moves(t, "idle")

\* A start or once builds its brain, whoever else trades.
Launch(t) ==
  /\ ~alive[t]
  /\ alive' = [alive EXCEPT ![t] = TRUE]
  /\ UNCHANGED <<brokerVars, pc, cur, controlVars, historyVars>>

\* A decision that dies between its record and its sending is not taken up
\* again; once ends this way after its cycle.
Die(t) ==
  /\ alive[t]
  /\ alive' = [alive EXCEPT ![t] = FALSE]
  /\ EndOrders({d \in Decision : d = cur[t] /\ life[d] = "new"})
  /\ pc'  = [pc EXCEPT ![t] = "idle"]
  /\ cur' = [cur EXCEPT ![t] = None]
  /\ UNCHANGED <<held, controlVars, historyVars>>

-----------------------------------------------------------------------------
(***************************************************************************)
(* start_session                                                           *)
(***************************************************************************)

Command == commands < MaxCommands /\ commands' = commands + 1

ordersAndTraders == <<brokerVars, traderVars>>

\* The acknowledgement and the authority contracts pass; the balance is read.
BeginStart ==
  /\ starting = "no"
  /\ Command
  /\ starting' = "balance"
  /\ UNCHANGED <<ordersAndTraders, session, kill, stopping, reconVars, historyVars>>

\* The balance is refused, or the command dies before or after its write.
AbandonStart ==
  /\ starting # "no"
  /\ starting' = "no"
  /\ UNCHANGED <<ordersAndTraders, session, kill, stopping, reconVars, commands,
                 historyVars>>

WriteSession ==
  /\ starting = "balance"
  /\ starting' = "clear"
  /\ session' = TRUE
  /\ UNCHANGED <<ordersAndTraders, kill, stopping, reconVars, commands, historyVars>>

\* It removes whatever KILL there is, also one written since it began.
ClearKill ==
  /\ starting = "clear"
  /\ starting' = "no"
  /\ kill' = FALSE
  /\ afterKill' = [t \in Trader |-> {}] /\ calm' = FALSE /\ quiet' = FALSE
  /\ UNCHANGED <<ordersAndTraders, session, stopping, recon, listed, receipt, commands>>

SessionExpires ==
  /\ session
  /\ session' = FALSE
  /\ UNCHANGED <<ordersAndTraders, starting, kill, stopping, reconVars, commands,
                 historyVars>>

-----------------------------------------------------------------------------
(***************************************************************************)
(* stop_session                                                            *)
(***************************************************************************)

WriteKill ==
  /\ ~stopping
  /\ Command
  /\ kill' = TRUE
  /\ stopping' = TRUE
  /\ UNCHANGED <<ordersAndTraders, startVars, reconVars, historyVars>>

\* The session is unlinked and the receipt queued; the receipt's write may
\* fail, and the command may die before either.
FinishStop ==
  /\ stopping
  /\ stopping' = FALSE
  /\ \/ session' = FALSE /\ receipt' \in {"pending", receipt}
     \/ UNCHANGED <<session, receipt>>
  /\ UNCHANGED <<ordersAndTraders, starting, kill, recon, listed, calm, commands,
                 historyVars>>

-----------------------------------------------------------------------------
(***************************************************************************)
(* execute_kill_reconciliation                                             *)
(***************************************************************************)

\* A submission that may still reach the broker.
InFlight == \/ \E d \in Decision : life[d] = "open" /\ d \notin resting
            \/ \E t \in Trader : pc[t] = "submit"

ListOpenOrders ==
  /\ recon = "no"
  /\ kill
  /\ Command
  /\ recon' = "cancel"
  /\ listed' = resting
  /\ UNCHANGED <<ordersAndTraders, startVars, kill, stopping, receipt, calm, historyVars>>

\* The broker cancels, or refuses, or no longer has the order.
CancelListed(d) ==
  /\ recon = "cancel"
  /\ d \in listed
  /\ listed' = listed \ {d}
  /\ \E done \in {{}, {d} \cap resting} : EndOrders(done)
  /\ UNCHANGED <<held, traderVars, startVars, kill, stopping, recon,
                 receipt, calm, commands, historyVars>>

\* Faulty variant: the cancellations are taken for a flat book.
NoneOpenAfter == {}

OpenAfter == resting

ListAgain ==
  /\ recon = "cancel"
  /\ listed = {}
  /\ recon' = "positions"
  /\ listed' = OpenAfter
  /\ calm' = (kill /\ ~InFlight)
  /\ UNCHANGED <<ordersAndTraders, startVars, kill, stopping, receipt, commands,
                 historyVars>>

\* Faulty variant: a failed reconciliation keeps the status it has in the log.
UntranslatedFailure == "failed"

\* Whatever the status, flat_book_observed is false in it.
FailedReceipt == "open"

\* The receipt is written; any read may have raised before.
FinishReconciliation ==
  /\ recon # "no"
  /\ recon' = "no"
  /\ listed' = {}
  /\ \/ recon = "positions" /\ listed \cup held = {} /\ receipt' = "flat"
     \/ receipt' = FailedReceipt
  /\ calm' = FALSE
  /\ quiet' = calm
  /\ UNCHANGED <<ordersAndTraders, startVars, kill, stopping, commands, afterKill>>

\* Without KILL or without authority to cancel, only a receipt is written.
RefuseReconciliation ==
  /\ Command
  /\ receipt' = FailedReceipt
  /\ quiet' = FALSE
  /\ UNCHANGED <<ordersAndTraders, startVars, kill, stopping, recon, listed, calm,
                 afterKill>>

-----------------------------------------------------------------------------
\* Nobody trades yet; a session or a KILL file may be left from before.
Init ==
  /\ life = [d \in Decision |-> "new"] /\ resting = {} /\ held = {}
  /\ pc = [t \in Trader |-> "idle"] /\ cur = [t \in Trader |-> None]
  /\ alive = [t \in Trader |-> FALSE]
  /\ session \in BOOLEAN /\ kill \in BOOLEAN
  /\ starting = "no" /\ stopping = FALSE
  /\ recon = "no" /\ listed = {} /\ receipt = "none" /\ calm = FALSE
  /\ commands = 0
  /\ afterKill = [t \in Trader |-> {}] /\ quiet = FALSE

BrokerStep ==
  \E d \in Decision : \/ BrokerAccepts(d) \/ OrderEnds(d)
                      \/ BrokerFills(d) \/ MarketSettles(d)

Trade(t) ==
  \/ StartCycle(t) \/ LoopEnds(t) \/ PassGate(t) \/ Block(t) \/ CreateOrder(t)
  \/ EndWait(t) \/ EndCycle(t)
  \/ \E d \in Decision : Decide(t, d)

Operate ==
  \/ BeginStart \/ AbandonStart \/ WriteSession \/ ClearKill \/ SessionExpires
  \/ WriteKill \/ FinishStop

Reconcile ==
  \/ ListOpenOrders \/ ListAgain \/ FinishReconciliation \/ RefuseReconciliation
  \/ \E d \in Decision : CancelListed(d)

Next == \/ BrokerStep \/ Operate \/ Reconcile
        \/ \E t \in Trader : Trade(t) \/ Launch(t) \/ Die(t)

Spec == Init /\ [][Next]_vars

\* A trading process is scheduled as long as it lives.
FairSpec == Spec /\ \A t \in Trader : WF_vars(Trade(t))

-----------------------------------------------------------------------------
(***************************************************************************)
(* Properties                                                              *)
(***************************************************************************)

TypeOK ==
  /\ life \in [Decision -> {"new", "open", "over"}]
  /\ resting \subseteq Decision
  /\ held \subseteq Decision /\ listed \subseteq Decision
  /\ pc \in [Trader -> {"idle", "cycle", "gate", "submit", "wait"}]
  /\ cur \in [Trader -> Decision \cup {None}]
  /\ alive \in [Trader -> BOOLEAN]
  /\ afterKill \in [Trader -> SUBSET Decision]
  /\ session \in BOOLEAN /\ kill \in BOOLEAN
  /\ stopping \in BOOLEAN /\ calm \in BOOLEAN /\ quiet \in BOOLEAN
  /\ starting \in {"no", "balance", "clear"}
  /\ recon \in {"no", "cancel", "positions"}
  /\ receipt \in {"none", "pending", "open", "flat"}
  /\ commands \in 0..MaxCommands

\* KILL does not recall an order that has passed the executor's gate, and
\* nothing looks at it after the gate; but a process has only one decision
\* between gate and broker at a time and begins no cycle under KILL, so that
\* each sends one order at most while KILL stands, however often it restarts.
OneOrderPerTraderAfterKill == \A t \in Trader : Cardinality(afterKill[t]) <= 1

\* kill_reconciliation.py:142 "never equates successful cancellation with
\* flat exposure": a flat receipt is true, and stays true while KILL stands,
\* if no submission was on its way when the orders were listed again.
FlatWhileKilled ==
  receipt = "flat" /\ quiet => held = {} /\ \A d \in Decision : life[d] # "open"

\* Every cycle ends, and under KILL none begins: the loop of every process comes
\* to its end unless somebody removes the file.
KillEndsTrading == \A t \in Trader : kill ~> (~alive[t] \/ ~kill)

=============================================================================
