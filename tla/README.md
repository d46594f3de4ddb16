# A verification project for Dummy's live-execution core

Dummy is an evidence-gated prediction-market trading system (Python, about 270 000 lines).
Most of it forecasts, grades, researches and reports. The part that can lose money is small:
a cycle that polls the broker, projects fills into a book of exposure, closes settled
positions, decides, and submits orders through one central firewall; JSON files that must
survive a crash; the operator's commands and stop controls, which are other processes; the
stage and drawdown ladders that size every order; and a daily ceiling for what the language
models may cost. These modules model that part, check it with TLC and prove what matters most
about it with TLAPS.

## 1. Inventory

Paths are relative to `src/`. "Hard" is what makes the component difficult to test.

| Component | State it keeps | Operations | Talks to | Hard | Correct when |
|---|---|---|---|---|---|
| Exposure tracker, `live_firewall/exposure_tracker.py` | resting orders, positions, order history, `persistence_error`, one JSON file | reserve, confirm, mark unknown, cumulative fill, remove order/position, probe write, load | firewall (reserve, caps), brain (fills, removals) | failed writes, restarts, repeated and cumulative fill reports, rounding | what may still fill is on disk; a fill is counted once; the tracked exposure covers the account |
| Central firewall, `live_firewall/firewall.py` | none of its own | `evaluate`, `rehearse`, `submit` | STATE, tracker, Kalshi client, authority files | two evaluations around awaits, unknown broker outcomes | the caps hold of the account; no order is sent unreserved |
| Risk state, `core/state.py` | daily loss, settlement ids, kill switch, emergency stop, `persistence_error`, one JSON file | record P&L, enable/disable, trigger/clear, refresh, verify, rollover | firewall, brain, dashboard | several processes each write their whole copy; day change; failed writes | a loss counts once; a stop stays a stop; an unreadable file is quarantined |
| Trading cycle, `autonomy/brain.py` | session counters | `run_cycle`: poll, sync, settle, close, decide, execute | all of the above | four durable stores written one after another, process death between any two | ledger, STATE and tracker agree again after a crash; every settled position releases its slot |
| Executor, `autonomy/executor.py` | stale counters | `execute`, outcome mapping, idempotency key | firewall, ledger | exceptions after the order left | an order the broker may hold is not reported as blocked |
| Reconciler, `autonomy/reconciler.py` | coverage receipt | order poll, settlement claim, phantom grading | broker, venue, ledger | status reads that fail, partial fills between polls, averages in whole cents | outcomes read are true of the broker; one settlement is graded once |
| Outcome ledger, `autonomy/ledger.py` | SQLite: decisions, outcomes, settlements, weights | append-only records, `open_decisions`, `record_settlement_if_new` | brain, reconciler, graders | two processes on one database, replayed settlements | open decisions are the active orders and filled, unsettled positions |
| Strategy risk brain, `autonomy/risk_brain.py` | stage, drawdown, hard stop | `apply_drawdown_policy`, `maybe_promote`, demote | brain | ladders with cool-offs and thresholds | a stage is only climbed on evidence; a hard stop stays |
| Capital allocation, `autonomy/candidate_allocation.py`, `autonomy/allocator.py` | none | pro-rata Kelly, proportional, top-k, lot rounding | brain | rounding, caps that bind together | grants never exceed the pot, nor a candidate its ask |
| Session control, `autonomy/session.py`, `scripts/run_dummy_autonomous.py`, `autonomy/kill_reconciliation.py`, `autonomy/switches.py` | session file, KILL file, kill receipt | start, stop, expire, reconcile | executor, brain, broker | commands of other processes between any two steps of a submission; a second start while the first still trades | after a stop what can still leave is bounded, and a receipt that says flat is true |
| Live-submit authority, `core/live_submit_state.py`, `core/proof_lock.py`, `core/caps_authority.py` | arming file, proof lock, caps | arm, disarm, verify | firewall | expiry, one-proof locks | no order without a live authority |
| LLM spend governor, `model_router/spend_governor.py`, `model_router/router.py` | per-day spend file | reserve, settle | router | read-modify-write across processes, crashes between reserve and settle | a day is never under-counted |
| Broker transport, `kalshi/client.py` | session, rate limiter | signed requests, `create_order` | firewall, reconciler | a timeout is not a refusal | one POST per submission, never retried |
| Agent runtime, `dummy/agents/` | mailboxes, lifecycle, health | deliver, start, stop | scheduler | bounded mailboxes | messages are not lost silently |
| Evolution and research, `dummy/autoresearch/`, `dummy/evolution/`, `autonomy/promotion.py` | experiment ledgers, sealed holdouts | preregister, evaluate, promote, roll back | ledgers | one-use holdouts | no promotion without a sealed evaluation |
| Operator proof stages, `predator_mesh/operator_proof_stages/` | proof ledgers | staged gates, execute once | firewall | at-most-once across restarts | one proof order |
| Forecasting, signals, sports models, calibration, repo harvester, dashboards, scripts | caches and artifacts | computation and reporting | brain | numerics, not control | outside what a model checker settles |

How the live path fits together, one cycle:

    run_cycle -> reconcile_open_orders -> ledger.record_outcome* -> _sync_live_exposure
              -> _apply_settlements / _close_settled_positions:
                   ledger.record_outcome, STATE.record_realized_pnl,
                   tracker.remove_open_order, tracker.remove_position
              -> per decision: ledger.record_decision, executor.execute ->
                   firewall.submit: evaluate; await metadata, book; evaluate;
                   reserve; await create_order; confirm | mark unknown
                 ledger.record_outcome

A cycle is one asyncio process. Each `start` and each `once --live` is a trading process of its
own, and nothing in the code keeps a second one out; the dashboard and the session scripts are
further processes, which import `core.state` and share its file.

## 2. The modules

| Module | Models | Shape |
|---|---|---|
| `ExposureTracker` | every operation of the exposure tracker that live trading reaches, as action operators over `mem` and `disk` | no behaviour of its own |
| `ExposureTrackerApi` | the tracker under an arbitrary caller: any method, any argument, any write outcome, restart, damaged file, operator repair | `Init`, `Next`, `Spec` |
| `LiveExecution` | the whole live path: broker, wire, venue, ledger, cycle, two evaluations, submission, process death | EXTENDS `ExposureTracker` |
| `RiskState` | `core/state.py` in several processes and its file, with the risk part of `evaluate` | `Init`, `Next`, `Spec` |
| `SpendGovernor` | the daily ceiling for paid model calls: reserve, send, settle over one file | `Init`, `Next`, `Spec`, `TurnsSpec` |
| `OrderLife` | what live trading promises about one order, without saying how | abstract `Spec` |
| `LiveRefinement` | the mappings under which `LiveExecution` implements `OrderLife` and is a caller of the tracker | EXTENDS `LiveExecution`, INSTANCE `OrderLife`, `ExposureTrackerApi` |
| `LiveSession` | session file, KILL file, start, stop and kill reconciliation against the cycles of several trading processes | `Spec`, `FairSpec` |
| `StageBudget` | the risk brain's ladders and file, the division of the pot, the sizing and counters of a cycle | `Init`, `Next`, `Spec` |
| `MCExposureTracker`, `MCLiveExecution`, `MCRiskState`, `MCSpendGovernor`, `MCLiveSession`, `MCStageBudget` | the instances TLC checks | constants only |
| `SumTheorems` | nothing: what is known of a sum over a finite set | lemmas |
| `ExposureTrackerLemmas`, `ExposureTrackerProofs`, `LiveExecutionProofs`, `LiveSessionProofs`, `RiskStateProofs`, `SpendGovernorProofs`, `StageBudgetProofs` | the proofs | lemmas and theorems |

### ExposureTracker and ExposureTrackerApi

An order is named by the decision it executes, since `client_order_id` is a hash of the
decision id and never changes. `mem.orders[d]` is the entry of `open_orders` (state `"none"`:
no entry), with the cumulative fill and cost; `bound` records whether `order_id` has become
the broker's id, because a fill or a removal that names the broker's id finds the entry only
then. `mem.positions` is indexed by contract and side, `mem.history` is the order history
behind the hourly cap. `Persist(m, ok)` is `_persist`: a success replaces the file with the
whole payload and clears the latch, a failure leaves the file and sets it. Each operation keeps
the code's early returns in its order: which of them look at the latch, which set it, which
write. `Grown` rounds the stored average up, as `math.ceil` does. A missing file and a file
holding an empty book are one state; the collections of a healthy load are the file's.

`record_order`, `update_position` and `add_open_order` have no caller outside the tests, and
are not modelled.

### LiveExecution

`pc` is the point of the one trading process; a point at which it awaits, or has just written
durably, is a point of its own, so that the broker, the venue and process death can come in
between. `poll`, `record`, `sync` are `reconcile_open_orders` (read, then record) and
`_sync_live_exposure`; `close`, `pnl`, `unreserve`, `unposition` are the four durable writes
of `_close_position` in their order; `evaluate`, `sink`, `reserve`, `send`, `wait`, `done` are
`submit`. `Evaluate` makes the probing write and compares the caps with the book in memory;
every other gate of the firewall (switches, authority, proofs, freshness, spread, EV) is an
arbitrary refusal (`GateVerdict`), which loses no behaviour. `ExecutorBlocks` is an executor
that stops before the firewall, `SinkReadsBlock` a metadata or book read that does not suit
between the two evaluations; `Decided` and `ClaimIfNew` are the ledger's side of a cycle. `wire` holds requests the broker has not seen:
`BrokerOutcomeUnknown` may happen before the broker accepts, after, or although it never will.
`FileCanBreak`, `WritesCanFail`, `ProcessCanDie`, `PriceImproves`, `RiskFileCanFail` switch the
faults.

Of the risk state it has what a submission and a settlement see: `booked` is the settlements
whose loss the file holds, `past` those of earlier UTC days (`Midnight`), `latched` whether
`persistence_error` is set. `RecordRealizedPnl` drops the loss while it is, and loses it when the
write is refused, as `core/state.py:193` and `:203` do and `brain.py:526` ignores; the refresh of
the next evaluate clears the latch, or finds the file unavailable and refuses
(`RiskStateBlocks`). A latch whose refresh succeeds is gone with the loss it hid. `RiskState` is
the whole of that file; here it has one process.

What is abstracted: fees; the exact `fill_cost_cents` the settlement prefers over the rounded
average when the broker reports it; a market's exchange-maintenance and KILL-file returns
(they only skip work); `cancel_fn`, which production does not wire (`autonomy/session.py:675`);
the strategy risk brain and the allocator, which decide what to propose (`StageBudget`); the
session and the KILL file, which decide whether a cycle begins (`LiveSession`).

### RiskState

Every process holds a copy (`state[p]`) and every write replaces the file with that whole copy.
`Loaded` is `_load_risk_state` with its four cases (no file, unreadable, current, from before
the controls), `RolledOver` the UTC day change with its own write. `BeginEvaluate` and
`FinishEvaluate` are the read half and the write half of `evaluate`. `standing` is a history
variable: the stops that a call reported as latched and nothing has released. "Unreadable"
means that nothing of the file could be parsed.

### SpendGovernor

A call goes through `stage`: a reservation is computed (`Reserve`), saved (`Saved`) and only
then sent; an answer with a cost settles it the same way, anything else leaves the estimate
standing. `Reserve` and `Settle` compute the new ledger into `saving` and the save is a step
of its own, so that the clock, a crash, damage to the file and a second process come between
the read and the write. `day` is the date the reservation was charged to, which the
settlement checks against the ledger's. Prices are whole units, so the code's float rounding
and its 1e-9 tolerance are left out, as is the call counter, which nothing reads. `_save`
replaces the file in one step; that two processes share its ".tmp" name is a hazard listed in
`PROJECT.json` and not modelled. A provider charges a call at most once, and may charge more than
the estimate, which counts a token for every four characters: the settlement then raises the
ledger, also past the cap, as `tests/test_llm_spend_cap.py:243` demands. A call that was answered
with its cost is `"settled"` when the ledger has taken the cost, and `"kept"` when the ledger could
not be written, was not readable or had gone on to another day.

### OrderLife and LiveRefinement

`OrderLife` is the promise about one order: `life[d]` goes from `"new"` to `"open"` (the broker
may fill it) to `"over"` and never back; an order may only be sent while `covered`, the book a
restarted process would count, names it; and the book gives up nothing that is not over.
`LiveRefinement` computes both from `LiveExecution`: an order is open while the broker or the
wire may still fill it, new while it is undecided or on its way to the request, and covered
while the file has its reservation. So a timeout after which the order is retried, a projection
that releases too early, or a decision taken up twice is a step that `OrderLife` does not have.

`ImplementsTracker` is the other direction: live trading as one of the callers of
`ExposureTrackerApi`, with the prices up to an order's limit for `Witness`. The tracker refuses a
duplicate id only while the order is in its book (`exposure_tracker.py:229`) and takes every price
from 1 to 99; that the path that calls it never reserves an id again, and reports only what an
order can have filled at a price it can have, is what the refinement says. The
variables `mem` and `disk` are the same in both.

### LiveSession

The commands `start`, `stop` and the reconciliation are processes that share the session file,
the KILL file and the broker with those that trade and nothing else, and each durable write of
theirs is a step (`starting`, `stopping`, `recon` say where each of them is). `Launch` is a start
or a `once` that builds its brain: `main` does not ask whether another one trades, so there are as
many trading processes as `Trader` has. `StartCycle` is the KILL check at the head of `run_cycle`,
`PassGate` the executor's check before the firewall, `CreateOrder` what follows: from the gate on
nothing reads the session or KILL again. `LoopEnds` is `run_loop` with `should_continue` and the
break on `HALTED`. `AbandonStart` and the disjuncts of `FinishStop` are commands that die or refuse
half-way; `FinishReconciliation` may always end in a receipt that promises nothing, because any
read may raise.

An order is new, open or over, as in `OrderLife`; a request is sent at most once, and is refused,
lost, accepted, filled, cancelled or expired after that. The tracker, the ledger and the caps are
not here, because no control looks at them: what two trading processes do to the exposure book,
which each writes whole and without a lock, is a hazard listed in `PROJECT.json`, and the book of
`LiveExecution` has one. One start and one stop are in progress at a time. `afterKill`, `calm` and
`quiet` are history: what each process has sent since KILL was written, and whether anything was on
its way when a reconciliation listed the orders again.

### StageBudget

LIVE mode. `st` is the cycle's `RiskState`, `file` the one in `risk_state_live.json`; `grade`,
`divide`, `decide`, `execute` are the parts of `run_cycle` that use it. `StartCycle` is load,
drawdown policy and the save no cycle goes without; `Grade` is the end of `_close_position`;
`Plan` reads exposure and markets from the ledger, promotes and sizes the pot; `Divide` is one
turn of the loop of `_kelly_prorata`, `_proportional` or `_top_k`, in any order where the code
orders by ticker; `Decide` is `order_budget` and the end of `Allocator.decide`, with the save
bound to the order; `Accepted` advances the cycle's counters. The broker's balance is an input
of every cycle. `book` is what `open_decisions` counts, one decision per market. `Stop` is
process death or a failed save, which ends the loop. `earned`, `earnedOnDisk`, `stoppedOnce`
are history.

What is abstracted: fractions are thousandths and shares integer divisions, where the code
multiplies floats and truncates, and only where a float decides a boundary is it followed: at a
drawdown of exactly a tenth `1 - 0.9` is below `0.1`, so `MayPromote` promotes there; the exponential average of the edge is its sign; the quarter
Kelly fraction is an input (`KellyBudget`); a demotion is recent or past; an unparsable demotion
time and `MAX_CANDIDATES_EVALUATED` are left out. The history may begin with a file of the older
accounting version (`disk = "old"`), whose evidence is dropped on load. Shadow mode has the same ladder over a simulated balance. A
submission whose outcome is unknown is recorded as rejected and so is not in `open_decisions`:
`Refused` covers it, the stage budget does not count it, and the caps of the firewall, which
read the tracker, do.

## 3. What the runs check

| Run | Configuration | Checks | Size |
|---|---|---|---|
| `exposure_api` | `MCExposureTracker.cfg` | `TypeOK`, `HealthyIsDurable`, `FillMovesReservation`, `FillsAddTheirCost` | 62 045 states |
| `live_safety` | `MCLiveSafety.cfg` | `TypeOK`, `ReservedBeforeSent`, `ExposureCoversBroker`, `CapsHoldAtBroker`, `NoPhantomPosition`, `LedgerLeadsTracker`, `ImplementsOrderLife` | 1 578 628 states |
| `live_liveness` | `MCLiveLiveness.cfg` | `CapsHoldAtBroker`, `ResolvedOrderLeavesBook`, `SettledFillIsClosed` | 69 404 states |
| `live_quarantine` | `MCLiveQuarantine.cfg` | `NoPhantomPosition`, `BrokenBookBlocksOrders`, `ImplementsTracker` | 194 270 states |
| `risk_state` | `MCRiskState.cfg` | `TypeOK`, `LossMatchesSettlements`, `ReleaseIsDurable`, `UnreadableFileIsKept` | 1 173 346 states |
| `spend_governor` | `MCSpendGovernor.cfg` | `TypeOK`, `DayIsNeverUndercounted`, `CapHoldsAtProvider`, `DayIsChargedOncePerCall` | 181 838 states |
| `live_session` | `MCLiveSession.cfg` | `TypeOK`, `OneOrderPerTraderAfterKill`, `FlatWhileKilled`, `KillEndsTrading` | 287 081 states |
| `stage_budget` | `MCStageBudget.cfg` | `TypeOK`, `GrantsFitPot`, `OrdersFitStage`, `PromotionIsEarned`, `StopIsForever`, `OrdersAtSavedStage` | 1 545 940 states |
| `stale_slot`, `lost_loss`, `broken_book`, `stop_clobber` | one `.cfg` each | a statement of the code's comments that the code does not keep | counterexamples |

* `exposure_api`: a healthy tracker and its file agree, so a restart forgets nothing; a
  position grows only by what a reservation gives up, whatever order, repetition or
  inconsistency the reports come in; the rounded average never loses cost.
* `live_safety`: the write-ahead rule and its consequences for the account. The caps leave no
  room to spare (a second order fits only if the first is counted exactly), the broker fills
  at improved prices, writes of either file fail, the risk state latches, the UTC day changes, the
process dies anywhere. `ExposureCoversBroker` and
  `CapsHoldAtBroker` carry half a cent a contract: the broker's average price is rounded half
  up to whole cents before the tracker sees it, so a long position can be tracked that much
  below its cost. `ImplementsOrderLife`: every step of it, faults included, is one of
  `OrderLife`'s or changes none of its variables.
* `live_liveness`: an order the broker has resolved leaves the book; a recorded fill in a
  settled market is booked and released. Two markets of one family, so that only the
  correlated cap binds; no faults, because a failed write latches the tracker until a restart
  and a refused loss is not booked later: there the code promises nothing.
* `live_quarantine`: with a file found unreadable at a restart, no order is sent and no probing
  write replaces it. `ImplementsTracker` is checked here, where every kind of restart happens.
* `risk_state`: two processes and two days; the daily loss is the sum of the settlements it
  names in every copy; a stop disappears from memory only if the file agrees; an unreadable
  file is left alone.
* `spend_governor`: two processes, three calls, a cap two of them fill exactly, bills from below
  an estimate to the whole cap, two days, under `TurnsSpec`, in which no process reads the ledger
  while another has read it and not yet replaced it; either may die, fail to write or find the
  file damaged between any two steps of the other. The ledger holds the cost of every settled
  call of its day and the estimate of every other, through failed saves, crashes, damage and a
  midnight between reservation and settlement; an unreadable ledger neither admits a call nor is
  rewritten by a settlement, as both faulty variants would; what is charged for one day's
  reservations passes the cap by no more than what is charged above their estimates; and no call
  counts for more than the larger of its estimate and its bill. Without the turns
  `DayIsNeverUndercounted` and `CapHoldsAtProvider` do not hold: one process overwrites the other's
  reservation (section 4). The other properties do not need them, and their theorems are about
  `Spec`.
* `live_session`: starts, stops, expiries and reconciliations at any point of the cycles of two
  trading processes. KILL does not recall an order past the executor's gate, but at most one of
  each process leaves while it stands; that two processes send two is reached. A
  receipt that says flat is true of the broker, and stays true, if nothing was on its way when
  the orders were listed again; that condition is needed, since a request past the gate is in no
  list. And every loop comes to its end under KILL unless the file is removed.
* `stage_budget`: cycles on balances that fall by 12, 26 and 35 per cent and recover. An accepted
  order leaves exposure, markets, its group and its own size within the limits of the stage,
  although the ledger was summed before the cycle's other orders; the grants fit the pot and
  the asks under every policy and order of turns; a promotion rests on different graded
  decisions since the last change of stage, also when the process found a file with enough
  evidence of the older accounting; a hard stop outlasts crashes and an unreadable
  file; and the file holds the stage an order was sized by.

Bounds. Two decisions are the least for which one order's exposure can be hidden from
another's caps, two contracts the least with a partial fill, a limit of two cents the least
with an improved price that rounds. Two processes and two days are the least for a stale copy
and for a rollover. Three calls with estimates 1, 2, 2 and a cap of 3 are the least with one pair
that fits exactly, one that does not, and a refund that makes room for a refused size;
`MaxCharge = 3` is a bill above every estimate. `RiskFileCanFail` is on in `live_safety` alone: the
other runs are about the exposure file or have no faults, and in `lost_loss` the loss is to be lost
with a risk file that takes every write. In `live_session` two traders and two decisions are two
orders past the gate when KILL is written, or one process with an order past it and one that waits.
The files may stand or be missing at the beginning, and a trader is launched at any time, so
`MaxCommands = 2` is any two of start, stop and reconciliation, overlapping and in either order, on
whatever the commands before them left. In `stage_budget` three markets, two of one group, with limits that grow by stage
as `STAGE_LIMITS` does but with 1, 2 and 3 slots and a total that three markets exceed, so that
each limit is the binding one somewhere; two settled decisions promote, two orders end a cycle.
The proofs of section 5 have no bounds.

Fairness (`LiveExecution!Fairness`): the trading process keeps taking steps (weak fairness of
its cycle: an asyncio loop under a supervisor); a status read may fail, but not for ever for
one order, and so may the settlement feed for one market (strong fairness, since each poll
offers the read only while it lasts). Nothing is assumed of the broker or of the venue.
`LiveSession!FairSpec` assumes weak fairness of the trading process's steps and nothing of
commands, broker or process death.

## 4. Disagreements with the code's own words

* `broken_book`: `exposure_tracker.py:144` says a corrupt prior book is never overwritten with
  an empty one. `remove_open_order` and `remove_position` do not look at the latch, so closing
  a settled position after a restart on an unreadable file writes the empty book over it and
  clears the latch. `BrokenBookBlocksOrders` is the half that holds.
* `stale_slot`: `brain.py:453` and `:564` say settlement releases the slot of an order without
  fills. The unfilled branch of `_close_position` records the ledger outcome and never touches
  the tracker, so the reservation keeps its market slot and its notional until someone repairs
  the file; the ledger row is no longer active, so no later poll reaches it either.
* `lost_loss`: `core/state.py:18` says a restart cannot forget losses. The ledger's settled
  outcome is written before the loss; a crash between the two leaves a decision that is never
  opened again and a loss that is never booked. Two more ways lose one without a death, and
  `LossBooked` excludes them by hypothesis: a risk state latched by an earlier failure drops it
  (`core/state.py:193`), and a write that is refused leaves it in memory only, until the next
  refresh (`:203`). A stale copy written by a second process is a fourth (`stop_clobber` shows the
  same write erase a stop).
* `stop_clobber`: `core/state.py:179` says the refresh closes the gap between a dashboard that
  latches a stop and an executor with a stale copy. A stale copy that records a loss writes
  its own inactive controls over the latched ones, and the next refresh reads those. With one
  process the stop holds (`LoneStopBlocks`).

Five more things the models show stand here without a run, since each is a limit of the
design more than a broken sentence. `README.md:483` has a kill file that "stops everything
instantly": one order of each trading process may still leave (`OneOrderPerTraderAfterKill` is the
bound that holds), and after a start, a stop and a start within the loop's sleep there are two
processes. A start
that is still reading the balance removes a KILL written meanwhile (`session.py:168`,
`ClearKill`). And the live bankroll is the cash balance (`brain.py:319`, `session.py:309`):
`tests/test_live_account_snapshot.py:55` has the value of positions as a field of its own, so a
book of 30 per cent, which CRUISE allows, reads as a drawdown of 30 per cent and latches the
hard stop without any loss. And two processes that overlap at the spend ledger overshoot, as
`spend_governor.py:28` concedes, but not always "by a single call's estimate": a late write takes
back every reservation made since the read it rests on, and the day admits others in their place.
With a cap of 2 and estimates of 1, one process reads the empty ledger, the other reserves two
calls, the first writes its 1 over them, and a fourth call is admitted. Last, `spend_governor.py:15`
has a crash or a silent provider over-count the day, never under-count it: that holds of the
estimates. A bill above the estimate whose settlement is lost, because the process died, the save
failed, the ledger was unreadable or the day had changed, leaves the day short by the difference.

## 5. What is proved

TLAPS checks these for any finite set of decisions, any sizes, limits, caps, markets, any
number of processes, commands and days. Every safety property of a passing run is here, under
the hypotheses of the table; a run shows it on a small instance.

| Module | Theorem | States |
|---|---|---|
| `ExposureTrackerProofs` | `TypeCorrect` | `Spec => []TypeOK` |
| | `HealthyDurable` | `Spec => []HealthyIsDurable` |
| | `FillsMoveReservations` | `Spec => FillMovesReservation` |
| | `FillsAddCost` | `Spec => FillsAddTheirCost` |
| `LiveExecutionProofs` | `LiveTypeCorrect` | `Spec => []TypeOK` |
| | `LedgerLeads` | `Spec => []LedgerLeadsTracker` |
| | `WriteAhead` | `~FileCanBreak => (Spec => []ReservedBeforeSent)` |
| | `LiveImplementsOrderLife` | `~FileCanBreak => (Spec => ImplementsOrderLife)` |
| | `NoPhantom` | `Spec => []NoPhantomPosition` |
| | `ExposureCovers` | `~FileCanBreak => (Spec => []ExposureCoversBroker)` |
| | `CapsHold` | `~FileCanBreak => (Spec => []CapsHoldAtBroker)` |
| | `BrokenBookBlocks` | `Spec => BrokenBookBlocksOrders` |
| | `LossBooked` | `~ProcessCanDie /\ ~FileCanBreak /\ ~RiskFileCanFail => (Spec => []SettledLossIsBooked)` |
| | `LiveImplementsTracker` | `Spec => ImplementsTracker` |
| | `LiveKeepsPromises` | `Spec => []Tracker!HealthyIsDurable /\ Tracker!FillMovesReservation /\ Tracker!FillsAddTheirCost` |
| `LiveSessionProofs` | `SessionTypeCorrect` | `Spec => []TypeOK` |
| | `AtMostOneEachAfterKill` | `Spec => []OneOrderPerTraderAfterKill` |
| | `FlatReceiptHolds` | `Spec => []FlatWhileKilled` |
| `StageBudgetProofs` | `BudgetTypeCorrect` | `Spec => []TypeOK` |
| | `GrantsFit` | `Spec => []GrantsFitPot` |
| | `OrdersFit` | `Spec => OrdersFitStage` |
| | `PromotionEarned` | `Spec => PromotionIsEarned` |
| | `StopForever` | `Spec => StopIsForever` |
| | `SavedStage` | `Spec => OrdersAtSavedStage` |
| `RiskStateProofs` | `RiskTypeCorrect` | `Spec => []TypeOK` |
| | `LossIsWhatWasSettled` | `Spec => []LossMatchesSettlements` |
| | `ReleasesAreDurable` | `Spec => ReleaseIsDurable` |
| | `QuarantineKept` | `Spec => UnreadableFileIsKept` |
| | `LoneStopBlocks` | `LoneProcess` `=> (Spec => StandingStopBlocks)` |
| `SpendGovernorProofs` | `SpendTypeCorrect` | `Spec => []TypeOK` |
| | `ChargedOnce` | `Spec => []DayIsChargedOncePerCall` |
| | `TurnsNeverUndercount` | `TurnsSpec => []DayIsNeverUndercounted` |
| | `TurnsKeepCap` | `TurnsSpec => []CapHoldsAtProvider` |
| | `NeverUndercounted` | `OneCaller` `=> (Spec => []DayIsNeverUndercounted)` |
| | `CapHolds` | `OneCaller` `=> (Spec => []CapHoldsAtProvider)` |

**Hypotheses.** `~FileCanBreak`: no restart finds the exposure file unreadable. Without it the
four theorems with that hypothesis alone are false, which is what `broken_book` shows; the code's
answer to a damaged file is `BrokenBookBlocks`, which has no such hypothesis. `LoneProcess`: one
process uses the risk file; `stop_clobber` has two. `~ProcessCanDie`: the trading process is not
restarted; `lost_loss` has a restart between two writes. `~RiskFileCanFail`: the risk file takes
every read and write, so that nothing latches it; `~FileCanBreak` is in `LossBooked` because a broken
file is found by a restart. `LiveExecution` has one trading process, and its theorems are about
one. `OneCaller`: all paid calls come from
one process, in which nothing else runs between the read and the write of a reservation, so that
it takes turns with nobody (`OneCallerTakesTurns`). `TurnsSpec`: any number of processes whose
reads and writes of the ledger do not overlap; the code has no lock that would see to it, and
section 4 says what an overlap does.

**Assumptions on constants**: `DecisionTerms` (finitely many decisions, sizes at least one, limits
1 to 99, as `reserve_order_submission` demands), `CapsInCents` (the exposure caps of the sealed
`caps.json` are numbers of cents), `FaultFlags`, `WitnessPrices`, `RiskStateConstants`,
`SpendConstants`, `SessionConstants`, `BudgetConstants`. TLC evaluates all of them.

**Sums.** What an account, a day or a pot comes to is a sum over orders, settlements, calls or
candidates, and the models write it as the community modules' `SumFunctionOnSet`, a fold.
`SumTheorems` proves about it what a reader expects: the sum of no elements, of one more
element, of a part, of a union and of the classes of a partition, monotonicity, and what
changing the function at one point does. The library's induction over finite sets takes an
operator as a parameter, which the provers cannot instantiate, so the module argues by minimal
counterexample: a set of subsets that contains the empty set and, with a set, that set with one
more element is the set of all finite subsets (`SubsetInduction`); the recursive function inside the fold
exists and is unique on the finite subsets (`FixpointExists`, `FixpointsAgree`), and so the fold
unfolds (`SumTakesOut`).

**The tracker.** The theorems go by the effect of an action: each one latches, leaves book and
file alone, or writes a well-formed book. For `FillMovesReservation` only `record_cumulative_fill`
writes other positions, and there the checks of `FillConsistent` bound what it moves.
`FillsAddTheirCost` needs the rounding: the new average times the new quantity is at least the old
cost and the new (`GrownCovers`, with `Grown` rounding up); and that where memory and file both
have an entry the file's has taken no more fills, so a reload is never a fill (`FileLags`).

**The live path.** `ReservedBeforeSent` is not inductive. `IInv` of `LiveExecutionProofs` adds:
what the broker and the wire can look like (`BrokerInv`: no order is both in flight and known,
nothing rests on a settled market, nothing was sent that the ledger does not know); that an
outcome once polled stays true of the broker until it is projected (`PolledInv`), which is why a
terminal outcome may drop a reservation; that the ledger leads the tracker, which bounds the fills
the file may have taken; what `pc` says of the current decision (`ControlInv`: reserved in memory
and in the file when the order is sent; resolved at the broker when its entry is removed); and
that memory and file hold every order that may still fill (`Covered`). One lemma per action shows
that it keeps `IInv`; the actions of the tracker share the notion of a safe write (`TrackerSafe`).

The refinement goes by the same invariant: each action of `LiveExecution` maps to `Send`, to
`End` of the decisions it finishes, to a change of the book alone, or to a stutter. What it has
to show is that a decision does not become open or new again and that a dropped reservation is
over, which is `PolledInv` and `Covered`.

That the tracked exposure covers the account is a statement about sums, and holds by an invariant
about each order and each position (`AccountInv`). A contract filled is credited once: to the
entry of its order while the order has one, to what was booked when it left after that. A
position holds no more contracts than are credited to its orders (`CountsFills`, which is
`NoPhantom`) and, while no file breaks, is worth at least their cost (`CoversFills`). And what an
entry has counted says enough of what the broker has charged (`SaysEnough`): twice the true cost
is at most twice the tracked cost, plus one for every contract, plus twice the limit for every
fill not yet reported. The one per contract is the half cent that the broker's average loses when
it is rounded half up, and it is where the tolerance of `ExposureCoversBroker` comes from. An
improved price between two polls keeps it because the broker's average never exceeds the limit.

`CapsHoldAtBroker` speaks of the account, which moves between the evaluation and the sending.
`CapInv` says that from the second evaluation to the sending the caps leave `Room` for the whole
order beside what the account may still need; a fill, a cancellation and a settlement only lower
that need (`NeedFalls`), and the sending itself turns the room into need (`SentNeed`). The
evaluation gets the room from the book in memory, by `ExposureCoversNeed`.

For `BrokenBookBlocksOrders` the invariant is `LatchInv`: on an unreadable file the tracker is
latched and no submission is past its first evaluation, because only a restart finds the file
unreadable, a restart begins a cycle, and the first thing an evaluation asks is the latch.

`LiveImplementsTracker` maps every step to a call of the tracker, with the arguments the API
allows, or to none. `CallerInv` is what that needs: an order that has not come to its
reservation is in no history, of memory or file (`HistoryInv`), so the reservation is its first;
and the broker charges the limit at most, so that the rounded average of a poll is within it
(`CostInv`, `PriceInv`, `AverageBound`). That a report has no more contracts than the order is
`AccountInv`. The theorems about the tracker under every caller then hold in live trading by
instantiation, without a proof of their own: `LiveKeepsPromises`.

**The session.** The invariant of `LiveSessionProofs` says, of every trading process, that an order
between its gate and the broker is still new and in nobody else's hands, that while KILL stands
only what was past the gate can be sent, so that its `afterKill` is empty as long as something is
between gate and broker, and that after a calm second listing nothing can become open while KILL
stands.

**Stage and budget.** `IInv` of `StageBudgetProofs`: the counter of settled decisions never
exceeds the set of decisions graded at this stage, in memory while a cycle trades and in a file of
the current accounting; what was graded is closed, and is neither decided nor graded again; a saved
stop is in the file or the file is unreadable, and no cycle trades after it; from its first save to
the promotion, and while an order is executed, the file has the stage of the cycle. `BudgetInv`
adds the amounts: what is granted is what was spent of the pot, whatever the policy and the order
of the turns, and no candidate has a second turn (`GrantInv`); the cycle's own counters are the
exposure and the markets of the ledger (`CountInv`), which was summed once, before any order of
the cycle; and the order being executed still fits the limits (`FitInv`), because between the
decision and the acceptance the ledger gains nothing.

**Stop controls.** `ReleaseIsDurable` and `UnreadableFileIsKept` follow from one fact about every
operation of a process (`Legal`): a control the new copy lacks is gone from the file too, and a
process that has latched leaves an unreadable file alone. `LossMatchesSettlements` is inductive:
a settlement enters the loss and the set in one step, a rollover and a fresh load empty both, and
a write or a refresh moves both together. `LoneStopBlocks` is about the controls a process has
reported as latched: `StopInv` says that the copy and the file both hold them. A failed write
leaves them in the file of the write before, a damaged file is latched by whoever reads it and
its repair brings them back, so that every evaluate of the one process finds them. A second
process breaks `StopInv` with one stale copy.

**The settled loss.** `SettledLossIsBooked` is inductive but for two things: no execution reports
`SETTLED` (`LossInv`), since nothing but `CloseFilled` writes that outcome, and while its loss waits
to be booked the process is nowhere else; and nothing latches the risk state (`NothingLatches`),
since a latched one drops the loss. Each hypothesis takes away one step that gets past it: the
restart between the two writes, and the refused write of this loss or of an earlier one.

**The spend governor.** The type invariant bounds amounts from below alone: a settlement may raise a
ledger past the cap, and never takes one under zero. `ChargedOnce` needs the saves in flight: a
ledger about to be saved holds at most `Worst`, the larger of estimate and bill, of the calls already
charged to its day, and of the call that saves it (`SaveAtMost`); a settlement replaces the estimate
of its own call, which the ledger may have lost but never has twice. Where the processes take turns
nobody else's save comes in between, so that ledger also holds at least what the calls hold of it
(`SaveAtLeast`, with `Standing`: the estimate, and after settlement the bill). For the
cap it is enough to look at what the provider may charge within the estimates (`Within`): it grows
only with a reservation, which is admitted within the cap over a ledger that holds at least as much
(`WithinHeld`), and the bills exceed it by their `Overcharge` alone.

**Only model-checked**: the liveness properties `ResolvedOrderLeavesBook`, `SettledFillIsClosed` and
`KillEndsTrading`, because the prover has no `ENABLED`. The four runs of section 4 are
counterexamples.

## 6. Plan

Done: `ExposureTracker` and its API; `LiveExecution`; `RiskState`; `SpendGovernor`; the
abstract order, the refinement and its proof; `LiveSession`; `StageBudget`; the proofs of
section 5. What could follow, by what it would add:

1. The account's equity beside its cash balance, so that the false drawdown of section 4 becomes
   a property of `StageBudget` with a run of its own.
2. The taker plan and the stale-data gate of `executor.py`, the one part of a submission that
   is still an arbitrary refusal although it changes the price.
3. `AgentRuntime`: bounded mailboxes, lifecycle and health of the research agents.
4. The one-use sealed holdout of the research campaigns, across restarts.
5. The temporary file two processes of the spend governor share by name.

### Not modelled

* Settlement grading claims: two graders on one database race on one SQLite transaction. A model
  of it restates SQLite's writer lock.
* Live-submit authority and the operator's proof stages: their files are written by an offline
  appliance; the live path only reads them, at both evaluations, and may be refused by them at
  any time, which is how the models have them.
* Agent runtime, homeostasis, memory, constitution: no path to an order, to a file of the live
  path, or to a stop control.
* Broker transport: signing and pacing; what it does to a request is in `LiveExecution`'s wire.
* Forecasting, signals, sports models, calibration numerics, paper trading, dashboards, the
  research campaigns, the harvester and most scripts. They compute or report, and are by far the
  largest part of the repository; their control is a straight line and their correctness is
  statistical, which is why the share of all lines that these modules cover is small and that of
  the live path is not.
