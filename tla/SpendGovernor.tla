---------------------------- MODULE SpendGovernor ----------------------------
(***************************************************************************)
(* model_router/spend_governor.py and the calls of model_router/router.py  *)
(* that it admits: the daily ceiling for paid model calls.  A call         *)
(* reserves its worst-case price in one JSON file before the request       *)
(* leaves the process, and settles it to what the provider reports.  Each  *)
(* reads the file, computes, and replaces it: nothing is awaited between,  *)
(* so a process does one at a time, but the clock, process death, damage   *)
(* and other processes come in between.                                    *)
(***************************************************************************)
EXTENDS Integers, FiniteSets, Functions

CONSTANTS
  Proc,           \* processes with a ModelRouter
  Call,           \* paid calls
  ProcOf,         \* call -> the process that makes it
  Estimate,       \* call -> its price by estimate_call_cost_usd
  Cap,            \* daily_usd_cap
  MaxDay,         \* bound: the last UTC day of a behaviour
  MaxCharge,      \* bound: the most a provider charges for one call
  None,           \* no call in progress
  FileCanBreak    \* BOOLEAN: may the ledger become unreadable?

ASSUME SpendConstants ==
  /\ IsFiniteSet(Call)
  /\ ProcOf \in [Call -> Proc]
  /\ Estimate \in [Call -> Nat]
  /\ Cap \in Nat /\ MaxDay \in Nat /\ MaxCharge \in Nat
  /\ FileCanBreak \in BOOLEAN
  /\ None \notin Call

VARIABLES
  file,     \* runtime/autonomy/llm_spend_budget.json
  today,    \* the UTC date
  stage,    \* call -> how far it has come
  day,      \* call -> the day its reservation was charged to
  at,       \* process -> the call it is reserving or settling, or None
  saving,   \* process -> the ledger it has computed and not yet saved
  billed    \* call -> what the provider has charged so far

vars == <<file, today, stage, day, at, saving, billed>>

\* "settled": the ledger holds the cost; "kept": a cost was reported and the
\* ledger holds the estimate; "unsettled": no cost was reported.
Stage == {"new", "reserving", "refused", "sent", "settling",
          "settled", "kept", "unsettled"}

Ledger(d, spent) == [day |-> d, spent |-> spent]

-----------------------------------------------------------------------------
(***************************************************************************)
(* Reading and writing the ledger                                          *)
(***************************************************************************)

Readable == file.status # "broken"

\* _load: a missing file and another day's start clean, and so would an
\* unreadable one, which is why every caller asks Readable first.
Loaded ==
  IF file.status = "ok" /\ file.ledger.day = today
    THEN file.ledger ELSE Ledger(today, 0)

BeginSave(p, c, ledger) ==
  /\ at'     = [at EXCEPT ![p] = c]
  /\ saving' = [saving EXCEPT ![p] = ledger]

\* The save is over, and the call in progress goes on to the stage s.
EndSave(p, s) ==
  /\ stage' = [stage EXCEPT ![at[p]] = s]
  /\ at'    = [at EXCEPT ![p] = None]
  /\ UNCHANGED <<today, day, saving, billed>>

Saved(p) ==
  /\ at[p] # None
  /\ file' = [status |-> "ok", ledger |-> saving[p]]
  /\ EndSave(p, IF stage[at[p]] = "reserving" THEN "sent" ELSE "settled")

\* A call whose reservation was not written is refused; a settlement that was
\* not written leaves the estimate standing.
SaveFailed(p) ==
  /\ at[p] # None
  /\ UNCHANGED file
  /\ EndSave(p, IF stage[at[p]] = "reserving" THEN "refused" ELSE "kept")

-----------------------------------------------------------------------------
(***************************************************************************)
(* A call: reserve, send, settle                                           *)
(***************************************************************************)

Idle(c) == at[ProcOf[c]] = None

\* Faulty variant: a ledger that cannot be read admits like an empty day.
AdmittedUnread(c) == Cap > 0 /\ Loaded.spent + Estimate[c] <= Cap

Admitted(c) == Readable /\ Cap > 0 /\ Loaded.spent + Estimate[c] <= Cap

Reserve(c) ==
  /\ stage[c] = "new" /\ Idle(c)
  /\ Admitted(c)
  /\ BeginSave(ProcOf[c], c, [Loaded EXCEPT !.spent = @ + Estimate[c]])
  /\ stage' = [stage EXCEPT ![c] = "reserving"]
  /\ day'   = [day EXCEPT ![c] = Loaded.day]
  /\ UNCHANGED <<file, today, billed>>

Refuse(c) ==
  /\ stage[c] = "new" /\ Idle(c)
  /\ ~Admitted(c)
  /\ stage' = [stage EXCEPT ![c] = "refused"]
  /\ UNCHANGED <<file, today, day, at, saving, billed>>

\* The request has left: it may be charged for once, also above its estimate,
\* while it is awaited or after its process has given it up.
ProviderBills(c) ==
  /\ stage[c] \in {"sent", "unsettled"}
  /\ billed[c] = 0
  /\ \E charge \in 1..MaxCharge : billed' = [billed EXCEPT ![c] = charge]
  /\ UNCHANGED <<file, today, stage, day, at, saving>>

\* A failed call, or an answer without a cost: nothing is released.
AnswerWithoutCost(c) ==
  /\ stage[c] = "sent" /\ Idle(c)
  /\ stage' = [stage EXCEPT ![c] = "unsettled"]
  /\ UNCHANGED <<file, today, day, at, saving, billed>>

\* Faulty variant: the difference is taken the wrong way round and below zero.
SettledBackwards(c) == [Loaded EXCEPT !.spent = @ + Estimate[c] - billed[c]]

\* Faulty variant: the cost is added and the reservation stays.
SettledOnTop(c) == [Loaded EXCEPT !.spent = @ + billed[c]]

\* The ledger after the settlement of c: its reservation gives way to its cost,
\* up or down, whatever the cap.
Settled(c) ==
  LET left == Loaded.spent + billed[c] - Estimate[c]
  IN  [Loaded EXCEPT !.spent = IF left > 0 THEN left ELSE 0]

\* Faulty variant: an unreadable ledger is settled like an empty day.
SettleUnread(c) ==
  /\ stage[c] = "sent" /\ Idle(c)
  /\ IF billed[c] # Estimate[c] /\ Loaded.day = day[c]
       THEN /\ BeginSave(ProcOf[c], c, Settled(c))
            /\ stage' = [stage EXCEPT ![c] = "settling"]
       ELSE /\ stage' = [stage EXCEPT ![c] = IF billed[c] = Estimate[c]
                                              THEN "settled" ELSE "kept"]
            /\ UNCHANGED <<at, saving>>
  /\ UNCHANGED <<file, today, day, billed>>

\* An answer with its cost: an untrusted ledger or another day's is left alone.
Settle(c) ==
  /\ stage[c] = "sent" /\ Idle(c)
  /\ \/ /\ billed[c] # Estimate[c] /\ Readable /\ Loaded.day = day[c]
        /\ BeginSave(ProcOf[c], c, Settled(c))
        /\ stage' = [stage EXCEPT ![c] = "settling"]
     \/ /\ billed[c] = Estimate[c]
        /\ stage' = [stage EXCEPT ![c] = "settled"]
        /\ UNCHANGED <<at, saving>>
     \/ /\ billed[c] # Estimate[c] /\ (~Readable \/ Loaded.day # day[c])
        /\ stage' = [stage EXCEPT ![c] = "kept"]
        /\ UNCHANGED <<at, saving>>
  /\ UNCHANGED <<file, today, day, billed>>

-----------------------------------------------------------------------------
(***************************************************************************)
(* The environment                                                         *)
(***************************************************************************)

\* A process dies.  Requests that have left may still be charged for.
Crash(p) ==
  /\ stage' = [c \in Call |->
       IF ProcOf[c] # p THEN stage[c]
       ELSE CASE stage[c] = "reserving" -> "refused"
              [] stage[c] = "sent"      -> "unsettled"
              [] stage[c] = "settling"  -> "kept"
              [] OTHER                  -> stage[c]]
  /\ at' = [at EXCEPT ![p] = None]
  /\ UNCHANGED <<file, today, day, saving, billed>>

FileBreaks ==
  /\ FileCanBreak
  /\ file.status = "ok"
  /\ file' = [file EXCEPT !.status = "broken"]
  /\ UNCHANGED <<today, stage, day, at, saving, billed>>

\* The operator puts the ledger back as it was.
OperatorRepair ==
  /\ file.status = "broken"
  /\ file' = [file EXCEPT !.status = "ok"]
  /\ UNCHANGED <<today, stage, day, at, saving, billed>>

NextDay ==
  /\ today < MaxDay
  /\ today' = today + 1
  /\ UNCHANGED <<file, stage, day, at, saving, billed>>

-----------------------------------------------------------------------------
Init ==
  /\ file   = [status |-> "missing", ledger |-> Ledger(0, 0)]
  /\ today  = 0
  /\ stage  = [c \in Call |-> "new"]
  /\ day    = [c \in Call |-> 0]
  /\ at     = [p \in Proc |-> None]
  /\ saving = [p \in Proc |-> Ledger(0, 0)]
  /\ billed = [c \in Call |-> 0]

Next ==
  \/ \E c \in Call : \/ Reserve(c) \/ Refuse(c) \/ ProviderBills(c)
                     \/ AnswerWithoutCost(c) \/ Settle(c)
  \/ \E p \in Proc : Saved(p) \/ SaveFailed(p) \/ Crash(p)
  \/ FileBreaks \/ OperatorRepair \/ NextDay

Spec == Init /\ [][Next]_vars

\* No process reads the ledger while another has read it and not replaced it.
TakesTurns == \A p, q \in Proc : at[p] # None /\ at[q] # None => p = q

\* Processes that never reserve or settle in the same instant, which is what
\* the cross-process note (spend_governor.py:28) leaves out.
TurnsSpec == Init /\ [][Next /\ TakesTurns']_vars

-----------------------------------------------------------------------------
(***************************************************************************)
(* Properties                                                              *)
(***************************************************************************)

LedgerType == [day : 0..MaxDay, spent : Nat]

\* Shapes of the ledger, of the calls and of what the processes are saving: an
\* amount is a natural number, although a settlement subtracts.
TypeOK ==
  /\ file \in [status : {"missing", "ok", "broken"}, ledger : LedgerType]
  /\ today \in 0..MaxDay
  /\ stage \in [Call -> Stage]
  /\ day \in [Call -> 0..MaxDay]
  /\ at \in [Proc -> Call \cup {None}]
  /\ saving \in [Proc -> LedgerType]
  /\ billed \in [Call -> Nat]

ChargedTo(d) ==
  {c \in Call : stage[c] \notin {"new", "reserving", "refused"} /\ day[c] = d}
Bills(d)     == SumFunctionOnSet(billed, ChargedTo(d))

\* What is to stand for a call: its cost once it is settled, its estimate until
\* then.
Standing == [c \in Call |-> IF stage[c] = "settled" THEN billed[c] ELSE Estimate[c]]

\* spend_governor.py:15 "A crash, a hang, or a provider that reports no usage
\* therefore over-counts the day, never under-counts it": through failed
\* writes, restarts, damage and midnight the ledger holds the cost of every
\* settled call of its day and the estimate of every other.  That covers the
\* provider's account unless it charged more than the estimate of a call that
\* was never settled.
DayIsNeverUndercounted ==
  file.status # "missing" =>
    file.ledger.spent >= SumFunctionOnSet(Standing, ChargedTo(file.ledger.day))

\* What the provider charged above the estimate.
Overcharge ==
  [c \in Call |-> IF billed[c] > Estimate[c] THEN billed[c] - Estimate[c] ELSE 0]

\* The ceiling holds of the provider's own account (spend_governor.py:317): what
\* it charges for the calls reserved on one day, on that day or another, passes
\* the cap by no more than what it charges above their estimates.
CapHoldsAtProvider ==
  \A d \in 0..MaxDay : Bills(d) <= Cap + SumFunctionOnSet(Overcharge, ChargedTo(d))

\* The larger of the estimate and the bill.
Worst == [c \in Call |-> IF billed[c] > Estimate[c] THEN billed[c] ELSE Estimate[c]]

\* No call is charged twice (spend_governor.py:334, 373): for each call of its
\* day the ledger holds at most the larger of its estimate and its bill.
DayIsChargedOncePerCall ==
  file.ledger.spent <= SumFunctionOnSet(Worst, ChargedTo(file.ledger.day))

=============================================================================
