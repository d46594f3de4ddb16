------------------------------ MODULE RiskState ------------------------------
(***************************************************************************)
(* core/state.py: the daily realized loss, the settlements it counts, the  *)
(* two stop controls and the persistence_error latch that every process    *)
(* keeps in its module singleton STATE, and the one JSON file behind them. *)
(* A process writes the whole of its own copy; os.replace makes one write  *)
(* atomic, nothing makes a read and a later write so.                      *)
(***************************************************************************)
EXTENDS Integers, FiniteSets, Functions

CONSTANTS
  Proc,           \* processes that import core.state
  Settlement,     \* settlement ids (decision ids)
  LossOf,         \* settlement -> cents lost, 0 for a gain
  MaxDailyLoss,   \* caps.max_daily_loss_cents
  MaxDay,         \* bound: the last UTC day of a behaviour
  FileCanBreak    \* BOOLEAN: may the file become unreadable?

ASSUME RiskStateConstants ==
  /\ IsFiniteSet(Settlement)
  /\ LossOf \in [Settlement -> Nat]
  /\ MaxDailyLoss \in Nat /\ MaxDay \in Nat /\ FileCanBreak \in BOOLEAN

VARIABLES
  state,   \* process -> its STATE
  file,    \* runtime/risk_state.json
  today,   \* the UTC date
  pc,      \* process -> how far its evaluate has come
  standing \* history: stops latched by a call that returned True, and not
           \* released by one since

vars == <<state, file, today, pc, standing>>

Control    == {"kill_switch", "emergency_stop"}
FileStatus == {"missing", "legacy", "ok", "broken"}
Phase      == {"idle", "refreshed", "allowed"}

\* The state of a constructor that has not loaded anything.
Fresh(date) ==
  [controls |-> {}, loss |-> 0, date |-> date, processed |-> {}, err |-> FALSE]

Payload(s) ==
  [status |-> "ok", controls |-> s.controls, loss |-> s.loss, date |-> s.date,
   processed |-> s.processed]

-----------------------------------------------------------------------------
(***************************************************************************)
(* Reading and writing.  A store is a process's state next to the file.    *)
(***************************************************************************)

Store(s, f) == [state |-> s, file |-> f]

\* _persist_risk_state
Persisted(s, f, ok) ==
  Store([s EXCEPT !.err = ~ok], IF ok THEN Payload(s) ELSE f)

\* Faulty variant: the new day keeps yesterday's settlement ids.
RolloverKeepsIds(st, ok) ==
  IF st.state.err \/ st.state.date = today
    THEN st
    ELSE Persisted([st.state EXCEPT !.date = today, !.loss = 0], st.file, ok)

\* _rollover_if_needed
RolledOver(st, ok) ==
  IF st.state.err \/ st.state.date = today
    THEN st
    ELSE Persisted([st.state EXCEPT !.date = today, !.loss = 0, !.processed = {}],
                   st.file, ok)

FailClosed(s) == [s EXCEPT !.controls = Control, !.err = TRUE]

FromFile(f, controls) ==
  [controls |-> controls, loss |-> f.loss, date |-> f.date,
   processed |-> f.processed, err |-> FALSE]

\* _load_risk_state into s: a missing file is a fail-closed error only when
\* the file is required; a file from before the controls latches both.
Loaded(s, f, required, ok, ok2) ==
  CASE f.status = "missing" -> Store(IF required THEN FailClosed(s) ELSE s, f)
    [] f.status = "broken"  -> Store(FailClosed(s), f)
    [] f.status = "ok"      -> RolledOver(Store(FromFile(f, f.controls), f), ok)
    [] f.status = "legacy"  ->
         LET st == RolledOver(Store(FromFile(f, Control), f), ok)
         IN  Persisted(st.state, st.file, ok2)

Install(p, st) ==
  /\ state' = [state EXCEPT ![p] = st.state]
  /\ file'  = st.file
  /\ UNCHANGED today

KeepPhase == UNCHANGED pc
KeepStops == UNCHANGED standing

-----------------------------------------------------------------------------
(***************************************************************************)
(* Realized results                                                        *)
(***************************************************************************)

\* Faulty variant: the sign of the result is not turned when it is booked.
NetOfGain(b, s) ==
  [b EXCEPT !.processed = @ \cup {s}, !.loss = @ - LossOf[s]]

\* A settlement counted into the book of one day.
Counted(b, s) ==
  [b EXCEPT !.processed = @ \cup {s}, !.loss = @ + LossOf[s]]

RecordRealizedPnl(p, s) ==
  /\ ~state[p].err
  /\ \E ok, ok2 \in BOOLEAN :
       LET st == RolledOver(Store(state[p], file), ok)
       IN  IF s \in st.state.processed
             THEN Install(p, st)
             ELSE Install(p, Persisted(Counted(st.state, s), st.file, ok2))
  /\ KeepPhase /\ KeepStops

-----------------------------------------------------------------------------
(***************************************************************************)
(* The operator's controls: enable_kill_switch and trigger_emergency_stop, *)
(* disable_kill_switch and clear_emergency_stop                            *)
(***************************************************************************)

WithControl(s, c)    == [s EXCEPT !.controls = @ \cup {c}]
WithoutControl(s, c) == [s EXCEPT !.controls = @ \ {c}]

\* Faulty variant: a stop is written whatever the latch says.
LatchOverwrites(p, c) ==
  /\ \E ok \in BOOLEAN : Install(p, Persisted(WithControl(state[p], c), file, ok))
  /\ KeepPhase /\ KeepStops

LatchControl(p, c) ==
  /\ \/ /\ state[p].err
        /\ Install(p, Store(WithControl(state[p], c), file))
        /\ KeepStops
     \/ /\ ~state[p].err
        /\ \E ok \in BOOLEAN :
             /\ Install(p, Persisted(WithControl(state[p], c), file, ok))
             /\ standing' = IF ok THEN standing \cup {c} ELSE standing
  /\ KeepPhase

\* Faulty variant: a failed release write is not rolled back in memory.
ReleaseWithoutRollback(p, c) ==
  /\ ~state[p].err
  /\ \E ok \in BOOLEAN :
       Install(p, Persisted(WithoutControl(state[p], c), file, ok))
  /\ KeepPhase /\ KeepStops

\* A failed release leaves the control active, whether or not it was before.
ReleaseControl(p, c) ==
  /\ \/ /\ state[p].err
        /\ Install(p, Store(FailClosed(state[p]), file))
        /\ KeepStops
     \/ /\ ~state[p].err
        /\ Install(p, Persisted(WithoutControl(state[p], c), file, TRUE))
        /\ standing' = standing \ {c}
     \/ /\ ~state[p].err
        /\ Install(p, Persisted(WithControl(state[p], c), file, FALSE))
        /\ KeepStops
  /\ KeepPhase

-----------------------------------------------------------------------------
(***************************************************************************)
(* The risk part of the firewall's evaluate, and the order it admits.      *)
(* Another process may write the file between its read and its own write;  *)
(* so may another thread of the same one.                                  *)
(***************************************************************************)

\* refresh_persisted_state and the two control checks.
BeginEvaluate(p) ==
  /\ pc[p] = "idle"
  /\ \E ok, ok2 \in BOOLEAN :
       LET st == Loaded(state[p], file, TRUE, ok, ok2)
       IN  /\ Install(p, st)
           /\ pc' = [pc EXCEPT ![p] =
                       IF st.state.controls = {} THEN "refreshed" ELSE "idle"]
  /\ KeepStops

\* persistence_error, verify_persistence and the daily-loss check, whose
\* daily_loss_cents may roll the day over.
FinishEvaluate(p) ==
  /\ pc[p] = "refreshed"
  /\ \/ /\ state[p].err
        /\ pc' = [pc EXCEPT ![p] = "idle"]
        /\ UNCHANGED <<state, file, today>>
     \/ /\ ~state[p].err
        /\ Install(p, Persisted(state[p], file, FALSE))
        /\ pc' = [pc EXCEPT ![p] = "idle"]
     \/ /\ ~state[p].err
        /\ \E ok \in BOOLEAN :
             LET st == RolledOver(Persisted(state[p], file, TRUE), ok)
             IN  /\ Install(p, st)
                 /\ pc' = [pc EXCEPT ![p] =
                             IF st.state.loss < MaxDailyLoss THEN "allowed" ELSE "idle"]
  /\ KeepStops

SubmitOrder(p) ==
  /\ pc[p] = "allowed"
  /\ pc' = [pc EXCEPT ![p] = "idle"]
  /\ UNCHANGED <<state, file, today, standing>>

-----------------------------------------------------------------------------
(***************************************************************************)
(* The environment                                                         *)
(***************************************************************************)

Restart(p) ==
  /\ \E ok, ok2 \in BOOLEAN : Install(p, Loaded(Fresh(today), file, FALSE, ok, ok2))
  /\ pc' = [pc EXCEPT ![p] = "idle"]
  /\ KeepStops

FileBreaks ==
  /\ FileCanBreak
  /\ file.status # "missing"
  /\ file' = [file EXCEPT !.status = "broken"]
  /\ UNCHANGED <<state, today, pc, standing>>

OperatorRepair ==
  /\ file.status = "broken"
  /\ file' = [file EXCEPT !.status = "ok"]
  /\ UNCHANGED <<state, today, pc, standing>>

NextDay ==
  /\ today < MaxDay
  /\ today' = today + 1
  /\ UNCHANGED <<state, file, pc, standing>>

-----------------------------------------------------------------------------
\* A deployment starts on no file, on one from before the controls, or on one
\* it wrote itself, and every process has loaded it.
Init ==
  /\ today = 0
  /\ \E status \in {"missing", "legacy", "ok"} :
       file = [Payload(Fresh(0)) EXCEPT !.status = status]
  /\ state = [p \in Proc |-> Loaded(Fresh(0), file, FALSE, TRUE, FALSE).state]
  /\ pc = [p \in Proc |-> "idle"]
  /\ standing = {}

Next ==
  \/ \E p \in Proc :
       \/ \E s \in Settlement : RecordRealizedPnl(p, s)
       \/ \E c \in Control : LatchControl(p, c) \/ ReleaseControl(p, c)
       \/ BeginEvaluate(p) \/ FinishEvaluate(p) \/ SubmitOrder(p)
       \/ Restart(p)
  \/ FileBreaks \/ OperatorRepair \/ NextDay

Spec == Init /\ [][Next]_vars

-----------------------------------------------------------------------------
(***************************************************************************)
(* Properties                                                              *)
(***************************************************************************)

\* Shapes of the processes' copies and of the file.
TypeOK ==
  /\ state \in [Proc -> [controls : SUBSET Control, loss : Nat, date : 0..MaxDay,
                         processed : SUBSET Settlement, err : BOOLEAN]]
  /\ file \in [status : FileStatus, controls : SUBSET Control, loss : Nat,
               date : 0..MaxDay, processed : SUBSET Settlement]
  /\ today \in 0..MaxDay
  /\ pc \in [Proc -> Phase]
  /\ standing \subseteq Control

\* The daily loss counts every settlement it knows once and nothing else: in
\* every process and in the file, through day changes, repeated settlement
\* reports, failed writes and copies that overwrite each other.
CountsItsSettlements(book) == book.loss = SumFunctionOnSet(LossOf, book.processed)

LossMatchesSettlements ==
  /\ CountsItsSettlements(file)
  /\ \A p \in Proc : CountsItsSettlements(state[p])

\* A stop that a process has active becomes inactive there only if the file
\* agrees at that moment: a release whose write fails, a refresh or a restart
\* never trades on a stop that is only gone from memory.  (Where no file was
\* ever written a restart has nothing to read.)
ReleaseIsDurable ==
  [][\A p \in Proc, c \in Control :
       c \in state[p].controls /\ c \notin state'[p].controls =>
         \/ file'.status = "ok" /\ c \notin file'.controls
         \/ file.status = "missing"]_vars

\* core/state.py:168: once every process has latched persistence_error, an
\* unreadable file is left as it is until the operator repairs it, whatever
\* is called on the processes, a new day and restarts included.
UnreadableFileIsKept ==
  [][file.status = "broken" /\ (\A p \in Proc : state[p].err) =>
       file' = file \/ file' = [file EXCEPT !.status = "ok"]]_vars

\* core/state.py:179 "This closes the multi-process gap where an operator
\* latches a stop in the dashboard process while a long-running executor still
\* has a stale in-memory copy": while a stop stands, no evaluate that begins
\* gets past its control checks, in whichever process it was latched.
StandingStopBlocks ==
  [][\A p \in Proc : pc[p] = "idle" /\ pc'[p] = "refreshed" => standing = {}]_vars

=============================================================================
