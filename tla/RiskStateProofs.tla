--------------------------- MODULE RiskStateProofs ---------------------------
(***************************************************************************)
(* The stop controls and the quarantine of an unreadable risk state, for   *)
(* any number of processes and settlements, any losses and any days; and   *)
(* that a reported stop holds where one process uses the file.             *)
(***************************************************************************)
EXTENDS RiskState, SumTheorems

-----------------------------------------------------------------------------
(***************************************************************************)
(* Reading and writing                                                     *)
(***************************************************************************)

StateSet == [controls : SUBSET Control, loss : Nat, date : 0..MaxDay,
             processed : SUBSET Settlement, err : BOOLEAN]
FileSet  == [status : FileStatus, controls : SUBSET Control, loss : Nat,
             date : 0..MaxDay, processed : SUBSET Settlement]

StoreOK(st) == st.state \in StateSet /\ st.file \in FileSet

\* The file has the controls that the state has.
Agrees(st) == st.file.status = "ok" /\ st.file.controls = st.state.controls

\* What is written of a well-typed state is a well-typed file.
LEMMA PayloadOK ==
  ASSUME NEW s \in StateSet
  PROVE  Payload(s) \in FileSet
BY DEF StateSet, FileSet, Payload, FileStatus

\* A write keeps the state's controls; the file has them or is as it was.
LEMMA PersistedOK ==
  ASSUME NEW s \in StateSet, NEW f \in FileSet, NEW ok \in BOOLEAN
  PROVE  /\ StoreOK(Persisted(s, f, ok))
         /\ Persisted(s, f, ok).state.controls = s.controls
         /\ Persisted(s, f, ok).file = f \/ Agrees(Persisted(s, f, ok))
<1>1. [s EXCEPT !.err = ~ok] \in StateSet
  BY DEF StateSet
<1>2. [s EXCEPT !.err = ~ok].controls = s.controls
  BY DEF StateSet
<1> QED
  BY <1>1, <1>2, PayloadOK DEF Persisted, Store, StoreOK, Agrees, Payload

\* So does a rollover, which writes or leaves the file alone.
LEMMA RolledOverOK ==
  ASSUME TypeOK, NEW s \in StateSet, NEW f \in FileSet, NEW ok \in BOOLEAN
  PROVE  /\ StoreOK(RolledOver(Store(s, f), ok))
         /\ RolledOver(Store(s, f), ok).state.controls = s.controls
         /\ RolledOver(Store(s, f), ok).file = f \/ Agrees(RolledOver(Store(s, f), ok))
<1> DEFINE new == [s EXCEPT !.date = today, !.loss = 0, !.processed = {}]
<1>1. new \in StateSet /\ new.controls = s.controls
  BY DEF TypeOK, StateSet
<1>2. CASE s.err \/ s.date = today
  BY <1>2 DEF RolledOver, Store, StoreOK
<1>3. CASE ~(s.err \/ s.date = today)
  <2>1. RolledOver(Store(s, f), ok) = Persisted(new, f, ok)
    BY <1>3 DEF RolledOver, Store
  <2> HIDE DEF new
  <2> QED
    BY <1>1, <2>1, PersistedOK
<1> QED
  BY <1>2, <1>3

\* Failing closed keeps the type and activates both controls.
LEMMA FailClosedOK ==
  ASSUME NEW s \in StateSet
  PROVE  FailClosed(s) \in StateSet /\ FailClosed(s).controls = Control
BY DEF FailClosed, StateSet

\* What a load of the file f may give: the controls of the file or all of them,
\* unless there is no file; and an unreadable file is left alone.
LoadResult(st, f) ==
  /\ StoreOK(st)
  /\ st.state.controls = Control \/ Agrees(st) \/ f.status = "missing"
  /\ f.status = "broken" => st.file = f

\* _load_risk_state gives a result of this kind.
LEMMA LoadedOK ==
  ASSUME TypeOK, NEW s \in StateSet, NEW f \in FileSet, NEW required \in BOOLEAN,
         NEW ok \in BOOLEAN, NEW ok2 \in BOOLEAN
  PROVE  LoadResult(Loaded(s, f, required, ok, ok2), f)
<1> DEFINE st == Loaded(s, f, required, ok, ok2)
<1>1. f.status \in {"missing", "broken", "ok", "legacy"}
  BY DEF FileSet, FileStatus
<1>2. ASSUME f.status = "missing" PROVE st = Store(IF required THEN FailClosed(s) ELSE s, f)
  BY <1>2 DEF Loaded
<1>3. ASSUME f.status = "broken" PROVE st = Store(FailClosed(s), f)
  BY <1>3 DEF Loaded
<1>4. ASSUME f.status = "ok" PROVE st = RolledOver(Store(FromFile(f, f.controls), f), ok)
  BY <1>4 DEF Loaded
<1> DEFINE rolled == RolledOver(Store(FromFile(f, Control), f), ok)
<1>5. ASSUME f.status = "legacy" PROVE st = Persisted(rolled.state, rolled.file, ok2)
  BY <1>5 DEF Loaded
<1>6. StoreOK(rolled) /\ rolled.state.controls = Control
  <2>1. FromFile(f, Control) \in StateSet /\ FromFile(f, Control).controls = Control
    BY DEF FromFile, FileSet, StateSet
  <2> QED
    BY <2>1, RolledOverOK
<1>7. FromFile(f, f.controls) \in StateSet /\ FromFile(f, f.controls).controls = f.controls
  BY DEF FromFile, FileSet, StateSet
<1> SUFFICES LoadResult(st, f)
  OBVIOUS
<1> HIDE DEF st, rolled
<1>8. CASE f.status = "missing"
  BY <1>2, <1>8, FailClosedOK DEF Store, StoreOK, LoadResult
<1>9. CASE f.status = "broken"
  BY <1>3, <1>9, FailClosedOK DEF Store, StoreOK, LoadResult
<1>10. CASE f.status = "ok"
  <2>1. StoreOK(st) /\ st.state.controls = f.controls /\ (st.file = f \/ Agrees(st))
    BY <1>4, <1>7, <1>10, RolledOverOK
  <2> QED
    BY <1>10, <2>1 DEF Agrees, LoadResult
<1>11. CASE f.status = "legacy"
  <2>1. StoreOK(st) /\ st.state.controls = Control
    BY <1>5, <1>6, <1>11, PersistedOK DEF StoreOK
  <2> QED
    BY <1>11, <2>1 DEF LoadResult
<1> QED
  BY <1>1, <1>8, <1>9, <1>10, <1>11

-----------------------------------------------------------------------------
(***************************************************************************)
(* Every action of a process installs a store of this kind                 *)
(***************************************************************************)

\* A control that the store of p no longer has is gone from the file too, and
\* a latched process leaves an unreadable file alone.
Legal(p, st) ==
  /\ StoreOK(st)
  /\ \A c \in state[p].controls \ st.state.controls :
       \/ st.file.status = "ok" /\ c \notin st.file.controls
       \/ file.status = "missing"
  /\ file.status = "broken" /\ state[p].err => st.file = file

ProcessStep(p) ==
  \/ UNCHANGED <<state, file, today>>
  \/ \E st : Install(p, st) /\ Legal(p, st)

\* The copies and the file of a well-typed state are well typed.
LEMMA CurrentOK ==
  ASSUME TypeOK, NEW p \in Proc
  PROVE  state[p] \in StateSet /\ file \in FileSet
BY DEF TypeOK, StateSet, FileSet

\* A counted settlement keeps the controls and the shape.
LEMMA CountedOK ==
  ASSUME NEW b \in StateSet, NEW s \in Settlement
  PROVE  Counted(b, s) \in StateSet /\ Counted(b, s).controls = b.controls
<1>1. LossOf[s] \in Nat
  BY RiskStateConstants
<1> DEFINE loss == b.loss + LossOf[s]
           ids  == b.processed \cup {s}
<1>2. loss \in Nat /\ ids \in SUBSET Settlement
  BY <1>1 DEF StateSet
<1>3. Counted(b, s) = [b EXCEPT !.processed = ids, !.loss = loss]
  BY DEF Counted
<1> HIDE DEF loss, ids
<1> QED
  BY <1>2, <1>3 DEF StateSet

\* record_realized_pnl is legal.
LEMMA RecordLegal ==
  ASSUME TypeOK, NEW p \in Proc, NEW s \in Settlement, RecordRealizedPnl(p, s)
  PROVE  ProcessStep(p)
<1>1. PICK ok \in BOOLEAN, ok2 \in BOOLEAN :
        LET st == RolledOver(Store(state[p], file), ok)
        IN  IF s \in st.state.processed
              THEN Install(p, st)
              ELSE Install(p, Persisted(Counted(st.state, s), st.file, ok2))
  BY DEF RecordRealizedPnl
<1> DEFINE st  == RolledOver(Store(state[p], file), ok)
           new == Counted(st.state, s)
<1>2. StoreOK(st) /\ st.state.controls = state[p].controls
  BY CurrentOK, RolledOverOK
<1> HIDE DEF st
<1>4. new \in StateSet /\ new.controls = state[p].controls
  BY <1>2, CountedOK DEF StoreOK
<1>5. ~state[p].err
  BY DEF RecordRealizedPnl
<1>6. CASE s \in st.state.processed
  <2>1. Install(p, st)
    BY <1>1, <1>6 DEF st
  <2> QED
    BY <1>2, <1>5, <2>1 DEF ProcessStep, Legal
<1>7. CASE s \notin st.state.processed
  <2>1. Install(p, Persisted(new, st.file, ok2))
    BY <1>1, <1>7 DEF st
  <2> HIDE DEF new
  <2>2. /\ StoreOK(Persisted(new, st.file, ok2))
        /\ Persisted(new, st.file, ok2).state.controls = state[p].controls
    BY <1>2, <1>4, PersistedOK DEF StoreOK
  <2> QED
    BY <1>5, <2>1, <2>2 DEF ProcessStep, Legal
<1> QED
  BY <1>6, <1>7

\* Setting or clearing one control keeps the type.
LEMMA ControlsOK ==
  ASSUME TypeOK, NEW p \in Proc, NEW c \in Control
  PROVE  /\ WithControl(state[p], c) \in StateSet
         /\ WithControl(state[p], c).controls = state[p].controls \cup {c}
         /\ WithoutControl(state[p], c) \in StateSet
BY CurrentOK DEF WithControl, WithoutControl, StateSet

\* Latching a stop is legal.
LEMMA LatchLegal ==
  ASSUME TypeOK, NEW p \in Proc, NEW c \in Control, LatchControl(p, c)
  PROVE  ProcessStep(p)
<1> DEFINE s == WithControl(state[p], c)
<1>1. s \in StateSet /\ s.controls = state[p].controls \cup {c}
  BY ControlsOK
<1> HIDE DEF s
<1>2. CASE state[p].err /\ Install(p, Store(s, file))
  BY <1>1, <1>2, CurrentOK DEF ProcessStep, Legal, Store, StoreOK
<1>3. CASE ~state[p].err /\ \E ok \in BOOLEAN : Install(p, Persisted(s, file, ok))
  BY <1>1, <1>3, CurrentOK, PersistedOK DEF ProcessStep, Legal
<1> QED
  BY <1>2, <1>3 DEF LatchControl, s

\* Releasing a stop is legal: it is rolled back unless the file has it.
LEMMA ReleaseLegal ==
  ASSUME TypeOK, NEW p \in Proc, NEW c \in Control, ReleaseControl(p, c)
  PROVE  ProcessStep(p)
<1> DEFINE without == WithoutControl(state[p], c)
           with    == WithControl(state[p], c)
<1>1. without \in StateSet
  BY ControlsOK
<1>2. with \in StateSet /\ with.controls = state[p].controls \cup {c}
  BY ControlsOK
<1>3. \/ state[p].err /\ Install(p, Store(FailClosed(state[p]), file))
      \/ ~state[p].err /\ Install(p, Persisted(without, file, TRUE))
      \/ ~state[p].err /\ Install(p, Persisted(with, file, FALSE))
  BY DEF ReleaseControl
<1> HIDE DEF without, with
<1>4. CASE state[p].err /\ Install(p, Store(FailClosed(state[p]), file))
  BY <1>4, CurrentOK, FailClosedOK DEF ProcessStep, Legal, Store, StoreOK, StateSet
<1>5. CASE ~state[p].err /\ Install(p, Persisted(without, file, TRUE))
  <2>1. Agrees(Persisted(without, file, TRUE))
    BY <1>1 DEF Agrees, Persisted, Store, Payload, StateSet
  <2> QED
    BY <1>1, <1>5, <2>1, CurrentOK, PersistedOK DEF ProcessStep, Legal, Agrees
<1>6. CASE ~state[p].err /\ Install(p, Persisted(with, file, FALSE))
  BY <1>2, <1>6, CurrentOK, PersistedOK DEF ProcessStep, Legal
<1> QED
  BY <1>3, <1>4, <1>5, <1>6

\* What a load gives is legal.
LEMMA LoadLegal ==
  ASSUME TypeOK, NEW p \in Proc, NEW st, LoadResult(st, file)
  PROVE  Legal(p, st)
BY CurrentOK DEF LoadResult, Legal, Agrees, StateSet

\* The refresh of an evaluate is legal.
LEMMA BeginLegal ==
  ASSUME TypeOK, NEW p \in Proc, BeginEvaluate(p)
  PROVE  ProcessStep(p)
<1>1. PICK ok \in BOOLEAN, ok2 \in BOOLEAN :
        Install(p, Loaded(state[p], file, TRUE, ok, ok2))
  BY DEF BeginEvaluate
<1> QED
  BY <1>1, CurrentOK, LoadedOK, LoadLegal DEF ProcessStep

\* A restart is legal.
LEMMA RestartLegal ==
  ASSUME TypeOK, NEW p \in Proc, Restart(p)
  PROVE  ProcessStep(p)
<1>1. PICK ok \in BOOLEAN, ok2 \in BOOLEAN :
        Install(p, Loaded(Fresh(today), file, FALSE, ok, ok2))
  BY DEF Restart
<1>2. Fresh(today) \in StateSet
  BY DEF Fresh, StateSet, TypeOK
<1> QED
  BY <1>1, <1>2, CurrentOK, LoadedOK, LoadLegal DEF ProcessStep

\* The probing write and the rollover of an evaluate are legal.
LEMMA FinishLegal ==
  ASSUME TypeOK, NEW p \in Proc, FinishEvaluate(p)
  PROVE  ProcessStep(p)
<1>1. CASE UNCHANGED <<state, file, today>>
  BY <1>1 DEF ProcessStep
<1>2. CASE ~state[p].err /\ Install(p, Persisted(state[p], file, FALSE))
  BY <1>2, CurrentOK, PersistedOK DEF ProcessStep, Legal
<1>3. ASSUME ~state[p].err, NEW ok \in BOOLEAN,
             Install(p, RolledOver(Persisted(state[p], file, TRUE), ok))
      PROVE  ProcessStep(p)
  <2> DEFINE w == Persisted(state[p], file, TRUE)
  <2>1. StoreOK(w) /\ w.state.controls = state[p].controls /\ w = Store(w.state, w.file)
    BY CurrentOK, PersistedOK DEF Persisted, Store
  <2> HIDE DEF w
  <2>2. /\ StoreOK(RolledOver(w, ok))
        /\ RolledOver(w, ok).state.controls = state[p].controls
    BY <2>1, RolledOverOK DEF StoreOK
  <2> QED
    BY <1>3, <2>2 DEF ProcessStep, Legal, w
<1> QED
  BY <1>1, <1>2, <1>3 DEF FinishEvaluate

\* Every step is one process's, or one of the environment's.
EnvironmentStep ==
  \/ FileBreaks
  \/ OperatorRepair
  \/ UNCHANGED <<state, file>> /\ today' \in 0..MaxDay

\* Every step of the system is of one of these kinds.
LEMMA NextSteps ==
  ASSUME TypeOK, [Next]_vars
  PROVE  EnvironmentStep \/ \E p \in Proc : ProcessStep(p)
<1>1. ASSUME NEW p \in Proc,
             \/ \E s \in Settlement : RecordRealizedPnl(p, s)
             \/ \E c \in Control : LatchControl(p, c) \/ ReleaseControl(p, c)
             \/ BeginEvaluate(p) \/ FinishEvaluate(p) \/ Restart(p)
      PROVE  ProcessStep(p)
  BY <1>1, RecordLegal, LatchLegal, ReleaseLegal, BeginLegal, FinishLegal, RestartLegal
<1>2. ASSUME NEW p \in Proc, SubmitOrder(p)
      PROVE  EnvironmentStep
  BY <1>2 DEF SubmitOrder, EnvironmentStep, TypeOK
<1>3. ASSUME NextDay PROVE EnvironmentStep
  BY <1>3, RiskStateConstants DEF NextDay, EnvironmentStep, TypeOK
<1>4. ASSUME UNCHANGED vars PROVE EnvironmentStep
  BY <1>4 DEF vars, EnvironmentStep, TypeOK
<1> QED
  BY <1>1, <1>2, <1>3, <1>4 DEF Next, EnvironmentStep

-----------------------------------------------------------------------------
(***************************************************************************)
(* Types                                                                   *)
(***************************************************************************)

\* The phase of an evaluate and the history keep their types.
LEMMA PhaseAndHistory ==
  ASSUME TypeOK, [Next]_vars
  PROVE  pc' \in [Proc -> Phase] /\ standing' \subseteq Control
<1> USE DEF TypeOK, Phase
<1>1. ASSUME NEW p \in Proc, NEW s \in Settlement, RecordRealizedPnl(p, s)
      PROVE  pc' \in [Proc -> Phase] /\ standing' \subseteq Control
  BY <1>1 DEF RecordRealizedPnl, KeepPhase, KeepStops
<1>2. ASSUME NEW p \in Proc, NEW c \in Control, LatchControl(p, c)
      PROVE  pc' \in [Proc -> Phase] /\ standing' \subseteq Control
  BY <1>2 DEF LatchControl, KeepPhase, KeepStops
<1>3. ASSUME NEW p \in Proc, NEW c \in Control, ReleaseControl(p, c)
      PROVE  pc' \in [Proc -> Phase] /\ standing' \subseteq Control
  BY <1>3 DEF ReleaseControl, KeepPhase, KeepStops
<1>4. ASSUME NEW p \in Proc,
             BeginEvaluate(p) \/ FinishEvaluate(p) \/ SubmitOrder(p) \/ Restart(p)
      PROVE  pc' \in [Proc -> Phase] /\ standing' \subseteq Control
  <2>1. standing' = standing
    BY <1>4 DEF BeginEvaluate, FinishEvaluate, SubmitOrder, Restart, KeepStops
  <2>2. \E phase \in Phase : pc' = [pc EXCEPT ![p] = phase]
    BY <1>4 DEF BeginEvaluate, FinishEvaluate, SubmitOrder, Restart
  <2> QED
    BY <2>1, <2>2
<1>5. ASSUME FileBreaks \/ OperatorRepair \/ NextDay \/ UNCHANGED vars
      PROVE  pc' \in [Proc -> Phase] /\ standing' \subseteq Control
  BY <1>5 DEF FileBreaks, OperatorRepair, NextDay, vars
<1> QED
  BY <1>1, <1>2, <1>3, <1>4, <1>5 DEF Next

\* Every step keeps the types.
LEMMA TypeStep ==
  ASSUME TypeOK, [Next]_vars
  PROVE  TypeOK'
<1> DEFINE StoresTyped ==
      state \in [Proc -> StateSet] /\ file \in FileSet /\ today \in 0..MaxDay
<1>1. StoresTyped
  BY DEF TypeOK, StateSet, FileSet
<1>2. ASSUME NEW p \in Proc, ProcessStep(p)
      PROVE  StoresTyped'
  <2>1. CASE UNCHANGED <<state, file, today>>
    BY <1>1, <2>1 DEF StateSet, FileSet
  <2>2. ASSUME NEW st, Install(p, st), Legal(p, st)
        PROVE  StoresTyped'
    <3>1. st.state \in StateSet /\ st.file \in FileSet
      BY <2>2 DEF Legal, StoreOK
    <3> QED
      BY <1>1, <2>2, <3>1 DEF Install, StateSet, FileSet
  <2> QED
    BY <1>2, <2>1, <2>2 DEF ProcessStep
<1>3. ASSUME EnvironmentStep
      PROVE  StoresTyped'
  <2>1. CASE FileBreaks
    BY <1>1, <2>1 DEF FileBreaks, FileSet, FileStatus, StateSet
  <2>2. CASE OperatorRepair
    BY <1>1, <2>2 DEF OperatorRepair, FileSet, FileStatus, StateSet
  <2>3. CASE UNCHANGED <<state, file>> /\ today' \in 0..MaxDay
    BY <1>1, <2>3 DEF FileSet, StateSet
  <2> QED
    BY <1>3, <2>1, <2>2, <2>3 DEF EnvironmentStep
<1>4. StoresTyped'
  BY <1>2, <1>3, NextSteps
<1> QED
  BY <1>4, PhaseAndHistory DEF TypeOK, StateSet, FileSet, Control, FileStatus, Phase

\* A deployment starts well typed.
LEMMA InitTyped == Init => TypeOK
<1> SUFFICES ASSUME Init PROVE TypeOK
  OBVIOUS
<1>1. Fresh(0) \in StateSet /\ today = 0 /\ today \in 0..MaxDay
  BY RiskStateConstants DEF Init, Fresh, StateSet
<1>2. file \in FileSet
  BY <1>1, PayloadOK DEF Init, FileSet, FileStatus
<1>3. pc \in [Proc -> Phase] /\ standing \subseteq Control
  BY DEF Init, Phase
<1>4. file.date = today /\ file.controls = {} /\ file.processed = {} /\ file.loss = 0
  BY <1>1 DEF Init, Payload, Fresh
<1>5. ASSUME NEW p \in Proc
      PROVE  Loaded(Fresh(0), file, FALSE, TRUE, FALSE).state \in StateSet
  <2>1. file.status \in {"missing", "ok", "legacy"}
    BY DEF Init, Payload
  <2>2. CASE file.status = "missing"
    BY <1>1, <2>2 DEF Loaded, Store
  <2>3. CASE file.status = "ok"
    BY <1>1, <1>4, <2>3 DEF Loaded, Store, RolledOver, FromFile, StateSet
  <2>4. CASE file.status = "legacy"
    <3> DEFINE copy   == FromFile(file, Control)
               rolled == RolledOver(Store(copy, file), TRUE)
    <3>1. copy \in StateSet /\ copy.date = today
      BY <1>1, <1>4 DEF FromFile, StateSet
    <3>2. rolled.state = copy /\ rolled.file = file
      BY <3>1 DEF RolledOver, Store
    <3>3. Loaded(Fresh(0), file, FALSE, TRUE, FALSE)
            = Persisted(rolled.state, rolled.file, FALSE)
      BY <2>4 DEF Loaded
    <3> HIDE DEF copy, rolled
    <3> QED
      BY <1>2, <3>1, <3>2, <3>3, PersistedOK DEF StoreOK
  <2> QED
    BY <2>1, <2>2, <2>3, <2>4
<1>6. state \in [Proc -> StateSet]
  BY <1>5 DEF Init
<1> QED
  BY <1>1, <1>2, <1>3, <1>6 DEF TypeOK, StateSet, FileSet

\* The copies of every process and the file keep their types, whatever is
\* called in whichever process and whichever writes fail.
THEOREM RiskTypeCorrect == Spec => []TypeOK
<1>1. TypeOK /\ [Next]_vars => TypeOK'
  BY TypeStep
<1> QED
  BY <1>1, InitTyped, PTL DEF Spec

-----------------------------------------------------------------------------
(***************************************************************************)
(* The controls and the quarantine                                         *)
(***************************************************************************)

\* core/state.py:219-262: a stop disappears from the memory of a process only
\* when it is gone from the file as well.
THEOREM ReleasesAreDurable == Spec => ReleaseIsDurable
<1>1. ASSUME TypeOK, [Next]_vars, NEW p \in Proc, NEW c \in Control,
             c \in state[p].controls, c \notin state'[p].controls
      PROVE  \/ file'.status = "ok" /\ c \notin file'.controls
             \/ file.status = "missing"
  <2>1. ~EnvironmentStep
    BY <1>1 DEF EnvironmentStep, FileBreaks, OperatorRepair
  <2>2. PICK q \in Proc : ProcessStep(q)
    BY <1>1, <2>1, NextSteps
  <2>3. PICK st : Install(q, st) /\ Legal(q, st)
    BY <1>1, <2>2 DEF ProcessStep
  <2>4. p = q /\ state'[p] = st.state /\ file' = st.file
    BY <1>1, <2>3 DEF Install, TypeOK
  <2> QED
    BY <1>1, <2>3, <2>4 DEF Legal
<1>2. TypeOK /\ [Next]_vars =>
        [\A p \in Proc, c \in Control :
           c \in state[p].controls /\ c \notin state'[p].controls =>
             \/ file'.status = "ok" /\ c \notin file'.controls
             \/ file.status = "missing"]_vars
  BY <1>1
<1> QED
  BY <1>2, RiskTypeCorrect, PTL DEF Spec, ReleaseIsDurable

\* core/state.py:168: no call on a process that has latched persistence_error
\* replaces an unreadable file.
THEOREM QuarantineKept == Spec => UnreadableFileIsKept
<1>1. ASSUME TypeOK, [Next]_vars, file.status = "broken", \A p \in Proc : state[p].err
      PROVE  file' = file \/ file' = [file EXCEPT !.status = "ok"]
  <2>1. CASE EnvironmentStep
    <3>1. CASE FileBreaks
      BY <1>1, <3>1 DEF FileBreaks, TypeOK
    <3>2. CASE OperatorRepair
      BY <3>2 DEF OperatorRepair
    <3> QED
      BY <2>1, <3>1, <3>2 DEF EnvironmentStep
  <2>2. ASSUME NEW p \in Proc, ProcessStep(p)
        PROVE  file' = file
    BY <1>1, <2>2 DEF ProcessStep, Install, Legal
  <2> QED
    BY <1>1, <2>1, <2>2, NextSteps
<1>2. TypeOK /\ [Next]_vars =>
        [file.status = "broken" /\ (\A p \in Proc : state[p].err) =>
           file' = file \/ file' = [file EXCEPT !.status = "ok"]]_vars
  BY <1>1
<1> QED
  BY <1>2, RiskTypeCorrect, PTL DEF Spec, UnreadableFileIsKept

-----------------------------------------------------------------------------
(***************************************************************************)
(* The daily loss: every book that an operation builds still counts what   *)
(* it holds, and what is written is one of those books.                    *)
(***************************************************************************)

StoreCounts(st) == CountsItsSettlements(st.state) /\ CountsItsSettlements(st.file)

\* No settlements, no loss.
LEMMA EmptyBookCounts ==
  ASSUME NEW b, b.loss = 0, b.processed = {}
  PROVE  CountsItsSettlements(b)
BY SumEmpty DEF CountsItsSettlements

\* A book counts its settlements as long as neither changes.
LEMMA SameBookCounts ==
  ASSUME NEW b, CountsItsSettlements(b), NEW c, c.loss = b.loss, c.processed = b.processed
  PROVE  CountsItsSettlements(c)
BY DEF CountsItsSettlements

\* A settlement counted once more adds its loss.
LEMMA CountedCounts ==
  ASSUME NEW b \in StateSet, CountsItsSettlements(b), NEW s \in Settlement \ b.processed
  PROVE  CountsItsSettlements(Counted(b, s))
<1> DEFINE ids == b.processed
<1>1. IsFiniteSet(ids) /\ s \notin ids /\ \A x \in ids \cup {s} : LossOf[x] \in Int
  BY RiskStateConstants, FS_Subset DEF StateSet
<1>2. Counted(b, s).processed = ids \cup {s} /\ Counted(b, s).loss = b.loss + LossOf[s]
  BY DEF Counted, StateSet
<1>3. b.loss = SumFunctionOnSet(LossOf, ids)
  BY DEF CountsItsSettlements
<1> HIDE DEF ids
<1>4. SumFunctionOnSet(LossOf, ids \cup {s}) = SumFunctionOnSet(LossOf, ids) + LossOf[s]
  BY <1>1, SumAdds
<1> QED
  BY <1>2, <1>3, <1>4, Zenon DEF CountsItsSettlements

\* A write copies the book or leaves the file alone.
LEMMA PersistedCounts ==
  ASSUME NEW s \in StateSet, CountsItsSettlements(s), NEW f, CountsItsSettlements(f),
         NEW ok \in BOOLEAN
  PROVE  StoreCounts(Persisted(s, f, ok))
<1>1. Persisted(s, f, ok).state.loss = s.loss /\ Persisted(s, f, ok).state.processed = s.processed
  BY DEF Persisted, Store, StateSet
<1>2. Payload(s).loss = s.loss /\ Payload(s).processed = s.processed
  BY DEF Payload
<1>3. Persisted(s, f, ok).file = f \/ Persisted(s, f, ok).file = Payload(s)
  BY DEF Persisted, Store
<1> QED
  BY <1>1, <1>2, <1>3, SameBookCounts DEF StoreCounts

\* A new day starts on an empty book.
LEMMA RolledOverCounts ==
  ASSUME TypeOK, NEW s \in StateSet, CountsItsSettlements(s),
         NEW f, CountsItsSettlements(f), NEW ok \in BOOLEAN
  PROVE  StoreCounts(RolledOver(Store(s, f), ok))
<1> DEFINE new == [s EXCEPT !.date = today, !.loss = 0, !.processed = {}]
<1>1. new \in StateSet /\ CountsItsSettlements(new)
  BY EmptyBookCounts DEF TypeOK, StateSet
<1>2. CASE s.err \/ s.date = today
  BY <1>2 DEF RolledOver, Store, StoreCounts
<1>3. CASE ~(s.err \/ s.date = today)
  <2>1. RolledOver(Store(s, f), ok) = Persisted(new, f, ok)
    BY <1>3 DEF RolledOver, Store
  <2> HIDE DEF new
  <2> QED
    BY <1>1, <2>1, PersistedCounts
<1> QED
  BY <1>2, <1>3

\* A load takes over the book of the file, or keeps the caller's.
LEMMA LoadedCounts ==
  ASSUME TypeOK, NEW s \in StateSet, CountsItsSettlements(s),
         NEW f \in FileSet, CountsItsSettlements(f),
         NEW required \in BOOLEAN, NEW ok \in BOOLEAN, NEW ok2 \in BOOLEAN
  PROVE  StoreCounts(Loaded(s, f, required, ok, ok2))
<1> DEFINE st == Loaded(s, f, required, ok, ok2)
           rolled == RolledOver(Store(FromFile(f, Control), f), ok)
<1>1. f.status \in {"missing", "broken", "ok", "legacy"}
  BY DEF FileSet, FileStatus
<1>2. CountsItsSettlements(FailClosed(s))
  BY SameBookCounts DEF FailClosed, StateSet
<1>3. ASSUME NEW controls \in SUBSET Control
      PROVE  FromFile(f, controls) \in StateSet /\ CountsItsSettlements(FromFile(f, controls))
  BY SameBookCounts DEF FromFile, FileSet, StateSet
<1>4. ASSUME f.status = "missing" PROVE st = Store(IF required THEN FailClosed(s) ELSE s, f)
  BY <1>4 DEF Loaded
<1>5. ASSUME f.status = "broken" PROVE st = Store(FailClosed(s), f)
  BY <1>5 DEF Loaded
<1>6. ASSUME f.status = "ok" PROVE st = RolledOver(Store(FromFile(f, f.controls), f), ok)
  BY <1>6 DEF Loaded
<1>7. ASSUME f.status = "legacy" PROVE st = Persisted(rolled.state, rolled.file, ok2)
  BY <1>7 DEF Loaded
<1>8. StoreCounts(rolled) /\ rolled.state \in StateSet
  BY <1>3, RolledOverCounts, RolledOverOK DEF StoreOK
<1>9. f.controls \in SUBSET Control
  BY DEF FileSet
<1> SUFFICES StoreCounts(st)
  OBVIOUS
<1> HIDE DEF st, rolled
<1>10. CASE f.status = "missing"
  BY <1>2, <1>4, <1>10 DEF Store, StoreCounts
<1>11. CASE f.status = "broken"
  BY <1>2, <1>5, <1>11 DEF Store, StoreCounts
<1>12. CASE f.status = "ok"
  BY <1>3, <1>6, <1>9, <1>12, RolledOverCounts
<1>13. CASE f.status = "legacy"
  BY <1>7, <1>8, <1>13, PersistedCounts DEF StoreCounts
<1> QED
  BY <1>1, <1>10, <1>11, <1>12, <1>13

\* What every action of a process installs.
InstallsCounts(p) ==
  \/ UNCHANGED <<state, file>>
  \/ \E st : Install(p, st) /\ StoreCounts(st)

\* record_realized_pnl counts a settlement that the book does not have.
LEMMA RecordCounts ==
  ASSUME TypeOK, LossMatchesSettlements, NEW p \in Proc, NEW s \in Settlement,
         RecordRealizedPnl(p, s)
  PROVE  InstallsCounts(p)
<1>1. PICK ok \in BOOLEAN, ok2 \in BOOLEAN :
        LET st == RolledOver(Store(state[p], file), ok)
        IN  IF s \in st.state.processed
              THEN Install(p, st)
              ELSE Install(p, Persisted(Counted(st.state, s), st.file, ok2))
  BY DEF RecordRealizedPnl
<1> DEFINE st == RolledOver(Store(state[p], file), ok)
<1>2. StoreOK(st) /\ StoreCounts(st)
  BY CurrentOK, RolledOverOK, RolledOverCounts DEF LossMatchesSettlements
<1>3. CASE s \in st.state.processed
  BY <1>1, <1>2, <1>3 DEF InstallsCounts
<1>4. CASE s \notin st.state.processed
  <2>1. Install(p, Persisted(Counted(st.state, s), st.file, ok2))
    BY <1>1, <1>4
  <2> HIDE DEF st
  <2>2. Counted(st.state, s) \in StateSet /\ CountsItsSettlements(Counted(st.state, s))
    BY <1>2, <1>4, CountedOK, CountedCounts DEF StoreOK, StoreCounts
  <2>3. StoreCounts(Persisted(Counted(st.state, s), st.file, ok2))
    BY <1>2, <2>2, PersistedCounts DEF StoreCounts
  <2> QED
    BY <2>1, <2>3 DEF InstallsCounts
<1> QED
  BY <1>3, <1>4

\* The operator's controls leave the book alone.
LEMMA ControlCounts ==
  ASSUME TypeOK, LossMatchesSettlements, NEW p \in Proc, NEW c \in Control,
         LatchControl(p, c) \/ ReleaseControl(p, c)
  PROVE  InstallsCounts(p)
<1> DEFINE with    == WithControl(state[p], c)
           without == WithoutControl(state[p], c)
           failed  == FailClosed(state[p])
<1>1. with \in StateSet /\ without \in StateSet /\ failed \in StateSet
  BY CurrentOK, ControlsOK, FailClosedOK
<1>2. CountsItsSettlements(state[p]) /\ CountsItsSettlements(file)
  BY DEF LossMatchesSettlements
<1>3. CountsItsSettlements(with) /\ CountsItsSettlements(without) /\ CountsItsSettlements(failed)
  BY <1>2, CurrentOK, SameBookCounts DEF WithControl, WithoutControl, FailClosed, StateSet
<1>4. \/ Install(p, Store(with, file)) \/ Install(p, Store(failed, file))
      \/ \E ok \in BOOLEAN : Install(p, Persisted(with, file, ok))
      \/ Install(p, Persisted(without, file, TRUE))
  BY DEF LatchControl, ReleaseControl
<1> HIDE DEF with, without, failed
<1>5. StoreCounts(Store(with, file)) /\ StoreCounts(Store(failed, file))
  BY <1>2, <1>3 DEF StoreCounts, Store
<1>6. /\ \A ok \in BOOLEAN : StoreCounts(Persisted(with, file, ok))
      /\ StoreCounts(Persisted(without, file, TRUE))
  BY <1>1, <1>2, <1>3, PersistedCounts
<1> QED
  BY <1>4, <1>5, <1>6 DEF InstallsCounts

\* An evaluate reloads the book, probes the file with it and may start a new
\* day; a restart reloads it.
LEMMA EvaluateCounts ==
  ASSUME TypeOK, LossMatchesSettlements, NEW p \in Proc,
         BeginEvaluate(p) \/ FinishEvaluate(p) \/ Restart(p)
  PROVE  InstallsCounts(p)
<1>1. CountsItsSettlements(state[p]) /\ CountsItsSettlements(file)
  BY DEF LossMatchesSettlements
<1>2. state[p] \in StateSet /\ file \in FileSet
  BY CurrentOK
<1>3. CASE BeginEvaluate(p)
  <2>1. PICK ok \in BOOLEAN, ok2 \in BOOLEAN :
          Install(p, Loaded(state[p], file, TRUE, ok, ok2))
    BY <1>3 DEF BeginEvaluate
  <2> QED
    BY <1>1, <1>2, <2>1, LoadedCounts DEF InstallsCounts
<1>4. CASE Restart(p)
  <2>1. PICK ok \in BOOLEAN, ok2 \in BOOLEAN :
          Install(p, Loaded(Fresh(today), file, FALSE, ok, ok2))
    BY <1>4 DEF Restart
  <2>2. Fresh(today) \in StateSet /\ CountsItsSettlements(Fresh(today))
    BY EmptyBookCounts DEF Fresh, StateSet, TypeOK
  <2> QED
    BY <1>1, <1>2, <2>1, <2>2, LoadedCounts DEF InstallsCounts
<1>5. CASE FinishEvaluate(p)
  <2>1. CASE UNCHANGED <<state, file>>
    BY <2>1 DEF InstallsCounts
  <2>2. CASE Install(p, Persisted(state[p], file, FALSE))
    BY <1>1, <1>2, <2>2, PersistedCounts DEF InstallsCounts
  <2>3. ASSUME NEW ok \in BOOLEAN,
               Install(p, RolledOver(Persisted(state[p], file, TRUE), ok))
        PROVE  InstallsCounts(p)
    <3> DEFINE w == Persisted(state[p], file, TRUE)
    <3>1. StoreOK(w) /\ StoreCounts(w) /\ w = Store(w.state, w.file)
      BY <1>1, <1>2, PersistedOK, PersistedCounts DEF Persisted, Store
    <3> HIDE DEF w
    <3>2. StoreCounts(RolledOver(w, ok))
      BY <3>1, RolledOverCounts DEF StoreOK, StoreCounts
    <3> QED
      BY <2>3, <3>2 DEF InstallsCounts, w
  <2> QED
    BY <1>5, <2>1, <2>2, <2>3 DEF FinishEvaluate
<1> QED
  BY <1>3, <1>4, <1>5

\* Every step keeps the books.
LEMMA LossStep ==
  ASSUME TypeOK, LossMatchesSettlements, [Next]_vars
  PROVE  LossMatchesSettlements'
<1>1. ASSUME NEW p \in Proc, InstallsCounts(p)
      PROVE  LossMatchesSettlements'
  <2>1. CASE UNCHANGED <<state, file>>
    BY <2>1 DEF LossMatchesSettlements, CountsItsSettlements
  <2>2. ASSUME NEW st, Install(p, st), StoreCounts(st)
        PROVE  LossMatchesSettlements'
    <3>1. file' = st.file /\ \A q \in Proc : state'[q] \in {state[q], st.state}
      BY <2>2 DEF Install, TypeOK
    <3>2. \A q \in Proc : CountsItsSettlements(state'[q])
      BY <2>2, <3>1 DEF LossMatchesSettlements, StoreCounts
    <3> QED
      BY <2>2, <3>1, <3>2 DEF LossMatchesSettlements, StoreCounts, CountsItsSettlements
  <2> QED
    BY <1>1, <2>1, <2>2 DEF InstallsCounts
<1>2. CASE FileBreaks \/ OperatorRepair
  <2>1. state' = state /\ file'.loss = file.loss /\ file'.processed = file.processed
    BY <1>2 DEF FileBreaks, OperatorRepair, TypeOK
  <2> QED
    BY <2>1 DEF LossMatchesSettlements, CountsItsSettlements
<1>3. CASE NextDay \/ UNCHANGED vars \/ \E p \in Proc : SubmitOrder(p)
  <2>1. UNCHANGED <<state, file>>
    BY <1>3 DEF NextDay, vars, SubmitOrder
  <2> QED
    BY <2>1 DEF LossMatchesSettlements, CountsItsSettlements
<1> QED
  BY <1>1, <1>2, <1>3, RecordCounts, ControlCounts, EvaluateCounts DEF Next

\* A deployment starts with empty books.
LEMMA InitCounts == Init => LossMatchesSettlements
<1> SUFFICES ASSUME Init PROVE LossMatchesSettlements
  OBVIOUS
<1>1. TypeOK
  BY InitTyped
<1>2. CountsItsSettlements(file)
  BY EmptyBookCounts DEF Init, Payload, Fresh
<1>3. Fresh(0) \in StateSet /\ CountsItsSettlements(Fresh(0)) /\ file \in FileSet
  BY <1>1, RiskStateConstants, EmptyBookCounts DEF TypeOK, Fresh, StateSet, FileSet
<1>4. StoreCounts(Loaded(Fresh(0), file, FALSE, TRUE, FALSE))
  BY <1>1, <1>2, <1>3, LoadedCounts
<1> QED
  BY <1>2, <1>4 DEF Init, LossMatchesSettlements, StoreCounts

\* core/state.py:187-203: the daily loss of every process, and of the file, is
\* the sum of the losses of the settlements processed that day.
THEOREM LossIsWhatWasSettled == Spec => []LossMatchesSettlements
<1>1. TypeOK /\ LossMatchesSettlements /\ [Next]_vars => LossMatchesSettlements'
  BY LossStep
<1> QED
  BY <1>1, InitCounts, RiskTypeCorrect, PTL DEF Spec

-----------------------------------------------------------------------------
(***************************************************************************)
(* A standing stop, where one process uses the file                        *)
(***************************************************************************)

LoneProcess == \A p, q \in Proc : p = q

\* A store that keeps the stops S: in its state and, readable or not, in a
\* file that this process wrote.
FileHolds(f, S) == S \subseteq f.controls /\ (S # {} => f.status \in {"ok", "broken"})

Holds(st, S) == S \subseteq st.state.controls /\ FileHolds(st.file, S)

\* What a lone process needs: two of them break it with one stale copy.
StopInv == FileHolds(file, standing) /\ \A p \in Proc : standing \subseteq state[p].controls

\* A write keeps the stops, and so does a rollover.
LEMMA PersistedHolds ==
  ASSUME NEW S, NEW s \in StateSet, NEW f \in FileSet, NEW ok \in BOOLEAN,
         S \subseteq s.controls, FileHolds(f, S)
  PROVE  Holds(Persisted(s, f, ok), S)
<1>1. Persisted(s, f, ok).state.controls = s.controls
  BY PersistedOK
<1>2. Persisted(s, f, ok).file \in {f, Payload(s)}
  BY DEF Persisted, Store, Payload, StateSet
<1>3. FileHolds(Payload(s), S)
  BY DEF FileHolds, Payload
<1> QED
  BY <1>1, <1>2, <1>3 DEF Holds

LEMMA RolledOverHolds ==
  ASSUME TypeOK, NEW S, NEW s \in StateSet, NEW f \in FileSet, NEW ok \in BOOLEAN,
         S \subseteq s.controls, FileHolds(f, S)
  PROVE  Holds(RolledOver(Store(s, f), ok), S)
<1> DEFINE new == [s EXCEPT !.date = today, !.loss = 0, !.processed = {}]
<1>1. new \in StateSet /\ new.controls = s.controls
  BY DEF TypeOK, StateSet
<1>2. RolledOver(Store(s, f), ok) \in {Store(s, f), Persisted(new, f, ok)}
  BY DEF RolledOver, Store
<1> HIDE DEF new
<1>3. Holds(Persisted(new, f, ok), S)
  BY <1>1, PersistedHolds
<1>4. Holds(Store(s, f), S)
  BY DEF Holds, Store
<1> QED
  BY <1>2, <1>3, <1>4

\* A load restores them from the file, or latches both.
LEMMA LoadedHolds ==
  ASSUME TypeOK, NEW S, S \subseteq Control, NEW s \in StateSet, NEW f \in FileSet,
         NEW required \in BOOLEAN, NEW ok \in BOOLEAN, NEW ok2 \in BOOLEAN, FileHolds(f, S)
  PROVE  Holds(Loaded(s, f, required, ok, ok2), S)
<1> DEFINE st == Loaded(s, f, required, ok, ok2)
<1>1. f.status \in {"missing", "broken", "ok", "legacy"}
  BY DEF FileSet, FileStatus
<1>2. CASE f.status = "missing"
  <2>1. S = {}
    BY <1>2 DEF FileHolds
  <2>2. st.file = f
    BY <1>2 DEF Loaded, Store
  <2> QED
    BY <2>1, <2>2 DEF Holds
<1>3. CASE f.status = "broken"
  <2>1. st = Store(FailClosed(s), f)
    BY <1>3 DEF Loaded
  <2> QED
    BY <2>1, FailClosedOK DEF Holds, Store
<1>4. CASE f.status = "ok"
  <2>1. st = RolledOver(Store(FromFile(f, f.controls), f), ok)
    BY <1>4 DEF Loaded
  <2>2. FromFile(f, f.controls) \in StateSet /\ FromFile(f, f.controls).controls = f.controls
    BY DEF FromFile, FileSet, StateSet
  <2>3. S \subseteq f.controls
    BY DEF FileHolds
  <2> QED
    BY <2>1, <2>2, <2>3, RolledOverHolds
<1>5. CASE f.status = "legacy"
  <2> DEFINE copy   == FromFile(f, Control)
             rolled == RolledOver(Store(copy, f), ok)
  <2>1. st = Persisted(rolled.state, rolled.file, ok2)
    BY <1>5 DEF Loaded
  <2>2. copy \in StateSet /\ copy.controls = Control
    BY DEF FromFile, FileSet, StateSet
  <2> HIDE DEF copy, st
  <2>3. StoreOK(rolled) /\ Holds(rolled, S)
    BY <2>2, RolledOverOK, RolledOverHolds
  <2> HIDE DEF rolled
  <2> QED
    BY <2>1, <2>3, PersistedHolds DEF StoreOK, Holds, st
<1> QED
  BY <1>1, <1>2, <1>3, <1>4, <1>5

\* A step of p that installs a store which keeps what stands afterwards, or
\* leaves copy and file alone.
KeepsStops(p) ==
  \/ UNCHANGED <<state, file, standing>>
  \/ \E st : Install(p, st) /\ Holds(st, standing')

\* A settlement and an evaluate keep every stop.
LEMMA RecordKeepsStops ==
  ASSUME TypeOK, StopInv, NEW p \in Proc, NEW s \in Settlement, RecordRealizedPnl(p, s)
  PROVE  KeepsStops(p)
<1>1. PICK ok \in BOOLEAN, ok2 \in BOOLEAN :
        LET st == RolledOver(Store(state[p], file), ok)
        IN  IF s \in st.state.processed
              THEN Install(p, st)
              ELSE Install(p, Persisted(Counted(st.state, s), st.file, ok2))
  BY DEF RecordRealizedPnl
<1> DEFINE st  == RolledOver(Store(state[p], file), ok)
           new == Counted(st.state, s)
<1>2. StoreOK(st) /\ Holds(st, standing) /\ standing' = standing
  BY CurrentOK, RolledOverOK, RolledOverHolds DEF StopInv, RecordRealizedPnl, KeepStops
<1>3. Install(p, st) \/ Install(p, Persisted(new, st.file, ok2))
  BY <1>1
<1> HIDE DEF st
<1>4. new \in StateSet /\ new.controls = st.state.controls
  BY <1>2, CountedOK DEF StoreOK
<1> HIDE DEF new
<1>5. Holds(Persisted(new, st.file, ok2), standing)
  BY <1>2, <1>4, PersistedHolds DEF StoreOK, Holds
<1> QED
  BY <1>2, <1>3, <1>5 DEF KeepsStops

LEMMA EvaluateKeepsStops ==
  ASSUME TypeOK, StopInv, NEW p \in Proc, FinishEvaluate(p) \/ Restart(p)
  PROVE  KeepsStops(p)
<1>1. /\ state[p] \in StateSet /\ file \in FileSet /\ standing \subseteq Control
      /\ standing \subseteq state[p].controls /\ FileHolds(file, standing)
  BY CurrentOK DEF TypeOK, StopInv
<1>2. standing' = standing
  BY DEF FinishEvaluate, Restart, KeepStops
<1>3. CASE Restart(p)
  <2>1. PICK ok \in BOOLEAN, ok2 \in BOOLEAN :
          Install(p, Loaded(Fresh(today), file, FALSE, ok, ok2))
    BY <1>3 DEF Restart
  <2>2. Fresh(today) \in StateSet
    BY DEF Fresh, StateSet, TypeOK
  <2> QED
    BY <1>1, <1>2, <2>1, <2>2, LoadedHolds DEF KeepsStops
<1>4. CASE FinishEvaluate(p)
  <2>1. CASE UNCHANGED <<state, file>>
    BY <1>2, <2>1 DEF KeepsStops
  <2>2. CASE Install(p, Persisted(state[p], file, FALSE))
    BY <1>1, <1>2, <2>2, PersistedHolds DEF KeepsStops
  <2>3. ASSUME NEW ok \in BOOLEAN,
               Install(p, RolledOver(Persisted(state[p], file, TRUE), ok))
        PROVE  KeepsStops(p)
    <3> DEFINE w == Persisted(state[p], file, TRUE)
    <3>1. StoreOK(w) /\ Holds(w, standing) /\ w = Store(w.state, w.file)
      BY <1>1, PersistedOK, PersistedHolds DEF Persisted, Store
    <3> HIDE DEF w
    <3>2. Holds(RolledOver(w, ok), standing)
      BY <3>1, RolledOverHolds DEF StoreOK, Holds
    <3> QED
      BY <1>2, <2>3, <3>2 DEF KeepsStops, w
  <2> QED
    BY <1>4, <2>1, <2>2, <2>3 DEF FinishEvaluate
<1> QED
  BY <1>3, <1>4

\* The refresh finds every stop that stands, and an evaluate that gets past
\* the control checks finds none.
LEMMA BeginKeepsStops ==
  ASSUME TypeOK, StopInv, NEW p \in Proc, BeginEvaluate(p)
  PROVE  /\ KeepsStops(p)
         /\ pc'[p] = "refreshed" => standing = {}
         /\ \A q \in Proc : q # p => pc'[q] = pc[q]
<1>1. PICK ok \in BOOLEAN, ok2 \in BOOLEAN :
        LET st == Loaded(state[p], file, TRUE, ok, ok2)
        IN  /\ Install(p, st)
            /\ pc' = [pc EXCEPT ![p] =
                        IF st.state.controls = {} THEN "refreshed" ELSE "idle"]
  BY DEF BeginEvaluate
<1> DEFINE st == Loaded(state[p], file, TRUE, ok, ok2)
<1>2. Holds(st, standing)
  BY CurrentOK, LoadedHolds DEF StopInv, TypeOK
<1>3. Install(p, st) /\ standing' = standing
  BY <1>1 DEF BeginEvaluate, KeepStops
<1>4. pc' = [pc EXCEPT ![p] = IF st.state.controls = {} THEN "refreshed" ELSE "idle"]
  BY <1>1
<1> HIDE DEF st
<1>5. pc \in [Proc -> Phase]
  BY DEF TypeOK
<1>6. pc'[p] = "refreshed" => st.state.controls = {}
  BY <1>4, <1>5
<1> QED
  BY <1>2, <1>3, <1>4, <1>5, <1>6 DEF KeepsStops, Holds

\* A stop stands once its write has succeeded, and until a release has.
LEMMA ControlKeepsStops ==
  ASSUME TypeOK, StopInv, NEW p \in Proc, NEW c \in Control,
         LatchControl(p, c) \/ ReleaseControl(p, c)
  PROVE  KeepsStops(p)
<1> DEFINE with    == WithControl(state[p], c)
           without == WithoutControl(state[p], c)
           failed  == FailClosed(state[p])
<1>1. /\ state[p] \in StateSet /\ file \in FileSet /\ standing \subseteq Control
      /\ standing \subseteq state[p].controls /\ FileHolds(file, standing)
  BY CurrentOK DEF TypeOK, StopInv
<1>2. with \in StateSet /\ with.controls = state[p].controls \cup {c}
  BY ControlsOK
<1>3. without \in StateSet /\ without.controls = state[p].controls \ {c}
  BY <1>1, ControlsOK DEF WithoutControl, StateSet
<1>4. failed.controls = Control
  BY <1>1, FailClosedOK
<1>5. \/ Install(p, Store(with, file)) /\ standing' = standing
      \/ Install(p, Store(failed, file)) /\ standing' = standing
      \/ Install(p, Persisted(with, file, FALSE)) /\ standing' = standing
      \/ Install(p, Persisted(with, file, TRUE)) /\ standing' = standing \cup {c}
      \/ Install(p, Persisted(without, file, TRUE)) /\ standing' = standing \ {c}
  <2>1. CASE LatchControl(p, c)
    BY <2>1 DEF LatchControl, KeepStops
  <2>2. CASE ReleaseControl(p, c)
    BY <2>2 DEF ReleaseControl, KeepStops
  <2> QED
    BY <2>1, <2>2
<1> HIDE DEF with, without, failed
<1>6. Holds(Store(with, file), standing) /\ Holds(Store(failed, file), standing)
  BY <1>1, <1>2, <1>4 DEF Holds, Store
<1>7. Holds(Persisted(with, file, FALSE), standing)
  BY <1>1, <1>2, PersistedHolds
<1>8. \A s \in StateSet : Holds(Persisted(s, file, TRUE), s.controls)
  BY DEF Persisted, Store, Payload, Holds, FileHolds, StateSet
<1>9. \A st, S, T : Holds(st, S) /\ T \subseteq S => Holds(st, T)
  BY DEF Holds, FileHolds
<1>10. Holds(Persisted(with, file, TRUE), standing \cup {c})
  <2>1. Holds(Persisted(with, file, TRUE), with.controls)
    BY ONLY <1>2, <1>8
  <2>2. standing \cup {c} \subseteq with.controls
    BY <1>1, <1>2
  <2> QED
    BY ONLY <1>9, <2>1, <2>2
<1>11. Holds(Persisted(without, file, TRUE), standing \ {c})
  <2>1. Holds(Persisted(without, file, TRUE), without.controls)
    BY ONLY <1>3, <1>8
  <2>2. standing \ {c} \subseteq without.controls
    BY <1>1, <1>3
  <2> QED
    BY ONLY <1>9, <2>1, <2>2
<1> QED
  BY <1>5, <1>6, <1>7, <1>10, <1>11 DEF KeepsStops

\* Every step of a lone process keeps the stops.
LEMMA StopStep ==
  ASSUME LoneProcess, TypeOK, StopInv, [Next]_vars
  PROVE  StopInv'
<1>1. ASSUME NEW p \in Proc, KeepsStops(p)
      PROVE  StopInv'
  <2>1. CASE UNCHANGED <<state, file, standing>>
    BY <2>1 DEF StopInv
  <2>2. ASSUME NEW st, Install(p, st), Holds(st, standing')
        PROVE  StopInv'
    <3>1. file' = st.file /\ \A q \in Proc : state'[q] = st.state
      BY <2>2 DEF Install, TypeOK, LoneProcess
    <3> QED
      BY <2>2, <3>1 DEF StopInv, Holds
  <2> QED
    BY <1>1, <2>1, <2>2 DEF KeepsStops
<1>2. CASE FileBreaks \/ OperatorRepair
  <2>1. /\ UNCHANGED <<state, standing>> /\ file'.controls = file.controls
        /\ file'.status \in {"ok", "broken"}
    BY <1>2 DEF FileBreaks, OperatorRepair, TypeOK
  <2> QED
    BY <2>1 DEF StopInv, FileHolds
<1>3. CASE NextDay \/ UNCHANGED vars \/ \E p \in Proc : SubmitOrder(p)
  <2>1. UNCHANGED <<state, file, standing>>
    BY <1>3 DEF NextDay, vars, SubmitOrder
  <2> QED
    BY <2>1 DEF StopInv
<1> QED
  BY <1>1, <1>2, <1>3, RecordKeepsStops, ControlKeepsStops, BeginKeepsStops,
     EvaluateKeepsStops DEF Next

\* What StandingStopBlocks says of a step.
Checked == \A p \in Proc : pc[p] = "idle" /\ pc'[p] = "refreshed" => standing = {}

\* Only the start of an evaluate gets past the control checks.
LEMMA CheckedStep ==
  ASSUME TypeOK, StopInv, [Next]_vars
  PROVE  Checked
<1>1. pc \in [Proc -> Phase]
  BY DEF TypeOK
<1>2. ASSUME NEW p \in Proc, BeginEvaluate(p)
      PROVE  Checked
  BY <1>2, BeginKeepsStops DEF Checked
<1>3. ASSUME NEW p \in Proc, FinishEvaluate(p) \/ SubmitOrder(p) \/ Restart(p)
      PROVE  Checked
  <2>1. pc[p] = "idle" => pc'[p] = "idle"
    BY <1>1, <1>3 DEF FinishEvaluate, SubmitOrder, Restart
  <2>2. \E phase \in Phase : pc' = [pc EXCEPT ![p] = phase]
    BY <1>3 DEF FinishEvaluate, SubmitOrder, Restart, Phase
  <2> QED
    BY <1>1, <2>1, <2>2 DEF Checked
<1>4. ASSUME NEW p \in Proc,
             \/ \E s \in Settlement : RecordRealizedPnl(p, s)
             \/ \E c \in Control : LatchControl(p, c) \/ ReleaseControl(p, c)
      PROVE  Checked
  <2>1. pc' = pc
    BY <1>4 DEF RecordRealizedPnl, LatchControl, ReleaseControl, KeepPhase
  <2> QED
    BY <2>1 DEF Checked
<1>5. CASE FileBreaks \/ OperatorRepair \/ NextDay \/ UNCHANGED vars
  <2>1. pc' = pc
    BY <1>5 DEF FileBreaks, OperatorRepair, NextDay, vars
  <2> QED
    BY <2>1 DEF Checked
<1> QED
  BY <1>2, <1>3, <1>4, <1>5 DEF Next

\* core/state.py:179: where one process uses the file, a stop it has reported
\* as latched blocks every evaluate until it is released: through failed
\* writes, a damaged file and its repair, restarts and new days.
THEOREM LoneStopBlocks ==
  ASSUME LoneProcess
  PROVE  Spec => StandingStopBlocks
<1>1. Init => StopInv
  BY DEF Init, StopInv, FileHolds
<1>2. TypeOK /\ StopInv /\ [Next]_vars => StopInv'
  BY StopStep
<1>3. TypeOK /\ StopInv /\ [Next]_vars => [Checked]_vars
  BY CheckedStep
<1> QED
  BY <1>1, <1>2, <1>3, RiskTypeCorrect, PTL DEF Spec, StandingStopBlocks, Checked

=============================================================================
