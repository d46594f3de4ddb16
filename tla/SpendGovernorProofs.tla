------------------------- MODULE SpendGovernorProofs -------------------------
(***************************************************************************)
(* What holds of the spend governor for any number of processes and calls, *)
(* any estimates, any bills and any cap: no call is charged twice,         *)
(* although nothing makes a read and the later write one step.  What holds *)
(* of processes that take turns at the ledger, or of the only one: the     *)
(* ledger covers its calls, and the cap binds the provider.                *)
(***************************************************************************)
EXTENDS SpendGovernor, SumTheorems

\* The ledger a process computes with is well formed.
LEMMA LoadedType ==
  ASSUME TypeOK
  PROVE  Loaded \in LedgerType
BY SpendConstants DEF TypeOK, Loaded, LedgerType, Ledger

\* A reservation is one too,
LEMMA ReservedType ==
  ASSUME TypeOK, NEW c \in Call
  PROVE  [Loaded EXCEPT !.spent = @ + Estimate[c]] \in LedgerType
BY LoadedType, SpendConstants DEF LedgerType

\* and so is a settlement, which stops at zero.
LEMMA SettledType ==
  ASSUME TypeOK, NEW c \in Call
  PROVE  Settled(c) \in LedgerType
<1>1. billed[c] \in Nat /\ Estimate[c] \in Nat
  BY SpendConstants DEF TypeOK
<1>2. Loaded.spent \in Nat /\ Loaded.day \in 0..MaxDay
  BY LoadedType DEF LedgerType
<1> DEFINE left == Loaded.spent + billed[c] - Estimate[c]
<1>3. (IF left > 0 THEN left ELSE 0) \in Nat
  BY <1>1, <1>2
<1> QED
  BY <1>3, LoadedType DEF Settled, LedgerType

\* The end of a save keeps the shapes.
LEMMA EndSaveType ==
  ASSUME TypeOK, NEW p \in Proc, at[p] # None, NEW s \in Stage, EndSave(p, s),
         file' \in [status : {"missing", "ok", "broken"}, ledger : LedgerType]
  PROVE  TypeOK'
<1>1. at[p] \in Call
  BY DEF TypeOK
<1> QED
  BY <1>1 DEF TypeOK, EndSave

\* The beginning of one keeps them too.
LEMMA BeginSaveType ==
  ASSUME TypeOK, NEW c \in Call, NEW s \in Stage, NEW l \in LedgerType,
         BeginSave(ProcOf[c], c, l), stage' = [stage EXCEPT ![c] = s],
         day' \in [Call -> 0..MaxDay], UNCHANGED <<file, today, billed>>
  PROVE  TypeOK'
BY SpendConstants DEF TypeOK, BeginSave

\* A step of a call keeps the shapes.
LEMMA CallType ==
  ASSUME TypeOK, NEW c \in Call,
         \/ Reserve(c) \/ Refuse(c) \/ ProviderBills(c)
         \/ AnswerWithoutCost(c) \/ Settle(c)
  PROVE  TypeOK'
<1>1. CASE Reserve(c)
  <2>1. day' \in [Call -> 0..MaxDay]
    BY <1>1, LoadedType DEF Reserve, TypeOK, LedgerType
  <2> QED
    BY <1>1, <2>1, ReservedType, BeginSaveType DEF Reserve, TypeOK, Stage
<1>2. CASE Refuse(c)
  BY <1>2 DEF Refuse, TypeOK, Stage
<1>3. CASE ProviderBills(c)
  <2>1. PICK charge \in 1..MaxCharge : billed' = [billed EXCEPT ![c] = charge]
    BY <1>3 DEF ProviderBills
  <2>2. charge \in Nat
    BY SpendConstants
  <2> QED
    BY <1>3, <2>1, <2>2 DEF ProviderBills, TypeOK
<1>4. CASE AnswerWithoutCost(c)
  BY <1>4 DEF AnswerWithoutCost, TypeOK, Stage
<1>5. CASE Settle(c)
  <2>1. CASE BeginSave(ProcOf[c], c, Settled(c)) /\ stage' = [stage EXCEPT ![c] = "settling"]
    BY <1>5, <2>1, SettledType, BeginSaveType DEF Settle, TypeOK, Stage
  <2>2. CASE /\ stage' \in {[stage EXCEPT ![c] = "settled"], [stage EXCEPT ![c] = "kept"]}
             /\ UNCHANGED <<at, saving>>
    BY <1>5, <2>2 DEF Settle, TypeOK, Stage
  <2> QED
    BY <1>5, <2>1, <2>2 DEF Settle
<1> QED
  BY <1>1, <1>2, <1>3, <1>4, <1>5

\* A step of a process keeps the shapes.
LEMMA ProcessType ==
  ASSUME TypeOK, NEW p \in Proc, Saved(p) \/ SaveFailed(p) \/ Crash(p)
  PROVE  TypeOK'
<1>1. CASE Saved(p)
  <2>1. file' \in [status : {"missing", "ok", "broken"}, ledger : LedgerType]
    BY <1>1 DEF Saved, TypeOK
  <2>2. CASE stage[at[p]] = "reserving"
    BY <1>1, <2>1, <2>2, EndSaveType DEF Saved, Stage
  <2>3. CASE stage[at[p]] # "reserving"
    BY <1>1, <2>1, <2>3, EndSaveType DEF Saved, Stage
  <2> QED
    BY <2>2, <2>3
<1>2. CASE SaveFailed(p)
  <2>1. file' \in [status : {"missing", "ok", "broken"}, ledger : LedgerType]
    BY <1>2 DEF SaveFailed, TypeOK
  <2>2. CASE stage[at[p]] = "reserving"
    BY <1>2, <2>1, <2>2, EndSaveType DEF SaveFailed, Stage
  <2>3. CASE stage[at[p]] # "reserving"
    BY <1>2, <2>1, <2>3, EndSaveType DEF SaveFailed, Stage
  <2> QED
    BY <2>2, <2>3
<1>3. CASE Crash(p)
  BY <1>3 DEF Crash, TypeOK, Stage
<1> QED
  BY <1>1, <1>2, <1>3

\* Every step keeps the shapes.
LEMMA StepType == TypeOK /\ [Next]_vars => TypeOK'
<1> SUFFICES ASSUME TypeOK, [Next]_vars PROVE TypeOK'
  OBVIOUS
<1>1. CASE UNCHANGED vars
  BY <1>1 DEF vars, TypeOK
<1>2. CASE FileBreaks
  BY <1>2 DEF FileBreaks, TypeOK
<1>3. CASE OperatorRepair
  BY <1>3 DEF OperatorRepair, TypeOK
<1>4. CASE NextDay
  BY <1>4, SpendConstants DEF NextDay, TypeOK
<1> QED
  BY <1>1, <1>2, <1>3, <1>4, CallType, ProcessType DEF Next

\* The ledger and every copy of it that a process is about to save stay well
\* formed, for any number of processes: no settlement takes one below zero.
THEOREM SpendTypeCorrect == Spec => []TypeOK
<1>1. Init => TypeOK
  BY SpendConstants DEF Init, TypeOK, LedgerType, Ledger, Stage
<1> QED
  BY <1>1, StepType, PTL DEF Spec

-----------------------------------------------------------------------------
(***************************************************************************)
(* What is charged to a day                                                *)
(***************************************************************************)

Charged(c) == stage[c] \notin {"new", "reserving", "refused"}

\* What the ledger may hold for a call: its estimate, or its cost where that
\* was more.
Counted ==
  [c \in Call |-> IF stage[c] = "settled" /\ billed[c] > Estimate[c]
                    THEN billed[c] ELSE Estimate[c]]

CountedFor(d) == SumFunctionOnSet(Counted, ChargedTo(d))

HeldFor(d) == SumFunctionOnSet(Standing, ChargedTo(d))

\* What the provider may still charge for a call within its estimate.
Within ==
  [c \in Call |-> IF stage[c] \notin {"settled", "kept"} /\ billed[c] = 0
                    THEN Estimate[c]
                  ELSE IF billed[c] > Estimate[c] THEN Estimate[c] ELSE billed[c]]

WithinFor(d) == SumFunctionOnSet(Within, ChargedTo(d))

\* A process is saving for a call of its own, which waits for the save.
SavesItsOwn ==
  \A p \in Proc : at[p] # None =>
    ProcOf[at[p]] = p /\ stage[at[p]] \in {"reserving", "settling"}

\* At most what may be held: in the file, and in what every process is saving.
SaveAtMost(p, d) ==
  /\ stage[at[p]] = "reserving" =>
       /\ day[at[p]] = d
       /\ saving[p].spent <= CountedFor(d) + Estimate[at[p]]
  /\ stage[at[p]] = "settling" =>
       /\ day[at[p]] = d
       /\ saving[p].spent <= CountedFor(d) + Worst[at[p]] - Estimate[at[p]]

ChargedAtMostOnce ==
  /\ SavesItsOwn
  /\ \A d \in 0..MaxDay : file.ledger.day = d => file.ledger.spent <= CountedFor(d)
  /\ \A p \in Proc, d \in 0..MaxDay :
       at[p] # None /\ saving[p].day = d => SaveAtMost(p, d)

\* At least what is held, where the processes take turns: two processes that
\* read the same ledger lose one of their reservations.  One process that makes
\* all the calls takes its turns.
OneCaller == \A c, e \in Call : ProcOf[c] = ProcOf[e]

SaveAtLeast(p, d) ==
  /\ file.ledger.day <= d /\ d <= today /\ day[at[p]] = d
  /\ stage[at[p]] = "reserving" =>
       saving[p].spent >= HeldFor(d) + Estimate[at[p]] /\ saving[p].spent <= Cap
  /\ stage[at[p]] = "settling" =>
       saving[p].spent >= HeldFor(d) - Estimate[at[p]] + billed[at[p]]

HeldAtLeast ==
  /\ file.ledger.day <= today
  /\ \A d \in 0..MaxDay : file.ledger.day = d => file.ledger.spent >= HeldFor(d)
  /\ \A c \in Call : Charged(c) => file.status # "missing" /\ day[c] <= file.ledger.day
  /\ \A p \in Proc, d \in 0..MaxDay :
       at[p] # None /\ saving[p].day = d => SaveAtLeast(p, d)
  /\ \A d \in 0..MaxDay : WithinFor(d) <= Cap

\* The amounts of a call are naturals.
LEMMA Amounts ==
  ASSUME TypeOK, NEW c \in Call
  PROVE  /\ Estimate[c] \in Nat /\ billed[c] \in Nat
         /\ Counted[c] \in Nat /\ Standing[c] \in Nat /\ Within[c] \in Nat
         /\ Worst[c] \in Nat /\ Overcharge[c] \in Nat
<1>1. Estimate[c] \in Nat /\ billed[c] \in Nat
  BY SpendConstants DEF TypeOK
<1> QED
  BY <1>1 DEF Counted, Standing, Within, Worst, Overcharge

\* The calls of a day are finitely many, and their sums naturals.
LEMMA ChargedFacts ==
  ASSUME TypeOK, NEW d
  PROVE  /\ IsFiniteSet(ChargedTo(d)) /\ ChargedTo(d) \subseteq Call
         /\ CountedFor(d) \in Nat /\ HeldFor(d) \in Nat /\ WithinFor(d) \in Nat
<1>1. ChargedTo(d) \subseteq Call
  BY DEF ChargedTo
<1>2. IsFiniteSet(ChargedTo(d))
  BY <1>1, SpendConstants, FS_Subset
<1>3. CountedFor(d) \in Nat
  BY <1>1, <1>2, Amounts, SumNat DEF CountedFor
<1>4. HeldFor(d) \in Nat
  BY <1>1, <1>2, Amounts, SumNat DEF HeldFor
<1>5. WithinFor(d) \in Nat
  BY <1>1, <1>2, Amounts, SumNat DEF WithinFor
<1> QED
  BY <1>1, <1>2, <1>3, <1>4, <1>5

\* A call stays within what the ledger holds for it.
LEMMA WithinHeld ==
  ASSUME TypeOK, NEW d
  PROVE  WithinFor(d) <= HeldFor(d)
<1>1. \A c \in Call : Within[c] \in Nat /\ Standing[c] \in Nat
  BY Amounts
<1>2. \A c \in Call : Within[c] <= Standing[c]
  <2> SUFFICES ASSUME NEW c \in Call PROVE Within[c] <= Standing[c]
    OBVIOUS
  <2>1. Estimate[c] \in Nat /\ billed[c] \in Nat
    BY Amounts
  <2> QED
    BY <2>1 DEF Within, Standing
<1>3. IsFiniteSet(ChargedTo(d)) /\ ChargedTo(d) \subseteq Call
  BY ChargedFacts
<1>4. SumFunctionOnSet(Within, ChargedTo(d)) <= SumFunctionOnSet(Standing, ChargedTo(d))
  BY <1>1, <1>2, <1>3, SumMonotonic
<1> QED
  BY <1>4 DEF WithinFor, HeldFor

-----------------------------------------------------------------------------
(***************************************************************************)
(* Steps that reserve nothing and save nothing                             *)
(***************************************************************************)

\* The ledger and the charged calls stay, and what it counts and holds for them;
\* a call may only have less to come, and a save in progress goes on or ends.
Quiet ==
  /\ file'.ledger = file.ledger
  /\ file.status # "missing" => file'.status # "missing"
  /\ today <= today'
  /\ day' = day
  /\ \A c \in Call : Charged(c)' <=> Charged(c)
  /\ \A c \in Call : Counted'[c] = Counted[c] /\ Standing'[c] = Standing[c]
  /\ \A c \in Call : Within'[c] <= Within[c]
  /\ \A p \in Proc : at'[p] # None =>
       /\ at'[p] = at[p] /\ saving'[p] = saving[p]
       /\ stage'[at[p]] = stage[at[p]] /\ billed'[at[p]] = billed[at[p]]

\* A call is refused, billed, given up, or settled without a save.
LEMMA CallIsQuiet ==
  ASSUME TypeOK, SavesItsOwn, NEW c \in Call,
         \/ Refuse(c) \/ ProviderBills(c) \/ AnswerWithoutCost(c)
         \/ Settle(c) /\ UNCHANGED <<at, saving>> /\ stage'[c] # "settling"
  PROVE  Quiet
<1> USE DEF TypeOK, Quiet, Charged, Counted, Standing, Within, SavesItsOwn
<1>1. \A e \in Call : billed[e] \in Nat /\ Estimate[e] \in Nat
  BY SpendConstants
<1>2. CASE Refuse(c)
  BY <1>1, <1>2 DEF Refuse
<1>3. CASE ProviderBills(c)
  <2>1. PICK charge \in 1..MaxCharge : billed' = [billed EXCEPT ![c] = charge]
    BY <1>3 DEF ProviderBills
  <2>2. charge \in Nat
    BY SpendConstants
  <2> QED
    BY <1>1, <1>3, <2>1, <2>2 DEF ProviderBills
<1>4. CASE AnswerWithoutCost(c)
  BY <1>1, <1>4 DEF AnswerWithoutCost
<1>5. CASE Settle(c) /\ UNCHANGED <<at, saving>> /\ stage'[c] # "settling"
  <2>1. stage[c] = "sent" /\ UNCHANGED <<file, today, day, billed, at, saving>>
    BY <1>5 DEF Settle
  <2>2. \/ billed[c] = Estimate[c] /\ stage' = [stage EXCEPT ![c] = "settled"]
        \/ stage' = [stage EXCEPT ![c] = "kept"]
    BY <1>5 DEF Settle
  <2>3. CASE billed[c] = Estimate[c] /\ stage' = [stage EXCEPT ![c] = "settled"]
    BY <1>1, <2>1, <2>3
  <2>4. CASE stage' = [stage EXCEPT ![c] = "kept"]
    BY <1>1, <2>1, <2>4
  <2> QED
    BY <2>2, <2>3, <2>4
<1> QED
  BY <1>2, <1>3, <1>4, <1>5

\* A save fails, a process dies, or something around them changes.
LEMMA OtherIsQuiet ==
  ASSUME TypeOK, SavesItsOwn,
         \/ \E p \in Proc : SaveFailed(p) \/ Crash(p)
         \/ FileBreaks \/ OperatorRepair \/ NextDay \/ UNCHANGED vars
  PROVE  Quiet
<1> USE DEF TypeOK, Quiet, Charged, Counted, Standing, Within, SavesItsOwn
<1>1. \A e \in Call : billed[e] \in Nat /\ Estimate[e] \in Nat
  BY SpendConstants
<1>2. ASSUME NEW p \in Proc, SaveFailed(p)
      PROVE  Quiet
  <2>1. at[p] \in Call /\ stage[at[p]] \in {"reserving", "settling"}
    BY <1>2 DEF SaveFailed
  <2>2. stage' = [stage EXCEPT ![at[p]] = IF stage[at[p]] = "reserving"
                                            THEN "refused" ELSE "kept"]
    BY <1>2 DEF SaveFailed, EndSave
  <2>3. at' = [at EXCEPT ![p] = None] /\ UNCHANGED <<file, today, day, saving, billed>>
    BY <1>2 DEF SaveFailed, EndSave
  <2> QED
    BY <1>1, <2>1, <2>2, <2>3
<1>3. ASSUME NEW p \in Proc, Crash(p)
      PROVE  Quiet
  BY <1>1, <1>3 DEF Crash
<1>4. CASE FileBreaks \/ OperatorRepair \/ NextDay \/ UNCHANGED vars
  BY <1>1, <1>4 DEF FileBreaks, OperatorRepair, NextDay, vars
<1> QED
  BY <1>2, <1>3, <1>4

\* What is to come after a step is a natural again.
LEMMA WithinNext ==
  ASSUME TypeOK', NEW c \in Call
  PROVE  Within'[c] \in Nat /\ Standing'[c] \in Nat /\ Counted'[c] \in Nat
<1>1. Estimate[c] \in Nat /\ billed'[c] \in Nat
  BY SpendConstants DEF TypeOK
<1> QED
  BY <1>1 DEF Within, Standing, Counted

\* The calls of a day stay the same in such a step.
LEMMA QuietCharges ==
  ASSUME Quiet, NEW d
  PROVE  ChargedTo(d)' = ChargedTo(d)
BY DEF Quiet, ChargedTo, Charged

\* What is counted and held stays, and no more is to come.
LEMMA QuietSums ==
  ASSUME TypeOK, TypeOK', Quiet, NEW d
  PROVE  /\ CountedFor(d)' = CountedFor(d) /\ HeldFor(d)' = HeldFor(d)
         /\ WithinFor(d)' <= WithinFor(d)
<1>1. ChargedTo(d)' = ChargedTo(d) /\ IsFiniteSet(ChargedTo(d)) /\ ChargedTo(d) \subseteq Call
  BY QuietCharges, ChargedFacts
<1>2. \A c \in ChargedTo(d) : /\ Counted[c] \in Int /\ Counted'[c] = Counted[c]
                              /\ Standing[c] \in Int /\ Standing'[c] = Standing[c]
                              /\ Within[c] \in Int /\ Within'[c] <= Within[c]
  BY <1>1, Amounts DEF Quiet
<1>3. \A c \in ChargedTo(d) : Within'[c] \in Int
  BY <1>1, WithinNext
<1>4. SumFunctionOnSet(Counted, ChargedTo(d)) = SumFunctionOnSet(Counted', ChargedTo(d))
  BY <1>1, <1>2, SumSame
<1>5. SumFunctionOnSet(Standing, ChargedTo(d)) = SumFunctionOnSet(Standing', ChargedTo(d))
  BY <1>1, <1>2, SumSame
<1>6. SumFunctionOnSet(Within', ChargedTo(d)) <= SumFunctionOnSet(Within, ChargedTo(d))
  BY <1>1, <1>2, <1>3, SumMonotonic
<1>7. CountedFor(d)' = CountedFor(d)
  BY <1>1, <1>4 DEF CountedFor
<1>8. HeldFor(d)' = HeldFor(d)
  BY <1>1, <1>5 DEF HeldFor
<1>9. WithinFor(d)' <= WithinFor(d)
  BY <1>1, <1>6 DEF WithinFor
<1> QED
  BY <1>7, <1>8, <1>9

\* Such a step charges nothing twice.
LEMMA QuietAtMost ==
  ASSUME TypeOK, TypeOK', ChargedAtMostOnce, Quiet
  PROVE  ChargedAtMostOnce'
<1>1. SavesItsOwn'
  BY DEF ChargedAtMostOnce, SavesItsOwn, Quiet
<1>2. ASSUME NEW d \in 0..MaxDay, file'.ledger.day = d
      PROVE  file'.ledger.spent <= CountedFor(d)'
  BY <1>2, QuietSums DEF ChargedAtMostOnce, Quiet
<1>3. ASSUME NEW p \in Proc, NEW d \in 0..MaxDay, at'[p] # None, saving'[p].day = d
      PROVE  SaveAtMost(p, d)'
  <2>1. SaveAtMost(p, d)
    BY <1>3 DEF ChargedAtMostOnce, Quiet
  <2>2. CountedFor(d)' = CountedFor(d) /\ at[p] \in Call
    BY <1>3, QuietSums DEF Quiet, TypeOK
  <2>3. Worst'[at[p]] = Worst[at[p]]
    BY <1>3, <2>2 DEF Quiet, Worst
  <2> QED
    BY <1>3, <2>1, <2>2, <2>3 DEF SaveAtMost, Quiet
<1> QED
  BY <1>1, <1>2, <1>3 DEF ChargedAtMostOnce

\* The sum of it too.
LEMMA NextWithinNat ==
  ASSUME TypeOK', NEW d
  PROVE  WithinFor(d)' \in Nat
<1>1. ChargedTo(d)' \subseteq Call
  BY DEF ChargedTo
<1>2. IsFiniteSet(ChargedTo(d)')
  BY <1>1, SpendConstants, FS_Subset
<1>3. SumFunctionOnSet(Within', ChargedTo(d)') \in Nat
  BY <1>1, <1>2, WithinNext, SumNat
<1> QED
  BY <1>3 DEF WithinFor

\* Such a step keeps what is held.
LEMMA QuietAtLeast ==
  ASSUME TypeOK, TypeOK', HeldAtLeast, Quiet
  PROVE  HeldAtLeast'
<1>1. \A d : HeldFor(d)' = HeldFor(d) /\ HeldFor(d) \in Nat
  BY QuietSums, ChargedFacts
<1>2. /\ file'.ledger.day = file.ledger.day /\ file'.ledger.spent = file.ledger.spent
      /\ file.ledger.day \in Int /\ file.ledger.spent \in Int /\ today \in Int /\ today' \in Int
  BY DEF Quiet, TypeOK, LedgerType
<1>3. (file.ledger.day <= today)'
  BY <1>2 DEF HeldAtLeast, Quiet
<1>4. ASSUME NEW d \in 0..MaxDay, file'.ledger.day = d
      PROVE  file'.ledger.spent >= HeldFor(d)'
  BY <1>1, <1>2, <1>4 DEF HeldAtLeast
<1>5. ASSUME NEW c \in Call, Charged(c)'
      PROVE  file'.status # "missing" /\ day'[c] <= file'.ledger.day
  BY <1>2, <1>5 DEF HeldAtLeast, Quiet
<1>6. ASSUME NEW p \in Proc, NEW d \in 0..MaxDay, at'[p] # None, saving'[p].day = d
      PROVE  SaveAtLeast(p, d)'
  <2>1. SaveAtLeast(p, d)
    BY <1>6 DEF HeldAtLeast, Quiet
  <2>2. at[p] \in Call /\ at'[p] = at[p]
    BY <1>6 DEF Quiet, TypeOK
  <2>3. saving[p].spent \in Int /\ Estimate[at[p]] \in Int /\ billed[at[p]] \in Int
    BY <2>2, SpendConstants DEF TypeOK, LedgerType
  <2> QED
    BY <1>1, <1>2, <1>6, <2>1, <2>2, <2>3 DEF SaveAtLeast, Quiet
<1>7. ASSUME NEW d \in 0..MaxDay
      PROVE  WithinFor(d)' <= Cap
  <2>1. WithinFor(d)' <= WithinFor(d) /\ WithinFor(d) \in Nat /\ WithinFor(d)' \in Nat
    BY QuietSums, ChargedFacts, NextWithinNat
  <2> QED
    BY <1>7, <2>1, SpendConstants DEF HeldAtLeast
<1> QED
  BY <1>3, <1>4, <1>5, <1>6, <1>7 DEF HeldAtLeast

-----------------------------------------------------------------------------
(***************************************************************************)
(* Steps that begin a save                                                 *)
(***************************************************************************)

\* Neither the file nor what is charged and held changes yet; one process has
\* a save to make for one of its calls.
BeginsSave(c, s, ledger) ==
  /\ at[ProcOf[c]] = None /\ (Charged(c)' <=> Charged(c))
  /\ s \in {"reserving", "settling"}
  /\ stage' = [stage EXCEPT ![c] = s]
  /\ BeginSave(ProcOf[c], c, ledger)
  /\ UNCHANGED <<file, today, billed>>
  /\ day' = [day EXCEPT ![c] = ledger.day]

\* A reservation begins one,
LEMMA ReserveBegins ==
  ASSUME TypeOK, NEW c \in Call, Reserve(c)
  PROVE  /\ stage[c] = "new"
         /\ BeginsSave(c, "reserving", [Loaded EXCEPT !.spent = @ + Estimate[c]])
BY LoadedType DEF Reserve, Idle, BeginsSave, Charged, TypeOK, LedgerType

\* and so does a settlement, unless it leaves the ledger alone.
LEMMA SettleBegins ==
  ASSUME TypeOK, NEW c \in Call, Settle(c)
  PROVE  \/ UNCHANGED <<at, saving>> /\ stage'[c] # "settling"
         \/ /\ stage[c] = "sent" /\ Readable /\ Loaded.day = day[c]
            /\ BeginsSave(c, "settling", Settled(c))
<1>1. CASE /\ Readable /\ Loaded.day = day[c] /\ BeginSave(ProcOf[c], c, Settled(c))
           /\ stage' = [stage EXCEPT ![c] = "settling"]
  <2>1. Settled(c).day = Loaded.day
    BY LoadedType DEF Settled, LedgerType
  <2>2. day' = [day EXCEPT ![c] = Settled(c).day]
    BY <1>1, <2>1 DEF Settle, TypeOK
  <2> QED
    BY <1>1, <2>2 DEF Settle, Idle, BeginsSave, Charged, TypeOK
<1>2. CASE /\ UNCHANGED <<at, saving>>
           /\ stage' \in {[stage EXCEPT ![c] = "settled"], [stage EXCEPT ![c] = "kept"]}
  BY <1>2 DEF TypeOK
<1> QED
  BY <1>1, <1>2 DEF Settle

\* What is counted, held and to come stays as it is.
LEMMA BeginSums ==
  ASSUME TypeOK, NEW c \in Call, NEW s, NEW ledger, BeginsSave(c, s, ledger),
         stage[c] = "new" \/ (stage[c] = "sent" /\ ledger.day = day[c]), NEW d
  PROVE  /\ CountedFor(d)' = CountedFor(d) /\ HeldFor(d)' = HeldFor(d)
         /\ WithinFor(d)' = WithinFor(d)
<1>1. \A e \in Call : Charged(e)' <=> Charged(e)
  BY DEF BeginsSave, TypeOK, Charged
<1>2. \A e \in Call : Charged(e) => day'[e] = day[e]
  BY DEF BeginsSave, TypeOK, Charged
<1>3. ChargedTo(d)' = ChargedTo(d)
  BY <1>1, <1>2 DEF ChargedTo, Charged
<1>4. Counted' = Counted
  BY DEF BeginsSave, TypeOK, Counted
<1>5. Standing' = Standing
  BY DEF BeginsSave, TypeOK, Standing
<1>6. Within' = Within
  BY DEF BeginsSave, TypeOK, Within
<1>7. CountedFor(d)' = CountedFor(d)
  BY <1>3, <1>4, Zenon DEF CountedFor
<1>8. HeldFor(d)' = HeldFor(d)
  BY <1>3, <1>5, Zenon DEF HeldFor
<1>9. WithinFor(d)' = WithinFor(d)
  BY <1>3, <1>6, Zenon DEF WithinFor
<1> QED
  BY <1>7, <1>8, <1>9

\* A process reads at most what is reserved for the day.
LEMMA LoadedAtMost ==
  ASSUME TypeOK, ChargedAtMostOnce
  PROVE  Loaded.spent <= CountedFor(Loaded.day)
<1>1. \A d : CountedFor(d) \in Nat
  BY ChargedFacts
<1>2. CASE Loaded = file.ledger
  <2>1. file.ledger.day \in 0..MaxDay
    BY DEF TypeOK, LedgerType
  <2> QED
    BY <1>2, <2>1 DEF ChargedAtMostOnce
<1>3. CASE Loaded = Ledger(today, 0)
  <2>1. Loaded.spent = 0
    BY <1>3 DEF Ledger
  <2> QED
    BY <1>1, <2>1
<1> QED
  BY <1>2, <1>3 DEF Loaded

\* It reads at least what is held, if it can read: where there is no ledger of the day, no
\* call is charged to the day.
LEMMA LoadedAtLeast ==
  ASSUME TypeOK, HeldAtLeast, Readable
  PROVE  Loaded.day = today /\ Loaded.spent >= HeldFor(today)
<1>1. CASE file.status = "ok" /\ file.ledger.day = today
  <2>1. Loaded = file.ledger
    BY <1>1 DEF Loaded
  <2> QED
    BY <1>1, <2>1 DEF HeldAtLeast, TypeOK
<1>2. CASE ~(file.status = "ok" /\ file.ledger.day = today)
  <2>1. Loaded.day = today /\ Loaded.spent = 0
    BY <1>2 DEF Loaded, Ledger
  <2>2. file.ledger.day \in Int /\ today \in Int /\ file.status \in {"missing", "ok"}
    BY DEF TypeOK, LedgerType, Readable
  <2>3. ChargedTo(today) = {}
    BY <1>2, <2>2 DEF HeldAtLeast, ChargedTo, Charged
  <2>4. HeldFor(today) = 0
    BY <2>3, SumEmpty, Zenon DEF HeldFor
  <2> QED
    BY <2>1, <2>4
<1> QED
  BY <1>1, <1>2

\* At the beginning of a save, nothing is charged twice.
LEMMA BeginAtMost ==
  ASSUME TypeOK, TypeOK', ChargedAtMostOnce, NEW c \in Call, NEW s, NEW ledger \in LedgerType,
         BeginsSave(c, s, ledger),
         stage[c] = "new" \/ (stage[c] = "sent" /\ ledger.day = day[c]),
         s = "reserving" => ledger.spent <= CountedFor(ledger.day) + Estimate[c],
         s = "settling" =>
           ledger.spent <= CountedFor(ledger.day) + Worst[c] - Estimate[c]
  PROVE  ChargedAtMostOnce'
<1> DEFINE q == ProcOf[c]
<1>1. q \in Proc /\ at' = [at EXCEPT ![q] = c] /\ saving' = [saving EXCEPT ![q] = ledger]
  BY SpendConstants DEF BeginsSave, BeginSave
<1>2. \A d : CountedFor(d)' = CountedFor(d)
  BY BeginSums
<1>3. \A p \in Proc : p # q => at'[p] = at[p] /\ saving'[p] = saving[p]
  BY <1>1 DEF TypeOK
<1>4. at'[q] = c /\ saving'[q] = ledger
  BY <1>1 DEF TypeOK
<1>5. stage'[c] = s /\ day'[c] = ledger.day /\ s \in {"reserving", "settling"}
  BY DEF BeginsSave, TypeOK
<1>6. \A p \in Proc : p # q /\ at[p] # None =>
        /\ at[p] \in Call /\ at[p] # c
        /\ stage'[at[p]] = stage[at[p]] /\ day'[at[p]] = day[at[p]]
  BY DEF ChargedAtMostOnce, SavesItsOwn, BeginsSave, TypeOK
<1>7. SavesItsOwn'
  BY <1>3, <1>4, <1>5, <1>6 DEF ChargedAtMostOnce, SavesItsOwn
<1>8. ASSUME NEW d \in 0..MaxDay, file'.ledger.day = d
      PROVE  file'.ledger.spent <= CountedFor(d)'
  BY <1>2, <1>8 DEF ChargedAtMostOnce, BeginsSave
<1>9. ASSUME NEW p \in Proc, NEW d \in 0..MaxDay, at'[p] # None, saving'[p].day = d
      PROVE  SaveAtMost(p, d)'
  <2>1. CASE p = q
    <3>1. Worst'[c] = Worst[c]
      BY DEF BeginsSave, Worst
    <3> QED
      BY <1>2, <1>4, <1>5, <1>9, <2>1, <3>1 DEF SaveAtMost
  <2>2. CASE p # q
    <3>1. SaveAtMost(p, d)
      BY <1>3, <1>9, <2>2 DEF ChargedAtMostOnce
    <3>2. Worst'[at[p]] = Worst[at[p]]
      BY <1>3, <1>6, <1>9, <2>2 DEF BeginsSave, Worst
    <3> QED
      BY <1>2, <1>3, <1>6, <1>9, <2>2, <3>1, <3>2 DEF SaveAtMost
  <2> QED
    BY <2>1, <2>2
<1> QED
  BY <1>7, <1>8, <1>9 DEF ChargedAtMostOnce

\* At the beginning of a save, nothing that is held is left out.
LEMMA BeginAtLeast ==
  ASSUME TypeOK, TypeOK', SavesItsOwn, HeldAtLeast, TakesTurns',
         NEW c \in Call, NEW s, NEW ledger \in LedgerType,
         BeginsSave(c, s, ledger),
         stage[c] = "new" \/ (stage[c] = "sent" /\ ledger.day = day[c]),
         ledger.day = today,
         s = "reserving" =>
           ledger.spent >= HeldFor(today) + Estimate[c] /\ ledger.spent <= Cap,
         s = "settling" => ledger.spent >= HeldFor(today) - Estimate[c] + billed[c]
  PROVE  HeldAtLeast'
<1> DEFINE q == ProcOf[c]
<1>1. q \in Proc /\ at' = [at EXCEPT ![q] = c] /\ saving' = [saving EXCEPT ![q] = ledger]
  BY SpendConstants DEF BeginsSave, BeginSave
<1>2. \A d : HeldFor(d)' = HeldFor(d) /\ WithinFor(d)' = WithinFor(d)
  BY BeginSums
<1>3. at'[q] = c /\ saving'[q] = ledger
  BY <1>1 DEF TypeOK
<1>4. \A p \in Proc : p # q => at'[p] = None
  BY <1>1, <1>3, SpendConstants DEF TakesTurns
<1>5. stage'[c] = s /\ day'[c] = ledger.day /\ file' = file /\ today' = today /\ billed' = billed
  BY DEF BeginsSave, TypeOK
<1>6. ASSUME NEW e \in Call, Charged(e)'
      PROVE  file'.status # "missing" /\ day'[e] <= file'.ledger.day
  <2>1. Charged(e) /\ day'[e] = day[e]
    BY <1>6 DEF BeginsSave, TypeOK, Charged
  <2> QED
    BY <1>5, <2>1 DEF HeldAtLeast
<1>7. ASSUME NEW p \in Proc, NEW d \in 0..MaxDay, at'[p] # None, saving'[p].day = d
      PROVE  SaveAtLeast(p, d)'
  BY <1>2, <1>3, <1>4, <1>5, <1>7 DEF SaveAtLeast, HeldAtLeast, TypeOK
<1> QED
  BY <1>2, <1>5, <1>6, <1>7 DEF HeldAtLeast

-----------------------------------------------------------------------------
(***************************************************************************)
(* Steps that save                                                         *)
(***************************************************************************)

\* What a save writes, and what becomes of its call.
LEMMA SavedEffect ==
  ASSUME TypeOK, SavesItsOwn, NEW p \in Proc, Saved(p)
  PROVE  /\ at[p] \in Call /\ ProcOf[at[p]] = p
         /\ file'.status = "ok" /\ file'.ledger = saving[p]
         /\ at' = [at EXCEPT ![p] = None]
         /\ UNCHANGED <<today, day, saving, billed>>
         /\ \/ /\ stage[at[p]] = "reserving"
               /\ stage' = [stage EXCEPT ![at[p]] = "sent"]
            \/ /\ stage[at[p]] = "settling"
               /\ stage' = [stage EXCEPT ![at[p]] = "settled"]
BY DEF Saved, EndSave, SavesItsOwn, TypeOK

\* A saved reservation charges its call to its day, and to no other.
LEMMA ReservationSums ==
  ASSUME TypeOK, NEW c \in Call, stage[c] = "reserving",
         stage' = [stage EXCEPT ![c] = "sent"], UNCHANGED <<day, billed>>, NEW d
  PROVE  /\ CountedFor(d)' = CountedFor(d) + (IF day[c] = d THEN Estimate[c] ELSE 0)
         /\ HeldFor(d)' = HeldFor(d) + (IF day[c] = d THEN Estimate[c] ELSE 0)
         /\ WithinFor(d)' <= WithinFor(d) + (IF day[c] = d THEN Estimate[c] ELSE 0)
<1> DEFINE S == ChargedTo(d)
<1>1. IsFiniteSet(S) /\ S \subseteq Call /\ c \notin S
  BY ChargedFacts DEF ChargedTo
<1>2. Estimate[c] \in Nat /\ billed[c] \in Nat
  BY Amounts
<1>3. \A e \in S \cup {c} : Counted[e] \in Int /\ Standing[e] \in Int /\ Within[e] \in Int
  BY <1>1, Amounts
<1>4. /\ Counted' = Counted /\ Counted[c] = Estimate[c]
      /\ Standing' = Standing /\ Standing[c] = Estimate[c]
  BY DEF TypeOK, Counted, Standing
<1>5. Within' = Within /\ Within[c] <= Estimate[c]
  BY <1>2 DEF TypeOK, Within
<1>6. CountedFor(d) \in Nat /\ HeldFor(d) \in Nat /\ WithinFor(d) \in Nat
  BY ChargedFacts
<1>7. CASE day[c] = d
  <2>1. ChargedTo(d)' = S \cup {c}
    BY <1>7 DEF ChargedTo, TypeOK
  <2>2. CountedFor(d)' = SumFunctionOnSet(Counted, S \cup {c})
    BY <1>4, <2>1, Zenon DEF CountedFor
  <2>3. HeldFor(d)' = SumFunctionOnSet(Standing, S \cup {c})
    BY <1>4, <2>1, Zenon DEF HeldFor
  <2>4. WithinFor(d)' = SumFunctionOnSet(Within, S \cup {c})
    BY <1>5, <2>1, Zenon DEF WithinFor
  <2> HIDE DEF S
  <2>5. SumFunctionOnSet(Counted, S \cup {c}) = SumFunctionOnSet(Counted, S) + Counted[c]
    BY <1>1, <1>3, SumAdds
  <2>6. SumFunctionOnSet(Standing, S \cup {c}) = SumFunctionOnSet(Standing, S) + Standing[c]
    BY <1>1, <1>3, SumAdds
  <2>7. SumFunctionOnSet(Within, S \cup {c}) = SumFunctionOnSet(Within, S) + Within[c]
    BY <1>1, <1>3, SumAdds
  <2>8. /\ SumFunctionOnSet(Counted, S) = CountedFor(d)
        /\ SumFunctionOnSet(Standing, S) = HeldFor(d)
        /\ SumFunctionOnSet(Within, S) = WithinFor(d)
    BY DEF CountedFor, HeldFor, WithinFor, S
  <2>9. Within[c] \in Nat
    BY Amounts
  <2> QED
    BY <1>2, <1>4, <1>5, <1>6, <1>7, <2>2, <2>3, <2>4, <2>5, <2>6, <2>7, <2>8, <2>9
<1>8. CASE day[c] # d
  <2>1. ChargedTo(d)' = ChargedTo(d)
    BY <1>8 DEF ChargedTo, TypeOK
  <2>2. CountedFor(d)' = CountedFor(d)
    BY <1>4, <2>1, Zenon DEF CountedFor
  <2>3. HeldFor(d)' = HeldFor(d)
    BY <1>4, <2>1, Zenon DEF HeldFor
  <2>4. WithinFor(d)' = WithinFor(d)
    BY <1>5, <2>1, Zenon DEF WithinFor
  <2> QED
    BY <1>6, <1>8, <2>2, <2>3, <2>4
<1> QED
  BY <1>7, <1>8

\* A saved settlement replaces the estimate by the cost, on the day of the call.
LEMMA SettlementSums ==
  ASSUME TypeOK, TypeOK', NEW c \in Call, stage[c] = "settling",
         stage' = [stage EXCEPT ![c] = "settled"], UNCHANGED <<day, billed>>, NEW d
  PROVE  /\ CountedFor(d)' = CountedFor(d)
                               + (IF day[c] = d THEN Worst[c] - Estimate[c] ELSE 0)
         /\ HeldFor(d)' = HeldFor(d) + (IF day[c] = d THEN billed[c] - Estimate[c] ELSE 0)
         /\ WithinFor(d)' <= WithinFor(d)
<1> DEFINE S == ChargedTo(d)
<1>1. ChargedTo(d)' = S /\ IsFiniteSet(S) /\ S \subseteq Call
  BY ChargedFacts DEF ChargedTo, TypeOK
<1>2. Estimate[c] \in Nat /\ billed[c] \in Nat /\ Worst[c] \in Nat
  BY Amounts
<1>3. /\ Standing[c] = Estimate[c] /\ Standing'[c] = billed[c]
      /\ Counted[c] = Estimate[c] /\ Counted'[c] = Worst[c]
  BY DEF TypeOK, Standing, Counted, Worst
<1>4. \A e \in Call : e # c => /\ Standing'[e] = Standing[e] /\ Counted'[e] = Counted[e]
                               /\ Within'[e] = Within[e]
  BY DEF TypeOK, Standing, Counted, Within
<1>5. Within'[c] <= Within[c]
  BY <1>2 DEF TypeOK, Within
<1>6. \A e \in S : /\ Standing[e] \in Int /\ Standing'[e] \in Int /\ Counted[e] \in Int
                   /\ Counted'[e] \in Int /\ Within[e] \in Int /\ Within'[e] \in Int
  BY <1>1, Amounts, WithinNext
<1>7. \A e \in S : Within'[e] <= Within[e]
  <2> SUFFICES ASSUME NEW e \in S PROVE Within'[e] <= Within[e]
    OBVIOUS
  <2>1. CASE e = c
    BY <1>5, <2>1
  <2>2. CASE e # c
    BY <1>1, <1>4, <1>6, <2>2
  <2> QED
    BY <2>1, <2>2
<1>8. CountedFor(d) \in Nat /\ HeldFor(d) \in Nat
  BY ChargedFacts
<1>9. /\ CountedFor(d)' = SumFunctionOnSet(Counted', S)
      /\ HeldFor(d)' = SumFunctionOnSet(Standing', S)
      /\ WithinFor(d)' = SumFunctionOnSet(Within', S)
  BY <1>1, Zenon DEF CountedFor, HeldFor, WithinFor
<1>10. /\ CountedFor(d) = SumFunctionOnSet(Counted, S)
       /\ HeldFor(d) = SumFunctionOnSet(Standing, S)
       /\ WithinFor(d) = SumFunctionOnSet(Within, S)
  BY DEF CountedFor, HeldFor, WithinFor
<1>11. c \in S <=> day[c] = d
  BY DEF ChargedTo
<1> HIDE DEF S
<1>12. WithinFor(d)' <= WithinFor(d)
  BY <1>1, <1>6, <1>7, <1>9, <1>10, SumMonotonic
<1>13. CASE day[c] = d
  <2>1. c \in S /\ \A e \in S : e # c => Standing'[e] = Standing[e] /\ Counted'[e] = Counted[e]
    BY <1>1, <1>4, <1>11, <1>13
  <2>2. SumFunctionOnSet(Standing', S) = SumFunctionOnSet(Standing, S) - Standing[c] + Standing'[c]
    BY <1>1, <1>6, <2>1, SumChanges
  <2>3. SumFunctionOnSet(Counted', S) = SumFunctionOnSet(Counted, S) - Counted[c] + Counted'[c]
    BY <1>1, <1>6, <2>1, SumChanges
  <2> QED
    BY <1>2, <1>3, <1>8, <1>9, <1>10, <1>12, <1>13, <2>2, <2>3
<1>14. CASE day[c] # d
  <2>1. \A e \in S : Standing'[e] = Standing[e] /\ Counted'[e] = Counted[e]
    BY <1>1, <1>4, <1>11, <1>14
  <2>2. SumFunctionOnSet(Standing, S) = SumFunctionOnSet(Standing', S)
    BY <1>1, <1>6, <2>1, SumSame
  <2>3. SumFunctionOnSet(Counted, S) = SumFunctionOnSet(Counted', S)
    BY <1>1, <1>6, <2>1, SumSame
  <2> QED
    BY <1>8, <1>9, <1>10, <1>12, <1>14, <2>2, <2>3
<1> QED
  BY <1>13, <1>14

\* A save writes at most what is reserved by then.
LEMMA SavedAtMost ==
  ASSUME TypeOK, TypeOK', ChargedAtMostOnce, NEW p \in Proc, Saved(p)
  PROVE  ChargedAtMostOnce'
<1> DEFINE c == at[p]
<1>1. SavesItsOwn
  BY DEF ChargedAtMostOnce
<1>2. /\ c \in Call /\ file'.ledger = saving[p]
      /\ at' = [at EXCEPT ![p] = None]
      /\ UNCHANGED <<today, day, saving, billed>>
      /\ \/ stage[c] = "reserving" /\ stage' = [stage EXCEPT ![c] = "sent"]
         \/ stage[c] = "settling" /\ stage' = [stage EXCEPT ![c] = "settled"]
  BY <1>1, SavedEffect
<1>3. at'[p] = None /\ \A q \in Proc : q # p => at'[q] = at[q]
  BY <1>2 DEF TypeOK
<1>4. \A q \in Proc : q # p /\ at[q] # None => stage'[at[q]] = stage[at[q]]
  BY <1>1, <1>2 DEF SavesItsOwn, TypeOK
<1>5. c # None
  BY <1>2, SpendConstants
<1> HIDE DEF c
<1>6. ASSUME NEW d \in 0..MaxDay
      PROVE  /\ CountedFor(d) \in Nat
             /\ CountedFor(d)' >= CountedFor(d) /\ CountedFor(d)' \in Int
             /\ saving[p].day = d => saving[p].spent <= CountedFor(d)'
  <2>1. CountedFor(d) \in Nat /\ Estimate[c] \in Nat /\ Worst[c] \in Nat /\ Worst[c] >= Estimate[c]
    <3>1. CountedFor(d) \in Nat
      BY ChargedFacts
    <3>2. Estimate[c] \in Nat /\ billed[c] \in Nat
      BY <1>2, Amounts
    <3> QED
      BY <1>2, <3>1, <3>2 DEF Worst
  <2>2. saving[p].day = d => SaveAtMost(p, d)
    BY <1>5 DEF ChargedAtMostOnce, c
  <2>3. CASE stage[c] = "reserving" /\ stage' = [stage EXCEPT ![c] = "sent"]
    <3>1. CountedFor(d)' = CountedFor(d) + (IF day[c] = d THEN Estimate[c] ELSE 0)
      BY <1>2, <2>3, ReservationSums
    <3> QED
      BY <2>1, <2>2, <2>3, <3>1 DEF SaveAtMost, c
  <2>4. CASE stage[c] = "settling" /\ stage' = [stage EXCEPT ![c] = "settled"]
    <3>1. CountedFor(d)' = CountedFor(d)
                             + (IF day[c] = d THEN Worst[c] - Estimate[c] ELSE 0)
      BY <1>2, <2>4, SettlementSums
    <3> QED
      BY <2>1, <2>2, <2>4, <3>1 DEF SaveAtMost, c
  <2> QED
    BY <1>2, <2>3, <2>4
<1>7. SavesItsOwn'
  BY <1>1, <1>3, <1>4 DEF SavesItsOwn
<1>8. ASSUME NEW d \in 0..MaxDay, file'.ledger.day = d
      PROVE  file'.ledger.spent <= CountedFor(d)'
  BY <1>2, <1>6, <1>8
<1>9. ASSUME NEW q \in Proc, NEW d \in 0..MaxDay, at'[q] # None, saving'[q].day = d
      PROVE  SaveAtMost(q, d)'
  <2>1. q # p /\ at'[q] = at[q] /\ stage'[at[q]] = stage[at[q]] /\ saving'[q] = saving[q] /\ day' = day
    BY <1>2, <1>3, <1>4, <1>9
  <2>2. SaveAtMost(q, d)
    BY <1>9, <2>1 DEF ChargedAtMostOnce
  <2>3. at[q] \in Call /\ saving[q].spent \in Int /\ Estimate[at[q]] \in Int
    BY <1>9, <2>1, SpendConstants DEF TypeOK, LedgerType
  <2>4. Worst[at[q]] \in Int /\ Worst'[at[q]] = Worst[at[q]]
    BY <1>2, <2>3, Amounts DEF Worst
  <2> QED
    BY <1>6, <2>1, <2>2, <2>3, <2>4 DEF SaveAtMost
<1> QED
  BY <1>7, <1>8, <1>9 DEF ChargedAtMostOnce

\* A save of the only process that saves writes at least what is held by then.
LEMMA SavedAtLeast ==
  ASSUME TypeOK, TypeOK', SavesItsOwn, HeldAtLeast, TakesTurns, NEW p \in Proc, Saved(p)
  PROVE  HeldAtLeast'
<1> DEFINE c == at[p]
           D == saving[p].day
<1>1. /\ c \in Call /\ ProcOf[c] = p /\ file'.status = "ok" /\ file'.ledger = saving[p]
      /\ at' = [at EXCEPT ![p] = None]
      /\ UNCHANGED <<today, day, saving, billed>>
      /\ \/ stage[c] = "reserving" /\ stage' = [stage EXCEPT ![c] = "sent"]
         \/ stage[c] = "settling" /\ stage' = [stage EXCEPT ![c] = "settled"]
  BY SavedEffect
<1>2. c # None /\ D \in 0..MaxDay
  BY <1>1, SpendConstants DEF TypeOK, LedgerType
<1>3. SaveAtLeast(p, D)
  BY <1>2 DEF HeldAtLeast
<1>4. \A q \in Proc : at'[q] = None
  BY <1>1, <1>2 DEF TypeOK, TakesTurns
<1>5. /\ saving[p].spent \in Nat /\ D \in Int /\ today \in Int /\ file.ledger.day \in Int
      /\ billed[c] \in Nat /\ Estimate[c] \in Nat /\ day[c] = D
      /\ Cap \in Nat
  BY <1>1, <1>3, SpendConstants DEF TypeOK, LedgerType, SaveAtLeast
<1>6. ASSUME NEW e \in Call, Charged(e)'
      PROVE  file'.status # "missing" /\ day'[e] <= file'.ledger.day
  <2>1. CASE e = c
    BY <1>1, <1>5, <2>1
  <2>2. CASE e # c
    <3>1. Charged(e) /\ day[e] \in Int
      BY <1>1, <1>6, <2>2 DEF Charged, TypeOK
    <3> QED
      BY <1>1, <1>3, <1>5, <3>1 DEF HeldAtLeast, SaveAtLeast
  <2> QED
    BY <2>1, <2>2
<1> HIDE DEF c, D
<1>7. ASSUME NEW d \in 0..MaxDay
      PROVE  /\ d = D => saving[p].spent >= HeldFor(d)'
             /\ WithinFor(d)' <= Cap
  <2>1. /\ HeldFor(d) \in Nat /\ WithinFor(d) \in Nat /\ WithinFor(d)' \in Nat
        /\ WithinFor(d) <= Cap /\ WithinFor(d) <= HeldFor(d)
    BY ChargedFacts, NextWithinNat, WithinHeld DEF HeldAtLeast
  <2>2. CASE stage[c] = "reserving" /\ stage' = [stage EXCEPT ![c] = "sent"]
    <3>1. /\ HeldFor(d)' = HeldFor(d) + (IF day[c] = d THEN Estimate[c] ELSE 0)
          /\ WithinFor(d)' <= WithinFor(d) + (IF day[c] = d THEN Estimate[c] ELSE 0)
      BY <1>1, <2>2, ReservationSums
    <3>2. saving[p].spent >= HeldFor(D) + Estimate[c] /\ saving[p].spent <= Cap
      BY <1>3, <2>2 DEF SaveAtLeast, c
    <3>3. CASE d = D
      BY <1>5, <2>1, <3>1, <3>2, <3>3
    <3>4. CASE d # D
      BY <1>5, <2>1, <3>1, <3>4
    <3> QED
      BY <3>3, <3>4
  <2>3. CASE stage[c] = "settling" /\ stage' = [stage EXCEPT ![c] = "settled"]
    <3>1. /\ HeldFor(d)' = HeldFor(d) + (IF day[c] = d THEN billed[c] - Estimate[c] ELSE 0)
          /\ WithinFor(d)' <= WithinFor(d)
      BY <1>1, <2>3, SettlementSums
    <3>2. saving[p].spent >= HeldFor(D) - Estimate[c] + billed[c]
      BY <1>3, <2>3 DEF SaveAtLeast, c
    <3> QED
      BY <1>5, <2>1, <3>1, <3>2
  <2> QED
    BY <1>1, <2>2, <2>3
<1>8. (file.ledger.day <= today)'
  BY <1>1, <1>3, <1>5 DEF SaveAtLeast, D
<1>9. \A d \in 0..MaxDay : file'.ledger.day = d => file'.ledger.spent >= HeldFor(d)'
  BY <1>1, <1>7 DEF D
<1> QED
  BY <1>4, <1>6, <1>7, <1>8, <1>9 DEF HeldAtLeast

-----------------------------------------------------------------------------
(***************************************************************************)
(* The ledger and the provider's account                                   *)
(***************************************************************************)

\* Every step charges a call at most once.
LEMMA StepAtMost == TypeOK /\ ChargedAtMostOnce /\ [Next]_vars => ChargedAtMostOnce'
<1> SUFFICES ASSUME TypeOK, ChargedAtMostOnce, [Next]_vars PROVE ChargedAtMostOnce'
  OBVIOUS
<1>1. TypeOK' /\ SavesItsOwn
  BY StepType DEF ChargedAtMostOnce
<1>2. /\ Loaded \in LedgerType /\ Loaded.spent \in Nat
      /\ Loaded.spent <= CountedFor(Loaded.day) /\ CountedFor(Loaded.day) \in Nat
  BY LoadedType, LoadedAtMost, ChargedFacts DEF LedgerType
<1>3. ASSUME NEW c \in Call, Reserve(c)
      PROVE  ChargedAtMostOnce'
  <2> DEFINE ledger == [Loaded EXCEPT !.spent = @ + Estimate[c]]
  <2>1. ledger \in LedgerType
    BY ReservedType
  <2>2. ledger.day = Loaded.day /\ ledger.spent = Loaded.spent + Estimate[c]
    BY <1>2 DEF LedgerType
  <2>3. Estimate[c] \in Nat
    BY SpendConstants
  <2>4. stage[c] = "new" /\ BeginsSave(c, "reserving", ledger)
    BY <1>3, ReserveBegins
  <2> HIDE DEF ledger
  <2>5. ledger.spent <= CountedFor(ledger.day) + Estimate[c]
    BY <1>2, <2>2, <2>3
  <2> QED
    BY <1>1, <2>1, <2>4, <2>5, BeginAtMost
<1>4. ASSUME NEW c \in Call, Settle(c)
      PROVE  ChargedAtMostOnce'
  <2>1. CASE UNCHANGED <<at, saving>> /\ stage'[c] # "settling"
    BY <1>1, <1>4, <2>1, CallIsQuiet, QuietAtMost
  <2>2. CASE /\ stage[c] = "sent" /\ Readable /\ Loaded.day = day[c]
             /\ BeginsSave(c, "settling", Settled(c))
    <3>1. billed[c] \in Nat /\ Estimate[c] \in Nat
      BY Amounts
    <3>2. Settled(c) \in LedgerType
      BY SettledType
    <3>3. /\ Settled(c).day = Loaded.day
          /\ Settled(c).spent = IF Loaded.spent + billed[c] - Estimate[c] > 0
                                  THEN Loaded.spent + billed[c] - Estimate[c] ELSE 0
      BY <1>2 DEF Settled, LedgerType
    <3>4. /\ Worst[c] \in Nat /\ Worst[c] >= billed[c] /\ Worst[c] >= Estimate[c]
      BY <3>1 DEF Worst
    <3>5. Settled(c).spent <= CountedFor(Settled(c).day) + Worst[c] - Estimate[c]
      BY <1>2, <3>1, <3>3, <3>4
    <3> QED
      BY <1>1, <2>2, <3>2, <3>3, <3>5, BeginAtMost
  <2> QED
    BY <1>4, <2>1, <2>2, SettleBegins
<1>5. ASSUME NEW c \in Call, Refuse(c) \/ ProviderBills(c) \/ AnswerWithoutCost(c)
      PROVE  ChargedAtMostOnce'
  BY <1>1, <1>5, CallIsQuiet, QuietAtMost
<1>6. ASSUME NEW p \in Proc, Saved(p)
      PROVE  ChargedAtMostOnce'
  BY <1>1, <1>6, SavedAtMost
<1>7. CASE \/ \E p \in Proc : SaveFailed(p) \/ Crash(p)
           \/ FileBreaks \/ OperatorRepair \/ NextDay \/ UNCHANGED vars
  BY <1>1, <1>7, OtherIsQuiet, QuietAtMost
<1> QED
  BY <1>3, <1>4, <1>5, <1>6, <1>7 DEF Next

\* Every step of processes that take turns keeps what is held.
LEMMA StepAtLeast ==
  ASSUME TypeOK, SavesItsOwn, HeldAtLeast, TakesTurns, TakesTurns', [Next]_vars
  PROVE  HeldAtLeast'
<1>1. TypeOK'
  BY StepType
<1>2. /\ Loaded \in LedgerType /\ Loaded.spent \in Nat
      /\ Readable => Loaded.day = today /\ Loaded.spent >= HeldFor(today)
      /\ HeldFor(today) \in Nat
  BY LoadedType, LoadedAtLeast, ChargedFacts DEF LedgerType
<1>3. ASSUME NEW c \in Call, Reserve(c)
      PROVE  HeldAtLeast'
  <2> DEFINE ledger == [Loaded EXCEPT !.spent = @ + Estimate[c]]
  <2>1. ledger \in LedgerType
    BY ReservedType
  <2>2. ledger.day = Loaded.day /\ ledger.spent = Loaded.spent + Estimate[c]
    BY <1>2 DEF LedgerType
  <2>3. Estimate[c] \in Nat
    BY SpendConstants
  <2>4. stage[c] = "new" /\ BeginsSave(c, "reserving", ledger)
    BY <1>3, ReserveBegins
  <2>5. Readable /\ ledger.spent <= Cap
    BY <1>3, <2>2 DEF Reserve, Admitted
  <2> HIDE DEF ledger
  <2>6. ledger.day = today /\ ledger.spent >= HeldFor(today) + Estimate[c]
    BY <1>2, <2>2, <2>3, <2>5
  <2> QED
    BY <1>1, <2>1, <2>4, <2>5, <2>6, BeginAtLeast
<1>4. ASSUME NEW c \in Call, Settle(c)
      PROVE  HeldAtLeast'
  <2>1. CASE UNCHANGED <<at, saving>> /\ stage'[c] # "settling"
    BY <1>1, <1>4, <2>1, CallIsQuiet, QuietAtLeast
  <2>2. CASE /\ stage[c] = "sent" /\ Readable /\ Loaded.day = day[c]
             /\ BeginsSave(c, "settling", Settled(c))
    <3>1. billed[c] \in Nat /\ Estimate[c] \in Nat
      BY Amounts
    <3>2. Settled(c) \in LedgerType
      BY SettledType
    <3>3. /\ Settled(c).day = Loaded.day
          /\ Settled(c).spent >= Loaded.spent + billed[c] - Estimate[c]
      BY <1>2, <3>1 DEF Settled, LedgerType
    <3>4. Settled(c).spent \in Int
      BY <3>2 DEF LedgerType
    <3>5. Settled(c).spent >= HeldFor(today) - Estimate[c] + billed[c]
      BY <1>2, <2>2, <3>1, <3>3, <3>4
    <3> QED
      BY <1>1, <1>2, <2>2, <3>2, <3>3, <3>5, BeginAtLeast
  <2> QED
    BY <1>4, <2>1, <2>2, SettleBegins
<1>5. ASSUME NEW c \in Call, Refuse(c) \/ ProviderBills(c) \/ AnswerWithoutCost(c)
      PROVE  HeldAtLeast'
  BY <1>1, <1>5, CallIsQuiet, QuietAtLeast
<1>6. ASSUME NEW p \in Proc, Saved(p)
      PROVE  HeldAtLeast'
  BY <1>1, <1>6, SavedAtLeast
<1>7. CASE \/ \E p \in Proc : SaveFailed(p) \/ Crash(p)
           \/ FileBreaks \/ OperatorRepair \/ NextDay \/ UNCHANGED vars
  BY <1>1, <1>7, OtherIsQuiet, QuietAtLeast
<1> QED
  BY <1>3, <1>4, <1>5, <1>6, <1>7 DEF Next

\* At the start nothing is charged to any day.
LEMMA InitCharges == Init => ChargedAtMostOnce /\ HeldAtLeast
<1> SUFFICES ASSUME Init PROVE ChargedAtMostOnce /\ HeldAtLeast
  OBVIOUS
<1>1. \A c \in Call : ~Charged(c)
  BY DEF Init, Charged
<1>2. \A d : ChargedTo(d) = {}
  BY <1>1 DEF ChargedTo, Charged
<1>3. \A d : CountedFor(d) = 0 /\ HeldFor(d) = 0 /\ WithinFor(d) = 0
  <2> SUFFICES ASSUME NEW d PROVE CountedFor(d) = 0 /\ HeldFor(d) = 0 /\ WithinFor(d) = 0
    OBVIOUS
  <2>1. ChargedTo(d) = {}
    BY <1>2
  <2>2. CountedFor(d) = SumFunctionOnSet(Counted, {})
    BY <2>1, Zenon DEF CountedFor
  <2>3. HeldFor(d) = SumFunctionOnSet(Standing, {})
    BY <2>1, Zenon DEF HeldFor
  <2>4. WithinFor(d) = SumFunctionOnSet(Within, {})
    BY <2>1, Zenon DEF WithinFor
  <2> QED
    BY <2>2, <2>3, <2>4, SumEmpty
<1>4. /\ file.ledger.day = 0 /\ file.ledger.spent = 0 /\ today = 0
      /\ \A p \in Proc : at[p] = None
  BY DEF Init, Ledger
<1> QED
  BY <1>1, <1>3, <1>4, SpendConstants DEF ChargedAtMostOnce, HeldAtLeast, SavesItsOwn

\* spend_governor.py:334, 373: for any number of processes, and for a bill above
\* its estimate too, the ledger holds for each call of its day at most the
\* larger of its estimate and its bill.
THEOREM ChargedOnce == Spec => []DayIsChargedOncePerCall
<1>1. ASSUME TypeOK, ChargedAtMostOnce
      PROVE  DayIsChargedOncePerCall
  <2> DEFINE D == file.ledger.day
  <2>1. D \in 0..MaxDay /\ file.ledger.spent \in Nat
    BY <1>1 DEF TypeOK, LedgerType
  <2>2. file.ledger.spent <= CountedFor(D)
    BY <1>1, <2>1 DEF ChargedAtMostOnce
  <2>3. IsFiniteSet(ChargedTo(D)) /\ ChargedTo(D) \subseteq Call /\ CountedFor(D) \in Nat
    BY <1>1, ChargedFacts
  <2>4. \A c \in Call : Counted[c] \in Nat /\ Worst[c] \in Nat /\ Counted[c] <= Worst[c]
    <3> SUFFICES ASSUME NEW c \in Call
                 PROVE  Counted[c] \in Nat /\ Worst[c] \in Nat /\ Counted[c] <= Worst[c]
      OBVIOUS
    <3>1. Estimate[c] \in Nat /\ billed[c] \in Nat
      BY <1>1, Amounts
    <3> QED
      BY <3>1 DEF Counted, Worst
  <2>5. SumFunctionOnSet(Counted, ChargedTo(D)) <= SumFunctionOnSet(Worst, ChargedTo(D))
    BY <2>3, <2>4, SumMonotonic
  <2>6. SumFunctionOnSet(Worst, ChargedTo(D)) \in Nat
    BY <2>3, <2>4, SumNat
  <2> QED
    BY <2>1, <2>2, <2>3, <2>5, <2>6 DEF DayIsChargedOncePerCall, CountedFor
<1> QED
  BY <1>1, InitCharges, StepAtMost, SpendTypeCorrect, PTL DEF Spec

\* What is to come bounds what is charged, but for the overcharges.
LEMMA WithinCoversBills ==
  ASSUME TypeOK, HeldAtLeast
  PROVE  CapHoldsAtProvider
<1> SUFFICES ASSUME NEW d \in 0..MaxDay
             PROVE  Bills(d) <= Cap + SumFunctionOnSet(Overcharge, ChargedTo(d))
  BY DEF CapHoldsAtProvider
<1> DEFINE S == ChargedTo(d)
           both == [c \in Call |-> Within[c] + Overcharge[c]]
<1>1. IsFiniteSet(S) /\ S \subseteq Call /\ WithinFor(d) \in Nat
  BY ChargedFacts
<1>2. \A c \in S : /\ billed[c] \in Nat /\ Within[c] \in Nat /\ Overcharge[c] \in Nat
                   /\ billed[c] <= Within[c] + Overcharge[c]
  <2> SUFFICES ASSUME NEW c \in S
               PROVE  /\ billed[c] \in Nat /\ Within[c] \in Nat /\ Overcharge[c] \in Nat
                      /\ billed[c] <= Within[c] + Overcharge[c]
    OBVIOUS
  <2>1. c \in Call
    BY <1>1
  <2>2. Estimate[c] \in Nat /\ billed[c] \in Nat
    BY <2>1, Amounts
  <2> QED
    BY <2>1, <2>2 DEF Within, Overcharge
<1>3. \A c \in S : both[c] = Within[c] + Overcharge[c]
  BY <1>1
<1> HIDE DEF S, both
<1>4. SumFunctionOnSet(billed, S) <= SumFunctionOnSet(both, S)
  BY <1>1, <1>2, <1>3, SumMonotonic
<1>5. SumFunctionOnSet(both, S) = SumFunctionOnSet(Within, S) + SumFunctionOnSet(Overcharge, S)
  BY <1>1, <1>2, <1>3, SumOfTwo
<1>6. SumFunctionOnSet(billed, S) \in Nat /\ SumFunctionOnSet(Overcharge, S) \in Nat
  BY <1>1, <1>2, SumNat
<1>7. SumFunctionOnSet(Within, S) = WithinFor(d) /\ WithinFor(d) <= Cap
  BY DEF WithinFor, HeldAtLeast, S
<1> QED
  BY <1>1, <1>4, <1>5, <1>6, <1>7, SpendConstants DEF Bills, S

\* What is held is what the ledger is to cover.
LEMMA HeldCoversDay ==
  ASSUME TypeOK, HeldAtLeast
  PROVE  DayIsNeverUndercounted
<1>1. file.ledger.day \in 0..MaxDay
  BY DEF TypeOK, LedgerType
<1>2. file.ledger.spent >= HeldFor(file.ledger.day)
  BY <1>1 DEF HeldAtLeast
<1> QED
  BY <1>2 DEF DayIsNeverUndercounted, HeldFor

\* What is held, in every behaviour in which the processes take turns.
LEMMA HeldInvariant == Spec /\ []TakesTurns => [](TypeOK /\ HeldAtLeast)
<1>1. TypeOK /\ ChargedAtMostOnce /\ HeldAtLeast /\ TakesTurns /\ TakesTurns' /\ [Next]_vars
        => HeldAtLeast'
  BY StepAtLeast DEF ChargedAtMostOnce
<1> QED
  BY <1>1, InitCharges, StepAtMost, SpendTypeCorrect, PTL DEF Spec

\* TurnsSpec has just these behaviours.
LEMMA TurnsAreTaken == TurnsSpec => Spec /\ []TakesTurns
<1>1. Init => TakesTurns
  BY DEF Init, TakesTurns
<1>2. TakesTurns /\ [Next /\ TakesTurns']_vars => TakesTurns'
  BY DEF TakesTurns, vars
<1>3. [Next /\ TakesTurns']_vars => [Next]_vars
  OBVIOUS
<1> QED
  BY <1>1, <1>2, <1>3, PTL DEF TurnsSpec, Spec

\* One process that makes all the calls takes turns with nobody.
LEMMA OneCallerTakesTurns ==
  ASSUME OneCaller
  PROVE  Spec => []TakesTurns
<1>1. TypeOK /\ ChargedAtMostOnce => TakesTurns
  BY DEF TypeOK, ChargedAtMostOnce, SavesItsOwn, OneCaller, TakesTurns
<1> QED
  BY <1>1, InitCharges, StepAtMost, SpendTypeCorrect, PTL DEF Spec

\* spend_governor.py:15 "over-counts the day, never under-counts it": the
\* ledger holds the cost of every settled call of its day and the estimate of
\* every other, in any number of processes that never read and replace it in
\* the same instant.
THEOREM TurnsNeverUndercount == TurnsSpec => []DayIsNeverUndercounted
BY HeldInvariant, TurnsAreTaken, HeldCoversDay, PTL

\* The provider charges such processes no more than the cap for the calls of
\* a day, all together, but for what it charges above their estimates.
THEOREM TurnsKeepCap == TurnsSpec => []CapHoldsAtProvider
BY HeldInvariant, TurnsAreTaken, WithinCoversBills, PTL

\* The same where one process makes all the paid calls, whatever it does.
THEOREM NeverUndercounted ==
  ASSUME OneCaller
  PROVE  Spec => []DayIsNeverUndercounted
BY HeldInvariant, OneCallerTakesTurns, HeldCoversDay, PTL

\* The provider charges one caller no more than the cap for the calls of a day,
\* but for what it charges above their estimates.
THEOREM CapHolds ==
  ASSUME OneCaller
  PROVE  Spec => []CapHoldsAtProvider
BY HeldInvariant, OneCallerTakesTurns, WithinCoversBills, PTL

==============================================================================
