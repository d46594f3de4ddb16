--------------------------- MODULE StageBudgetProofs ---------------------------
(***************************************************************************)
(* The stage ladder, the hard stop, the division of the pot and the limits *)
(* of the stage, for any number of markets, any limits and any prices.     *)
(***************************************************************************)
EXTENDS StageBudget, SumTheorems

-----------------------------------------------------------------------------
(***************************************************************************)
(* The inductive invariant                                                 *)
(***************************************************************************)

Trading == {"grade", "divide", "decide", "execute"}

\* What counts towards a promotion was graded, once.
EvidenceInv ==
  /\ pc \in Trading => st.count <= Cardinality(earned)
  /\ disk = "valid" => file.count <= Cardinality(earnedOnDisk)
  /\ \A m \in earned \cup earnedOnDisk : book[m].kind = "closed"

\* A cycle that trades never saw a stop; a saved one can only become unreadable.
StopInv ==
  /\ stoppedOnce => disk = "unreadable" \/ (disk = "valid" /\ file.stopped)
  /\ pc \in Trading => ~stoppedOnce /\ ~st.stopped /\ disk # "absent"

\* No settled market is decided upon.
QueueInv ==
  /\ queue \in Seq(Candidate)
  /\ \A i \in DOMAIN queue : book[queue[i]].kind # "closed"
  /\ pc \notin {"divide", "decide", "execute"} => queue = <<>>

\* From the start of a cycle to the promotion, and while an order is executed,
\* the file holds the stage of the cycle.
OrderInv ==
  /\ pc = "execute" => /\ order.candidate \in Candidate
                       /\ book[order.candidate].kind # "closed"
  /\ pc \in {"grade", "execute"} => file.stage = st.stage /\ ~file.stopped

IInv == RiskTyped /\ EvidenceInv /\ StopInv /\ QueueInv /\ OrderInv

-----------------------------------------------------------------------------
(***************************************************************************)
(* The ladders                                                             *)
(***************************************************************************)

\* The first state of a deployment is a risk state.
LEMMA FreshOK == ASSUME NEW b \in Nat PROVE Fresh(b) \in RiskState
BY DEF Fresh, RiskState, Stage

\* A risk state with another stage and its evidence spent is one.
LEMMA RestagedOK ==
  ASSUME NEW s \in RiskState, NEW n \in Stage
  PROVE  /\ [s EXCEPT !.stage = n, !.count = 0] \in RiskState
         /\ [s EXCEPT !.stage = n, !.count = 0, !.demoted = "recent"] \in RiskState
<1>1. [s EXCEPT !.stage = n, !.count = 0] \in RiskState
  BY DEF RiskState
<1>2. \A t \in RiskState : [t EXCEPT !.demoted = "recent"] \in RiskState
  BY DEF RiskState
<1> QED
  BY <1>1, <1>2

\* A risk state with one more piece of evidence is one.
LEMMA CountedOK ==
  ASSUME NEW s \in RiskState, NEW n \in Nat, NEW e \in BOOLEAN
  PROVE  [s EXCEPT !.count = n, !.edge = e] \in RiskState
<1>1. [s EXCEPT !.count = n] \in RiskState
  BY DEF RiskState
<1> QED
  BY <1>1 DEF RiskState

\* A fresh or loaded state is a risk state, and a load resets nothing else.
LEMMA LoadedOK ==
  ASSUME RiskTyped, NEW b \in Nat
  PROVE  /\ Loaded(b) \in RiskState
         /\ disk = "valid" =>
              /\ Loaded(b).count = file.count /\ Loaded(b).stage = file.stage
              /\ Loaded(b).stopped = file.stopped
         /\ disk # "valid" => Loaded(b).count = 0
<1>1. /\ Kept(b) \in RiskState
      /\ Kept(b).count = file.count /\ Kept(b).stage = file.stage
      /\ Kept(b).stopped = file.stopped
  <2>1. file \in RiskState /\ Larger(file.peak, b) \in Nat
    BY DEF RiskTyped, Larger, RiskState
  <2> QED
    BY <2>1 DEF Kept, RiskState
<1>2. CASE disk = "valid"
  BY <1>1, <1>2 DEF Loaded
<1>3. CASE disk = "old"
  <2>1. Loaded(b) = [Kept(b) EXCEPT !.count = 0, !.edge = FALSE]
    BY <1>3 DEF Loaded
  <2>2. Loaded(b) \in RiskState
    BY <1>1, <2>1, CountedOK
  <2>3. Loaded(b).count = 0
    BY <1>1, <2>1 DEF RiskState
  <2> QED
    BY <1>3, <2>2, <2>3
<1>4. CASE disk \notin {"valid", "old"}
  <2>1. Loaded(b) = Fresh(b)
    BY <1>4 DEF Loaded
  <2>2. Fresh(b).count = 0
    BY DEF Fresh
  <2> QED
    BY <1>4, <2>1, <2>2, FreshOK
<1> QED
  BY <1>2, <1>3, <1>4

\* The drawdown policy ends no stop, and a new stage starts with no evidence.
LEMMA DrawdownPolicyOK ==
  ASSUME NEW s \in RiskState
  PROVE  /\ DrawdownPolicy(s) \in RiskState
         /\ s.stopped => DrawdownPolicy(s).stopped
         /\ DrawdownPolicy(s).count = s.count \/ DrawdownPolicy(s).count = 0
         /\ DrawdownPolicy(s).stage # s.stage => DrawdownPolicy(s).count = 0
<1>1. CASE DownBy(s, 3)
  BY <1>1 DEF DrawdownPolicy, RiskState
<1>2. CASE DownBy(s, 2) /\ ~DownBy(s, 3) /\ s.stage > 1
  <2>1. DrawdownPolicy(s) = [s EXCEPT !.stage = @ - 1, !.count = 0, !.demoted = "recent"]
    BY <1>2 DEF DrawdownPolicy
  <2>2. s.stage \in Stage /\ s.stage - 1 \in Stage /\ s.stage - 1 # s.stage
    BY <1>2 DEF RiskState, Stage
  <2>3. DrawdownPolicy(s) \in RiskState
    <3>1. PICK n \in Stage : n = s.stage - 1
      BY <2>2
    <3>2. [s EXCEPT !.stage = n, !.count = 0, !.demoted = "recent"] \in RiskState
      BY ONLY s \in RiskState, n \in Stage, RestagedOK
    <3>3. DrawdownPolicy(s) = [s EXCEPT !.stage = n, !.count = 0, !.demoted = "recent"]
      BY ONLY <2>1, <3>1
    <3> QED
      BY ONLY <3>2, <3>3
  <2>4. DrawdownPolicy(s).stopped = s.stopped /\ DrawdownPolicy(s).count = 0
    BY <2>1 DEF RiskState
  <2> QED
    BY <2>3, <2>4
<1>3. CASE ~DownBy(s, 3) /\ ~(DownBy(s, 2) /\ ~DownBy(s, 3) /\ s.stage > 1)
  BY <1>3 DEF DrawdownPolicy, RiskState
<1> QED
  BY <1>1, <1>2, <1>3

\* A promotion takes the evidence it rests on.
LEMMA PromotedOK ==
  ASSUME NEW s \in RiskState
  PROVE  /\ Promoted(s) \in RiskState
         /\ Promoted(s).stopped = s.stopped
         /\ MayPromote(s) => Promoted(s).count = 0
         /\ ~MayPromote(s) => Promoted(s) = s
<1>1. CASE MayPromote(s)
  <2>1. Promoted(s) = [s EXCEPT !.stage = @ + 1, !.count = 0]
    BY <1>1 DEF Promoted
  <2>2. s.stage + 1 \in Stage
    BY <1>1 DEF MayPromote, RiskState, Stage
  <2>3. Promoted(s) \in RiskState
    <3>1. PICK n \in Stage : n = s.stage + 1
      BY <2>2
    <3>2. [s EXCEPT !.stage = n, !.count = 0] \in RiskState
      BY ONLY s \in RiskState, n \in Stage, RestagedOK
    <3>3. Promoted(s) = [s EXCEPT !.stage = n, !.count = 0]
      BY ONLY <2>1, <3>1
    <3> QED
      BY ONLY <3>2, <3>3
  <2>4. Promoted(s).stopped = s.stopped /\ Promoted(s).count = 0
    BY <2>1 DEF RiskState
  <2> QED
    BY <1>1, <2>3, <2>4
<1>2. CASE ~MayPromote(s)
  BY <1>2 DEF Promoted
<1> QED
  BY <1>1, <1>2

\* The end of the cool-off touches nothing else.
LEMMA AgedOK ==
  ASSUME NEW s \in RiskState
  PROVE  /\ Aged(s) \in RiskState
         /\ Aged(s).count = s.count /\ Aged(s).stage = s.stage
         /\ Aged(s).stopped = s.stopped
BY DEF Aged, RiskState

\* Graded decisions are finitely many.
LEMMA EvidenceFinite ==
  ASSUME NEW S, S \subseteq Candidate
  PROVE  /\ IsFiniteSet(S) /\ Cardinality(S) \in Nat
         /\ \A m \in Candidate : m \notin S => Cardinality(S \cup {m}) = Cardinality(S) + 1
<1>1. IsFiniteSet(S)
  BY BudgetConstants, FS_Subset
<1> QED
  BY <1>1, FS_CardinalityType, FS_AddElement

-----------------------------------------------------------------------------
(***************************************************************************)
(* The parts of a step                                                     *)
(***************************************************************************)

\* An empty queue asks nothing.
LEMMA NoQueue ==
  ASSUME queue' = <<>>
  PROVE  queue' \in Seq(Candidate) /\ \A i \in DOMAIN queue' : book'[queue'[i]].kind # "closed"
OBVIOUS

\* A state that may be saved and the return of run_cycle keep the invariant.
LEMMA ReturnKeeps ==
  ASSUME IInv, book' = book, NEW next \in {"idle", "halted"}, Return(next),
         \/ UNCHANGED diskVars
         \/ \E s \in RiskState, e \in SUBSET Candidate :
              /\ Saved(s, e)
              /\ s.count <= Cardinality(e)
              /\ \A m \in e : book[m].kind = "closed"
              /\ stoppedOnce => s.stopped
  PROVE  IInv'
<1> USE DEF IInv
<1>1. /\ pc' = next /\ st' = file' /\ earned' = earnedOnDisk' /\ queue' = <<>>
  BY DEF Return
<1>2. QueueInv'
  BY <1>1, NoQueue DEF QueueInv
<1>3. OrderInv'
  BY <1>1 DEF OrderInv
<1>4. CASE UNCHANGED diskVars
  <2>1. RiskTyped'
    BY <1>1, <1>4 DEF RiskTyped, diskVars
  <2>2. EvidenceInv'
    BY <1>1, <1>4 DEF EvidenceInv, diskVars, Trading
  <2>3. StopInv'
    BY <1>1, <1>4 DEF StopInv, diskVars, Trading
  <2> QED
    BY <1>2, <1>3, <2>1, <2>2, <2>3
<1>5. ASSUME NEW s \in RiskState, NEW e \in SUBSET Candidate, Saved(s, e),
             s.count <= Cardinality(e),
             \A m \in e : book[m].kind = "closed",
             stoppedOnce => s.stopped
      PROVE  IInv'
  <2>1. RiskTyped'
    <3>1. stoppedOnce' \in BOOLEAN
      BY <1>5 DEF Saved, RiskTyped, RiskState
    <3> QED
      BY <1>1, <1>5, <3>1 DEF RiskTyped, Saved
  <2>2. EvidenceInv'
    BY <1>1, <1>5 DEF EvidenceInv, Saved, Trading
  <2>3. StopInv'
    BY <1>1, <1>5 DEF StopInv, Saved, Trading, RiskTyped
  <2> QED
    BY <1>2, <1>3, <2>1, <2>2, <2>3
<1> QED
  BY <1>4, <1>5

-----------------------------------------------------------------------------
(***************************************************************************)
(* Its preservation                                                        *)
(***************************************************************************)

\* A deployment starts without evidence, without a stop and without a queue.
LEMMA InitIInv == Init => IInv
<1> SUFFICES ASSUME Init PROVE IInv
  OBVIOUS
<1>1. PICK b \in Balance, s \in Stage \ {0} :
        \/ disk \in {"absent", "valid"} /\ file = [Fresh(b) EXCEPT !.stage = s]
        \/ disk = "old" /\ file = [Fresh(b) EXCEPT !.stage = s, !.count = MinSettled, !.edge = TRUE]
  BY DEF Init
<1>2. b \in Nat /\ Fresh(b) \in RiskState /\ MinSettled \in Nat
  BY BudgetConstants, FreshOK
<1>3. file \in RiskState /\ (disk = "valid" => file.count = 0)
  <2>1. [Fresh(b) EXCEPT !.stage = s] \in RiskState /\ [Fresh(b) EXCEPT !.stage = s].count = 0
    BY <1>2 DEF RiskState, Fresh
  <2>2. [Fresh(b) EXCEPT !.stage = s, !.count = MinSettled, !.edge = TRUE] \in RiskState
    BY <1>2 DEF RiskState, Fresh
  <2> QED
    BY <1>1, <2>1, <2>2
<1>4. st = file /\ earned = {} /\ earnedOnDisk = {} /\ pc = "halted"
      /\ queue = <<>> /\ ~stoppedOnce /\ stoppedOnce \in BOOLEAN
  BY DEF Init
<1>5. book \in [Candidate -> Entry]
  BY DEF Init, Absent, Entry
<1>6. disk \in {"absent", "old", "valid", "unreadable"}
  BY DEF Init
<1>7. RiskTyped
  BY <1>3, <1>4, <1>5, <1>6 DEF RiskTyped
<1>8. EvidenceInv
  BY <1>3, <1>4, FS_EmptySet DEF EvidenceInv, Trading
<1>9. StopInv /\ QueueInv /\ OrderInv
  BY <1>4 DEF StopInv, QueueInv, OrderInv, Trading
<1> QED
  BY <1>7, <1>8, <1>9 DEF IInv

\* The beginning of a cycle changes the stage only downwards, and spends the
\* evidence when it does.
LEMMA StartCycleKeeps ==
  ASSUME IInv, StartCycle
  PROVE  IInv'
<1>1. PICK b \in Bankroll :
        LET s == DrawdownPolicy(Loaded(b))
            e == IF s.stage = Loaded(b).stage THEN earnedOnDisk ELSE {}
        IN  /\ Saved(s, e)
            /\ \/ s.stopped /\ Return("halted")
               \/ ~s.stopped /\ pc' = "grade" /\ st' = s /\ earned' = e /\ UNCHANGED planVars
  BY DEF StartCycle
<1> DEFINE s == DrawdownPolicy(Loaded(b))
           e == IF s.stage = Loaded(b).stage THEN earnedOnDisk ELSE {}
<1>2. b \in Nat
  BY BudgetConstants DEF Bankroll, IInv, RiskTyped, RiskState
<1>3. Loaded(b) \in RiskState /\ s \in RiskState
  BY <1>2, LoadedOK, DrawdownPolicyOK DEF IInv
<1>4. book' = book /\ pc = "idle" /\ disk \in {"absent", "old", "valid"}
  BY DEF StartCycle, IInv, RiskTyped, Unavailable
<1>5. e \in SUBSET Candidate /\ \A m \in e : book[m].kind = "closed"
  BY DEF IInv, RiskTyped, EvidenceInv
<1>6. s.count <= Cardinality(e)
  <2>1. Cardinality(e) \in Nat /\ Cardinality({}) = 0
    BY <1>5, EvidenceFinite, FS_EmptySet
  <2>2. CASE s.count = 0
    BY <2>1, <2>2
  <2>3. CASE s.count # 0
    <3>1. s.stage = Loaded(b).stage /\ s.count = Loaded(b).count
      BY <2>3, <1>3, DrawdownPolicyOK
    <3>2. disk = "valid" /\ Loaded(b).count = file.count
      BY <2>3, <3>1, <1>2, LoadedOK DEF IInv
    <3> QED
      BY <3>1, <3>2 DEF IInv, EvidenceInv
  <2> QED
    BY <2>2, <2>3
<1>7. stoppedOnce => s.stopped
  <2> SUFFICES ASSUME stoppedOnce PROVE s.stopped
    OBVIOUS
  <2>1. disk = "valid" /\ file.stopped
    BY <1>4 DEF IInv, StopInv
  <2>2. Loaded(b).stopped
    BY <2>1, <1>2, LoadedOK DEF IInv
  <2> QED
    BY <2>2, <1>3, DrawdownPolicyOK
<1> HIDE DEF s, e
<1>8. CASE Saved(s, e) /\ Return("halted")
  BY <1>8, <1>3, <1>4, <1>5, <1>6, <1>7, ReturnKeeps
<1>9. CASE Saved(s, e) /\ ~s.stopped /\ pc' = "grade" /\ st' = s /\ earned' = e /\ UNCHANGED planVars
  <2>1. RiskTyped'
    <3>1. stoppedOnce' \in BOOLEAN
      BY <1>9, <1>7 DEF Saved, IInv, RiskTyped
    <3> QED
      BY <3>1, <1>3, <1>4, <1>5, <1>9 DEF IInv, RiskTyped, Saved
  <2>2. EvidenceInv'
    BY <1>4, <1>5, <1>6, <1>9 DEF EvidenceInv, Saved
  <2>3. StopInv'
    BY <1>7, <1>9 DEF StopInv, Saved
  <2>4. QueueInv'
    BY <1>4, <1>9 DEF IInv, QueueInv, planVars
  <2>5. OrderInv'
    BY <1>9 DEF OrderInv, Saved
  <2> QED
    BY <2>1, <2>2, <2>3, <2>4, <2>5 DEF IInv
<1> QED
  BY <1>1, <1>8, <1>9 DEF s, e

\* A cycle ends with its own state in the file, or with the file as it was.
LEMMA EndKeeps ==
  ASSUME IInv, EndEarly \/ EndCycle \/ Stop
  PROVE  IInv'
<1>1. st \in RiskState /\ earned \in SUBSET Candidate
  BY DEF IInv, RiskTyped
<1>2. /\ pc \in Trading => st.count <= Cardinality(earned)
      /\ \A m \in earned : book[m].kind = "closed"
  BY DEF IInv, EvidenceInv
<1>3. pc \in Trading => ~stoppedOnce
  BY DEF IInv, StopInv
<1>4. CASE EndEarly
  BY <1>4, <1>1, <1>2, <1>3, ReturnKeeps DEF EndEarly, Trading
<1>5. CASE EndCycle
  <2> DEFINE s == [st EXCEPT !.peak = Larger(@, st.bankroll)]
  <2>1. Larger(st.peak, st.bankroll) \in Nat
    BY <1>1 DEF Larger, RiskState
  <2>2. s \in RiskState /\ s.count = st.count
    BY <1>1, <2>1 DEF RiskState
  <2>3. Saved(s, earned) /\ Return("idle") /\ book' = book /\ pc = "decide"
    BY <1>5 DEF EndCycle
  <2> HIDE DEF s
  <2> QED
    BY <1>1, <1>2, <1>3, <2>2, <2>3, ReturnKeeps DEF Trading
<1>6. CASE Stop
  BY <1>6, ReturnKeeps DEF Stop
<1> QED
  BY <1>4, <1>5, <1>6

\* Nothing is lost or gained between two cycles.
LEMMA WaitKeeps ==
  ASSUME IInv, RefuseState \/ Restart
  PROVE  IInv'
<1>1. UNCHANGED <<diskVars, memVars, book, queue, order>>
  BY DEF RefuseState, Restart, planVars
<1>2. pc' \in {"idle", "halted"} /\ pc \in {"idle", "halted"}
  BY DEF RefuseState, Restart
<1> QED
  BY <1>1, <1>2 DEF IInv, RiskTyped, EvidenceInv, StopInv, QueueInv, OrderInv, Trading,
                    diskVars, memVars

\* A file that becomes unreadable forgets no stop.
LEMMA FileBreaksKeeps ==
  ASSUME IInv, FileBreaks
  PROVE  IInv'
BY DEF FileBreaks, IInv, RiskTyped, EvidenceInv, StopInv, QueueInv, OrderInv, Trading,
       memVars, planVars

\* The end of a cool-off moves no stage and no count.
LEMMA CoolOffKeeps ==
  ASSUME IInv, CoolOffEnds
  PROVE  IInv'
<1>1. /\ Aged(st) \in RiskState /\ Aged(st).count = st.count
      /\ Aged(st).stage = st.stage /\ Aged(st).stopped = st.stopped
  BY AgedOK DEF IInv, RiskTyped
<1>2. /\ Aged(file) \in RiskState /\ Aged(file).count = file.count
      /\ Aged(file).stage = file.stage /\ Aged(file).stopped = file.stopped
  BY AgedOK DEF IInv, RiskTyped
<1>3. /\ st' = Aged(st) /\ file' = Aged(file)
      /\ UNCHANGED <<disk, earnedOnDisk, stoppedOnce, earned, pc, book, queue, order>>
  BY DEF CoolOffEnds, planVars
<1>4. RiskTyped'
  BY <1>1, <1>2, <1>3 DEF IInv, RiskTyped
<1>5. EvidenceInv'
  BY <1>1, <1>2, <1>3 DEF IInv, EvidenceInv
<1>6. StopInv'
  BY <1>1, <1>2, <1>3 DEF IInv, StopInv, Trading
<1>7. QueueInv'
  BY <1>3 DEF IInv, QueueInv
<1>8. OrderInv'
  BY <1>1, <1>2, <1>3 DEF IInv, OrderInv
<1> QED
  BY <1>4, <1>5, <1>6, <1>7, <1>8 DEF IInv

\* A poll or a settlement without fills touches neither evidence nor state.
LEMMA PollKeeps ==
  ASSUME IInv, NEW m \in Candidate, PollFill(m) \/ PollCancel(m) \/ ReleaseUnfilled(m)
  PROVE  IInv'
<1>1. PICK v \in Entry : book' = [book EXCEPT ![m] = v]
  BY DEF PollFill, PollCancel, ReleaseUnfilled, Entry, Absent, IInv, RiskTyped
<1>2. /\ UNCHANGED <<diskVars, memVars, pc, queue, order>>
      /\ pc = "grade" /\ book[m].kind = "resting"
  BY DEF PollFill, PollCancel, ReleaseUnfilled, planVars
<1>3. RiskTyped'
  BY <1>1, <1>2 DEF IInv, RiskTyped, diskVars, memVars
<1>4. EvidenceInv'
  BY <1>1, <1>2 DEF IInv, EvidenceInv, RiskTyped, diskVars, memVars
<1>5. StopInv'
  BY <1>2 DEF IInv, StopInv, diskVars, memVars
<1>6. QueueInv'
  BY <1>2, NoQueue DEF IInv, QueueInv
<1>7. OrderInv'
  BY <1>2 DEF IInv, OrderInv, diskVars, memVars
<1> QED
  BY <1>3, <1>4, <1>5, <1>6, <1>7 DEF IInv

\* A graded decision had not been graded before.
LEMMA GradeKeeps ==
  ASSUME IInv, NEW m \in Candidate, Grade(m)
  PROVE  IInv'
<1>1. PICK edge \in BOOLEAN : st' = [st EXCEPT !.count = @ + 1, !.edge = edge]
  BY DEF Grade, IInv, RiskTyped, RiskState
<1>2. /\ book' = [book EXCEPT ![m] = [kind |-> "closed", count |-> 0]]
      /\ earned' = earned \cup {m} /\ earnedOnDisk' = earnedOnDisk \cup {m}
      /\ UNCHANGED <<disk, file, stoppedOnce, pc, queue, order>>
      /\ pc = "grade" /\ book[m].kind = "filled"
  BY DEF Grade, Closed, planVars
<1>3. st \in RiskState /\ file \in RiskState
  BY DEF IInv, RiskTyped
<1>4. /\ st'.count = st.count + 1 /\ st'.stopped = st.stopped
      /\ st.count \in Nat /\ file.count \in Nat
  BY <1>1, <1>3 DEF RiskState
<1>5. st' \in RiskState
  <2>1. st.count + 1 \in Nat
    BY <1>4
  <2> QED
    BY <1>1, <1>3, <2>1, CountedOK
<1>6. m \notin earned /\ m \notin earnedOnDisk
  BY <1>2 DEF IInv, EvidenceInv
<1>7. RiskTyped'
  BY <1>2, <1>5 DEF IInv, RiskTyped, Entry
<1>8. EvidenceInv'
  <2>1. /\ Cardinality(earned') = Cardinality(earned) + 1 /\ Cardinality(earned) \in Nat
        /\ Cardinality(earnedOnDisk') = Cardinality(earnedOnDisk) + 1
        /\ Cardinality(earnedOnDisk) \in Nat
    BY <1>2, <1>6, EvidenceFinite DEF IInv, RiskTyped
  <2>2. /\ st'.count <= Cardinality(earned')
        /\ disk = "valid" => file'.count <= Cardinality(earnedOnDisk')
    BY <1>2, <1>4, <2>1 DEF IInv, EvidenceInv, Trading
  <2>3. \A n \in earned' \cup earnedOnDisk' : book'[n].kind = "closed"
    BY <1>2 DEF IInv, EvidenceInv, RiskTyped
  <2> QED
    BY <1>2, <2>2, <2>3 DEF EvidenceInv
<1>9. StopInv'
  BY <1>2, <1>4 DEF IInv, StopInv
<1>10. QueueInv'
  BY <1>2, NoQueue DEF IInv, QueueInv
<1>11. OrderInv'
  <2>1. st'.stage = st.stage
    BY <1>1, <1>3 DEF RiskState
  <2> QED
    BY <1>2, <2>1 DEF IInv, OrderInv
<1> QED
  BY <1>7, <1>8, <1>9, <1>10, <1>11 DEF IInv

\* A ranking is a sequence of markets.
LEMMA RankingOK == ASSUME NEW r \in Rankings PROVE r \in Seq(Candidate)
<1>1. PICK n \in 0..Cardinality(Candidate) : r \in [1..n -> Candidate]
  BY DEF Rankings
<1>2. Cardinality(Candidate) \in Nat
  BY BudgetConstants, FS_CardinalityType
<1>3. n \in Nat
  BY <1>2
<1> QED
  BY <1>1, <1>3

\* A promotion spends the evidence; only unsettled markets are queued.
LEMMA PlanKeeps ==
  ASSUME IInv, NEW ranked \in Rankings, Plan(ranked)
  PROVE  IInv'
<1>1. /\ st' = Promoted(st) /\ queue' = ranked
      /\ earned' = IF MayPromote(st) THEN {} ELSE earned
      /\ \A i \in DOMAIN ranked : book[ranked[i]].kind # "closed"
      /\ UNCHANGED <<diskVars, book>>
      /\ pc = "grade" /\ pc' = "divide"
  BY DEF Plan
<1>2. st \in RiskState
  BY DEF IInv, RiskTyped
<1>3. /\ st' \in RiskState /\ st'.stopped = st.stopped
      /\ MayPromote(st) => st'.count = 0
      /\ ~MayPromote(st) => st' = st
  BY <1>1, <1>2, PromotedOK
<1>4. RiskTyped'
  BY <1>1, <1>3 DEF IInv, RiskTyped, diskVars
<1>5. EvidenceInv'
  <2>1. Cardinality({}) = 0
    BY FS_EmptySet
  <2> QED
    BY <1>1, <1>3, <2>1 DEF IInv, EvidenceInv, Trading, diskVars
<1>6. StopInv'
  BY <1>1, <1>3 DEF IInv, StopInv, Trading, diskVars
<1>7. QueueInv' /\ OrderInv'
  BY <1>1, RankingOK DEF QueueInv, OrderInv
<1> QED
  BY <1>4, <1>5, <1>6, <1>7 DEF IInv

\* The division of the pot reads the state only.
LEMMA DivideKeeps ==
  ASSUME IInv, Divided \/ \E m \in Candidate : Divide(m)
  PROVE  IInv'
<1>1. /\ UNCHANGED <<diskVars, memVars, book, queue, order>>
      /\ pc = "divide" /\ pc' \in {"divide", "decide"}
  BY DEF Divided, Divide
<1> QED
  BY <1>1 DEF IInv, RiskTyped, EvidenceInv, StopInv, QueueInv, OrderInv, Trading,
              diskVars, memVars

\* The tail of a queue holds what the queue holds.
LEMMA TailOK ==
  ASSUME QueueInv, queue # <<>>
  PROVE  /\ Head(queue) \in Candidate /\ book[Head(queue)].kind # "closed"
         /\ Tail(queue) \in Seq(Candidate)
         /\ \A i \in DOMAIN Tail(queue) : book[Tail(queue)[i]].kind # "closed"
BY DEF QueueInv

\* An order is decided for a market of the queue, and its state is saved.
LEMMA DecideKeeps ==
  ASSUME IInv, Decide
  PROVE  IInv'
<1>1. /\ Saved(st, earned) /\ queue' = Tail(queue) /\ queue # <<>>
      /\ order'.candidate = Head(queue)
      /\ UNCHANGED <<memVars, book>>
      /\ pc = "decide" /\ pc' = "execute"
  BY DEF Decide, SaveBeforeOrder
<1>2. ~stoppedOnce /\ ~st.stopped
  BY <1>1 DEF IInv, StopInv, Trading
<1>3. RiskTyped'
  <2>1. stoppedOnce' \in BOOLEAN
    BY <1>1, <1>2 DEF Saved
  <2> QED
    BY <1>1, <2>1 DEF IInv, RiskTyped, Saved, memVars
<1>4. EvidenceInv'
  BY <1>1 DEF IInv, EvidenceInv, Trading, Saved, memVars
<1>5. StopInv'
  BY <1>1, <1>2 DEF StopInv, Saved, memVars, Trading
<1>6. QueueInv' /\ OrderInv'
  BY <1>1, <1>2, TailOK DEF IInv, QueueInv, OrderInv, Saved, memVars
<1> QED
  BY <1>3, <1>4, <1>5, <1>6 DEF IInv

\* An abstention shortens the queue.
LEMMA AbstainKeeps ==
  ASSUME IInv, Abstain
  PROVE  IInv'
<1>1. /\ queue # <<>> /\ (queue' = Tail(queue) \/ queue' = <<>>)
      /\ UNCHANGED <<diskVars, memVars, pc, book, order>> /\ pc = "decide"
  BY DEF Abstain
<1>2. QueueInv'
  BY <1>1, TailOK, NoQueue DEF IInv, QueueInv
<1> QED
  BY <1>1, <1>2 DEF IInv, RiskTyped, EvidenceInv, StopInv, OrderInv, diskVars, memVars

\* An order opens a market that was not settled.
LEMMA ExecuteKeeps ==
  ASSUME IInv, Accepted \/ Refused
  PROVE  IInv'
<1>1. /\ UNCHANGED <<diskVars, memVars, queue>>
      /\ pc = "execute" /\ pc' = "decide"
  BY DEF Accepted, Refused
<1>2. order.candidate \in Candidate /\ book[order.candidate].kind # "closed"
  BY <1>1 DEF IInv, OrderInv
<1>3. /\ book' \in [Candidate -> Entry]
      /\ \A m \in Candidate : book'[m].kind = "closed" <=> book[m].kind = "closed"
  <2>1. CASE Refused
    BY <2>1 DEF Refused, IInv, RiskTyped
  <2>2. CASE Accepted
    <3>1. PICK n \in 1..order.count :
            book' = [book EXCEPT ![order.candidate] = [kind |-> "resting", count |-> n]]
      BY <2>2 DEF Accepted
    <3>2. [kind |-> "resting", count |-> n] \in Entry
      BY DEF Entry
    <3> QED
      BY <1>2, <3>1, <3>2 DEF IInv, RiskTyped
  <2> QED
    BY <2>1, <2>2
<1>4. RiskTyped'
  BY <1>1, <1>3 DEF IInv, RiskTyped, diskVars, memVars
<1>5. EvidenceInv'
  BY <1>1, <1>3 DEF IInv, EvidenceInv, Trading, RiskTyped, diskVars, memVars
<1>6. StopInv'
  BY <1>1 DEF IInv, StopInv, Trading, diskVars, memVars
<1>7. QueueInv'
  BY <1>1, <1>3 DEF IInv, QueueInv
<1>8. OrderInv'
  BY <1>1 DEF OrderInv
<1> QED
  BY <1>4, <1>5, <1>6, <1>7, <1>8 DEF IInv

\* The invariant is inductive.
LEMMA NextIInv == IInv /\ [Next]_vars => IInv'
<1>1. ASSUME IInv, UNCHANGED vars PROVE IInv'
  BY <1>1 DEF vars, IInv, RiskTyped, EvidenceInv, StopInv, QueueInv, OrderInv,
              diskVars, memVars, planVars
<1>2. ASSUME IInv, Cycle PROVE IInv'
  BY <1>2, WaitKeeps, StartCycleKeeps, EndKeeps, PollKeeps, GradeKeeps, DivideKeeps, PlanKeeps,
     DecideKeeps, AbstainKeeps, ExecuteKeeps DEF Cycle
<1> QED
  BY <1>1, <1>2, EndKeeps, WaitKeeps, FileBreaksKeeps, CoolOffKeeps DEF Next

\* Every reachable state has it.
LEMMA Invariance == Spec => []IInv
BY InitIInv, NextIInv, PTL DEF Spec

-----------------------------------------------------------------------------
(***************************************************************************)
(* The theorems                                                            *)
(***************************************************************************)

\* A promotion rests on MinSettled decisions, each graded once, since the last
\* change of stage, however often the process died in between.
THEOREM PromotionEarned == Spec => PromotionIsEarned
<1>1. IInv /\ [Next]_vars =>
        [pc = "grade" /\ st'.stage > st.stage => Cardinality(earned) >= MinSettled]_vars
  <2> SUFFICES ASSUME IInv, Next, pc = "grade", st'.stage > st.stage
               PROVE  Cardinality(earned) >= MinSettled
    OBVIOUS
  <2>1. st \in RiskState /\ st.stage \in Nat /\ st.count \in Nat
    BY DEF IInv, RiskTyped, RiskState, Stage
  <2>2. ASSUME NEW ranked \in Rankings, Plan(ranked) PROVE Cardinality(earned) >= MinSettled
    <3>1. MayPromote(st)
      BY <2>1, <2>2, PromotedOK DEF Plan
    <3>2. Cardinality(earned) \in Nat
      BY EvidenceFinite DEF IInv, RiskTyped
    <3> QED
      BY <2>1, <3>1, <3>2, BudgetConstants DEF MayPromote, IInv, EvidenceInv, Trading
  <2>3. ASSUME NEW m \in Candidate, Grade(m) PROVE FALSE
    BY <2>1, <2>3 DEF Grade, RiskState
  <2>4. CASE CoolOffEnds
    BY <2>1, <2>4, AgedOK DEF CoolOffEnds
  <2>5. CASE EndEarly \/ Stop
    <3>1. st' = file' /\ (file' = st \/ file' = file)
      BY <2>5 DEF EndEarly, Stop, Return, Saved, diskVars
    <3> QED
      BY <3>1, <2>1 DEF IInv, OrderInv
  <2>6. CASE UNCHANGED st
    BY <2>1, <2>6
  <2> QED
    BY <2>2, <2>3, <2>4, <2>5, <2>6
       DEF Next, Cycle, RefuseState, StartCycle, PollFill, PollCancel, ReleaseUnfilled, Divide,
           Divided, Decide, Abstain, Accepted, Refused, EndCycle, Restart, FileBreaks, memVars
<1> QED
  BY <1>1, Invariance, PTL DEF Spec, PromotionIsEarned

\* Only an execution that a decision preceded opens a market.
LEMMA PlacingIsAccepted ==
  ASSUME IInv, [Next]_vars, Placing
  PROVE  pc = "execute"
<1>1. PICK m \in Candidate : m \notin Open /\ m \in Open'
  BY DEF Placing
<1>2. book[m].kind \notin {"resting", "filled"} /\ book'[m].kind \in {"resting", "filled"}
  BY <1>1 DEF Open
<1>3. book \in [Candidate -> Entry]
  BY DEF IInv, RiskTyped
<1>4. ASSUME NEW p \in Candidate,
             PollFill(p) \/ PollCancel(p) \/ ReleaseUnfilled(p) \/ Grade(p)
      PROVE  FALSE
  BY <1>2, <1>3, <1>4 DEF PollFill, PollCancel, ReleaseUnfilled, Grade, Absent, Closed
<1>5. book' # book
  BY <1>2
<1> QED
  BY <1>4, <1>5
     DEF Next, vars, Cycle, RefuseState, StartCycle, EndEarly, Plan, Divide, Divided, Decide,
         Abstain, Accepted, Refused, EndCycle, Stop, Restart, FileBreaks, CoolOffEnds

\* Once a hard stop is in the file no order is placed, through crashes and even
\* when the file can no longer be read.
THEOREM StopForever == Spec => StopIsForever
<1>1. IInv /\ [Next]_vars => [stoppedOnce => ~Placing]_vars
  BY PlacingIsAccepted DEF IInv, StopInv, Trading
<1> QED
  BY <1>1, Invariance, PTL DEF Spec, StopIsForever

\* The stage an order was sized by is the stage a restarted process would load.
THEOREM SavedStage == Spec => OrdersAtSavedStage
<1>1. IInv /\ [Next]_vars => [Placing => file.stage = st.stage /\ ~file.stopped]_vars
  BY PlacingIsAccepted DEF IInv, OrderInv
<1> QED
  BY <1>1, Invariance, PTL DEF Spec, OrdersAtSavedStage

-----------------------------------------------------------------------------
(***************************************************************************)
(* The budget: its inductive invariant                                     *)
(***************************************************************************)

\* The division and the plan hold amounts of markets.
PlanTyped ==
  /\ exposure \in Nat /\ markets \in Nat
  /\ pool \subseteq Candidate /\ todo \subseteq Candidate
  /\ policy \in {"kelly_prorata", "proportional", "top_k"}
  /\ pot \in Nat /\ spent \in Nat /\ grant \in [Candidate -> Nat]
  /\ queue \in Seq(Candidate)
  /\ placed \subseteq Candidate /\ order \in Order

Planning == {"divide", "decide", "execute"}

\* What is granted is what was spent of the pot, and no turn comes twice.
GrantInv ==
  /\ SumFunctionOnSet(grant, Candidate) <= pot
  /\ pc = "divide" => /\ spent = SumFunctionOnSet(grant, Candidate)
                      /\ \A m \in todo : grant[m] = 0
  /\ pc \in Planning => \A m \in Candidate : grant[m] <= Ask

\* The cycle's own counters are those of the ledger.
CountInv ==
  pc \in Planning => exposure = ReservedIn(Open) /\ markets = Cardinality(Open)

\* With an order of count contracts for market m the ledger stays in the
\* stage's limits.
Fits(m, count) ==
  LET limits == StageLimits[st.stage]
      cents  == count * PriceOf[m]
  IN  /\ m \notin Open
      /\ ReservedIn(Open) + cents <= Budget(st, limits.total)
      /\ ReservedIn(Open \cap Peers(m)) + cents <= Budget(st, limits.group)
      /\ cents <= limits.order /\ cents <= Budget(st, limits.market)
      /\ Cardinality(Open) + 1 <= limits.markets
      /\ Cardinality(Open \cap Peers(m)) + 1 <= limits.perGroup

\* What was decided still fits when it is executed.
FitInv == pc = "execute" => Fits(order.candidate, order.count)

BudgetInv == PlanTyped /\ GrantInv /\ CountInv /\ FitInv

-----------------------------------------------------------------------------
(***************************************************************************)
(* Amounts                                                                 *)
(***************************************************************************)

\* Division rounds down.
LEMMA QuotientOK ==
  ASSUME NEW x \in Nat, NEW y \in Nat, y > 0
  PROVE  x \div y \in Nat /\ (x \div y) * y <= x
<1>1. (x \div y) \in Int /\ x = y * (x \div y) + (x % y) /\ 0 <= x % y /\ x % y < y
  OBVIOUS
<1> DEFINE q == x \div y
<1>2. q \in Int /\ y * q <= x /\ y * q > x - y
  BY <1>1
<1> HIDE DEF q
<1>3. q >= 0
  <2>1. ASSUME q < 0 PROVE FALSE
    <3>1. y * q <= y * (0 - 1)
      BY <1>2, <2>1
    <3> QED
      BY <1>2, <3>1
  <2> QED
    BY <1>2, <2>1
<1>4. q * y = y * q
  BY <1>2
<1> QED
  BY <1>2, <1>3, <1>4 DEF q

\* A product of naturals is one.
LEMMA ProductNat ==
  ASSUME NEW x \in Nat, NEW y \in Nat
  PROVE  x * y \in Nat
OBVIOUS

\* The limits of a stage are naturals.
LEMMA LimitsNat ==
  ASSUME NEW s \in RiskState
  PROVE  StageLimits[s.stage] \in [total : Nat, market : Nat, group : Nat, order : Nat,
                                   markets : Nat, perGroup : Nat]
BY BudgetConstants DEF RiskState

\* A budget is a number of cents.
LEMMA BudgetNat ==
  ASSUME NEW s \in RiskState, NEW t \in Nat
  PROVE  Budget(s, t) \in Nat
<1>1. s.bankroll \in Nat /\ Multiplier(s) \in Nat
  BY DEF RiskState, Multiplier
<1>2. s.bankroll * t * Multiplier(s) \in Nat
  BY <1>1, ProductNat
<1> QED
  BY <1>2, QuotientOK DEF Budget

\* A pot is a number of cents.
LEMMA PotNat ==
  ASSUME NEW s \in RiskState, NEW reserved \in Nat
  PROVE  Pot(s, reserved) \in Nat
<1> DEFINE total == StageLimits[s.stage].total
           cents == (s.bankroll * total) \div 1000
           left  == Left(cents, reserved)
<1>1. s.bankroll \in Nat /\ total \in Nat /\ Throttle \in Nat
  BY LimitsNat, BudgetConstants DEF RiskState
<1>2. cents \in Nat
  BY <1>1, ProductNat, QuotientOK
<1> HIDE DEF cents
<1>3. left \in Nat
  BY <1>2 DEF Left
<1> HIDE DEF left
<1>4. left * Throttle \in Nat
  BY <1>1, <1>3, ProductNat
<1>5. (left * Throttle) \div 1000 \in Nat
  BY <1>4, QuotientOK
<1> QED
  BY <1>5 DEF Pot, left, cents

\* The smallest of six amounts is one of them.
LEMMA MinOK ==
  ASSUME NEW a \in Nat, NEW b \in Nat, NEW c \in Nat, NEW d \in Nat, NEW e \in Nat, NEW f \in Nat
  PROVE  LET m == Min({a, b, c, d, e, f})
         IN  m \in Nat /\ m <= a /\ m <= b /\ m <= c /\ m <= d /\ m <= e /\ m <= f
<1> DEFINE S == {a, b, c, d, e, f}
<1>1. \E x \in S : \A y \in S : x <= y
  <2> DEFINE least == Smaller(a, Smaller(b, Smaller(c, Smaller(d, Smaller(e, f)))))
  <2>1. least \in S /\ \A y \in S : least <= y
    BY DEF Smaller
  <2> QED
    BY <2>1
<1>2. Min(S) \in S /\ \A y \in S : Min(S) <= y
  <2> HIDE DEF S
  <2> QED
    BY <1>1 DEF Min
<1> QED
  BY <1>2

-----------------------------------------------------------------------------
(***************************************************************************)
(* Sums over the ledger                                                    *)
(***************************************************************************)

\* Sums over open markets are numbers of cents, and there are finitely many.
LEMMA ReservedNat ==
  ASSUME RiskTyped, NEW S, S \subseteq Candidate
  PROVE  ReservedIn(S) \in Nat /\ IsFiniteSet(S) /\ Cardinality(S) \in Nat
<1> DEFINE cents == [m \in Candidate |-> Reserved(m)]
<1>1. IsFiniteSet(S) /\ Cardinality(S) \in Nat
  BY EvidenceFinite
<1>2. \A m \in S : cents[m] \in Nat
  BY BudgetConstants, ProductNat DEF RiskTyped, Entry, Reserved
<1> HIDE DEF cents
<1>3. SumFunctionOnSet(cents, S) \in Nat
  BY <1>1, <1>2, SumNat
<1> QED
  BY <1>1, <1>3 DEF ReservedIn, cents

\* Open markets are markets.
LEMMA OpenOK == Open \subseteq Candidate /\ \A m : Open \cap Peers(m) \subseteq Candidate
BY DEF Open

\* An accepted order adds its cents and its market, in all and in every part.
LEMMA OrderAdds ==
  ASSUME RiskTyped, NEW m \in Candidate, m \notin Open, NEW n \in Nat \ {0},
         book' = [book EXCEPT ![m] = [kind |-> "resting", count |-> n]],
         NEW P \in SUBSET Candidate, m \in P
  PROVE  /\ Open' = Open \cup {m}
         /\ Reserved(m)' = n * PriceOf[m]
         /\ ReservedIn(Open \cap P)' = ReservedIn(Open \cap P) + n * PriceOf[m]
         /\ Cardinality(Open \cap P)' = Cardinality(Open \cap P) + 1
<1> DEFINE f == [p \in Candidate |-> Reserved(p)]
           g == [p \in Candidate |-> Reserved(p)']
           S == Open \cap P
<1>1. book \in [Candidate -> Entry] /\ book'[m] = [kind |-> "resting", count |-> n]
      /\ \A p \in Candidate : p # m => book'[p] = book[p]
  BY DEF RiskTyped
<1>2. Open' = Open \cup {m}
  BY <1>1 DEF Open
<1>3. (Open \cap P)' = S \cup {m} /\ m \notin S /\ S \subseteq Candidate
  BY <1>2, OpenOK
<1>4. IsFiniteSet(S) /\ Cardinality(S \cup {m}) = Cardinality(S) + 1
  BY <1>3, EvidenceFinite
<1>5. /\ \A p \in S : f[p] \in Int /\ g[p] = f[p]
      /\ g[m] = n * PriceOf[m] /\ g[m] \in Int
  <2>1. \A p \in Candidate : PriceOf[p] \in Nat /\ book[p].count \in Nat
    BY <1>1, BudgetConstants DEF Entry
  <2>2. \A p \in S : Reserved(p) \in Int /\ Reserved(p)' = Reserved(p)
    BY <1>1, <1>3, <2>1, ProductNat DEF Reserved
  <2>3. Reserved(m)' = n * PriceOf[m]
    BY <1>1 DEF Reserved
  <2> QED
    BY <1>3, <2>1, <2>2, <2>3, ProductNat
<1>6. ReservedIn(S) = SumFunctionOnSet(f, S)
  BY DEF ReservedIn
<1>7. ReservedIn(Open \cap P)' = SumFunctionOnSet(g, (Open \cap P)')
  BY DEF ReservedIn
<1>8. Reserved(m)' = n * PriceOf[m]
  BY <1>5
<1> HIDE DEF f, g
<1>9. SumFunctionOnSet(g, S \cup {m}) = SumFunctionOnSet(g, S) + g[m]
  BY <1>3, <1>4, <1>5, SumAdds
<1>10. SumFunctionOnSet(f, S) = SumFunctionOnSet(g, S)
  BY <1>4, <1>5, SumSame
<1>11. SumFunctionOnSet(g, (Open \cap P)') = SumFunctionOnSet(g, S \cup {m})
  BY <1>3, Zenon
<1>12. Cardinality(Open \cap P)' = Cardinality(S \cup {m})
  BY <1>3, Zenon
<1> QED
  BY <1>2, <1>4, <1>5, <1>6, <1>7, <1>8, <1>9, <1>10, <1>11, <1>12

-----------------------------------------------------------------------------
(***************************************************************************)
(* The division of the pot                                                 *)
(***************************************************************************)

\* The ask of a stage is a number of cents.
LEMMA AskNat == ASSUME RiskTyped PROVE Ask \in Nat
BY LimitsNat DEF RiskTyped, Ask

\* A share is a number of cents under every policy.
LEMMA ShareNat ==
  ASSUME RiskTyped, PlanTyped, NEW m \in Candidate
  PROVE  Share(m) \in Nat
<1>1. Weight(pool) \in Nat
  <2>1. IsFiniteSet(pool) /\ \A p \in pool : WeightOf[p] \in Nat
    BY EvidenceFinite, BudgetConstants DEF PlanTyped
  <2> QED
    BY <2>1, SumNat DEF Weight
<1>2. WeightedShare(m) \in Nat
  <2> DEFINE w == Weight(pool)
  <2>1. pot * WeightOf[m] \in Nat
    BY BudgetConstants, ProductNat DEF PlanTyped
  <2>2. w # 0 => (pot * WeightOf[m]) \div w \in Nat
    <3>1. w \in Nat
      BY <1>1
    <3> HIDE DEF w
    <3> QED
      BY <2>1, <3>1, QuotientOK
  <2> QED
    BY <2>2 DEF WeightedShare
<1>3. Ask \in Nat
  BY AskNat
<1>4. CASE policy = "kelly_prorata"
  BY <1>2, <1>3, <1>4 DEF Share
<1>5. CASE policy = "proportional"
  BY <1>2, <1>5 DEF Share
<1>6. CASE policy = "top_k"
  BY <1>3, <1>6 DEF Share
<1> QED
  BY <1>4, <1>5, <1>6 DEF PlanTyped

\* A grant is held to the ask and to what is left of the pot.
LEMMA GrantedOK ==
  ASSUME RiskTyped, PlanTyped, NEW m \in Candidate
  PROVE  Granted(m) \in Nat /\ Granted(m) <= Ask /\ Granted(m) <= Left(pot, spent)
<1>1. Share(m) \in Nat /\ Ask \in Nat /\ Left(pot, spent) \in Nat
  BY ShareNat, AskNat DEF PlanTyped, Left
<1> QED
  BY <1>1 DEF Granted, Smaller

\* Where a cycle is not planning, only the grants are to be looked at.
LEMMA IdleBudget ==
  ASSUME PlanTyped', pc' \notin Planning, SumFunctionOnSet(grant', Candidate) <= pot'
  PROVE  BudgetInv'
BY DEF BudgetInv, GrantInv, CountInv, FitInv, Planning

\* The grants of a new division are empty.
LEMMA NoGrants ==
  SumFunctionOnSet([m \in Candidate |-> 0], Candidate) = 0
BY BudgetConstants, SumZero

\* The return of run_cycle keeps the invariant.
LEMMA ReturnBudget ==
  ASSUME NEW next \in {"idle", "halted"}, Return(next)
  PROVE  BudgetInv'
<1>1. PlanTyped'
  BY DEF Return, NoDivision, PlanTyped, NoOrder, Order
<1>2. SumFunctionOnSet(grant', Candidate) <= pot'
  BY NoGrants DEF Return
<1>3. pc' \notin Planning
  BY DEF Return, Planning
<1> QED
  BY <1>1, <1>2, <1>3, IdleBudget

\* A deployment starts with nothing granted.
LEMMA InitBudget == Init => BudgetInv
<1> SUFFICES ASSUME Init PROVE BudgetInv
  OBVIOUS
<1>1. PlanTyped
  BY DEF Init, PlanTyped, NoOrder, Order
<1>2. SumFunctionOnSet(grant, Candidate) <= pot
  BY NoGrants DEF Init
<1> QED
  BY <1>1, <1>2 DEF Init, BudgetInv, GrantInv, CountInv, FitInv, Planning

\* Outside the planning a step that leaves the plan alone keeps the invariant.
LEMMA UnplannedBudget ==
  ASSUME BudgetInv, UNCHANGED planVars, pc' \notin Planning
  PROVE  BudgetInv'
<1>1. PlanTyped' /\ SumFunctionOnSet(grant', Candidate) <= pot'
  BY DEF BudgetInv, PlanTyped, GrantInv, planVars, potVars
<1> QED
  BY <1>1, IdleBudget

\* The beginning of a cycle, the polls and the settlements leave the plan alone.
LEMMA EarlyBudget ==
  ASSUME BudgetInv,
         \/ RefuseState \/ StartCycle \/ EndEarly \/ EndCycle \/ Stop \/ Restart
         \/ \E m \in Candidate : PollFill(m) \/ PollCancel(m) \/ ReleaseUnfilled(m) \/ Grade(m)
  PROVE  BudgetInv'
<1>1. CASE \E next \in {"idle", "halted"} : Return(next)
  BY <1>1, ReturnBudget
<1>2. CASE UNCHANGED planVars /\ pc' \notin Planning
  BY <1>2, UnplannedBudget
<1> QED
  BY <1>1, <1>2 DEF RefuseState, StartCycle, EndEarly, EndCycle, Stop, Restart, PollFill,
     PollCancel, ReleaseUnfilled, Grade, Planning

\* A plan starts with the ledger's counters and nothing granted.
LEMMA PlanBudget ==
  ASSUME IInv, NEW ranked \in Rankings, Plan(ranked)
  PROVE  BudgetInv'
<1>1. /\ exposure' = ReservedIn(Open) /\ markets' = Cardinality(Open)
      /\ pot' = Pot(st', exposure') /\ spent' = 0
      /\ grant' = [m \in Candidate |-> 0]
      /\ pc' = "divide" /\ book' = book /\ st' = Promoted(st)
      /\ queue' = ranked /\ placed' = {} /\ order' = NoOrder
      /\ policy' \in {"kelly_prorata", "proportional", "top_k"}
      /\ todo' = pool'
  BY DEF Plan
<1>2. RiskTyped /\ RiskTyped'
  BY PlanKeeps DEF IInv
<1>3. st' \in RiskState
  BY <1>2 DEF RiskTyped
<1>4. exposure' \in Nat /\ markets' \in Nat
  BY <1>1, <1>2, ReservedNat, OpenOK
<1>5. pot' \in Nat
  BY <1>1, <1>3, <1>4, PotNat
<1>6. ranked \in Seq(Candidate)
  BY RankingOK
<1>7. pool' \subseteq Candidate /\ todo' \subseteq Candidate
  <2> DEFINE slots == Left(StageLimits[st'.stage].markets, markets')
  <2>1. pool' = {ranked[i] : i \in 1..Smaller(slots, Len(ranked))}
    BY DEF Plan
  <2>2. slots \in Nat
    BY <1>3, <1>4, LimitsNat DEF Left
  <2> HIDE DEF slots
  <2>3. \A i \in 1..Smaller(slots, Len(ranked)) : ranked[i] \in Candidate
    BY <1>6, <2>2 DEF Smaller
  <2> QED
    BY <1>1, <2>1, <2>3
<1>8. PlanTyped'
  BY <1>1, <1>4, <1>5, <1>6, <1>7 DEF PlanTyped, NoOrder, Order
<1>9. GrantInv'
  <2>1. SumFunctionOnSet(grant', Candidate) = 0
    BY <1>1, NoGrants
  <2>2. \A m \in Candidate : grant'[m] = 0
    BY <1>1
  <2>3. Ask' \in Nat
    BY <1>3, LimitsNat DEF Ask
  <2> QED
    BY <1>1, <1>5, <1>7, <2>1, <2>2, <2>3 DEF GrantInv
<1>10. CountInv'
  <2>1. Open' = Open
    BY <1>1 DEF Open
  <2>2. ReservedIn(Open)' = ReservedIn(Open)
    BY <1>1 DEF Open, ReservedIn, Reserved
  <2> QED
    BY <1>1, <2>1, <2>2, Zenon DEF CountInv
<1>11. FitInv'
  BY <1>1 DEF FitInv
<1> QED
  BY <1>8, <1>9, <1>10, <1>11 DEF BudgetInv

\* A grant is spent from the pot.
LEMMA DivideBudget ==
  ASSUME RiskTyped, BudgetInv, NEW m \in Candidate, Divide(m)
  PROVE  BudgetInv'
<1>1. /\ pc = "divide" /\ pc' = "divide" /\ m \in todo
      /\ grant' = [grant EXCEPT ![m] = Granted(m)]
      /\ spent' = spent + Granted(m) /\ todo' = todo \ {m}
      /\ UNCHANGED <<memVars, book, exposure, markets, pool, policy, pot, queue, placed, order>>
  BY DEF Divide
<1> DEFINE g == Granted(m)
<1>2. PlanTyped /\ g \in Nat /\ g <= Ask /\ g <= Left(pot, spent)
  BY GrantedOK DEF BudgetInv
<1> HIDE DEF g
<1>3. PlanTyped'
  BY <1>1, <1>2 DEF PlanTyped, g
<1>4. SumFunctionOnSet(grant', Candidate) = spent + g
  <2>1. \A p \in Candidate : grant[p] \in Int /\ grant'[p] \in Int
    BY <1>2, <1>3 DEF PlanTyped
  <2>2. \A p \in Candidate : p # m => grant'[p] = grant[p]
    BY <1>1, <1>2 DEF PlanTyped
  <2>3. grant[m] = 0 /\ grant'[m] = g
    BY <1>1, <1>2 DEF PlanTyped, BudgetInv, GrantInv, g
  <2>4. IsFiniteSet(Candidate) /\ SumFunctionOnSet(grant, Candidate) = spent /\ spent \in Nat
    BY <1>1, <1>2, BudgetConstants DEF BudgetInv, GrantInv, PlanTyped
  <2>5. SumFunctionOnSet(grant', Candidate)
          = SumFunctionOnSet(grant, Candidate) - grant[m] + grant'[m]
    BY <2>1, <2>2, <2>4, SumChanges
  <2> QED
    BY <1>2, <2>3, <2>4, <2>5
<1>5. spent <= pot
  BY <1>1 DEF BudgetInv, GrantInv
<1>6. GrantInv'
  <2>1. Ask' = Ask
    BY <1>1 DEF Ask, memVars
  <2>2. spent + g <= pot
    BY <1>2, <1>5 DEF Left, PlanTyped
  <2>3. \A p \in todo' : grant'[p] = 0
    BY <1>1, <1>2 DEF BudgetInv, GrantInv, PlanTyped
  <2>4. \A p \in Candidate : grant'[p] <= Ask
    BY <1>1, <1>2 DEF BudgetInv, GrantInv, PlanTyped, Planning, g
  <2> QED
    BY <1>1, <1>4, <2>1, <2>2, <2>3, <2>4 DEF GrantInv, g
<1>7. CountInv'
  BY <1>1 DEF BudgetInv, CountInv, Planning, ReservedIn, Reserved, Open
<1>8. FitInv'
  BY <1>1 DEF FitInv
<1> QED
  BY <1>3, <1>6, <1>7, <1>8 DEF BudgetInv

\* The division ends with its grants.
LEMMA DividedBudget ==
  ASSUME BudgetInv, Divided
  PROVE  BudgetInv'
<1>1. /\ pc = "divide" /\ pc' = "decide" /\ NoDivision
      /\ UNCHANGED <<memVars, book, exposure, markets, pot, grant, queue, placed, order>>
  BY DEF Divided
<1>2. PlanTyped'
  BY <1>1 DEF BudgetInv, PlanTyped, NoDivision
<1>3. GrantInv'
  BY <1>1 DEF BudgetInv, GrantInv, Planning, Ask, memVars
<1>4. CountInv'
  BY <1>1 DEF BudgetInv, CountInv, Planning, ReservedIn, Reserved, Open
<1>5. FitInv'
  BY <1>1 DEF FitInv
<1> QED
  BY <1>2, <1>3, <1>4, <1>5 DEF BudgetInv

-----------------------------------------------------------------------------
(***************************************************************************)
(* The decisions                                                           *)
(***************************************************************************)

\* An order within a limit that is left over a part of the budget fits.
LEMMA LeftHolds ==
  ASSUME NEW a \in Nat, NEW b \in Nat, NEW x \in Nat, x > 0, x <= Left(a, b)
  PROVE  b + x <= a
BY DEF Left

\* The amount of a decision respects every limit of order_budget.
LEMMA NotionalOK ==
  ASSUME RiskTyped, PlanTyped, NEW m \in Candidate, NEW kelly \in KellyBudget
  PROVE  LET limits == StageLimits[st.stage]
             amount == Notional(m, kelly)
         IN  /\ amount \in Nat /\ amount <= limits.order
             /\ amount <= Left(Budget(st, limits.total), exposure)
             /\ amount <= Budget(st, limits.market)
             /\ amount <= Left(Budget(st, limits.group), GroupCents(m))
<1> DEFINE limits == StageLimits[st.stage]
<1>1. limits \in [total : Nat, market : Nat, group : Nat, order : Nat, markets : Nat,
                  perGroup : Nat]
  BY LimitsNat DEF RiskTyped
<1>2. /\ Budget(st, limits.total) \in Nat /\ Budget(st, limits.market) \in Nat
      /\ Budget(st, limits.group) \in Nat
  BY <1>1, BudgetNat DEF RiskTyped
<1>3. GroupCents(m) \in Nat
  <2>1. ReservedIn(Open \cap Peers(m)) \in Nat /\ ReservedIn(placed \cap Peers(m)) \in Nat
    BY ReservedNat, OpenOK DEF PlanTyped
  <2> QED
    BY <2>1 DEF GroupCents
<1>4. /\ kelly \in Nat /\ grant[m] \in Nat /\ limits.order \in Nat
      /\ Left(Budget(st, limits.total), exposure) \in Nat
      /\ Left(Budget(st, limits.group), GroupCents(m)) \in Nat
  <2>1. \A a, b \in Nat : Left(a, b) \in Nat
    BY DEF Left
  <2>2. kelly \in Nat /\ grant[m] \in Nat /\ exposure \in Nat
    BY BudgetConstants DEF PlanTyped
  <2> QED
    BY <1>1, <1>2, <1>3, <2>1, <2>2
<1> QED
  BY <1>2, <1>4, MinOK DEF Notional

\* What is decided fits the stage.
LEMMA DecisionFits ==
  ASSUME RiskTyped, PlanTyped, NEW m \in Candidate, m \notin Open, NEW kelly \in KellyBudget,
         exposure = ReservedIn(Open), markets = Cardinality(Open),
         ~SlotsFull, GroupCount(m) < StageLimits[st.stage].perGroup,
         Notional(m, kelly) >= PriceOf[m]
  PROVE  /\ Notional(m, kelly) \div PriceOf[m] \in Nat
         /\ Fits(m, Notional(m, kelly) \div PriceOf[m])
<1> DEFINE limits == StageLimits[st.stage]
           amount == Notional(m, kelly)
           count  == amount \div PriceOf[m]
           cents  == count * PriceOf[m]
<1>1. limits \in [total : Nat, market : Nat, group : Nat, order : Nat, markets : Nat,
                  perGroup : Nat]
  BY LimitsNat DEF RiskTyped
<1>2. /\ Budget(st, limits.total) \in Nat /\ Budget(st, limits.market) \in Nat
      /\ Budget(st, limits.group) \in Nat
  BY <1>1, BudgetNat DEF RiskTyped
<1>3. /\ amount \in Nat /\ amount <= limits.order
      /\ amount <= Left(Budget(st, limits.total), exposure)
      /\ amount <= Budget(st, limits.market)
      /\ amount <= Left(Budget(st, limits.group), GroupCents(m))
  BY NotionalOK
<1>4. PriceOf[m] \in Nat /\ PriceOf[m] > 0
  BY BudgetConstants
<1> DEFINE own == ReservedIn(Open \cap Peers(m))
           new == ReservedIn(placed \cap Peers(m))
<1>5. ReservedIn(Open) \in Nat /\ own \in Nat /\ new \in Nat /\ GroupCents(m) = own + new
  BY ReservedNat, OpenOK DEF PlanTyped, GroupCents
<1>6. amount >= PriceOf[m]
  OBVIOUS
<1>7. /\ Cardinality(Open) \in Nat /\ Cardinality(Open \cap Peers(m)) \in Nat
      /\ Cardinality(placed \cap Peers(m)) \in Nat
  BY ReservedNat, OpenOK DEF PlanTyped
<1>8. /\ Cardinality(Open) + 1 <= limits.markets
      /\ Cardinality(Open \cap Peers(m)) + 1 <= limits.perGroup
  BY <1>1, <1>7 DEF SlotsFull, GroupCount
<1> HIDE DEF limits, amount, own, new
<1>9. count \in Nat /\ cents \in Nat /\ cents <= amount
  BY <1>3, <1>4, QuotientOK, ProductNat
<1>10. ReservedIn(Open) + amount <= Budget(st, limits.total)
  BY <1>2, <1>3, <1>4, <1>5, <1>6, LeftHolds
<1>11. own + amount <= Budget(st, limits.group)
  <2>1. GroupCents(m) + amount <= Budget(st, limits.group)
    BY <1>2, <1>3, <1>4, <1>5, <1>6, LeftHolds
  <2> QED
    BY <1>2, <1>3, <1>5, <2>1
<1> HIDE DEF cents
<1>12. /\ ReservedIn(Open) + cents <= Budget(st, limits.total)
       /\ own + cents <= Budget(st, limits.group)
       /\ cents <= limits.order /\ cents <= Budget(st, limits.market)
  BY <1>1, <1>2, <1>3, <1>5, <1>9, <1>10, <1>11
<1> HIDE DEF count
<1>13. Fits(m, count)
  BY <1>8, <1>12 DEF Fits, cents, limits, own
<1> QED
  BY <1>9, <1>13 DEF count, amount

\* A step that leaves ledger, limits and grants alone leaves the budget in
\* order, once what it decides fits.
LEMMA PlanningBudget ==
  ASSUME BudgetInv, pc \in {"decide", "execute"}, pc' \in {"decide", "execute"},
         PlanTyped', UNCHANGED <<book, exposure, markets, pot, grant>>,
         st'.stage = st.stage, FitInv'
  PROVE  BudgetInv'
<1>1. GrantInv'
  BY DEF BudgetInv, GrantInv, Planning, Ask
<1>2. CountInv'
  BY DEF BudgetInv, CountInv, Planning, ReservedIn, Reserved, Open
<1> QED
  BY <1>1, <1>2 DEF BudgetInv

\* What fits the budgets of a state fits those of the same state later on.
LEMMA StillFits ==
  ASSUME NEW m \in Candidate, NEW count \in Nat, Fits(m, count), book' = book,
         st'.stage = st.stage, st'.bankroll = st.bankroll, st'.peak = st.peak
  PROVE  Fits(m, count)'
<1>1. \A n : DownBy(st', n) = DownBy(st, n)
  BY DEF DownBy
<1>2. Multiplier(st') = Multiplier(st)
  BY <1>1 DEF Multiplier
<1>3. \A x : Budget(st', x) = Budget(st, x)
  BY <1>2 DEF Budget
<1>4. Open' = Open
  BY DEF Open
<1> QED
  BY <1>3, <1>4 DEF Fits, ReservedIn, Reserved

\* A decision fits the stage it was taken at.
LEMMA DecideBudget ==
  ASSUME IInv, BudgetInv, Decide
  PROVE  BudgetInv'
<1>1. /\ pc = "decide" /\ pc' = "execute" /\ queue # <<>> /\ queue' = Tail(queue)
      /\ UNCHANGED <<memVars, book, exposure, markets, potVars, placed>>
  BY DEF Decide
<1>2. RiskTyped /\ PlanTyped /\ Head(queue) \in Candidate
  BY <1>1, TailOK DEF IInv, BudgetInv
<1>3. PICK m \in Candidate : m = Head(queue)
  BY <1>2
<1>4. PICK kelly \in KellyBudget :
        /\ m \notin Open /\ ~SlotsFull /\ GroupCount(m) < StageLimits[st.stage].perGroup
        /\ Notional(m, kelly) >= PriceOf[m]
        /\ order' = [candidate |-> m, count |-> Notional(m, kelly) \div PriceOf[m]]
  BY <1>3 DEF Decide
<1>5. PICK count \in Nat : count = Notional(m, kelly) \div PriceOf[m] /\ Fits(m, count)
  BY <1>1, <1>2, <1>4, DecisionFits DEF BudgetInv, CountInv, Planning
<1>6. order'.candidate = m /\ order'.count = count /\ order' \in Order
  BY <1>4, <1>5 DEF Order
<1>7. PlanTyped'
  BY <1>1, <1>2, <1>6 DEF PlanTyped, potVars
<1>8. FitInv'
  <2>1. Fits(m, count)'
    BY <1>1, <1>2, <1>5, StillFits DEF memVars
  <2>2. \A c \in Candidate, n \in Nat : Fits(c, n)' /\ order'.candidate = c /\ order'.count = n
          => FitInv'
    BY DEF FitInv, Fits
  <2> QED
    BY <1>6, <2>1, <2>2
<1> QED
  BY <1>1, <1>7, <1>8, PlanningBudget DEF memVars, potVars

\* An abstention and a refusal leave nothing to execute.
LEMMA NoOrderBudget ==
  ASSUME IInv, BudgetInv, Abstain \/ Refused
  PROVE  BudgetInv'
<1>1. /\ pc \in {"decide", "execute"} /\ pc' = "decide"
      /\ UNCHANGED <<memVars, book, exposure, markets, potVars, placed>>
  BY DEF Abstain, Refused
<1>2. queue' \in Seq(Candidate)
  <2>1. QueueInv
    BY DEF IInv
  <2>2. CASE Refused
    BY <2>1, <2>2 DEF Refused, QueueInv
  <2>3. CASE Abstain
    <3>1. queue # <<>> /\ (queue' = Tail(queue) \/ queue' = <<>>)
      BY <2>3 DEF Abstain
    <3> QED
      BY <2>1, <3>1, TailOK, NoQueue
  <2> QED
    BY <2>2, <2>3
<1>3. order' \in Order
  BY DEF Abstain, Refused, BudgetInv, PlanTyped, NoOrder, Order
<1>4. PlanTyped'
  BY <1>1, <1>2, <1>3 DEF BudgetInv, PlanTyped, potVars
<1> QED
  BY <1>1, <1>4, PlanningBudget DEF FitInv, memVars, potVars

\* What an accepted order makes of the ledger.
LEMMA AcceptedFits ==
  ASSUME IInv, BudgetInv, Accepted
  PROVE  LET m == order.candidate IN
         \E n \in Nat \ {0} :
           /\ m \in Candidate /\ m \notin Open /\ Fits(m, n)
           /\ book' = [book EXCEPT ![m] = [kind |-> "resting", count |-> n]]
           /\ exposure' = exposure + n * PriceOf[m] /\ markets' = markets + 1
<1> DEFINE m == order.candidate
<1>1. pc = "execute" /\ m \in Candidate
  BY DEF Accepted, IInv, OrderInv
<1>2. PICK n \in 1..order.count :
        /\ book' = [book EXCEPT ![m] = [kind |-> "resting", count |-> n]]
        /\ Counted(n * PriceOf[m])
  BY DEF Accepted
<1>3. RiskTyped /\ order.count \in Nat /\ PriceOf[m] \in Nat /\ n \in Nat \ {0} /\ n <= order.count
  BY <1>1, BudgetConstants DEF IInv, BudgetInv, PlanTyped, Order
<1> DEFINE all == order.count * PriceOf[m]
           own == n * PriceOf[m]
<1>4. all \in Nat /\ own \in Nat /\ own <= all
  <2>1. order.count - n \in Nat
    BY <1>3
  <2>2. all = own + (order.count - n) * PriceOf[m]
    BY <1>3
  <2> QED
    BY <1>3, <2>1, <2>2, ProductNat
<1> DEFINE limits == StageLimits[st.stage]
<1>5. /\ limits.order \in Nat /\ Budget(st, limits.total) \in Nat
      /\ Budget(st, limits.market) \in Nat /\ Budget(st, limits.group) \in Nat
  BY <1>3, LimitsNat, BudgetNat DEF RiskTyped
<1>6. ReservedIn(Open) \in Nat /\ ReservedIn(Open \cap Peers(m)) \in Nat
  BY <1>3, ReservedNat, OpenOK
<1>7. /\ m \notin Open
      /\ ReservedIn(Open) + all <= Budget(st, limits.total)
      /\ ReservedIn(Open \cap Peers(m)) + all <= Budget(st, limits.group)
      /\ all <= limits.order /\ all <= Budget(st, limits.market)
      /\ Cardinality(Open) + 1 <= limits.markets
      /\ Cardinality(Open \cap Peers(m)) + 1 <= limits.perGroup
  BY <1>1 DEF BudgetInv, FitInv, Fits
<1> HIDE DEF all, own, limits, m
<1>8. /\ ReservedIn(Open) + own <= Budget(st, limits.total)
      /\ ReservedIn(Open \cap Peers(m)) + own <= Budget(st, limits.group)
      /\ own <= limits.order /\ own <= Budget(st, limits.market)
  BY <1>4, <1>5, <1>6, <1>7
<1>9. Fits(m, n)
  BY <1>7, <1>8 DEF Fits, limits, own
<1> QED
  BY <1>1, <1>2, <1>3, <1>7, <1>9 DEF Counted, m

\* An accepted order is counted by the cycle as the ledger counts it.
LEMMA AcceptedBudget ==
  ASSUME IInv, BudgetInv, Accepted
  PROVE  BudgetInv'
<1> DEFINE m == order.candidate
<1>1. /\ pc = "execute" /\ pc' = "decide" /\ order' = NoOrder
      /\ placed' = placed \cup {m}
      /\ UNCHANGED <<memVars, potVars, queue>>
  BY DEF Accepted
<1>2. PICK n \in Nat \ {0} :
        /\ m \in Candidate /\ m \notin Open
        /\ book' = [book EXCEPT ![m] = [kind |-> "resting", count |-> n]]
        /\ exposure' = exposure + n * PriceOf[m] /\ markets' = markets + 1
  BY AcceptedFits
<1> HIDE DEF m
<1>3. /\ exposure = ReservedIn(Open) /\ markets = Cardinality(Open)
      /\ exposure \in Nat /\ markets \in Nat /\ PriceOf[m] \in Nat
  BY <1>1, <1>2, BudgetConstants DEF BudgetInv, PlanTyped, CountInv, Planning
<1>4. Open \cap Candidate = Open /\ (Open \cap Candidate)' = Open'
  BY DEF Open
<1>5. /\ ReservedIn(Open \cap Candidate)' = ReservedIn(Open \cap Candidate) + n * PriceOf[m]
      /\ Cardinality(Open \cap Candidate)' = Cardinality(Open \cap Candidate) + 1
  BY <1>2, OrderAdds DEF IInv
<1>6. /\ ReservedIn(Open)' = ReservedIn(Open) + n * PriceOf[m]
      /\ Cardinality(Open)' = Cardinality(Open) + 1
  <2>1. ReservedIn(Open)' = ReservedIn(Open \cap Candidate)'
    BY <1>4 DEF ReservedIn
  <2>2. ReservedIn(Open) = ReservedIn(Open \cap Candidate)
    BY <1>4, Zenon
  <2>3. /\ Cardinality(Open') = Cardinality((Open \cap Candidate)')
        /\ Cardinality(Open) = Cardinality(Open \cap Candidate)
    BY <1>4, Zenon
  <2> QED
    BY <1>5, <2>1, <2>2, <2>3
<1>7. exposure' \in Nat /\ markets' \in Nat
  BY <1>2, <1>3, ProductNat
<1>8. PlanTyped'
  BY <1>1, <1>2, <1>7 DEF BudgetInv, PlanTyped, potVars, NoOrder, Order
<1>9. GrantInv'
  BY <1>1 DEF BudgetInv, GrantInv, Planning, Ask, memVars, potVars
<1>10. CountInv'
  BY <1>2, <1>3, <1>6 DEF CountInv
<1>11. FitInv'
  BY <1>1 DEF FitInv
<1> QED
  BY <1>8, <1>9, <1>10, <1>11 DEF BudgetInv

\* The end of a cool-off changes no budget, and a broken file none.
LEMMA WorldBudget ==
  ASSUME IInv, BudgetInv, FileBreaks \/ CoolOffEnds
  PROVE  BudgetInv'
<1>1. UNCHANGED <<pc, book, planVars>> /\ (st' = st \/ st' = Aged(st))
  BY DEF FileBreaks, CoolOffEnds, memVars
<1>2. st'.stage = st.stage /\ st'.bankroll = st.bankroll /\ st'.peak = st.peak
  BY <1>1 DEF IInv, RiskTyped, Aged, RiskState
<1>3. PlanTyped'
  BY <1>1 DEF BudgetInv, PlanTyped, planVars, potVars
<1>4. GrantInv'
  BY <1>1, <1>2 DEF BudgetInv, GrantInv, Ask, planVars, potVars
<1>5. CountInv'
  BY <1>1 DEF BudgetInv, CountInv, ReservedIn, Reserved, Open, planVars
<1>6. FitInv'
  <2> SUFFICES ASSUME pc = "execute"
               PROVE  Fits(order.candidate, order.count)'
    BY <1>1 DEF FitInv
  <2>1. order.candidate \in Candidate /\ order.count \in Nat /\ order' = order
    BY <1>1 DEF IInv, OrderInv, BudgetInv, PlanTyped, Order, planVars
  <2>2. Fits(order.candidate, order.count)
    BY DEF BudgetInv, FitInv
  <2>3. \A m \in Candidate, n \in Nat : Fits(m, n) => Fits(m, n)'
    BY <1>1, <1>2, StillFits
  <2>4. \A m \in Candidate, n \in Nat :
          Fits(m, n)' /\ order'.candidate = m /\ order'.count = n
            => Fits(order.candidate, order.count)'
    BY DEF Fits
  <2> QED
    BY <2>1, <2>2, <2>3, <2>4
<1> QED
  BY <1>3, <1>4, <1>5, <1>6 DEF BudgetInv

\* The invariant is inductive.
LEMMA NextBudget == IInv /\ BudgetInv /\ [Next]_vars => BudgetInv'
<1>1. ASSUME IInv, BudgetInv, UNCHANGED vars PROVE BudgetInv'
  <2>1. UNCHANGED <<pc, book, planVars, st>>
    BY <1>1 DEF vars, memVars
  <2>2. PlanTyped' /\ GrantInv' /\ CountInv'
    BY <1>1, <2>1 DEF BudgetInv, PlanTyped, GrantInv, Ask, CountInv, ReservedIn, Reserved,
                      Open, planVars, potVars
  <2>3. FitInv'
    <3>1. order' = order /\ pc' = pc /\ book' = book /\ st' = st
      BY <2>1 DEF planVars
    <3>2. Open' = Open
      BY ONLY <3>1 DEF Open
    <3>3. FitInv
      BY <1>1 DEF BudgetInv
    <3> QED
      BY ONLY <3>1, <3>2, <3>3 DEF FitInv, Fits, ReservedIn, Reserved
  <2> QED
    BY <2>2, <2>3 DEF BudgetInv
<1>2. ASSUME IInv, BudgetInv, Cycle PROVE BudgetInv'
  BY <1>2, EarlyBudget, PlanBudget, DivideBudget, DividedBudget, DecideBudget, NoOrderBudget,
     AcceptedBudget DEF Cycle, IInv
<1> QED
  BY <1>1, <1>2, EarlyBudget, WorldBudget DEF Next

\* Every reachable state has it.
LEMMA BudgetInvariance == Spec => []BudgetInv
BY InitBudget, NextBudget, Invariance, PTL DEF Spec

-----------------------------------------------------------------------------
(***************************************************************************)
(* The budget: the theorems                                                *)
(***************************************************************************)

\* Every amount of the cycle is a number of cents, through every division,
\* every reservation and every budget that is already overdrawn.
THEOREM BudgetTypeCorrect == Spec => []TypeOK
<1>1. IInv /\ BudgetInv => TypeOK
  BY DEF IInv, BudgetInv, PlanTyped, TypeOK
<1> QED
  BY <1>1, Invariance, BudgetInvariance, PTL

\* Whatever the policy, the weights and the order of the turns, the grants of
\* a cycle stay within its pot and each within its ask.
THEOREM GrantsFit == Spec => []GrantsFitPot
<1>1. BudgetInv => GrantsFitPot
  BY DEF BudgetInv, GrantInv, GrantsFitPot, Planning
<1> QED
  BY <1>1, BudgetInvariance, PTL

\* An accepted order leaves the ledger within the limits of the stage, in
\* all, in its market and in its group, however many orders came before it.
THEOREM OrdersFit == Spec => OrdersFitStage
<1>1. ASSUME IInv, BudgetInv, [Next]_vars, NEW m \in Open' \ Open
      PROVE  LET limits == StageLimits[st.stage]
             IN  /\ ReservedIn(Open)' <= Budget(st, limits.total)
                 /\ ReservedIn(Open \cap Peers(m))' <= Budget(st, limits.group)
                 /\ Reserved(m)' <= Smaller(limits.order, Budget(st, limits.market))
                 /\ Cardinality(Open') <= limits.markets
                 /\ Cardinality(Open' \cap Peers(m)) <= limits.perGroup
  <2>1. Placing /\ m \in Candidate
    BY <1>1 DEF Placing, Open
  <2>2. pc = "execute" /\ book' # book
    <3>1. book' # book
      BY <1>1 DEF Open
    <3> QED
      BY <1>1, <2>1, <3>1, PlacingIsAccepted
  <2>3. Accepted
    BY <1>1, <2>2 DEF Next, vars, Cycle, RefuseState, StartCycle, EndEarly, PollFill, PollCancel,
       ReleaseUnfilled, Grade, Plan, Divide, Divided, Decide, Abstain, Refused, EndCycle, Stop,
       Restart, FileBreaks, CoolOffEnds
  <2>4. PICK o \in Candidate, n \in Nat \ {0} :
          /\ o \notin Open /\ Fits(o, n)
          /\ book' = [book EXCEPT ![o] = [kind |-> "resting", count |-> n]]
    BY <1>1, <2>3, AcceptedFits
  <2>5. RiskTyped /\ Peers(o) \in SUBSET Candidate /\ o \in Peers(o)
    BY <1>1, <2>4 DEF IInv, Peers
  <2>6. \A P \in SUBSET Candidate : o \in P =>
          /\ Open' = Open \cup {o}
          /\ Reserved(o)' = n * PriceOf[o]
          /\ ReservedIn(Open \cap P)' = ReservedIn(Open \cap P) + n * PriceOf[o]
          /\ Cardinality(Open \cap P)' = Cardinality(Open \cap P) + 1
    BY <2>4, <2>5, OrderAdds
  <2>7. m = o
    BY <1>1, <2>5, <2>6
  <2>8. /\ Reserved(m)' = n * PriceOf[m]
        /\ ReservedIn(Open \cap Peers(m))' = ReservedIn(Open \cap Peers(m)) + n * PriceOf[m]
        /\ Cardinality(Open \cap Peers(m))' = Cardinality(Open \cap Peers(m)) + 1
    BY <2>5, <2>6, <2>7
  <2>9. /\ ReservedIn(Open)' = ReservedIn(Open) + n * PriceOf[m]
        /\ Cardinality(Open)' = Cardinality(Open) + 1
    <3>1. /\ ReservedIn(Open \cap Candidate)' = ReservedIn(Open \cap Candidate) + n * PriceOf[m]
          /\ Cardinality(Open \cap Candidate)' = Cardinality(Open \cap Candidate) + 1
      BY <2>4, <2>6, <2>7
    <3>2. Open \cap Candidate = Open /\ (Open \cap Candidate)' = Open'
      BY DEF Open
    <3>3. ReservedIn(Open)' = ReservedIn(Open \cap Candidate)'
      BY <3>2 DEF ReservedIn
    <3>4. /\ ReservedIn(Open) = ReservedIn(Open \cap Candidate)
          /\ Cardinality(Open') = Cardinality((Open \cap Candidate)')
          /\ Cardinality(Open) = Cardinality(Open \cap Candidate)
      BY <3>2, Zenon
    <3> QED
      BY <3>1, <3>3, <3>4
  <2>10. Fits(m, n)
    BY <2>4, <2>7
  <2> QED
    BY <2>8, <2>9, <2>10 DEF Fits, Smaller
<1>2. IInv /\ BudgetInv /\ [Next]_vars =>
        [\A m \in Open' \ Open :
           LET limits == StageLimits[st.stage]
           IN  /\ ReservedIn(Open)' <= Budget(st, limits.total)
               /\ ReservedIn(Open \cap Peers(m))' <= Budget(st, limits.group)
               /\ Reserved(m)' <= Smaller(limits.order, Budget(st, limits.market))
               /\ Cardinality(Open') <= limits.markets
               /\ Cardinality(Open' \cap Peers(m)) <= limits.perGroup]_vars
  BY <1>1
<1> QED
  BY <1>2, Invariance, BudgetInvariance, PTL DEF Spec, OrdersFitStage

===============================================================================
