------------------------ MODULE ExposureTrackerProofs ------------------------
(***************************************************************************)
(* What holds of the exposure tracker under every caller, for any number   *)
(* of decisions and any terms: its type, that a healthy book is durable,   *)
(* and that positions only grow out of reservations.                       *)
(***************************************************************************)
EXTENDS ExposureTrackerApi, ExposureTrackerLemmas

-----------------------------------------------------------------------------
\* TypeOK is the two halves that the lemmas speak of.
LEMMA TypeOKParts == TypeOK <=> BookOK(mem) /\ FileOK(disk)
BY DEF TypeOK

\* A write of a well-formed book leaves both halves well-formed.
LEMMA PersistOK ==
  ASSUME NEW b, BookOK(b), FileOK(disk), NEW ok \in BOOLEAN, Persist(b, ok)
  PROVE  TypeOK'
<1>1. BookOK(mem')
  BY DEF Persist, BookOK
<1>2. FileOK(disk')
  BY PayloadOK DEF Persist
<1> QED
  BY <1>1, <1>2 DEF TypeOK, BookOK, FileOK

\* A latched error changes nothing else of the book and nothing of the file.
LEMMA LatchOK ==
  ASSUME TypeOK, LatchError
  PROVE  TypeOK' /\ HealthyIsDurable' /\ mem'.positions = mem.positions
BY DEF TypeOK, BookOK, FileOK, LatchError, HealthyIsDurable, Healthy

-----------------------------------------------------------------------------
(***************************************************************************)
(* Every action either latches, leaves book and file alone, or writes one  *)
(* of the books above.                                                     *)
(***************************************************************************)

\* A write of a well-formed book that holds the positions of mem.
WritesSamePositions(ok) ==
  \E b : BookOK(b) /\ b.positions = mem.positions /\ Persist(b, ok)

\* What reserve_order_submission may do to the book.
LEMMA ReserveStep ==
  ASSUME TypeOK, NEW d \in Decision, NEW ok \in BOOLEAN, Reserve(d, ok)
  PROVE  LatchError \/ UNCHANGED trackerVars \/ WritesSamePositions(ok)
<1>1. BookOK(Reserved(d)) /\ Reserved(d).positions = mem.positions
  BY TypeOKParts, ReservedOK DEF Reserved, BookOK
<1> QED
  BY <1>1 DEF Reserve, ReserveOrderSubmission, WritesSamePositions

\* What confirm_open_order may do to the book.
LEMMA ConfirmStep ==
  ASSUME TypeOK, NEW d \in Decision, NEW ok \in BOOLEAN, ConfirmOpenOrder(d, ok)
  PROVE  LatchError \/ UNCHANGED trackerVars \/ WritesSamePositions(ok)
<1> DEFINE b == [mem EXCEPT !.orders[d] =
                   [@ EXCEPT !.state = "open", !.bound = TRUE]]
<1>1. Present(mem, d) => BookOK(b)
  BY TypeOKParts, ConfirmedOK
<1>2. b.positions = mem.positions
  BY TypeOKParts DEF BookOK
<1>3. Present(mem, d) /\ Persist(b, ok) => WritesSamePositions(ok)
  <2> HIDE DEF b
  <2> QED
    BY <1>1, <1>2 DEF WritesSamePositions
<1> QED
  BY <1>3 DEF ConfirmOpenOrder

\* What mark_order_outcome_unknown may do to the book.
LEMMA UnknownStep ==
  ASSUME TypeOK, NEW d \in Decision, NEW ok \in BOOLEAN,
         MarkOrderOutcomeUnknown(d, ok)
  PROVE  LatchError \/ WritesSamePositions(ok)
<1> DEFINE b == [mem EXCEPT !.orders[d].state = "submit_outcome_unknown"]
<1>1. Present(mem, d) => BookOK(b)
  BY TypeOKParts, UnknownOK
<1>2. b.positions = mem.positions
  BY TypeOKParts DEF BookOK
<1>3. Present(mem, d) /\ Persist(b, ok) => WritesSamePositions(ok)
  <2> HIDE DEF b
  <2> QED
    BY <1>1, <1>2 DEF WritesSamePositions
<1> QED
  BY <1>3 DEF MarkOrderOutcomeUnknown

\* What remove_open_order may do to the book.
LEMMA RemoveOrderStep ==
  ASSUME TypeOK, NEW d \in Decision, NEW id \in IdKind, NEW ok \in BOOLEAN,
         RemoveOpenOrder(d, id, ok)
  PROVE  WritesSamePositions(ok)
<1> DEFINE b == [mem EXCEPT !.orders[d] = NoOrder]
<1>1. BookOK(mem)
  BY TypeOKParts
<1>2. BookOK(b)
  BY <1>1, NoOrderOK, BookWithOrderOK
<1>3. b.positions = mem.positions
  BY <1>1 DEF BookOK
<1>4. Persist(mem, ok) \/ Persist(b, ok)
  BY DEF RemoveOpenOrder
<1> HIDE DEF b
<1> QED
  BY <1>1, <1>2, <1>3, <1>4 DEF WritesSamePositions

\* What verify_persistence may do to the book.
LEMMA VerifyStep ==
  ASSUME TypeOK, NEW ok \in BOOLEAN, VerifyPersistence(ok)
  PROVE  UNCHANGED trackerVars \/ WritesSamePositions(ok)
BY TypeOKParts DEF VerifyPersistence, WritesSamePositions

\* A recorded fill: the book of FilledOK, for some consistent report.
WritesFill(d, ok) ==
  \E cum \in Nat, price \in Nat, terminal \in Terminal :
    /\ FillConsistent(d, cum, price, terminal)
    /\ Persist(Filled(d, cum, price, terminal), ok)

\* What record_cumulative_fill may do to the book.
LEMMA FillStep ==
  ASSUME TypeOK, NEW d \in Decision, NEW ok \in BOOLEAN, Fill(d, ok)
  PROVE  LatchError \/ UNCHANGED trackerVars \/ (WritesFill(d, ok) /\ Present(mem, d))
<1>1. PICK id \in IdKind, cum \in 0..(SizeOf[d] + 1), price \in Witness,
           terminal \in Terminal :
        RecordCumulativeFill(d, id, cum, price, terminal, ok)
  BY DEF Fill
<1>2. cum \in Nat /\ price \in Nat
  BY <1>1, DecisionTerms, WitnessPrices
<1> QED
  BY <1>1, <1>2 DEF RecordCumulativeFill, WritesFill, Matches


\* A fill that is written passed the checks and moves the reservation.
LEMMA FillWrites ==
  ASSUME TypeOK, NEW d \in Decision, NEW ok \in BOOLEAN, WritesFill(d, ok)
  PROVE  \E b : BookOK(b) /\ Persist(b, ok)
BY TypeOKParts, FilledOK DEF WritesFill

\* The effects a step can have on book and file: a latch, nothing, a write of
\* a well-formed book, a load, or the operator's repair.
Effect ==
  \/ LatchError
  \/ UNCHANGED trackerVars
  \/ \E ok \in BOOLEAN : \E b : BookOK(b) /\ Persist(b, ok)
  \/ Restart
  \/ RestartOnBrokenFile
  \/ OperatorRepair

\* Every step of the tracker is one of the effects above.
LEMMA NextEffect ==
  ASSUME TypeOK, [Next]_trackerVars
  PROVE  Effect
<1>1. CASE UNCHANGED trackerVars
  BY <1>1 DEF Effect
<1>2. ASSUME NEW ok \in BOOLEAN, WritesSamePositions(ok)
      PROVE  Effect
  BY <1>2 DEF WritesSamePositions, Effect
<1>3. ASSUME NEW ok \in BOOLEAN, VerifyPersistence(ok)
      PROVE  Effect
  BY <1>1, <1>2, <1>3, VerifyStep
<1>4. ASSUME NEW ok \in BOOLEAN, NEW d \in Decision, Reserve(d, ok)
      PROVE  Effect
  BY <1>1, <1>2, <1>4, ReserveStep DEF Effect
<1>5. ASSUME NEW ok \in BOOLEAN, NEW d \in Decision, ConfirmOpenOrder(d, ok)
      PROVE  Effect
  BY <1>1, <1>2, <1>5, ConfirmStep DEF Effect
<1>6. ASSUME NEW ok \in BOOLEAN, NEW d \in Decision, MarkOrderOutcomeUnknown(d, ok)
      PROVE  Effect
  BY <1>2, <1>6, UnknownStep DEF Effect
<1>7. ASSUME NEW ok \in BOOLEAN, NEW d \in Decision, Fill(d, ok)
      PROVE  Effect
  BY <1>1, <1>7, FillStep, FillWrites DEF Effect
<1>8. ASSUME NEW ok \in BOOLEAN, NEW d \in Decision, NEW id \in IdKind,
             RemoveOpenOrder(d, id, ok)
      PROVE  Effect
  BY <1>2, <1>8, RemoveOrderStep
<1>9. ASSUME NEW ok \in BOOLEAN, NEW k \in Key, RemovePosition(k, ok)
      PROVE  Effect
  BY <1>9, TypeOKParts, PositionRemovedOK DEF RemovePosition, Effect
<1>10. CASE ReserveMalformed \/ Restart \/ RestartOnBrokenFile \/ OperatorRepair
  BY <1>10 DEF ReserveMalformed, Effect
<1> QED
  BY <1>1, <1>3, <1>4, <1>5, <1>6, <1>7, <1>8, <1>9, <1>10 DEF Next

-----------------------------------------------------------------------------
(***************************************************************************)
(* The theorems                                                            *)
(***************************************************************************)

\* A fresh tracker is well formed and agrees with its file.
LEMMA InitOK == Init => TypeOK /\ HealthyIsDurable
BY EmptyBookOK, PayloadOK, TypeOKParts DEF Init, HealthyIsDurable

\* Every step keeps the book and the file well formed.
LEMMA TypeStep ==
  ASSUME TypeOK, Effect
  PROVE  TypeOK'
<1>1. BookOK(mem) /\ FileOK(disk)
  BY TypeOKParts
<1>2. CASE LatchError
  BY <1>2, LatchOK
<1>3. CASE UNCHANGED trackerVars
  BY <1>3 DEF trackerVars, TypeOK
<1>4. CASE \E ok \in BOOLEAN : \E b : BookOK(b) /\ Persist(b, ok)
  BY <1>1, <1>4, PersistOK
<1>5. SUFFICES ASSUME Restart \/ RestartOnBrokenFile \/ OperatorRepair
               PROVE  BookOK(mem)' /\ FileOK(disk)'
  BY <1>2, <1>3, <1>4 DEF Effect, TypeOK, BookOK, FileOK
<1>6. CASE Restart
  BY <1>1, <1>6, LoadOK DEF Restart
<1>7. CASE RestartOnBrokenFile
  <2>1. FileOK(disk')
    BY <1>1, <1>7 DEF RestartOnBrokenFile, FileOK
  <2> QED
    BY <1>7, <2>1, LoadOK DEF RestartOnBrokenFile
<1>8. CASE OperatorRepair
  BY <1>1, <1>8 DEF OperatorRepair, FileOK, BookOK
<1> QED
  BY <1>5, <1>6, <1>7, <1>8

\* TypeOK is an invariant: every caller, every write outcome and every
\* restart leaves book and file well-formed, no order filled beyond its size.
THEOREM TypeCorrect == Spec => []TypeOK
<1>1. TypeOK /\ [Next]_trackerVars => TypeOK'
  BY NextEffect, TypeStep
<1> QED
  BY InitOK, <1>1, PTL DEF Spec

\* Every step keeps a healthy book equal to its file.
LEMMA DurableStep ==
  ASSUME TypeOK, HealthyIsDurable, Effect
  PROVE  HealthyIsDurable'
<1>1. BookOK(mem) /\ FileOK(disk)
  BY TypeOKParts
<1>2. CASE LatchError
  BY <1>2, LatchOK
<1>3. CASE UNCHANGED trackerVars
  BY <1>3 DEF trackerVars, HealthyIsDurable, Healthy, Payload
<1>4. CASE \E ok \in BOOLEAN : \E b : BookOK(b) /\ Persist(b, ok)
  <2>0. PICK ok \in BOOLEAN : \E b : BookOK(b) /\ Persist(b, ok)
    BY <1>4
  <2>1. PICK b : BookOK(b) /\ Persist(b, ok)
    BY <2>0
  <2>2. mem'.err = ~ok
    BY <2>1 DEF Persist, BookOK
  <2>3. Payload(mem') = Payload(b)
    BY <2>1 DEF Persist, BookOK, Payload
  <2> QED
    BY <2>1, <2>2, <2>3 DEF Persist, HealthyIsDurable, Healthy
<1>5. CASE Restart
  <2>1. CASE disk.readable
    <3>1. Load(disk) = [orders |-> disk.orders, positions |-> disk.positions,
                        history |-> disk.history, err |-> FALSE]
      BY <2>1 DEF Load
    <3>2. disk = [readable |-> TRUE, orders |-> disk.orders,
                  positions |-> disk.positions, history |-> disk.history]
      BY <1>1, <2>1 DEF FileOK
    <3> QED
      BY <1>5, <3>1, <3>2 DEF Restart, HealthyIsDurable, Payload
  <2>2. CASE ~disk.readable
    BY <1>5, <2>2 DEF Restart, Load, EmptyBook, HealthyIsDurable, Healthy
  <2> QED
    BY <2>1, <2>2
<1>6. CASE RestartOnBrokenFile
  <2>1. ~disk'.readable
    BY <1>1, <1>6 DEF RestartOnBrokenFile, FileOK
  <2> QED
    BY <1>6, <2>1 DEF RestartOnBrokenFile, Load, EmptyBook, HealthyIsDurable, Healthy
<1>7. CASE OperatorRepair
  BY <1>7 DEF OperatorRepair, HealthyIsDurable, Healthy, Payload
<1> QED
  BY <1>2, <1>3, <1>4, <1>5, <1>6, <1>7 DEF Effect

\* A healthy tracker's file is its book, whoever called what before: a
\* successor process starts with every reservation and position it had.
THEOREM HealthyDurable == Spec => []HealthyIsDurable
<1>1. TypeOK /\ HealthyIsDurable /\ [Next]_trackerVars => HealthyIsDurable'
  BY NextEffect, DurableStep
<1> QED
  BY InitOK, TypeCorrect, <1>1, PTL DEF Spec


\* A step that touches no position moves no reservation.
LEMMA SamePositionsMove ==
  ASSUME TypeOK, mem'.positions = mem.positions, NEW k \in Key
  PROVE  GrowsFromReservation(k)
BY DEF GrowsFromReservation, TypeOK, BookOK, Holdings, Position

\* A written fill takes from a reservation what it adds to the position.
LEMMA FillMoves ==
  ASSUME TypeOK, NEW d \in Decision, NEW ok \in BOOLEAN,
         Present(mem, d), WritesFill(d, ok), NEW k \in Key
  PROVE  GrowsFromReservation(k)
<1>1. BookOK(mem)
  BY TypeOKParts
<1>2. PICK cum \in Nat, price \in Nat, terminal \in Terminal :
        /\ FillConsistent(d, cum, price, terminal)
        /\ Persist(Filled(d, cum, price, terminal), ok)
  BY DEF WritesFill
<1> DEFINE b == Filled(d, cum, price, terminal)
<1>3. /\ BookOK(b)
      /\ b.positions[KeyOf(d)].quantity
           = mem.positions[KeyOf(d)].quantity + (cum - mem.orders[d].filled)
      /\ \A j \in Key \ {KeyOf(d)} : b.positions[j] = mem.positions[j]
      /\ b.orders[d] = FilledOrder(mem.orders[d], cum, price, terminal)
  BY <1>1, <1>2, FilledOK
<1> HIDE DEF b
<1>4. mem'.positions = b.positions /\ mem'.orders = b.orders
  BY <1>2, <1>3 DEF Persist, BookOK, b
<1>5. mem.positions[k].quantity \in Nat
  BY <1>1 DEF BookOK, Holdings, Position
<1>6. CASE k # KeyOf(d)
  BY <1>3, <1>4, <1>5, <1>6 DEF GrowsFromReservation
<1>7. CASE k = KeyOf(d)
  <2>1. mem.orders[d].filled \in Nat /\ SizeOf[d] \in Nat
    BY <1>1, DecisionTerms DEF BookOK, Books, Order
  <2>2. cum <= SizeOf[d]
    BY <1>2 DEF FillConsistent
  <2>3. Remaining(mem, d) = SizeOf[d] - mem.orders[d].filled
    BY DEF Remaining
  <2>4. Remaining(mem', d) \in {0, SizeOf[d] - cum}
    <3>1. mem.orders[d] \in Order
      BY <1>1 DEF BookOK, Books
    <3>2. mem'.orders[d] = FilledOrder(mem.orders[d], cum, price, terminal)
      BY <1>3, <1>4
    <3>3. CASE terminal # "none"
      BY <3>2, <3>3 DEF FilledOrder, Remaining, Present, NoOrder
    <3>4. CASE terminal = "none"
      <4>1. mem'.orders[d].filled = cum
        BY <3>1, <3>2, <3>4 DEF FilledOrder, Order
      <4> QED
        BY <4>1 DEF Remaining
    <3> QED
      BY <3>3, <3>4
  <2>5. mem'.positions[k].quantity + Remaining(mem', d)
          <= mem.positions[k].quantity + Remaining(mem, d)
    BY <1>2, <1>3, <1>4, <1>5, <1>7, <2>1, <2>2, <2>3, <2>4
  <2> QED
    BY <1>7, <2>5 DEF GrowsFromReservation
<1> QED
  BY <1>6, <1>7

\* A write changes the positions of the memory to those of the new book.
LEMMA PersistPositions ==
  ASSUME NEW b, BookOK(b), NEW ok \in BOOLEAN, Persist(b, ok)
  PROVE  mem'.positions = b.positions
BY DEF Persist, BookOK

\* Fills move contracts out of reservations into positions and nothing else
\* makes a position: no report, in any order, with any id or price, counts a
\* contract twice.
THEOREM FillsMoveReservations == Spec => FillMovesReservation
<1>1. ASSUME TypeOK, [Next]_trackerVars, NEW k \in Key
      PROVE  GrowsFromReservation(k) \/ Reload
  <2>1. BookOK(mem) /\ mem.positions[k].quantity \in Nat
    BY <1>1, TypeOKParts DEF BookOK, Holdings, Position
  <2>2. ASSUME LatchError \/ UNCHANGED trackerVars
        PROVE  GrowsFromReservation(k)
    BY <1>1, <2>2, LatchOK, SamePositionsMove DEF trackerVars
  <2>3. ASSUME NEW ok \in BOOLEAN, WritesSamePositions(ok)
        PROVE  GrowsFromReservation(k)
    <3>1. mem'.positions = mem.positions
      BY <2>3, PersistPositions DEF WritesSamePositions
    <3> QED
      BY <1>1, <3>1, SamePositionsMove
  <2>4. ASSUME NEW ok \in BOOLEAN, VerifyPersistence(ok)
        PROVE  GrowsFromReservation(k)
    BY <1>1, <2>2, <2>3, <2>4, VerifyStep
  <2>5. ASSUME NEW ok \in BOOLEAN, NEW d \in Decision,
               Reserve(d, ok) \/ ConfirmOpenOrder(d, ok) \/ MarkOrderOutcomeUnknown(d, ok)
        PROVE  GrowsFromReservation(k)
    BY <1>1, <2>2, <2>3, <2>5, ReserveStep, ConfirmStep, UnknownStep
  <2>6. ASSUME NEW ok \in BOOLEAN, NEW d \in Decision, Fill(d, ok)
        PROVE  GrowsFromReservation(k)
    BY <1>1, <2>2, <2>6, FillStep, FillMoves
  <2>7. ASSUME NEW ok \in BOOLEAN, NEW d \in Decision, NEW id \in IdKind,
               RemoveOpenOrder(d, id, ok)
        PROVE  GrowsFromReservation(k)
    BY <1>1, <2>3, <2>7, RemoveOrderStep
  <2>8. ASSUME NEW ok \in BOOLEAN, NEW j \in Key, RemovePosition(j, ok)
        PROVE  GrowsFromReservation(k)
    <3>1. mem'.positions[k] \in {mem.positions[k], NoPosition}
      BY <2>1, <2>8, PositionRemovedOK, PersistPositions DEF RemovePosition
    <3> QED
      BY <2>1, <3>1 DEF GrowsFromReservation, NoPosition
  <2>9. CASE ReserveMalformed \/ OperatorRepair
    <3>1. mem'.positions = mem.positions
      BY <1>1, <2>9, LatchOK DEF ReserveMalformed, OperatorRepair
    <3> QED
      BY <1>1, <3>1, SamePositionsMove
  <2>10. CASE Restart
    BY <2>10 DEF Restart, Reload
  <2>11. CASE RestartOnBrokenFile
    <3>1. ~disk'.readable
      BY <1>1, <2>11, TypeOKParts DEF RestartOnBrokenFile, FileOK
    <3>2. mem'.positions[k] = NoPosition
      BY <2>11, <3>1 DEF RestartOnBrokenFile, Load, EmptyBook
    <3> QED
      BY <2>1, <3>2 DEF GrowsFromReservation, NoPosition
  <2> QED
    BY <1>1, <2>2, <2>4, <2>5, <2>6, <2>7, <2>8, <2>9, <2>10, <2>11 DEF Next
<1>2. TypeOK /\ [Next]_trackerVars
        => [\A k \in Key : GrowsFromReservation(k) \/ Reload]_trackerVars
  BY <1>1
<1> QED
  BY TypeCorrect, <1>2, PTL DEF Spec, FillMovesReservation

-----------------------------------------------------------------------------
(***************************************************************************)
(* What a fill adds                                                        *)
(***************************************************************************)

\* Where book and file both have an entry, the file's has not taken more.
FileLags ==
  \A d \in Decision : Present(mem, d) /\ Present(disk, d) =>
    disk.orders[d].filled <= mem.orders[d].filled

\* A change that adds no entry and no fill.
SameFills(orders) ==
  \A d \in Decision : orders[d].state # "none" =>
    Present(mem, d) /\ orders[d].filled = mem.orders[d].filled

KeepsFills == SameFills(mem'.orders) /\ disk'.orders \in {disk.orders, mem'.orders}

\* A write of such a change, whether it succeeds or fails.
LEMMA WriteKeepsFills ==
  ASSUME NEW b, BookOK(b), SameFills(b.orders), NEW ok \in BOOLEAN, Persist(b, ok)
  PROVE  KeepsFills
BY DEF Persist, Payload, BookOK, KeepsFills

\* The steps that leave the entries alone.
LEMMA StayKeepsFills ==
  ASSUME TypeOK, LatchError \/ UNCHANGED trackerVars \/ OperatorRepair
  PROVE  KeepsFills
<1>1. BookOK(mem) /\ FileOK(disk)
  BY TypeOKParts
<1>2. mem'.orders = mem.orders /\ disk'.orders = disk.orders
  BY <1>1 DEF LatchError, trackerVars, OperatorRepair, BookOK, FileOK
<1> QED
  BY <1>2 DEF KeepsFills, SameFills, Present

\* Binding an id, marking an outcome unknown, removing an order or a position
\* and the probing write add no fill.
LEMMA OthersKeepFills ==
  ASSUME TypeOK, NEW ok \in BOOLEAN, NEW d \in Decision, NEW id \in IdKind, NEW k \in Key,
         \/ VerifyPersistence(ok) \/ ConfirmOpenOrder(d, ok) \/ MarkOrderOutcomeUnknown(d, ok)
         \/ RemoveOpenOrder(d, id, ok) \/ RemovePosition(k, ok)
  PROVE  KeepsFills
<1>1. BookOK(mem)
  BY TypeOKParts
<1>2. \A b : BookOK(b) /\ SameFills(b.orders) /\ Persist(b, ok) => KeepsFills
  BY WriteKeepsFills
<1>3. SameFills(mem.orders)
  BY DEF SameFills, Present
<1>4. CASE VerifyPersistence(ok)
  BY <1>1, <1>2, <1>3, <1>4, StayKeepsFills DEF VerifyPersistence
<1>5. CASE ConfirmOpenOrder(d, ok)
  <2> DEFINE b == [mem EXCEPT !.orders[d] = [@ EXCEPT !.state = "open", !.bound = TRUE]]
  <2>1. Present(mem, d) => BookOK(b) /\ SameFills(b.orders)
    <3> DEFINE new == [mem.orders[d] EXCEPT !.state = "open", !.bound = TRUE]
    <3>1. b.orders = [mem.orders EXCEPT ![d] = new]
      BY <1>1 DEF BookOK
    <3>2. new.filled = mem.orders[d].filled
      BY <1>1 DEF BookOK, Books, Order
    <3>3. Present(mem, d) => BookOK(b)
      BY <1>1, ConfirmedOK
    <3> HIDE DEF new, b
    <3> QED
      BY <1>1, <3>1, <3>2, <3>3 DEF SameFills, Present, BookOK, Books
  <2>2. LatchError \/ UNCHANGED trackerVars \/ (Present(mem, d) /\ Persist(b, ok))
    BY <1>5 DEF ConfirmOpenOrder
  <2> HIDE DEF b
  <2> QED
    BY <1>2, <2>1, <2>2, StayKeepsFills
<1>6. CASE MarkOrderOutcomeUnknown(d, ok)
  <2> DEFINE b == [mem EXCEPT !.orders[d].state = "submit_outcome_unknown"]
  <2>1. Present(mem, d) => BookOK(b) /\ SameFills(b.orders)
    <3> DEFINE new == [mem.orders[d] EXCEPT !.state = "submit_outcome_unknown"]
    <3>1. b.orders = [mem.orders EXCEPT ![d] = new]
      BY <1>1 DEF BookOK
    <3>2. new.filled = mem.orders[d].filled
      BY <1>1 DEF BookOK, Books, Order
    <3>3. Present(mem, d) => BookOK(b)
      BY <1>1, UnknownOK
    <3> HIDE DEF new, b
    <3> QED
      BY <1>1, <3>1, <3>2, <3>3 DEF SameFills, Present, BookOK, Books
  <2>2. LatchError \/ (Present(mem, d) /\ Persist(b, ok))
    BY <1>6 DEF MarkOrderOutcomeUnknown
  <2> HIDE DEF b
  <2> QED
    BY <1>2, <2>1, <2>2, StayKeepsFills
<1>7. CASE RemoveOpenOrder(d, id, ok)
  <2> DEFINE b == [mem EXCEPT !.orders[d] = NoOrder]
  <2>1. BookOK(b) /\ SameFills(b.orders)
    BY <1>1, NoOrderOK, BookWithOrderOK DEF SameFills, Present, BookOK, Books, NoOrder
  <2>2. Persist(mem, ok) \/ Persist(b, ok)
    BY <1>7 DEF RemoveOpenOrder
  <2> HIDE DEF b
  <2> QED
    BY <1>1, <1>2, <1>3, <2>1, <2>2
<1>8. CASE RemovePosition(k, ok)
  <2> DEFINE b == [mem EXCEPT !.positions[k] = NoPosition]
  <2>1. BookOK(b) /\ b.orders = mem.orders
    BY <1>1, PositionRemovedOK DEF BookOK
  <2>2. Persist(b, ok)
    BY <1>8 DEF RemovePosition
  <2> HIDE DEF b
  <2> QED
    BY <1>2, <1>3, <2>1, <2>2
<1> QED
  BY <1>4, <1>5, <1>6, <1>7, <1>8

\* Such a step adds no cost, and the file still lags.
LEMMA KeepsFillsAdds ==
  ASSUME TypeOK, FileLags, KeepsFills
  PROVE  FileLags' /\ \A d \in Decision : AddsItsCost(d)
<1>1. \A d \in Decision : mem.orders[d].filled \in Nat
  BY DEF TypeOK, BookOK, Books, Order
<1> QED
  BY <1>1 DEF FileLags, KeepsFills, SameFills, AddsItsCost, Present

\* A reservation that is written was not in a healthy tracker's file.
LEMMA ReserveAdds ==
  ASSUME TypeOK, HealthyIsDurable, FileLags, NEW e \in Decision, NEW ok \in BOOLEAN,
         Reserve(e, ok)
  PROVE  FileLags' /\ \A d \in Decision : AddsItsCost(d)
<1>1. CASE LatchError \/ UNCHANGED trackerVars
  BY <1>1, StayKeepsFills, KeepsFillsAdds
<1>2. CASE Healthy /\ ~Present(mem, e) /\ Persist(Reserved(e), ok)
  <2>1. BookOK(mem) /\ BookOK(Reserved(e))
    BY TypeOKParts, ReservedOK
  <2>2. ~Present(disk, e)
    BY <1>2 DEF HealthyIsDurable, Payload, Present
  <2>3. Reserved(e).orders = [mem.orders EXCEPT ![e] = NewOrder]
    BY <2>1 DEF Reserved, BookOK
  <2>4. /\ mem'.orders = Reserved(e).orders
        /\ disk'.orders \in {disk.orders, mem'.orders}
    BY <1>2, <2>1 DEF Persist, BookOK, Payload
  <2>5. \A d \in Decision : d # e => mem'.orders[d] = mem.orders[d]
    BY <2>1, <2>3, <2>4 DEF BookOK, Books
  <2>6. \A d \in Decision : mem'.orders[d].filled \in Nat /\ mem.orders[d].filled \in Nat
    BY <2>1, <2>4 DEF BookOK, Books, Order
  <2>7. FileLags'
    BY <2>2, <2>4, <2>5, <2>6 DEF FileLags, Present
  <2>8. \A d \in Decision : AddsItsCost(d)
    BY <1>2, <2>5, <2>6 DEF AddsItsCost
  <2> QED
    BY <2>7, <2>8
<1> QED
  BY <1>1, <1>2 DEF Reserve, ReserveOrderSubmission

\* A written fill adds its whole cost to the position, however the average
\* is rounded.
LEMMA FillAdds ==
  ASSUME TypeOK, FileLags, NEW e \in Decision, NEW ok \in BOOLEAN,
         Present(mem, e), WritesFill(e, ok)
  PROVE  FileLags' /\ \A d \in Decision : AddsItsCost(d)
<1>1. BookOK(mem) /\ FileOK(disk)
  BY TypeOKParts
<1>2. PICK cum \in Nat, price \in Nat, terminal \in Terminal :
        /\ FillConsistent(e, cum, price, terminal)
        /\ Persist(Filled(e, cum, price, terminal), ok)
  BY DEF WritesFill
<1> DEFINE b    == Filled(e, cum, price, terminal)
           o    == mem.orders[e]
           p    == mem.positions[KeyOf(e)]
           cost == CumulativeCost(cum, price)
           n    == cum - o.filled
           x    == cost - o.cost
<1>3. BookOK(b)
  BY <1>1, <1>2, FilledOK
<1>4. o \in Order /\ KeyOf(e) \in Key /\ p \in Position /\ cost \in Nat
  BY <1>1, CostNat DEF BookOK, Books, Holdings, Key
<1>5. /\ \A d \in Decision : d # e => b.orders[d] = mem.orders[d]
      /\ b.orders[e] = FilledOrder(o, cum, price, terminal)
      /\ b.positions[KeyOf(e)] = Grown(p, n, x)
  BY <1>1, <1>4 DEF Filled, BookOK, Books, Holdings
<1>6. /\ mem'.orders = b.orders /\ mem'.positions = b.positions
      /\ disk'.orders \in {disk.orders, mem'.orders}
  BY <1>2, <1>3 DEF Persist, BookOK, Payload
<1>7. /\ o.filled \in Nat /\ o.filled <= cum
      /\ n \in Nat /\ x \in Int /\ (n > 0 => x >= n) /\ (n = 0 => x = 0)
  BY <1>2, <1>4 DEF FillConsistent, Order
<1>8. Present(mem', e) => mem'.orders[e].filled = cum /\ mem'.orders[e].cost = cost
  <2>1. mem'.orders[e] = FilledOrder(o, cum, price, terminal)
    BY <1>5, <1>6
  <2>2. CASE terminal # "none"
    BY <2>1, <2>2 DEF FilledOrder, Present, NoOrder
  <2>3. CASE terminal = "none"
    BY <1>4, <2>1, <2>3 DEF FilledOrder, Order
  <2> QED
    BY <2>2, <2>3
<1>9. \A d \in Decision : mem'.orders[d].filled \in Nat /\ mem.orders[d].filled \in Nat
                          /\ disk.orders[d].filled \in Nat
  BY <1>1, <1>3, <1>6 DEF BookOK, FileOK, Books, Order
<1> HIDE DEF b, cost
<1>10. FileLags'
  <2> SUFFICES ASSUME NEW d \in Decision, Present(mem', d), Present(disk', d)
               PROVE  disk'.orders[d].filled <= mem'.orders[d].filled
    BY DEF FileLags
  <2>1. CASE disk'.orders = mem'.orders
    BY <1>9, <2>1
  <2>2. CASE disk'.orders = disk.orders /\ d # e
    BY <1>5, <1>6, <2>2 DEF FileLags, Present
  <2>3. CASE disk'.orders = disk.orders /\ d = e
    BY <1>7, <1>8, <1>9, <2>3 DEF FileLags, Present
  <2> QED
    BY <1>6, <2>1, <2>2, <2>3
<1>11. \A d \in Decision : d # e => AddsItsCost(d)
  BY <1>5, <1>6, <1>9 DEF AddsItsCost
<1>12. AddsItsCost(e)
  <2> SUFFICES ASSUME Present(mem', e), n > 0
               PROVE  /\ x >= n
                      /\ PositionCost(mem', KeyOf(e)) >= PositionCost(mem, KeyOf(e)) + x
    BY <1>8 DEF AddsItsCost
  <2>1. x \in Nat
    BY <1>7
  <2>2. Grown(p, n, x).quantity * Grown(p, n, x).avg >= p.quantity * p.avg + x
    BY <1>4, <1>7, <2>1, GrownCovers
  <2> QED
    BY <1>5, <1>6, <1>7, <2>2 DEF PositionCost
<1> QED
  BY <1>10, <1>11, <1>12

\* A load brings back no fill that the book did not have.
LEMMA LoadAdds ==
  ASSUME TypeOK, FileLags, Restart \/ RestartOnBrokenFile
  PROVE  FileLags' /\ \A d \in Decision : AddsItsCost(d)
<1>1. BookOK(mem) /\ FileOK(disk) /\ disk'.orders = disk.orders
  BY TypeOKParts DEF Restart, RestartOnBrokenFile, FileOK
<1>2. mem'.orders \in {disk.orders, EmptyBook.orders}
  BY <1>1 DEF Restart, RestartOnBrokenFile, Load, EmptyBook
<1>3. \A d \in Decision : disk.orders[d].filled \in Nat /\ mem.orders[d].filled \in Nat
  BY <1>1 DEF BookOK, FileOK, Books, Order
<1>4. \A d \in Decision : EmptyBook.orders[d].state = "none"
  BY DEF EmptyBook, NoOrder
<1>5. FileLags'
  BY <1>1, <1>2, <1>3, <1>4 DEF FileLags, Present
<1>6. \A d \in Decision : AddsItsCost(d)
  BY <1>2, <1>3, <1>4 DEF FileLags, AddsItsCost, Present
<1> QED
  BY <1>5, <1>6

\* A partial fill adds its whole cost, at least a cent a contract, to the
\* tracked cost of the position, through every rounding, repeated report,
\* failed write and restart.
THEOREM FillsAddCost == Spec => FillsAddTheirCost
<1>1. Init => FileLags
  BY DEF Init, FileLags, Present, EmptyBook, Payload, NoOrder
<1>2. ASSUME TypeOK, HealthyIsDurable, FileLags, [Next]_trackerVars
      PROVE  FileLags' /\ \A d \in Decision : AddsItsCost(d)
  <2>1. CASE UNCHANGED trackerVars \/ LatchError \/ OperatorRepair
    BY <1>2, <2>1, StayKeepsFills, KeepsFillsAdds
  <2>2. ASSUME NEW ok \in BOOLEAN, VerifyPersistence(ok)
        PROVE  FileLags' /\ \A d \in Decision : AddsItsCost(d)
    <3>1. KeepsFills
      BY <1>2, <2>2, StayKeepsFills, WriteKeepsFills, TypeOKParts
         DEF VerifyPersistence, SameFills, Present
    <3> QED
      BY <1>2, <3>1, KeepsFillsAdds
  <2>3. ASSUME NEW ok \in BOOLEAN, NEW e \in Decision, NEW id \in IdKind,
               ConfirmOpenOrder(e, ok) \/ MarkOrderOutcomeUnknown(e, ok)
               \/ RemoveOpenOrder(e, id, ok)
        PROVE  FileLags' /\ \A d \in Decision : AddsItsCost(d)
    <3>1. KeyOf(e) \in Key
      BY DEF Key
    <3>2. KeepsFills
      BY <1>2, <2>3, <3>1, OthersKeepFills
    <3> QED
      BY <1>2, <3>2, KeepsFillsAdds
  <2>4. ASSUME NEW ok \in BOOLEAN, NEW k \in Key, RemovePosition(k, ok)
        PROVE  FileLags' /\ \A d \in Decision : AddsItsCost(d)
    <3>1. PICK e \in Decision : k = KeyOf(e)
      BY DEF Key
    <3>2. KeepsFills
      BY <1>2, <2>4, OthersKeepFills DEF IdKind
    <3> QED
      BY <1>2, <3>2, KeepsFillsAdds
  <2>5. ASSUME NEW ok \in BOOLEAN, NEW e \in Decision, Reserve(e, ok)
        PROVE  FileLags' /\ \A d \in Decision : AddsItsCost(d)
    BY <1>2, <2>5, ReserveAdds
  <2>6. ASSUME NEW ok \in BOOLEAN, NEW e \in Decision, Fill(e, ok)
        PROVE  FileLags' /\ \A d \in Decision : AddsItsCost(d)
    BY <1>2, <2>1, <2>6, FillStep, FillAdds
  <2>7. CASE Restart \/ RestartOnBrokenFile
    BY <1>2, <2>7, LoadAdds
  <2> QED
    BY <1>2, <2>1, <2>2, <2>3, <2>4, <2>5, <2>6, <2>7 DEF Next, ReserveMalformed, IdKind
<1>3. TypeOK /\ HealthyIsDurable /\ FileLags /\ [Next]_trackerVars
        => FileLags' /\ [\A d \in Decision : AddsItsCost(d)]_trackerVars
  BY <1>2
<1> QED
  BY TypeCorrect, HealthyDurable, <1>1, <1>3, PTL DEF Spec, FillsAddTheirCost

=============================================================================
