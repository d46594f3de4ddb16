-------------------------- MODULE ExposureTrackerApi --------------------------
(***************************************************************************)
(* The exposure tracker under an arbitrary caller: every method, with any  *)
(* argument a caller can pass, any write outcome, restarts, and a state    *)
(* file that is found damaged at a restart.  Proposal ids are hashes of    *)
(* decision ids, so an id that has left the book is never reserved again.  *)
(***************************************************************************)
EXTENDS ExposureTracker

CONSTANTS
  Witness,         \* the avg_price_cents a caller may pass (NoPrice: None)
  FileCanBreak     \* BOOLEAN: may the state file be found unreadable?

ASSUME WitnessPrices == Witness \subseteq Nat /\ FileCanBreak \in BOOLEAN

-----------------------------------------------------------------------------
Init ==
  /\ mem  = EmptyBook
  /\ disk = Payload(EmptyBook)

Reserve(d, ok) ==
  /\ d \in mem.history => Present(mem, d)
  /\ ReserveOrderSubmission(d, ok)

Fill(d, ok) ==
  \E id \in IdKind, cum \in 0..(SizeOf[d] + 1), price \in Witness,
     terminal \in Terminal :
        RecordCumulativeFill(d, id, cum, price, terminal, ok)

\* A process start finds the file as the last process left it.
Restart ==
  /\ mem' = Load(disk)
  /\ UNCHANGED disk

\* A process start finds the file unreadable.
RestartOnBrokenFile ==
  /\ FileCanBreak
  /\ disk' = [disk EXCEPT !.readable = FALSE]
  /\ mem'  = Load(disk')

\* The operator restores the file; the process still runs on what it loaded.
OperatorRepair ==
  /\ ~disk.readable
  /\ disk' = [disk EXCEPT !.readable = TRUE]
  /\ UNCHANGED mem

Next ==
  \/ \E ok \in BOOLEAN :
       \/ VerifyPersistence(ok)
       \/ \E d \in Decision :
            \/ Reserve(d, ok)
            \/ ConfirmOpenOrder(d, ok)
            \/ MarkOrderOutcomeUnknown(d, ok)
            \/ Fill(d, ok)
            \/ \E id \in IdKind : RemoveOpenOrder(d, id, ok)
       \/ \E k \in Key : RemovePosition(k, ok)
  \/ ReserveMalformed
  \/ Restart
  \/ RestartOnBrokenFile
  \/ OperatorRepair

Spec == Init /\ [][Next]_trackerVars

-----------------------------------------------------------------------------
\* The book and its file hold well-formed orders, positions and history, and
\* no order is filled beyond its size.
TypeOK == BookOK(mem) /\ FileOK(disk)

\* While persistence_error is clear the file holds exactly the book in
\* memory, so a restart of a healthy process forgets no exposure.
HealthyIsDurable == Healthy => disk = Payload(mem)

\* A step that reloads the book from an unchanged file.
Reload == disk' = disk /\ mem' = Load(disk)

\* A position only grows out of a reservation on the same contract and side,
\* and by no more contracts than that reservation gives up: cumulative fill
\* reports are never counted twice.
GrowsFromReservation(k) ==
  mem'.positions[k].quantity > mem.positions[k].quantity =>
    \E d \in Decision :
      /\ KeyOf(d) = k
      /\ mem'.positions[k].quantity + Remaining(mem', d)
           <= mem.positions[k].quantity + Remaining(mem, d)

FillMovesReservation ==
  [][\A k \in Key : GrowsFromReservation(k) \/ Reload]_trackerVars

PositionCost(book, k) == book.positions[k].quantity * book.positions[k].avg

\* A partial fill adds its whole cost, at least a cent a contract, to the
\* tracked cost of the position: the stored integer average never rounds
\* exposure away and a late price report never lowers it.
AddsItsCost(d) ==
  LET size == mem'.orders[d].filled - mem.orders[d].filled
      cost == mem'.orders[d].cost - mem.orders[d].cost
  IN  Present(mem, d) /\ Present(mem', d) /\ size > 0 =>
        /\ cost >= size
        /\ PositionCost(mem', KeyOf(d)) >= PositionCost(mem, KeyOf(d)) + cost

FillsAddTheirCost == [][\A d \in Decision : AddsItsCost(d)]_trackerVars

=============================================================================
