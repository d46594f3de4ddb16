--------------------------- MODULE ExposureTracker ---------------------------
(***************************************************************************)
(* The live exposure book of live_firewall/exposure_tracker.py: resting    *)
(* orders reserved at their limit, positions created by witnessed fills,   *)
(* the order history behind the hourly frequency cap, the latched          *)
(* persistence_error, and the JSON file that os.replace swaps atomically.  *)
(*                                                                         *)
(* A live order is named by the decision it executes: the firewall sends   *)
(* proposal_id = hash(decision_id) as client_order_id.  Its terms never    *)
(* change and are constants.                                               *)
(***************************************************************************)
EXTENDS Integers, FiniteSets

CONSTANTS
  Decision,   \* the decisions that may become live orders
  MarketOf,   \* decision -> market ticker (contract_ticker = market_ticker)
  SideOf,     \* decision -> "yes" or "no"
  SizeOf,     \* decision -> contracts
  LimitOf     \* decision -> limit price in cents

ASSUME DecisionTerms ==
  /\ IsFiniteSet(Decision)
  /\ SizeOf  \in [Decision -> Nat \ {0}]
  /\ LimitOf \in [Decision -> 1..99]

VARIABLES
  mem,    \* the process's ExposureTracker
  disk    \* runtime/live_exposure_state.json

trackerVars == <<mem, disk>>

KeyOf(d) == <<MarketOf[d], SideOf[d]>>
Key      == {KeyOf(d) : d \in Decision}

OrderState == {"none", "submitting", "open", "submit_outcome_unknown",
               "partially_filled"}

\* One entry of open_orders; "none" stands for "not in the list".  `bound`
\* says whether order_id has become the broker's id.
Order    == [state : OrderState, bound : BOOLEAN, filled : Nat, cost : Nat]
NoOrder  == [state |-> "none", bound |-> FALSE, filled |-> 0, cost |-> 0]
NewOrder == [state |-> "submitting", bound |-> FALSE, filled |-> 0, cost |-> 0]

Position   == [quantity : Nat, avg : Nat]
NoPosition == [quantity |-> 0, avg |-> 0]

Books    == [Decision -> Order]
Holdings == [Key -> Position]

\* Well-formed books and files: no order is filled beyond its size (the check
\* in _load).
BookOK(b) ==
  /\ b \in [orders : Books, positions : Holdings,
            history : SUBSET Decision, err : BOOLEAN]
  /\ \A d \in Decision : b.orders[d].filled <= SizeOf[d]

FileOK(f) ==
  /\ f \in [readable : BOOLEAN, orders : Books, positions : Holdings,
            history : SUBSET Decision]
  /\ \A d \in Decision : f.orders[d].filled <= SizeOf[d]

Present(book, d) == book.orders[d].state # "none"

\* remaining_size: size minus what has been witnessed as filled.
Remaining(book, d) ==
  IF Present(book, d) THEN SizeOf[d] - book.orders[d].filled ELSE 0

\* open_orders are matched on order_id or client_order_id: the client id
\* always matches, the broker's id only once the reservation is bound to it.
IdKind == {"client", "broker"}
Matches(d, id) ==
  /\ Present(mem, d)
  /\ id = "client" \/ mem.orders[d].bound

-----------------------------------------------------------------------------
(***************************************************************************)
(* Persistence                                                             *)
(***************************************************************************)

\* What _payload writes: everything but the error latch.
Payload(m) ==
  [readable |-> TRUE, orders |-> m.orders, positions |-> m.positions,
   history |-> m.history]

\* Faulty variant: a failed write does not latch.
PersistForgetsFailure(m, ok) ==
  /\ mem'  = [m EXCEPT !.err = FALSE]
  /\ disk' = IF ok THEN Payload(m) ELSE disk

\* _persist of the book m: a success swaps the file and clears the latch, a
\* failure leaves the file alone and sets it.
Persist(m, ok) ==
  /\ mem'  = [m EXCEPT !.err = ~ok]
  /\ disk' = IF ok THEN Payload(m) ELSE disk

\* The early returns that only set persistence_error.
LatchError ==
  /\ mem' = [mem EXCEPT !.err = TRUE]
  /\ UNCHANGED disk

EmptyBook ==
  [orders    |-> [d \in Decision |-> NoOrder],
   positions |-> [k \in Key |-> NoPosition],
   history   |-> {},
   err       |-> FALSE]

\* Faulty variant: an unreadable file is taken for an empty book.
LoadEmptyOnError(file) ==
  IF file.readable
    THEN [orders |-> file.orders, positions |-> file.positions,
          history |-> file.history, err |-> FALSE]
    ELSE EmptyBook

\* _load: an unreadable file leaves the collections empty and latches.
Load(file) ==
  IF file.readable
    THEN [orders |-> file.orders, positions |-> file.positions,
          history |-> file.history, err |-> FALSE]
    ELSE [EmptyBook EXCEPT !.err = TRUE]

Healthy == ~mem.err

VerifyPersistence(ok) ==
  IF Healthy THEN Persist(mem, ok) ELSE UNCHANGED trackerVars

-----------------------------------------------------------------------------
(***************************************************************************)
(* Reservations                                                            *)
(***************************************************************************)

\* reserve_order_submission returns True exactly here.
ReserveSucceeds(d, ok) == Healthy /\ ~Present(mem, d) /\ ok

Reserved(d) ==
  [mem EXCEPT !.orders[d] = NewOrder, !.history = @ \cup {d}]

ReserveOrderSubmission(d, ok) ==
  \/ /\ ~Healthy
     /\ UNCHANGED trackerVars
  \/ /\ Healthy
     /\ Present(mem, d)                       \* duplicate client order id
     /\ LatchError
  \/ /\ Healthy
     /\ ~Present(mem, d)
     /\ Persist(Reserved(d), ok)

\* A missing id, a size below one or a price outside 1..99.
ReserveMalformed ==
  /\ Healthy
  /\ LatchError

ConfirmOpenOrder(d, ok) ==
  \/ /\ ~Healthy
     /\ UNCHANGED trackerVars
  \/ /\ Healthy
     /\ ~Present(mem, d)
     /\ LatchError
  \/ /\ Healthy
     /\ Present(mem, d)
     /\ Persist([mem EXCEPT !.orders[d] =
                   [@ EXCEPT !.state = "open", !.bound = TRUE]], ok)

\* Faulty variant: an ambiguous submission is taken for a failed one.
ReleaseOnUnknownOutcome(d, ok) ==
  \/ /\ ~Present(mem, d)
     /\ LatchError
  \/ /\ Present(mem, d)
     /\ Persist([mem EXCEPT !.orders[d] = NoOrder], ok)

\* No health guard here: a successful write clears an earlier latch.
MarkOrderOutcomeUnknown(d, ok) ==
  \/ /\ ~Present(mem, d)
     /\ LatchError
  \/ /\ Present(mem, d)
     /\ Persist([mem EXCEPT !.orders[d].state = "submit_outcome_unknown"], ok)

-----------------------------------------------------------------------------
(***************************************************************************)
(* Fills                                                                   *)
(***************************************************************************)

Terminal == {"none", "filled", "canceled", "expired"}
NoPrice  == 0    \* avg_price_cents is None

CeilDiv(n, s) == (n + s - 1) \div s

CumulativeCost(cum, price) == IF cum > 0 THEN cum * price ELSE 0

\* Faulty variant: only deltas are checked, the order's size is not.
FillDeltaConsistent(d, cum, price, terminal) ==
  LET deltaSize == cum - mem.orders[d].filled
      deltaCost == CumulativeCost(cum, price) - mem.orders[d].cost
  IN  /\ deltaSize >= 0
      /\ cum > 0 => price \in 1..99
      /\ deltaSize > 0 => deltaSize <= deltaCost /\ deltaCost <= 100 * deltaSize
      /\ deltaSize = 0 => deltaCost = 0

\* The checks of record_cumulative_fill, in the code's order.
FillConsistent(d, cum, price, terminal) ==
  LET deltaSize == cum - mem.orders[d].filled
      deltaCost == CumulativeCost(cum, price) - mem.orders[d].cost
  IN  /\ mem.orders[d].filled <= cum
      /\ cum <= SizeOf[d]
      /\ terminal = "filled" => cum = SizeOf[d]
      /\ cum > 0 => price \in 1..99
      /\ deltaSize > 0 => deltaSize <= deltaCost /\ deltaCost <= 100 * deltaSize
      /\ deltaSize = 0 => deltaCost = 0

\* The order's entry after the fill: dropped on a terminal state.
FilledOrder(o, cum, price, terminal) ==
  IF terminal # "none"
    THEN NoOrder
    ELSE [o EXCEPT !.filled = cum,
                   !.cost   = CumulativeCost(cum, price),
                   !.state  = IF cum > 0 THEN "partially_filled" ELSE @]

\* Faulty variant: the average is rounded down.
GrownRoundedDown(p, size, cost) ==
  IF size = 0
    THEN p
    ELSE [quantity |-> p.quantity + size,
          avg      |-> (p.quantity * p.avg + cost) \div (p.quantity + size)]

\* A position grown by `size` contracts that cost `cost`: the stored average
\* is rounded up.
Grown(p, size, cost) ==
  IF size = 0
    THEN p
    ELSE [quantity |-> p.quantity + size,
          avg      |-> CeilDiv(p.quantity * p.avg + cost, p.quantity + size)]

\* Faulty variant: the cumulative count is taken for an increment.
FilledCumulatively(d, cum, price, terminal) ==
  LET o == mem.orders[d]
  IN  [mem EXCEPT
        !.orders[d] = FilledOrder(o, cum, price, terminal),
        !.positions[KeyOf(d)] = Grown(@, cum, CumulativeCost(cum, price))]

Filled(d, cum, price, terminal) ==
  LET o == mem.orders[d]
  IN  [mem EXCEPT
        !.orders[d] = FilledOrder(o, cum, price, terminal),
        !.positions[KeyOf(d)] =
            Grown(@, cum - o.filled, CumulativeCost(cum, price) - o.cost)]

RecordCumulativeFill(d, id, cum, price, terminal, ok) ==
  \/ /\ ~Healthy
     /\ UNCHANGED trackerVars
  \/ /\ Healthy
     /\ ~Matches(d, id) \/ ~FillConsistent(d, cum, price, terminal)
     /\ LatchError
  \/ /\ Healthy
     /\ Matches(d, id)
     /\ FillConsistent(d, cum, price, terminal)
     /\ Persist(Filled(d, cum, price, terminal), ok)

-----------------------------------------------------------------------------
(***************************************************************************)
(* Removals.  Neither looks at the latch.                                  *)
(***************************************************************************)

RemoveOpenOrder(d, id, ok) ==
  Persist(IF Matches(d, id) THEN [mem EXCEPT !.orders[d] = NoOrder] ELSE mem, ok)

RemovePosition(k, ok) ==
  Persist([mem EXCEPT !.positions[k] = NoPosition], ok)

=============================================================================
