------------------------ MODULE ExposureTrackerLemmas ------------------------
(***************************************************************************)
(* Lemmas about the operators of ExposureTracker: the books that its       *)
(* operations load, store and write are well-formed.                       *)
(***************************************************************************)
EXTENDS ExposureTracker, TLAPS

-----------------------------------------------------------------------------
(***************************************************************************)
(* The empty book, the file's payload and a load.                          *)
(***************************************************************************)

\* What _payload writes of a well-formed book is a well-formed file.
LEMMA PayloadOK ==
  ASSUME NEW b, BookOK(b)
  PROVE  FileOK(Payload(b))
BY DEF BookOK, FileOK, Payload

\* The book of a fresh tracker is well formed.
LEMMA EmptyBookOK == BookOK(EmptyBook)
<1>1. NoOrder \in Order
  BY DEF NoOrder, Order, OrderState
<1>2. NoPosition \in Position
  BY DEF NoPosition, Position
<1>3. \A d \in Decision : SizeOf[d] \in Nat
  BY DecisionTerms
<1>4. \A d \in Decision : EmptyBook.orders[d].filled <= SizeOf[d]
  BY <1>3 DEF EmptyBook, NoOrder
<1> QED
  BY <1>1, <1>2, <1>4 DEF BookOK, EmptyBook, Books, Holdings

\* _load turns a well-formed file, readable or not, into a well-formed book.
LEMMA LoadOK ==
  ASSUME NEW f, FileOK(f)
  PROVE  BookOK(Load(f))
<1>1. CASE f.readable
  BY <1>1 DEF FileOK, BookOK, Load
<1>2. CASE ~f.readable
  <2>1. Load(f) = [EmptyBook EXCEPT !.err = TRUE]
    BY <1>2 DEF Load
  <2> QED
    BY <2>1, EmptyBookOK DEF BookOK, EmptyBook
<1> QED
  BY <1>1, <1>2

-----------------------------------------------------------------------------
(***************************************************************************)
(* The books that the operations write.                                    *)
(***************************************************************************)

\* Replacing one entry by a well-formed one keeps the book well formed.
LEMMA BookWithOrderOK ==
  ASSUME NEW b, BookOK(b), NEW d \in Decision, NEW o \in Order,
         o.filled <= SizeOf[d]
  PROVE  BookOK([b EXCEPT !.orders[d] = o])
BY DEF BookOK, Books

\* What a decision asks for.
LEMMA TermsNat ==
  ASSUME NEW d \in Decision
  PROVE  /\ SizeOf[d] \in Nat /\ SizeOf[d] > 0
         /\ LimitOf[d] \in Nat /\ LimitOf[d] > 0
BY DecisionTerms

\* An absent entry is a well-formed one.
LEMMA NoOrderOK ==
  ASSUME NEW d \in Decision
  PROVE  NoOrder \in Order /\ NoOrder.filled <= SizeOf[d]
BY DecisionTerms DEF NoOrder, Order, OrderState

\* A reservation keeps the book well formed.
LEMMA ReservedOK ==
  ASSUME BookOK(mem), NEW d \in Decision
  PROVE  BookOK(Reserved(d))
<1>1. NewOrder \in Order /\ NewOrder.filled <= SizeOf[d]
  BY DecisionTerms DEF NewOrder, Order, OrderState
<1>2. Reserved(d) \in [orders : Books, positions : Holdings,
                       history : SUBSET Decision, err : BOOLEAN]
  BY <1>1 DEF Reserved, BookOK, Books
<1>3. Reserved(d).orders = [mem.orders EXCEPT ![d] = NewOrder]
  BY DEF Reserved, BookOK
<1> QED
  BY <1>1, <1>2, <1>3 DEF BookOK, Books

\* A rounded-up average of natural numbers is a natural number.
LEMMA CeilDivNat ==
  ASSUME NEW n \in Nat, NEW s \in Nat \ {0}
  PROVE  CeilDiv(n, s) \in Nat
BY DEF CeilDiv

\* A quotient is short of its dividend by less than the divisor.
LEMMA DivBounds ==
  ASSUME NEW x \in Nat, NEW y \in Nat, y > 0
  PROVE  y * (x \div y) > x - y /\ (x \div y) \in Int
<1>1. (x \div y) \in Int
  OBVIOUS
<1>2. x = y * (x \div y) + (x % y) /\ 0 <= x % y /\ x % y < y
  OBVIOUS
<1> QED
  BY <1>1, <1>2

\* Multiplication distributes.
LEMMA Distribute ==
  ASSUME NEW x \in Int, NEW y \in Int, NEW z \in Int
  PROVE  (x + y) * z = x * z + y * z
OBVIOUS

\* A product of natural numbers.
LEMMA ProductNat ==
  ASSUME NEW x \in Nat, NEW y \in Nat
  PROVE  x * y \in Nat
OBVIOUS

\* An average rounded up loses nothing.
LEMMA CeilDivCovers ==
  ASSUME NEW n \in Nat, NEW s \in Nat, s > 0
  PROVE  s * CeilDiv(n, s) >= n
BY DivBounds DEF CeilDiv

\* A cumulative cost is a number of cents.
LEMMA CostNat ==
  ASSUME NEW cum \in Nat, NEW price \in Nat
  PROVE  CumulativeCost(cum, price) \in Nat
BY DEF CumulativeCost

\* A position grown by a fill is a position, and gains exactly the filled contracts.
LEMMA GrownPosition ==
  ASSUME NEW pos \in Position, NEW size \in Nat, NEW cost \in Nat
  PROVE  /\ Grown(pos, size, cost) \in Position
         /\ Grown(pos, size, cost).quantity = pos.quantity + size
<1>1. pos.quantity \in Nat /\ pos.avg \in Nat
  BY DEF Position
<1>2. CASE size = 0
  BY <1>1, <1>2 DEF Grown
<1>3. CASE size # 0
  <2>1. pos.quantity * pos.avg + cost \in Nat
    BY <1>1
  <2>2. pos.quantity + size \in Nat \ {0}
    BY <1>1, <1>3
  <2>3. CeilDiv(pos.quantity * pos.avg + cost, pos.quantity + size) \in Nat
    BY <2>1, <2>2, CeilDivNat
  <2> QED
    BY <1>3, <2>2, <2>3 DEF Grown, Position
<1> QED
  BY <1>2, <1>3

\* A position that has grown is worth what it was, and the cost, at least.
LEMMA GrownCovers ==
  ASSUME NEW p \in Position, NEW size \in Nat, NEW cost \in Nat, size = 0 => cost = 0
  PROVE  Grown(p, size, cost).quantity * Grown(p, size, cost).avg
           >= p.quantity * p.avg + cost
<1>1. p.quantity \in Nat /\ p.avg \in Nat
  BY DEF Position
<1>2. CASE size = 0
  BY <1>1, <1>2 DEF Grown
<1>3. CASE size # 0
  <2> DEFINE n == p.quantity * p.avg + cost
             s == p.quantity + size
  <2>1. n \in Nat /\ s \in Nat /\ s > 0
    BY <1>1, <1>3, ProductNat
  <2>2. Grown(p, size, cost) = [quantity |-> s, avg |-> CeilDiv(n, s)]
    BY <1>3 DEF Grown
  <2> HIDE DEF n, s
  <2>3. s * CeilDiv(n, s) >= n
    BY <2>1, CeilDivCovers
  <2> QED
    BY <2>2, <2>3 DEF n
<1> QED
  BY <1>2, <1>3

\* What a fill that passes FillConsistent does to the book.
LEMMA FilledOK ==
  ASSUME BookOK(mem), NEW d \in Decision, NEW cum \in Nat, NEW price \in Nat,
         NEW terminal \in Terminal, FillConsistent(d, cum, price, terminal)
  PROVE  /\ BookOK(Filled(d, cum, price, terminal))
         /\ Filled(d, cum, price, terminal).positions[KeyOf(d)].quantity
              = mem.positions[KeyOf(d)].quantity + (cum - mem.orders[d].filled)
         /\ \A k \in Key \ {KeyOf(d)} :
              Filled(d, cum, price, terminal).positions[k] = mem.positions[k]
         /\ Filled(d, cum, price, terminal).orders[d]
              = FilledOrder(mem.orders[d], cum, price, terminal)
<1> DEFINE o    == mem.orders[d]
           newO == FilledOrder(o, cum, price, terminal)
           size == cum - o.filled
           cost == CumulativeCost(cum, price) - o.cost
           pos  == mem.positions[KeyOf(d)]
<1>1. o \in Order /\ o.filled <= SizeOf[d] /\ SizeOf[d] \in Nat
  BY DecisionTerms DEF BookOK, Books
<1>2. KeyOf(d) \in Key /\ pos \in Position
  BY DEF Key, BookOK, Holdings
<1>3. CumulativeCost(cum, price) \in Nat
  BY CostNat
<1>4. size \in Nat
  BY <1>1 DEF FillConsistent, Order
<1>5. cost \in Nat
  <2>1. o.cost \in Nat /\ o.filled \in Nat
    BY <1>1 DEF Order
  <2>2. cost \in Int
    BY <1>3, <2>1
  <2>3. CASE size > 0
    BY <1>4, <2>2, <2>3 DEF FillConsistent
  <2>4. CASE size = 0
    BY <2>4 DEF FillConsistent
  <2> QED
    BY <1>4, <2>3, <2>4
<1>6. newO \in Order /\ newO.filled <= SizeOf[d]
  <2>1. CASE terminal # "none"
    BY <2>1, NoOrderOK DEF FilledOrder
  <2>2. CASE terminal = "none"
    <3>1. cum <= SizeOf[d]
      BY DEF FillConsistent
    <3> QED
      BY <1>1, <1>3, <2>2, <3>1 DEF FilledOrder, Order, OrderState
  <2> QED
    BY <2>1, <2>2
<1> DEFINE newP == Grown(pos, size, cost)
<1>7. newP \in Position /\ newP.quantity = pos.quantity + size
  BY <1>2, <1>4, <1>5, GrownPosition
<1>8. Filled(d, cum, price, terminal)
        = [mem EXCEPT !.orders[d] = newO, !.positions[KeyOf(d)] = newP]
  BY DEF Filled
<1> HIDE DEF newO, newP, size, cost
<1>9. Filled(d, cum, price, terminal)
        = [orders    |-> [mem.orders EXCEPT ![d] = newO],
           positions |-> [mem.positions EXCEPT ![KeyOf(d)] = newP],
           history   |-> mem.history, err |-> mem.err]
  BY <1>8 DEF BookOK
<1>10. BookOK(Filled(d, cum, price, terminal))
  BY <1>2, <1>6, <1>7, <1>9 DEF BookOK, Books, Holdings
<1>11. /\ Filled(d, cum, price, terminal).positions[KeyOf(d)] = newP
       /\ \A k \in Key \ {KeyOf(d)} :
             Filled(d, cum, price, terminal).positions[k] = mem.positions[k]
       /\ Filled(d, cum, price, terminal).orders[d] = newO
  BY <1>2, <1>9 DEF BookOK, Books, Holdings
<1> QED
  BY <1>7, <1>10, <1>11 DEF newO, size


\* Binding the broker's order id keeps the book well formed.
LEMMA ConfirmedOK ==
  ASSUME BookOK(mem), NEW d \in Decision, Present(mem, d)
  PROVE  BookOK([mem EXCEPT !.orders[d] =
                   [@ EXCEPT !.state = "open", !.bound = TRUE]])
<1> DEFINE o == [mem.orders[d] EXCEPT !.state = "open", !.bound = TRUE]
<1>1. o \in Order /\ o.filled <= SizeOf[d]
  BY DEF BookOK, Books, Order, OrderState
<1> HIDE DEF o
<1>2. BookOK([mem EXCEPT !.orders[d] = o])
  BY <1>1, BookWithOrderOK
<1> QED
  BY <1>2 DEF o

\* Marking an outcome unknown keeps the book well formed.
LEMMA UnknownOK ==
  ASSUME BookOK(mem), NEW d \in Decision, Present(mem, d)
  PROVE  BookOK([mem EXCEPT !.orders[d].state = "submit_outcome_unknown"])
BY DEF BookOK, Books, Order, OrderState

\* Dropping a position keeps the book well formed.
LEMMA PositionRemovedOK ==
  ASSUME BookOK(mem), NEW k \in Key
  PROVE  /\ BookOK([mem EXCEPT !.positions[k] = NoPosition])
         /\ \A j \in Key : [mem EXCEPT !.positions[k] = NoPosition].positions[j]
                              \in {mem.positions[j], NoPosition}
BY DEF BookOK, Holdings, Position, NoPosition

=============================================================================
