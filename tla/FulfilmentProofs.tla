-------------------------- MODULE FulfilmentProofs --------------------------
(***************************************************************************)
(* Proofs about Fulfilment, for any number of orders, handlers, failures   *)
(* and restarts; at the end, what WorkProofs says of the instances in      *)
(* MCWork.                                                                 *)
(***************************************************************************)
EXTENDS MCWork, TLAPS

(* The strengthening: what an order's row says of it, and what a handler     *)
(* knows of the order it works on.  The read and the claim of a rejection    *)
(* are two steps, and its claim does not ask for paid_at: that it refuses no *)
(* money rests on the order of the turns at the write lock, so IInv must     *)
(* remember whose turn came since the read.                                  *)

\* Recorded money is in a status that asks for service or for its return.
OrderInv(o) ==
    /\ order[o].paid => order[o].status \in
          {"paid", "delivered", "problem", "refund_pending", "completed", "refunded"}
    /\ order[o].status \in {"delivered", "completed"} => order[o].linked
    /\ order[o].status = "review" => order[o].receipt
    /\ order[o].status = "refunded" => order[o].reversed
    /\ order[o].status = "refund_pending" => order[o].paid

Fulfilling(t) == task[t].at \in {"apply", "pay", "failed"}
Storing(t) == task[t].at \in {"store", "unstored"}

TaskKnows(t) ==
    LET o == task[t].o IN
    /\ task[t] # Idle => order[o].status # "none"
    /\ Fulfilling(t) => order[o].paid
    /\ Storing(t) \/ task[t].at = "deliver" => order[o].linked

\* A rejection read that nothing was paid.  If the money comes before its claim,
\* whoever recorded it, or took the order up since, has had its turn: nobody can
\* bring the order into a status that the claim names.
RejectionIsLate(t) ==
    LET o == task[t].o IN
    task[t].at = "reject" /\ order[o].paid =>
        /\ order[o].status \in {"paid", "refund_pending", "refunded"}
        /\ ~order[o].linked
        /\ \A u \in Tasks : Fulfilling(u) /\ task[u].o = o => u \in late[t]

\* Until a restart, whoever claimed the delivery is about to store the details.
DeliveryUnderWay(o) ==
    order[o].status = "delivered" /\ restarts = 0 =>
        details[o] # "none" \/ \E t \in Tasks : Storing(t) /\ task[t].o = o

IInv ==
    /\ TypeOK
    /\ \A o \in Orders : OrderInv(o) /\ DeliveryUnderWay(o)
    /\ \A t \in Tasks : TaskKnows(t) /\ RejectionIsLate(t)

-----------------------------------------------------------------------------
(* How the helpers of the model move rows and handlers *)

Status == {"none"} \cup Open \cup Final
At == {"confirm", "apply", "pay", "failed", "reject", "cancel", "revoke",
       "deliver", "store", "unstored"}

Types ==
    /\ order \in [Orders -> Row]
    /\ access \in [Orders -> {"none", "active", "closed"}]
    /\ details \in [Orders -> {"none", "stored", "wiped"}]
    /\ task \in [Tasks -> {Idle} \cup Handler]
    /\ late \in [Tasks -> SUBSET Tasks]
    /\ faults \in 0..MaxFaults /\ restarts \in 0..MaxRestarts

\* Only the row of o changes, and of it the status, and paid_at with it.
Moved(o, new) ==
    /\ order' \in [Orders -> Row]
    /\ order'[o].status = new
    /\ order'[o].paid <=> order[o].paid \/ new = "paid"
    /\ order'[o].linked = order[o].linked
    /\ order'[o].receipt = order[o].receipt
    /\ order'[o].reversed = order[o].reversed
    /\ \A p \in Orders \ {o} : order'[p] = order[p]

LEMMA ClaimMoves ==
    ASSUME Types, NEW o \in Orders, NEW from, NEW new \in Status, Claims(o, from, new)
    PROVE  order[o].status \in from /\ Moved(o, new)
  <1>1. /\ order[o].status \in from
        /\ order' = [order EXCEPT ![o].status = new, ![o].paid = @ \/ new = "paid"]
    BY DEF Claims
  <1>2. order[o] \in Row /\ \A p \in Orders \ {o} : order'[p] = order[p]
    BY <1>1 DEF Types
  <1>3. order'[o] = [order[o] EXCEPT !.status = new, !.paid = @ \/ new = "paid"]
    BY <1>1 DEF Types
  <1>4. /\ order'[o] \in Row
        /\ order'[o].status = new
        /\ order'[o].paid <=> order[o].paid \/ new = "paid"
        /\ order'[o].linked = order[o].linked
        /\ order'[o].receipt = order[o].receipt
        /\ order'[o].reversed = order[o].reversed
    BY <1>2, <1>3 DEF Row, Status
  <1>5. order' \in [Orders -> Row]
    BY <1>1, <1>2, <1>4 DEF Types
  <1>6. QED
    BY <1>1, <1>2, <1>4, <1>5 DEF Moved

LEMMA GoesOn ==
    ASSUME Types, NEW t \in Tasks, NEW at \in At, task[t].at # "idle", Goes(t, at)
    PROVE  /\ task' \in [Tasks -> {Idle} \cup Handler]
           /\ task'[t].at = at /\ task'[t].o = task[t].o /\ task'[t] # Idle
           /\ \A u \in Tasks \ {t} : task'[u] = task[u]
  BY DEF Types, Goes, Idle, Handler, At

LEMMA EndsThere ==
    ASSUME Types, NEW t \in Tasks, Ends(t)
    PROVE  /\ task' \in [Tasks -> {Idle} \cup Handler]
           /\ task'[t] = Idle /\ \A u \in Tasks \ {t} : task'[u] = task[u]
  BY DEF Types, Ends

LEMMA ReadsFirst ==
    ASSUME Types, NEW t \in Tasks, NEW o \in Orders, NEW at \in At, Reads(t, o, at)
    PROVE  /\ task[t] = Idle /\ order[o].status # "none"
           /\ task' \in [Tasks -> {Idle} \cup Handler]
           /\ task'[t].at = at /\ task'[t].o = o /\ task'[t].saw = order[o]
           /\ \A u \in Tasks \ {t} : task'[u] = task[u]
  BY DEF Types, Reads, Idle, Handler, At

LEMMA TurnMoves ==
    ASSUME Types, NEW t \in Tasks, Turn(t)
    PROVE  /\ late' \in [Tasks -> SUBSET Tasks]
           /\ \A u \in Tasks \ {t} :
                 AtTheLock(u) => t \notin late[u] /\ late'[u] = late[u] \cup {t}
  BY DEF Types, Turn

LEMMA Working ==
    ASSUME Types, NEW t \in Tasks, task[t].at # "idle"
    PROVE  task[t] # Idle /\ task[t].o \in Orders /\ task[t].at \in At
  BY DEF Types, Idle, Handler, At

-----------------------------------------------------------------------------
(* What a step does to the row of an order *)

SameMoney(o) == order'[o].paid = order[o].paid /\ order'[o].linked = order[o].linked
SameMarks(o) == order'[o].receipt = order[o].receipt /\ order'[o].reversed = order[o].reversed

\* Whoever claims the delivery is about to store the details.
StoredNext(o) == \E t \in Tasks : task'[t].at = "store" /\ task'[t].o = o

\* The status moves, and paid_at stays.
Moves(o) ==
    LET from == order[o].status
        to == order'[o].status IN
    /\ SameMoney(o)
    /\ \/ SameMarks(o) /\ from = "none" /\ to = "receipt"
       \/ SameMarks(o) /\ from = "receipt" /\ to = "expired"
       \/ SameMarks(o) /\ from = "review" /\ to = "problem"
       \/ SameMarks(o) /\ ~order[o].paid /\ from \in Open /\ to \in {"rejected", "cancelled"}
       \/ SameMarks(o) /\ order[o].linked
            /\ from \in {"paid", "delivered", "completed", "problem"}
            /\ \/ to \in {"problem", "completed"}
               \/ to = "delivered" /\ StoredNext(o)
       \/ SameMarks(o) /\ order[o].paid /\ to = "refund_pending"
            /\ from \in {"paid", "delivered", "completed", "problem"}
       \/ SameMarks(o) /\ order[o].reversed /\ from = "refund_pending" /\ to = "refunded"
       \/ from \in {"receipt", "expired"} /\ to = "review" /\ order'[o].receipt
            /\ order'[o].reversed = order[o].reversed
       \/ from = to /\ order'[o].receipt = order[o].receipt /\ order'[o].reversed

\* A handler that fulfils the order has the write lock.
Fulfils(o) == \E t \in Tasks : Fulfilling(t) /\ task[t].o = o /\ Turn(t)

RowStep(o) ==
    \/ order'[o] = order[o]
    \/ Moves(o)
    \/ /\ order[o].status \in {"none", "review", "problem"}
       /\ order'[o].status = "paid" /\ order'[o].paid
       /\ order'[o].linked = order[o].linked /\ SameMarks(o)
    \/ /\ order[o].paid /\ order'[o].status = order[o].status
       /\ order'[o].paid /\ order'[o].linked /\ SameMarks(o) /\ Fulfils(o)
    \/ /\ order[o].status = "paid" /\ order'[o].status = "problem"
       /\ SameMoney(o) /\ SameMarks(o) /\ Fulfils(o)

\* revoke_payment marks the order.
LEMMA ReversedRow ==
    ASSUME Types, NEW p \in Orders, order' = [order EXCEPT ![p].reversed = TRUE], NEW o \in Orders
    PROVE  order' \in [Orders -> Row] /\ RowStep(o)
  <1>a. /\ order[p] \in Row /\ order'[p] = [order[p] EXCEPT !.reversed = TRUE]
        /\ \A q \in Orders \ {p} : order'[q] = order[q]
    BY DEF Types
  <1>b. PICK v : v = order'[p]
    OBVIOUS
  <1>c. /\ v \in Row
        /\ v.status = order[p].status /\ v.paid = order[p].paid
        /\ v.linked = order[p].linked /\ v.receipt = order[p].receipt
        /\ v.reversed
    BY ONLY <1>a, <1>b DEF Row
  <1>1. order' \in [Orders -> Row]
    BY <1>a, <1>b, <1>c DEF Types
  <1>2. QED
    BY <1>1, <1>a, <1>b, <1>c DEF RowStep, Moves, SameMoney

LEMMA ConfirmingRow ==
    ASSUME IInv, Types, NEW t \in Tasks, NEW o \in Orders,
           \/ \E p \in Orders : ReadConfirm(t, p) \/ StarsPaid(t, p)
           \/ ConfirmTransfer(t) \/ ApplyPayment(t) \/ ApplyFails(t) \/ ParkFailed(t)
    PROVE  order' \in [Orders -> Row] /\ RowStep(o)
  <1>1. CASE order' = order
    BY <1>1 DEF Types, RowStep
  <1>2. ASSUME NEW p \in Orders, StarsPaid(t, p)
        PROVE  order' \in [Orders -> Row] /\ RowStep(o)
    <2>1. /\ order[p] \in Row /\ \A q \in Orders \ {p} : order'[q] = order[q]
          /\ order'[p] = [order[p] EXCEPT !.status = "paid", !.paid = TRUE]
          /\ order[p].status = "none"
      BY <1>2 DEF StarsPaid, Types
    <2>2. order' = [order EXCEPT ![p] = [order[p] EXCEPT !.status = "paid", !.paid = TRUE]]
      BY <1>2 DEF StarsPaid
    <2>3. /\ order'[p] \in Row /\ order'[p].status = "paid" /\ order'[p].paid
          /\ order'[p].linked = order[p].linked
          /\ order'[p].receipt = order[p].receipt /\ order'[p].reversed = order[p].reversed
      BY <2>1 DEF Row, Open
    <2>4. order' \in [Orders -> Row]
      BY <2>1, <2>2, <2>3 DEF Types
    <2>5. QED
      BY <2>1, <2>3, <2>4 DEF RowStep, SameMarks
  <1>3. CASE ConfirmTransfer(t) /\ order' # order
    <2>1. task[t].o \in Orders
      BY <1>3, Working DEF ConfirmTransfer, Mine
    <2>2. PICK from \in SUBSET {"review", "problem"} : Claims(task[t].o, from, "paid")
      BY <1>3 DEF ConfirmTransfer
    <2>3. order[task[t].o].status \in {"review", "problem"} /\ Moved(task[t].o, "paid")
      BY <2>1, <2>2, ClaimMoves DEF Status, Open
    <2>4. QED
      BY <2>1, <2>3 DEF Moved, RowStep, SameMarks
  <1>4. CASE ApplyPayment(t) /\ order' # order
    <2>1. task[t].o \in Orders /\ Fulfilling(t) /\ Turn(t)
      BY <1>4, Working DEF ApplyPayment, Fulfilling
    <2>2. /\ order[task[t].o].paid
          /\ order' = [order EXCEPT ![task[t].o].linked = TRUE]
      BY <1>4 DEF ApplyPayment, Eligible
    <2> DEFINE p == task[t].o
    <2>3. /\ order[p] \in Row /\ order'[p] = [order[p] EXCEPT !.linked = TRUE]
          /\ \A q \in Orders \ {p} : order'[q] = order[q]
      BY <2>1, <2>2 DEF Types
    <2>4. Fulfils(p)
      BY <2>1 DEF Fulfils
    <2>5. order' = [order EXCEPT ![p] = order'[p]]
      BY <2>1, <2>2, <2>3 DEF Types
    <2> HIDE DEF p
    <2>6. /\ order'[p] \in Row
          /\ order'[p].status = order[p].status
          /\ order'[p].paid = order[p].paid
          /\ order'[p].linked
          /\ order'[p].receipt = order[p].receipt
          /\ order'[p].reversed = order[p].reversed
      BY <2>3 DEF Row
    <2>7. order' \in [Orders -> Row]
      BY <2>5, <2>6 DEF Types
    <2>8. order[p].paid
      BY <2>2 DEF p
    <2>9. QED
      BY <2>3, <2>4, <2>6, <2>7, <2>8 DEF RowStep, SameMarks
  <1>5. CASE ParkFailed(t) /\ order' # order
    <2>1. task[t].o \in Orders /\ Fulfilling(t) /\ Turn(t)
      BY <1>5, Working DEF ParkFailed, Fulfilling, Mine
    <2>2. Claims(task[t].o, {"paid"}, "problem")
      BY <1>5 DEF ParkFailed
    <2>3. order[task[t].o].status = "paid" /\ Moved(task[t].o, "problem")
      BY <2>1, <2>2, ClaimMoves DEF Status, Open
    <2>4. Fulfils(task[t].o)
      BY <2>1 DEF Fulfils
    <2>5. QED
      BY <2>1, <2>3, <2>4 DEF Moved, RowStep, SameMarks, SameMoney, Types, Row
  <1>6. QED
    BY <1>1, <1>2, <1>3, <1>4, <1>5 DEF ReadConfirm, ApplyFails

LEMMA RefusingRow ==
    ASSUME IInv, Types, NEW t \in Tasks, NEW o \in Orders,
           \/ \E p \in Orders : ReadReject(t, p) \/ ReadCancel(t, p)
           \/ RejectTransfer(t) \/ CancelOrder(t) \/ RevokeRefused(t)
    PROVE  order' \in [Orders -> Row] /\ RowStep(o)
  <1>1. CASE order' = order
    BY <1>1 DEF Types, RowStep
  <1>2. ASSUME NEW new \in {"rejected", "cancelled"}, NEW from \in SUBSET Open,
               task[t].o \in Orders, ~order[task[t].o].paid, Claims(task[t].o, from, new)
        PROVE  order' \in [Orders -> Row] /\ RowStep(o)
    <2>1. order[task[t].o].status \in Open /\ Moved(task[t].o, new)
      BY <1>2, ClaimMoves DEF Status, Final, Reversed
    <2>2. order'[task[t].o].paid = order[task[t].o].paid
      BY <1>2, <2>1 DEF Moved, Types, Row
    <2>3. QED
      BY <1>2, <2>1, <2>2 DEF Moved, RowStep, Moves, SameMarks, SameMoney
  <1>3. CASE RejectTransfer(t) /\ order' # order
    <2>1. task[t].o \in Orders /\ task[t].at = "reject"
      BY <1>3, Working DEF RejectTransfer, Mine
    <2>2. Claims(task[t].o, {"review", "problem"}, "rejected")
      BY <1>3 DEF RejectTransfer
    <2>3. ~order[task[t].o].paid
      BY <2>1, <2>2 DEF IInv, RejectionIsLate, Claims
    <2>4. QED
      BY <1>2, <2>1, <2>2, <2>3 DEF Open
  <1>4. CASE CancelOrder(t) /\ order' # order
    <2>1. task[t].o \in Orders
      BY <1>4, Working DEF CancelOrder, Mine
    <2>2. ~order[task[t].o].paid /\ Claims(task[t].o, Open, "cancelled")
      BY <1>4 DEF CancelOrder
    <2>3. QED
      BY <1>2, <2>1, <2>2
  <1>5. CASE RevokeRefused(t) /\ order' # order
    <2>1. task[t].o \in Orders
      BY <1>5, Working DEF RevokeRefused, Mine
    <2>2. order' = [order EXCEPT ![task[t].o].reversed = TRUE]
      BY <1>5 DEF RevokeRefused
    <2>3. QED
      BY <2>1, <2>2, ReversedRow
  <1>6. QED
    BY <1>1, <1>3, <1>4, <1>5 DEF ReadReject, ReadCancel

LEMMA DeliveringRow ==
    ASSUME IInv, Types, NEW o \in Orders,
           \/ \E t \in Tasks :
                 \/ \E p \in Orders : ReadDeliver(t, p)
                 \/ Deliver(t) \/ StoreDetails(t) \/ ParkUnstored(t)
           \/ \E p \in Orders : CompleteOrder(p) \/ ConfirmOrder(p) \/ ReportProblem(p)
    PROVE  order' \in [Orders -> Row] /\ RowStep(o)
  <1>1. CASE order' = order
    BY <1>1 DEF Types, RowStep
  <1>2. ASSUME NEW p \in Orders, order[p].linked,
               NEW new \in {"delivered", "problem", "completed"},
               NEW from \in SUBSET {"paid", "delivered", "completed", "problem"},
               Claims(p, from, new), new = "delivered" => StoredNext(p)
        PROVE  order' \in [Orders -> Row] /\ RowStep(o)
    <2>1. /\ order[p].status \in {"paid", "delivered", "completed", "problem"}
          /\ Moved(p, new)
      BY <1>2, ClaimMoves DEF Status, Open, Final, Reversed
    <2>2. order'[p].paid = order[p].paid
      BY <1>2, <2>1 DEF Moved, Types, Row
    <2>3. Moves(p)
      BY <1>2, <2>1, <2>2 DEF Moved, Moves, SameMarks, SameMoney
    <2>4. QED
      BY <2>1, <2>3 DEF Moved, RowStep
  <1>3. ASSUME NEW t \in Tasks, Deliver(t) \/ ParkUnstored(t), order' # order
        PROVE  order' \in [Orders -> Row] /\ RowStep(o)
    <2>1. task[t].o \in Orders /\ order[task[t].o].linked
      BY <1>3, Working DEF Deliver, ParkUnstored, Mine, IInv, TaskKnows, Storing
    <2>2. CASE Deliver(t)
      <3>1. /\ Claims(task[t].o, {"paid", "delivered", "problem"}, "delivered")
            /\ Goes(t, "store") /\ task[t].at # "idle"
        BY <1>3, <2>2 DEF Deliver, Mine
      <3>2. StoredNext(task[t].o)
        BY <3>1, GoesOn DEF StoredNext, At
      <3>3. QED
        BY <1>2, <2>1, <3>1, <3>2
    <2>3. CASE ParkUnstored(t)
      <3>1. Claims(task[t].o, {"delivered"}, "problem")
        BY <1>3, <2>3 DEF ParkUnstored
      <3>2. QED
        BY <1>2, <2>1, <3>1
    <2>4. QED
      BY <1>3, <2>2, <2>3
  <1>4. ASSUME NEW p \in Orders, CompleteOrder(p) \/ ConfirmOrder(p) \/ ReportProblem(p)
        PROVE  order' \in [Orders -> Row] /\ RowStep(o)
    BY <1>2, <1>4 DEF CompleteOrder, ConfirmOrder, ReportProblem, Fulfilled
  <1>5. QED
    BY <1>1, <1>3, <1>4 DEF ReadDeliver, StoreDetails

LEMMA OthersRow ==
    ASSUME IInv, Types, NEW o \in Orders, Others
    PROVE  order' \in [Orders -> Row] /\ RowStep(o)
  <1>1. CASE order' = order
    BY <1>1 DEF Types, RowStep
  <1>2. ASSUME NEW p \in Orders, NEW from \in SUBSET Status, NEW new \in Status \ {"paid"},
               Claims(p, from, new),
               \/ from = {"receipt"} /\ new = "expired"
               \/ from = {"review"} /\ new = "problem"
               \/ from = {"receipt"} /\ new = "cancelled" /\ ~order[p].paid
               \/ /\ from = {"paid", "delivered", "completed", "problem"}
                  /\ new = "refund_pending" /\ order[p].paid
               \/ from = {"refund_pending"} /\ new = "refunded" /\ order[p].reversed
        PROVE  order' \in [Orders -> Row] /\ RowStep(o)
    <2>1. order[p].status \in from /\ Moved(p, new)
      BY <1>2, ClaimMoves
    <2>2. SameMoney(p) /\ SameMarks(p) /\ order'[p].status = new
      BY <1>2, <2>1 DEF Moved, Types, Row, SameMoney, SameMarks
    <2>3. Moves(p)
      BY <1>2, <2>1, <2>2 DEF Moves, Open
    <2>4. QED
      BY <2>1, <2>3 DEF Moved, RowStep
  <1>3. ASSUME NEW p \in Orders, OpenTransfer(p) \/ AttachReceipt(p)
        PROVE  order' \in [Orders -> Row] /\ RowStep(o)
    <2>1. /\ order' \in [Orders -> Row]
          /\ SameMoney(p) /\ order'[p].reversed = order[p].reversed
          /\ \/ /\ order[p].status = "none" /\ order'[p].status = "receipt"
                /\ order'[p].receipt = order[p].receipt
             \/ /\ order[p].status \in {"receipt", "expired"} /\ order'[p].status = "review"
                /\ order'[p].receipt
          /\ \A q \in Orders \ {p} : order'[q] = order[q]
      BY <1>3 DEF OpenTransfer, AttachReceipt, Types, Row, SameMoney, Open
    <2>2. QED
      BY <2>1 DEF RowStep, Moves, SameMarks
  <1>4. ASSUME NEW p \in Orders, CloseStaleOrder(p) \/ FlagStaleReview(p) \/ CustomerCancel(p)
        PROVE  order' \in [Orders -> Row] /\ RowStep(o)
    <2>0. "expired" \in Status /\ "problem" \in Status /\ "cancelled" \in Status
          /\ "receipt" \in Status /\ "review" \in Status
      BY DEF Status, Open, Final, Reversed
    <2>1. CASE CloseStaleOrder(p)
      BY <1>2, <2>0, <2>1 DEF CloseStaleOrder
    <2>2. CASE FlagStaleReview(p)
      BY <1>2, <2>0, <2>2 DEF FlagStaleReview
    <2>3. CASE CustomerCancel(p)
      <3>1. order[p].status = "receipt" /\ Claims(p, {"receipt"}, "cancelled")
        BY <2>3 DEF CustomerCancel, Claims
      <3>2. ~order[p].paid
        BY <3>1 DEF IInv, OrderInv
      <3>3. QED
        BY <1>2, <2>0, <3>1, <3>2
    <2>4. QED
      BY <1>4, <2>1, <2>2, <2>3
  <1>5. ASSUME NEW p \in Orders, RefundOrder(p) \/ CloseRefunded(p)
        PROVE  order' \in [Orders -> Row] /\ RowStep(o)
    BY <1>2, <1>5 DEF RefundOrder, CloseRefunded, Status, Open, Final, Reversed
  <1>6. ASSUME NEW p \in Orders, RevokeRefunded(p)
        PROVE  order' \in [Orders -> Row] /\ RowStep(o)
    BY <1>6, ReversedRow DEF RevokeRefunded
  <1>7. QED
    BY <1>1, <1>3, <1>4, <1>5, <1>6 DEF Others, EndAccess, SetDetails

LEMMA Rows ==
    ASSUME IInv, Types, Next, NEW o \in Orders
    PROVE  order' \in [Orders -> Row] /\ RowStep(o)
  <1>1. CASE Restart
    BY <1>1 DEF Restart, Types, RowStep
  <1>2. QED
    BY <1>1, ConfirmingRow, RefusingRow, DeliveringRow, OthersRow
       DEF Next, Confirming, Refusing, Delivering

-----------------------------------------------------------------------------
(* What a step does to a handler *)

\* It begins with an order it read, keeps it, comes to a place only from the one
\* before, and ends.
Begins(t) ==
    LET o == task'[t].o
        to == task'[t].at IN
    /\ task[t] = Idle /\ task'[t] # Idle /\ o \in Orders
    /\ \/ to = "pay" /\ order'[o].paid /\ order'[o].status # "none"
       \/ /\ order[o].status # "none" /\ UNCHANGED order
          /\ \/ to = "confirm"
             \/ to \in {"reject", "cancel"} /\ ~order[o].paid
             \/ to = "apply" /\ order[o].paid
             \/ to = "deliver" /\ order[o].linked

Continues(t) ==
    LET from == task[t].at
        to == task'[t].at IN
    /\ task[t] # Idle /\ task'[t] # Idle /\ task'[t].o = task[t].o
    /\ \/ from = "confirm" /\ to = "apply" /\ order'[task[t].o].paid
       \/ from = "apply" /\ to = "failed"
       \/ from \in {"reject", "cancel"} /\ to = "revoke"
       \/ from = "deliver" /\ to = "store"
       \/ from = "store" /\ to = "unstored"

Finishes(t) ==
    /\ task[t] # Idle /\ task'[t] = Idle
    /\ Storing(t) => \/ details'[task[t].o] # "none"
                     \/ order'[task[t].o].status # "delivered"

Acts(t) ==
    /\ Begins(t) \/ Continues(t) \/ Finishes(t)
    /\ Turn(t)
    /\ \A u \in Tasks \ {t} : task'[u] = task[u]

TaskType == task' \in [Tasks -> {Idle} \cup Handler]

LEMMA ConfirmingActs ==
    ASSUME IInv, Types, NEW t \in Tasks,
           \/ \E p \in Orders : ReadConfirm(t, p) \/ StarsPaid(t, p)
           \/ ConfirmTransfer(t) \/ ApplyPayment(t) \/ ApplyFails(t) \/ ParkFailed(t)
    PROVE  TaskType /\ Acts(t)
  <1>0. Turn(t)
    BY DEF ReadConfirm, StarsPaid, ConfirmTransfer, ApplyPayment, ApplyFails, ParkFailed
  <1>1. ASSUME NEW p \in Orders, ReadConfirm(t, p)
        PROVE  TaskType /\ Acts(t)
    <2>1. PICK at \in {"confirm", "apply"} :
            Reads(t, p, at) /\ UNCHANGED order /\ (at = "apply" => order[p].paid)
      BY <1>1 DEF ReadConfirm, Recovering
    <2>2. QED
      BY <1>0, <2>1, ReadsFirst DEF Acts, Begins, TaskType, At, Idle
  <1>2. ASSUME NEW p \in Orders, StarsPaid(t, p)
        PROVE  TaskType /\ Acts(t)
    <2>1. /\ task[t] = Idle
          /\ task' = [task EXCEPT ![t] = [at |-> "pay", o |-> p, saw |-> NoRow]]
          /\ order' = [order EXCEPT ![p].status = "paid", ![p].paid = TRUE]
      BY <1>2 DEF StarsPaid
    <2>2. [at |-> "pay", o |-> p, saw |-> NoRow] \in Handler
      BY DEF Handler, Row, NoRow
    <2>3. order'[p].paid /\ order'[p].status # "none"
      BY <2>1 DEF Types, Row
    <2>4. /\ TaskType /\ task'[t] = [at |-> "pay", o |-> p, saw |-> NoRow]
          /\ \A u \in Tasks \ {t} : task'[u] = task[u]
      BY <2>1, <2>2 DEF TaskType, Types
    <2>5. task[t] = Idle /\ task'[t].at = "pay" /\ task'[t].o = p /\ task'[t] # Idle
      BY <2>1, <2>4 DEF Idle
    <2>6. QED
      BY <1>0, <2>3, <2>4, <2>5 DEF Acts, Begins
  <1>3. ASSUME ConfirmTransfer(t) \/ ApplyPayment(t) \/ ApplyFails(t) \/ ParkFailed(t), Ends(t)
        PROVE  TaskType /\ Acts(t)
    <2>1. task[t].at \in {"confirm", "apply", "pay", "failed"}
      BY <1>3 DEF ConfirmTransfer, ApplyPayment, ApplyFails, ParkFailed, Mine
    <2>2. QED
      BY <1>0, <1>3, <2>1, EndsThere DEF Acts, Finishes, Storing, TaskType, Idle
  <1>4. CASE ConfirmTransfer(t) /\ Goes(t, "apply")
    <2>1. task[t].at = "confirm" /\ task[t].o \in Orders
      BY <1>4, Working DEF ConfirmTransfer, Mine
    <2>2. order'[task[t].o].paid
      <3>1. PICK from : Claims(task[t].o, from, "paid")
        BY <1>4, <2>1 DEF ConfirmTransfer, Goes, Ends, Types, Idle
      <3>2. QED
        BY <2>1, <3>1, ClaimMoves DEF Moved, Status, Open
    <2>3. QED
      BY <1>0, <1>4, <2>1, <2>2, GoesOn, Working DEF Acts, Continues, TaskType, At
  <1>5. CASE ApplyFails(t) /\ Mine(t, "apply")
    <2>1. Goes(t, "failed") /\ task[t].at = "apply"
      BY <1>5 DEF ApplyFails, Mine
    <2>2. QED
      BY <1>0, <2>1, GoesOn, Working DEF Acts, Continues, TaskType, At
  <1>6. QED
    BY <1>1, <1>2, <1>3, <1>4, <1>5
       DEF ConfirmTransfer, ApplyPayment, ApplyFails, ParkFailed

LEMMA RefusingActs ==
    ASSUME IInv, Types, NEW t \in Tasks,
           \/ \E p \in Orders : ReadReject(t, p) \/ ReadCancel(t, p)
           \/ RejectTransfer(t) \/ CancelOrder(t) \/ RevokeRefused(t)
    PROVE  TaskType /\ Acts(t)
  <1>0. Turn(t)
    BY DEF ReadReject, ReadCancel, RejectTransfer, CancelOrder, RevokeRefused
  <1>1. ASSUME NEW p \in Orders, ReadReject(t, p) \/ ReadCancel(t, p)
        PROVE  TaskType /\ Acts(t)
    <2>1. PICK at \in {"reject", "cancel"} :
            Reads(t, p, at) /\ UNCHANGED order /\ ~order[p].paid
      BY <1>1 DEF ReadReject, ReadCancel
    <2>2. QED
      BY <1>0, <2>1, ReadsFirst DEF Acts, Begins, TaskType, At, Idle
  <1>2. ASSUME RejectTransfer(t) \/ CancelOrder(t) \/ RevokeRefused(t), Ends(t)
        PROVE  TaskType /\ Acts(t)
    <2>1. task[t].at \in {"reject", "cancel", "revoke"}
      BY <1>2 DEF RejectTransfer, CancelOrder, RevokeRefused, Mine
    <2>2. QED
      BY <1>0, <1>2, <2>1, EndsThere DEF Acts, Finishes, Storing, TaskType, Idle
  <1>3. ASSUME RejectTransfer(t) \/ CancelOrder(t), Goes(t, "revoke")
        PROVE  TaskType /\ Acts(t)
    <2>1. task[t].at \in {"reject", "cancel"}
      BY <1>3 DEF RejectTransfer, CancelOrder, Mine
    <2>2. QED
      BY <1>0, <1>3, <2>1, GoesOn, Working DEF Acts, Continues, TaskType, At
  <1>4. QED
    BY <1>1, <1>2, <1>3 DEF RejectTransfer, CancelOrder, RevokeRefused

LEMMA DeliveringActs ==
    ASSUME IInv, Types, NEW t \in Tasks,
           \/ \E p \in Orders : ReadDeliver(t, p)
           \/ Deliver(t) \/ StoreDetails(t) \/ ParkUnstored(t)
    PROVE  TaskType /\ Acts(t)
  <1>0. Turn(t)
    BY DEF ReadDeliver, Deliver, StoreDetails, ParkUnstored
  <1>1. ASSUME NEW p \in Orders, ReadDeliver(t, p)
        PROVE  TaskType /\ Acts(t)
    <2>1. Reads(t, p, "deliver") /\ UNCHANGED order /\ order[p].linked
      BY <1>1 DEF ReadDeliver, Fulfilled
    <2>2. QED
      BY <1>0, <2>1, ReadsFirst DEF Acts, Begins, TaskType, At, Idle
  <1>2. CASE Deliver(t)
    <2>1. task[t].at = "deliver" /\ (Goes(t, "store") \/ Ends(t))
      BY <1>2 DEF Deliver, Mine
    <2>2. CASE Goes(t, "store")
      BY <1>0, <2>1, <2>2, GoesOn, Working DEF Acts, Continues, TaskType, At
    <2>3. CASE Ends(t)
      BY <1>0, <2>1, <2>3, EndsThere DEF Acts, Finishes, Storing, TaskType, Idle
    <2>4. QED
      BY <2>1, <2>2, <2>3
  <1>3. CASE StoreDetails(t)
    <2>1. task[t].at = "store" /\ task[t].o \in Orders
      BY <1>3, Working DEF StoreDetails, Mine
    <2>2. CASE Goes(t, "unstored")
      BY <1>0, <2>1, <2>2, GoesOn, Working DEF Acts, Continues, TaskType, At
    <2>3. CASE details' = [details EXCEPT ![task[t].o] = "stored"] /\ Ends(t)
      <3>1. details'[task[t].o] = "stored"
        BY <2>1, <2>3 DEF Types
      <3>2. QED
        BY <1>0, <2>1, <2>3, <3>1, EndsThere, Working DEF Acts, Finishes, TaskType
    <2>4. QED
      BY <1>3, <2>2, <2>3 DEF StoreDetails
  <1>4. CASE ParkUnstored(t)
    <2>1. task[t].at = "unstored" /\ task[t].o \in Orders /\ Ends(t)
      BY <1>4, Working DEF ParkUnstored, Mine
    <2>2. order'[task[t].o].status # "delivered"
      <3>1. CASE Claims(task[t].o, {"delivered"}, "problem")
        BY <2>1, <3>1, ClaimMoves DEF Moved, Status, Open
      <3>2. QED
        BY <1>4, <3>1 DEF ParkUnstored
    <2>3. QED
      BY <1>0, <2>1, <2>2, EndsThere, Working DEF Acts, Finishes, TaskType
  <1>5. QED
    BY <1>1, <1>2, <1>3, <1>4

\* Nobody acts, the process stops, or one handler acts and takes its turn.
LEMMA Handlers ==
    ASSUME IInv, Types, Next
    PROVE  /\ TaskType
           /\ UNCHANGED <<task, late>> \/ Restart \/ \E t \in Tasks : Acts(t)
  <1>1. CASE Restart
    BY <1>1 DEF Restart, TaskType
  <1>2. CASE UNCHANGED <<task, late>>
    BY <1>2 DEF Types, TaskType
  <1>3. ASSUME NEW o \in Orders,
               \/ CompleteOrder(o) \/ ConfirmOrder(o) \/ ReportProblem(o)
               \/ OpenTransfer(o) \/ AttachReceipt(o) \/ CloseStaleOrder(o) \/ FlagStaleReview(o)
               \/ CustomerCancel(o) \/ RefundOrder(o) \/ RevokeRefunded(o) \/ CloseRefunded(o)
               \/ EndAccess(o) \/ SetDetails(o)
        PROVE  UNCHANGED <<task, late>>
    BY <1>3 DEF CompleteOrder, ConfirmOrder, ReportProblem, OpenTransfer, AttachReceipt,
         CloseStaleOrder, FlagStaleReview, CustomerCancel, RefundOrder, RevokeRefunded,
         CloseRefunded, EndAccess, SetDetails
  <1>4. QED
    BY <1>1, <1>2, <1>3, ConfirmingActs, RefusingActs, DeliveringActs
       DEF Next, Confirming, Refusing, Delivering, Others

-----------------------------------------------------------------------------
(* What a step does to the subscription of an order and to its details *)

Link == \A o \in Orders : order'[o].linked = order[o].linked

LEMMA ClaimLink ==
    ASSUME Types, NEW o \in Orders, NEW from, NEW new, Claims(o, from, new)
    PROVE  Link
  BY DEF Types, Claims, Link, Row

LEMMA RowOnly ==
    ASSUME Types,
           \/ \E t \in Tasks :
                 \/ \E o \in Orders : \/ ReadConfirm(t, o) \/ StarsPaid(t, o)
                                      \/ ReadReject(t, o) \/ ReadCancel(t, o)
                                      \/ ReadDeliver(t, o)
                 \/ ConfirmTransfer(t) \/ ParkFailed(t)
                 \/ RejectTransfer(t) \/ CancelOrder(t) \/ Deliver(t) \/ ParkUnstored(t)
           \/ \E o \in Orders :
                 \/ CompleteOrder(o) \/ ConfirmOrder(o) \/ ReportProblem(o)
                 \/ OpenTransfer(o) \/ AttachReceipt(o) \/ CloseStaleOrder(o)
                 \/ FlagStaleReview(o) \/ CustomerCancel(o) \/ RefundOrder(o)
                 \/ CloseRefunded(o)
    PROVE  Link /\ rest
  <1>1. CASE UNCHANGED order /\ rest
    BY <1>1 DEF Link
  <1>2. ASSUME NEW t \in Tasks, NEW o \in Orders, StarsPaid(t, o)
        PROVE  Link /\ rest
    BY <1>2 DEF StarsPaid, Link, Types, Row
  <1>3. ASSUME NEW o \in Orders, OpenTransfer(o) \/ AttachReceipt(o)
        PROVE  Link /\ rest
    <2>1. CASE OpenTransfer(o)
      <3>1. order' = [order EXCEPT ![o].status = "receipt"] /\ rest
        BY <2>1 DEF OpenTransfer
      <3>2. QED
        BY <3>1 DEF Link, Types, Row
    <2>2. CASE AttachReceipt(o)
      <3>1. order' = [order EXCEPT ![o].status = "review", ![o].receipt = TRUE] /\ rest
        BY <2>2 DEF AttachReceipt
      <3>2. QED
        BY <3>1 DEF Link, Types, Row
    <2>3. QED
      BY <1>3, <2>1, <2>2
  <1>4. ASSUME NEW o \in Orders,
               \/ CompleteOrder(o) \/ ConfirmOrder(o) \/ ReportProblem(o)
               \/ CloseStaleOrder(o) \/ FlagStaleReview(o) \/ CustomerCancel(o)
               \/ RefundOrder(o) \/ CloseRefunded(o)
        PROVE  Link /\ rest
    BY <1>4, ClaimLink DEF CompleteOrder, ConfirmOrder, ReportProblem, CloseStaleOrder,
         FlagStaleReview, CustomerCancel, RefundOrder, CloseRefunded
  <1>5. ASSUME NEW t \in Tasks,
               \/ ConfirmTransfer(t) \/ ParkFailed(t) \/ RejectTransfer(t)
               \/ CancelOrder(t) \/ Deliver(t) \/ ParkUnstored(t)
        PROVE  Link /\ rest
    <2>1. task[t].o \in Orders
      BY <1>5, Working DEF ConfirmTransfer, ParkFailed, RejectTransfer, CancelOrder, Deliver,
           ParkUnstored, Mine
    <2>2. rest /\ (UNCHANGED order \/ \E from, new : Claims(task[t].o, from, new))
      BY <1>5 DEF ConfirmTransfer, ParkFailed, RejectTransfer, CancelOrder, Deliver, ParkUnstored
    <2>3. QED
      BY <1>1, <2>1, <2>2, ClaimLink
  <1>6. QED
    BY <1>1, <1>2, <1>3, <1>4, <1>5 DEF ReadConfirm, ReadReject, ReadCancel, ReadDeliver

\* An order has its subscription from the step that links it on; details that were
\* stored can be dropped, and it stays known that there were some.
AccessStep ==
    /\ access' \in [Orders -> {"none", "active", "closed"}]
    /\ details' \in [Orders -> {"none", "stored", "wiped"}]
    /\ \A o \in Orders : /\ order'[o].linked <=> access'[o] # "none"
                         /\ details[o] # "none" => details'[o] # "none"

Granted == \A o \in Orders : order[o].linked <=> access[o] # "none"

LEMMA WithdrawnKeeps ==
    ASSUME Types, Granted, Link, NEW o \in Orders, Withdrawn(o)
    PROVE  AccessStep
  <1>1. CASE UNCHANGED <<access, details>>
    BY <1>1 DEF Types, Granted, Link, AccessStep
  <1>2. CASE access[o] = "active" /\ access' = [access EXCEPT ![o] = "closed"] /\ Dropped(o)
    BY <1>2 DEF Types, Granted, Link, AccessStep, Dropped
  <1>3. QED
    BY <1>1, <1>2 DEF Withdrawn

LEMMA Subscribed ==
    ASSUME Types, Granted, Next
    PROVE  AccessStep
  <1>1. CASE Link /\ UNCHANGED <<access, details>>
    BY <1>1 DEF Types, Granted, Link, AccessStep
  <1>2. ASSUME NEW t \in Tasks, ApplyPayment(t)
        PROVE  AccessStep
    <2>1. task[t].o \in Orders /\ UNCHANGED details
      BY <1>2, Working DEF ApplyPayment
    <2>2. CASE UNCHANGED <<order, access>>
      BY <1>1, <2>1, <2>2 DEF Link
    <2>3. CASE /\ order' = [order EXCEPT ![task[t].o].linked = TRUE]
               /\ access' = [access EXCEPT ![task[t].o] = "active"]
      <3>1. order'[task[t].o].linked
            /\ \A p \in Orders \ {task[t].o} : order'[p].linked = order[p].linked
        BY <2>1, <2>3 DEF Types, Row
      <3>2. QED
        BY <2>1, <2>3, <3>1 DEF Types, Granted, AccessStep
    <2>4. QED
      BY <1>2, <2>2, <2>3 DEF ApplyPayment
  <1>3. ASSUME NEW o \in Orders, order' = [order EXCEPT ![o].reversed = TRUE], Withdrawn(o)
        PROVE  AccessStep
    <2>1. Link
      BY <1>3 DEF Link, Types, Row
    <2>2. QED
      BY <1>3, <2>1, WithdrawnKeeps
  <1>4. ASSUME NEW t \in Tasks, RevokeRefused(t)
        PROVE  AccessStep
    <2>1. task[t].o \in Orders
      BY <1>4, Working DEF RevokeRefused, Mine
    <2>2. QED
      BY <1>1, <1>3, <1>4, <2>1 DEF RevokeRefused, Link
  <1>5. ASSUME NEW t \in Tasks, StoreDetails(t)
        PROVE  AccessStep
    <2>1. task[t].o \in Orders /\ Link /\ UNCHANGED access
      BY <1>5, Working DEF StoreDetails, Mine, Link
    <2>2. CASE details' = [details EXCEPT ![task[t].o] = "stored"]
      BY <2>1, <2>2 DEF Types, Granted, Link, AccessStep
    <2>3. QED
      BY <1>1, <1>5, <2>1, <2>2 DEF StoreDetails
  <1>6. ASSUME NEW o \in Orders, EndAccess(o) \/ SetDetails(o)
        PROVE  AccessStep
    <2>1. Link
      BY <1>6 DEF EndAccess, SetDetails, Link
    <2>2. CASE EndAccess(o)
      BY <2>1, <2>2, WithdrawnKeeps DEF EndAccess, Withdrawn
    <2>3. CASE SetDetails(o)
      BY <2>1, <2>3 DEF SetDetails, Types, Granted, Link, AccessStep
    <2>4. QED
      BY <1>6, <2>2, <2>3
  <1>7. ASSUME \/ Restart
               \/ \E t \in Tasks : ApplyFails(t)
        PROVE  AccessStep
    BY <1>1, <1>7 DEF Restart, ApplyFails, Link
  <1>8. ASSUME NEW o \in Orders, RevokeRefunded(o)
        PROVE  AccessStep
    BY <1>3, <1>8 DEF RevokeRefunded
  <1>9. QED
    BY <1>1, <1>2, <1>4, <1>5, <1>6, <1>7, <1>8, RowOnly
       DEF Next, Confirming, Refusing, Delivering, Others, rest

Counts ==
    /\ UNCHANGED restarts
    /\ \/ UNCHANGED faults
       \/ faults < MaxFaults /\ faults' = faults + 1

LEMMA Counters ==
    ASSUME FulfilmentAssumption, Types, Next
    PROVE  /\ faults' \in 0..MaxFaults /\ restarts' \in 0..MaxRestarts
           /\ restarts' = 0 => restarts = 0
           /\ Restart => restarts' # 0
  <1>1. CASE Restart
    BY <1>1 DEF Restart, Types, FulfilmentAssumption
  <1>2. CASE Counts
    BY <1>2 DEF Counts, Restart, Types, FulfilmentAssumption
  <1>3. ASSUME rest
        PROVE  Counts
    BY <1>3 DEF rest, Counts
  <1>4. ASSUME NEW t \in Tasks, ApplyFails(t)
        PROVE  Counts
    BY <1>4 DEF ApplyFails, Counts
  <1>5. ASSUME NEW t \in Tasks, ApplyPayment(t) \/ RevokeRefused(t) \/ StoreDetails(t)
        PROVE  Counts
    BY <1>5 DEF ApplyPayment, RevokeRefused, StoreDetails, Counts
  <1>6. ASSUME NEW o \in Orders, EndAccess(o) \/ SetDetails(o) \/ RevokeRefunded(o)
        PROVE  Counts
    BY <1>6 DEF EndAccess, SetDetails, RevokeRefunded, Counts
  <1>7. Restart \/ Counts
    BY <1>3, <1>4, <1>5, <1>6, RowOnly DEF Next, Confirming, Refusing, Delivering, Others
  <1>8. QED
    BY <1>1, <1>2, <1>7

-----------------------------------------------------------------------------
(* Every step keeps the invariant *)

\* What is known of a row is not taken back.
LEMMA Grows ==
    ASSUME IInv, Types, Next, NEW o \in Orders
    PROVE  /\ order[o].status # "none" => order'[o].status # "none"
           /\ order[o].paid => order'[o].paid
           /\ order[o].linked => order'[o].linked
  <1>1. order' \in [Orders -> Row] /\ RowStep(o)
    BY Rows
  <1>2. QED
    BY <1>1 DEF RowStep, Moves, SameMoney, Types, Row, Open

LEMMA RowsStay ==
    ASSUME IInv, Types, Next, NEW o \in Orders
    PROVE  OrderInv(o)' /\ (order'[o].linked => order'[o].paid)
  <1>1. RowStep(o)
    BY Rows
  <1>2. OrderInv(o) /\ (order[o].linked => order[o].paid)
    BY DEF IInv, TypeOK
  <1>3. CASE order'[o] = order[o]
    BY <1>2, <1>3 DEF OrderInv
  <1>4. CASE Moves(o)
    BY <1>2, <1>4 DEF Moves, OrderInv, SameMoney, SameMarks, Open, Reversed
  <1>5. CASE order'[o] # order[o] /\ ~Moves(o)
    BY <1>1, <1>2, <1>5 DEF RowStep, OrderInv, SameMoney, SameMarks
  <1>6. QED
    BY <1>3, <1>4, <1>5

LEMMA TasksStillKnow ==
    ASSUME IInv, Types, Next, NEW t \in Tasks
    PROVE  TaskKnows(t)'
  <1>1. TaskKnows(t)
    BY DEF IInv
  <1>2. CASE task'[t] = Idle
    BY <1>2 DEF TaskKnows, Fulfilling, Storing, Idle
  <1>3. CASE task'[t] = task[t] /\ task[t] # Idle
    <2>1. task[t].o \in Orders
      BY <1>3 DEF Types, Handler
    <2>2. QED
      BY <1>1, <1>3, <2>1, Grows DEF TaskKnows, Fulfilling, Storing
  <1>4. CASE Begins(t)
    <2>1. task'[t].o \in Orders
      BY <1>4 DEF Begins
    <2>2. QED
      BY <1>4, <2>1, Grows DEF Begins, TaskKnows, Fulfilling, Storing
  <1>5. CASE Continues(t)
    <2>1. task[t].o \in Orders
      BY <1>5 DEF Continues, Types, Handler
    <2>2. QED
      BY <1>1, <1>5, <2>1, Grows DEF Continues, TaskKnows, Fulfilling, Storing
  <1>6. QED
    <2>1. CASE Restart
      BY <1>2, <2>1 DEF Restart
    <2>2. CASE UNCHANGED <<task, late>>
      BY <1>2, <1>3, <2>2
    <2>3. ASSUME NEW u \in Tasks, Acts(u)
          PROVE  TaskKnows(t)'
      BY <1>2, <1>3, <1>4, <1>5, <2>3 DEF Acts, Finishes
    <2>4. QED
      BY <2>1, <2>2, <2>3, Handlers

LEMMA DeliveriesGoOn ==
    ASSUME FulfilmentAssumption, IInv, Types, Next, NEW o \in Orders
    PROVE  DeliveryUnderWay(o)'
  <1> SUFFICES ASSUME order'[o].status = "delivered", restarts' = 0, details'[o] = "none"
               PROVE  \E t \in Tasks : (Storing(t) /\ task[t].o = o)'
    BY DEF DeliveryUnderWay
  <1>1. restarts = 0 /\ ~Restart /\ details[o] = "none"
    BY Counters, Subscribed DEF IInv, TypeOK, Granted, AccessStep
  <1>2. CASE order[o].status = "delivered"
    <2>1. PICK t \in Tasks : Storing(t) /\ task[t].o = o
      BY <1>1, <1>2 DEF IInv, DeliveryUnderWay
    <2>2. CASE task'[t] = task[t]
      BY <2>1, <2>2 DEF Storing
    <2>3. CASE Acts(t)
      BY <2>1, <2>3 DEF Acts, Begins, Continues, Finishes, Storing, Idle
    <2>4. QED
      BY <1>1, <2>2, <2>3, Handlers DEF Acts
  <1>3. CASE order[o].status # "delivered"
    <2>1. Moves(o)
      BY <1>3, Rows DEF RowStep
    <2>2. StoredNext(o)
      BY <1>3, <2>1 DEF Moves
    <2>3. QED
      BY <2>2 DEF StoredNext, Storing
  <1>4. QED
    BY <1>2, <1>3

\* The heart of it: money that comes between the read and the claim of a rejection
\* comes into a status that the claim does not name, and whoever could change that
\* has used up its turn.
LEMMA RejectionsAreLate ==
    ASSUME IInv, Types, Next, NEW t \in Tasks
    PROVE  RejectionIsLate(t)'
  <1> SUFFICES ASSUME task'[t].at = "reject", order'[task'[t].o].paid
               PROVE  /\ order'[task'[t].o].status \in {"paid", "refund_pending", "refunded"}
                      /\ ~order'[task'[t].o].linked
                      /\ \A u \in Tasks : Fulfilling(u)' /\ task'[u].o = task'[t].o
                                             => u \in late'[t]
    BY DEF RejectionIsLate
  <1>1. task'[t] = task[t] /\ ~Acts(t)
    <2>1. task'[t] # Idle
      BY DEF Idle
    <2>2. ~Acts(t)
      BY <2>1 DEF Acts, Begins, Continues, Finishes
    <2>3. QED
      BY <2>1, <2>2, Handlers DEF Acts, Restart
  <1>2. PICK o \in Orders : o = task[t].o /\ task[t].at = "reject" /\ AtTheLock(t)
    BY <1>1, Working DEF AtTheLock
  <1>3. order'[o].paid /\ task'[t].o = o /\ RowStep(o)
    BY <1>1, <1>2, Rows
  <1>4. \A u \in Tasks : Acts(u) => u \notin late[t] /\ late'[t] = late[t] \cup {u}
    BY <1>1, <1>2, TurnMoves DEF Acts
  <1>5. \A u \in Tasks : task'[u] = task[u] \/ Acts(u) \/ task'[u] = Idle
    BY Handlers DEF Acts, Restart
  <1>6. late'[t] = late[t] \/ \E u \in Tasks : Acts(u)
    <2>1. ~Restart
      BY <1>1, <1>2 DEF Restart, Idle
    <2>2. QED
      BY <2>1, Handlers
  <1>7. CASE order[o].paid
    <2>1. /\ order[o].status \in {"paid", "refund_pending", "refunded"}
          /\ ~order[o].linked
          /\ \A u \in Tasks : Fulfilling(u) /\ task[u].o = o => u \in late[t]
      BY <1>2, <1>7 DEF IInv, RejectionIsLate
    <2>2. ~Fulfils(o)
      BY <1>2, <2>1 DEF Fulfils, Turn, Fulfilling
    <2>3. order'[o].status \in {"paid", "refund_pending", "refunded"} /\ ~order'[o].linked
      BY <1>3, <1>7, <2>1, <2>2 DEF RowStep, Moves, SameMoney, Reversed
    <2>4. ASSUME NEW u \in Tasks, Fulfilling(u)', task'[u].o = o
          PROVE  u \in late'[t]
      <3>1. CASE task'[u] = task[u]
        BY <1>4, <1>6, <2>1, <2>4, <3>1 DEF Fulfilling
      <3>2. CASE Acts(u)
        BY <1>4, <3>2
      <3>3. QED
        BY <1>5, <2>4, <3>1, <3>2 DEF Fulfilling, Idle
    <2>5. QED
      BY <1>3, <2>3, <2>4
  <1>8. CASE ~order[o].paid
    <2>1. order'[o].status = "paid" /\ order'[o].linked = order[o].linked
      BY <1>3, <1>8 DEF RowStep, Moves, SameMoney
    <2>2. ~order'[o].linked
      BY <1>8, <2>1 DEF IInv, TypeOK
    <2>3. ASSUME NEW u \in Tasks, Fulfilling(u)', task'[u].o = o
          PROVE  u \in late'[t]
      <3>1. task'[u] # task[u]
        BY <1>8, <2>3 DEF IInv, TaskKnows, Fulfilling
      <3>2. Acts(u)
        BY <1>5, <2>3, <3>1 DEF Fulfilling, Idle
      <3>3. QED
        BY <1>4, <3>2
    <2>4. QED
      BY <1>3, <2>1, <2>2, <2>3
  <1>9. QED
    BY <1>7, <1>8

LEMMA TypesStay ==
    ASSUME FulfilmentAssumption, IInv, Types, Next
    PROVE  TypeOK'
  <1>1. order' \in [Orders -> Row]
    <2>1. CASE Orders = {}
      <3>1. \A t \in Tasks : task[t].at = "idle"
        BY <2>1, Working
      <3>2. \A t \in Tasks : /\ ~ConfirmTransfer(t) /\ ~ApplyPayment(t) /\ ~ApplyFails(t)
                             /\ ~ParkFailed(t) /\ ~RejectTransfer(t) /\ ~CancelOrder(t)
                             /\ ~RevokeRefused(t) /\ ~Deliver(t) /\ ~StoreDetails(t)
                             /\ ~ParkUnstored(t)
        BY <3>1 DEF ConfirmTransfer, ApplyPayment, ApplyFails, ParkFailed, RejectTransfer,
             CancelOrder, RevokeRefused, Deliver, StoreDetails, ParkUnstored, Mine
      <3>3. Restart
        BY <2>1, <3>2 DEF Next, Confirming, Refusing, Delivering, Others
      <3>4. QED
        BY <3>3 DEF Restart, Types
    <2>2. QED
      BY <2>1, Rows
  <1>2. TaskType /\ late' \in [Tasks -> SUBSET Tasks]
    <2>1. CASE Restart
      BY <2>1, Handlers DEF Restart
    <2>2. CASE UNCHANGED <<task, late>>
      BY <2>2, Handlers DEF Types
    <2>3. QED
      BY <2>1, <2>2, Handlers, TurnMoves DEF Acts
  <1>3. AccessStep
    BY Subscribed DEF IInv, TypeOK, Granted
  <1>4. QED
    BY <1>1, <1>2, <1>3, Counters, RowsStay DEF TypeOK, TaskType, AccessStep

-----------------------------------------------------------------------------
(* The theorems *)

\* The strengthened invariant holds, for any orders, handlers and bounds.
THEOREM Invariance ==
    ASSUME FulfilmentAssumption
    PROVE  Spec => []IInv
  <1>1. Init => IInv
    <2> SUFFICES ASSUME Init
                 PROVE  IInv
      OBVIOUS
    <2>1. TypeOK
      BY DEF Init, FulfilmentAssumption, TypeOK, Row, NoRow
    <2>2. \A o \in Orders : OrderInv(o) /\ DeliveryUnderWay(o)
      BY DEF Init, OrderInv, DeliveryUnderWay, NoRow
    <2>3. \A t \in Tasks : TaskKnows(t) /\ RejectionIsLate(t)
      BY DEF Init, TaskKnows, RejectionIsLate, Fulfilling, Storing, Idle
    <2>4. QED
      BY <2>1, <2>2, <2>3 DEF IInv
  <1>2. IInv /\ [Next]_vars => IInv'
    <2> SUFFICES ASSUME IInv, [Next]_vars
                 PROVE  IInv'
      OBVIOUS
    <2>1. CASE Next
      <3>1. Types
        BY DEF IInv, TypeOK, Types
      <3>2. TypeOK'
        BY <2>1, <3>1, TypesStay
      <3>3. \A o \in Orders : (OrderInv(o) /\ DeliveryUnderWay(o))'
        BY <2>1, <3>1, RowsStay, DeliveriesGoOn
      <3>4. \A t \in Tasks : (TaskKnows(t) /\ RejectionIsLate(t))'
        BY <2>1, <3>1, TasksStillKnow, RejectionsAreLate
      <3>5. QED
        BY <3>2, <3>3, <3>4 DEF IInv
    <2>2. CASE UNCHANGED vars
      BY <2>2 DEF vars, IInv, TypeOK, OrderInv, DeliveryUnderWay, TaskKnows, RejectionIsLate,
           Fulfilling, Storing
    <2>3. QED
      BY <2>1, <2>2
  <1>3. QED
    BY <1>1, <1>2, PTL DEF Spec

\* Recorded money is not refused, and what is paid and not served stands in the queue of
\* staff: confirm_transfer, reject_transfer, cancel_order, save_order_credentials and the
\* payment handler, in any interleaving, with failures and restarts anywhere.
THEOREM Served ==
    ASSUME FulfilmentAssumption
    PROVE  Spec => []PaidOrdersAreServed
  <1>1. IInv => PaidOrdersAreServed
    <2> SUFFICES ASSUME IInv
                 PROVE  PaidOrdersAreServed
      OBVIOUS
    <2>1. TypeOK /\ \A o \in Orders : OrderInv(o) /\ DeliveryUnderWay(o)
      BY DEF IInv
    <2>2. PaidIsNotRefused
      BY <2>1 DEF PaidIsNotRefused, OrderInv
    <2>3. UnservedIsInTheQueue
      BY <2>1 DEF UnservedIsInTheQueue, PaidWithoutSubscription, OrderInv, NeedsAdmin, Reversed
    <2>4. NothingToReconcile
      BY <2>1 DEF NothingToReconcile, ReviewWithoutReceipt, ClosedButGranting, OrderInv, Reversed
    <2>5. DeliveredHadDetails
      BY <2>1 DEF DeliveredHadDetails, DeliveryUnderWay, Storing, Idle
    <2>6. QED
      BY <2>1, <2>2, <2>3, <2>4, <2>5 DEF PaidOrdersAreServed
  <1>2. QED
    BY <1>1, Invariance, PTL

\* No handler that read the order earlier, and no button of an old message, takes it out
\* of refunded, rejected or cancelled.
THEOREM NothingIsWalkedBack ==
    ASSUME FulfilmentAssumption
    PROVE  Spec => ReversedStays
  <1>1. IInv /\ [Next]_vars => [ReversedStaysStep]_vars
    <2> SUFFICES ASSUME IInv, Next
                 PROVE  ReversedStaysStep
      OBVIOUS
    <2>1. ASSUME NEW o \in Orders, order[o].status \in Reversed
          PROVE  order'[o].status = order[o].status
      <3>1. RowStep(o)
        BY Rows DEF IInv, TypeOK, Types
      <3>2. QED
        BY <2>1, <3>1 DEF RowStep, Moves, Reversed, IInv, OrderInv, Open
    <2>2. QED
      BY <2>1 DEF ReversedStaysStep
  <1>2. QED
    BY <1>1, Invariance, PTL DEF Spec, ReversedStays

-----------------------------------------------------------------------------
(* An order keeps its promise *)

Stages == [o \in Orders |-> Stage(order[o])]

LEMMA StageByStatus ==
    ASSUME NEW row \in Row
    PROVE  /\ row.status = "none" => Stage(row) = "none"
           /\ row.status \in {"rejected", "cancelled"} => Stage(row) = "refused"
           /\ row.status = "refund_pending" => Stage(row) = "owed"
           /\ row.status = "refunded" => Stage(row) = "returned"
           /\ row.status \notin {"none", "rejected", "cancelled", "refund_pending", "refunded"}
                => Stage(row) = IF row.paid THEN "sold" ELSE "open"
  BY DEF Row, Stage, Open, Final, Reversed

\* How far the money of an order may come in a step.
StageStep(o) ==
    LET from == Stage(order[o])
        to == Stage(order'[o]) IN
    \/ from = to
    \/ from = "none" /\ to = "open"
    \/ from = "open" /\ to = "refused"
    \/ from \in {"none", "open"} /\ to = "sold"
    \/ from = "sold" /\ to = "owed"
    \/ from = "owed" /\ to = "returned"

LEMMA StageMoves ==
    ASSUME IInv, Types, Next, NEW o \in Orders
    PROVE  StageStep(o)
  <1>1. order[o] \in Row /\ order'[o] \in Row /\ RowStep(o)
    BY Rows DEF Types
  <1>2. OrderInv(o) /\ (order[o].linked => order[o].paid)
    BY DEF IInv, TypeOK
  <1>3. PICK old, new \in Row : old = order[o] /\ new = order'[o]
    BY <1>1
  <1>4. /\ old.paid => old.status \in
             {"paid", "delivered", "problem", "refund_pending", "completed", "refunded"}
        /\ old.status = "refund_pending" => old.paid
    BY <1>2, <1>3 DEF OrderInv
  <1>5. CASE old = new
    BY <1>3, <1>5 DEF StageStep
  <1>6. CASE Moves(o)
    <2>1. /\ new.paid = old.paid
          /\ \/ old.status = "none" /\ new.status = "receipt"
             \/ old.status = "receipt" /\ new.status = "expired"
             \/ old.status = "review" /\ new.status = "problem"
             \/ ~old.paid /\ old.status \in Open /\ new.status \in {"rejected", "cancelled"}
             \/ /\ old.paid /\ old.status \in {"paid", "delivered", "completed", "problem"}
                /\ new.status \in {"problem", "completed", "delivered", "refund_pending"}
             \/ old.status = "refund_pending" /\ new.status = "refunded"
             \/ old.status \in {"receipt", "expired"} /\ new.status = "review"
             \/ old.status = new.status
      BY <1>2, <1>3, <1>6 DEF Moves, SameMoney
    <2>2. QED
      BY <1>3, <1>4, <2>1, StageByStatus DEF StageStep, Open
  <1>7. CASE /\ order[o].status \in {"none", "review", "problem"}
             /\ order'[o].status = "paid" /\ order'[o].paid
    BY <1>3, <1>4, <1>7, StageByStatus DEF StageStep
  <1>8. CASE order[o].paid /\ order'[o].status = order[o].status /\ order'[o].paid
    BY <1>3, <1>8, StageByStatus DEF StageStep
  <1>9. CASE order[o].status = "paid" /\ order'[o].status = "problem" /\ SameMoney(o)
    BY <1>3, <1>9, StageByStatus DEF StageStep, SameMoney
  <1>10. QED
    BY <1>1, <1>3, <1>5, <1>6, <1>7, <1>8, <1>9 DEF RowStep

\* A step is about one order, and about its money or its access, not both.
About(p) ==
    /\ \A q \in Orders \ {p} : order'[q] = order[q] /\ access'[q] = access[q]
    /\ \/ access'[p] = access[p]
       \/ /\ order'[p].status = order[p].status /\ order'[p].paid = order[p].paid
          /\ \/ access[p] = "active" /\ access'[p] = "closed"
             \/ access[p] = "none" /\ access'[p] = "active" /\ Eligible(p)

LEMMA ClaimAbout ==
    ASSUME Types, NEW o \in Orders, NEW from, NEW new, Claims(o, from, new), UNCHANGED access
    PROVE  About(o)
  BY DEF Types, Claims, About

LEMMA WithdrawnAbout ==
    ASSUME Types, NEW o \in Orders, Withdrawn(o),
           order' = [order EXCEPT ![o].reversed = TRUE] \/ UNCHANGED order
    PROVE  About(o)
  <1>1. /\ \A q \in Orders \ {o} : order'[q] = order[q]
        /\ order'[o].status = order[o].status /\ order'[o].paid = order[o].paid
    BY DEF Types, Row
  <1>2. CASE UNCHANGED access
    BY <1>1, <1>2 DEF About
  <1>3. CASE access[o] = "active" /\ access' = [access EXCEPT ![o] = "closed"]
    BY <1>1, <1>3 DEF About, Types
  <1>4. QED
    BY <1>2, <1>3 DEF Withdrawn

LEMMA OneAtATime ==
    ASSUME Types, Granted, Next
    PROVE  UNCHANGED <<order, access>> \/ \E p \in Orders : About(p)
  <1>1. ASSUME NEW t \in Tasks, NEW o \in Orders, StarsPaid(t, o)
        PROVE  About(o)
    BY <1>1 DEF StarsPaid, rest, About, Types
  <1>2. ASSUME NEW o \in Orders, OpenTransfer(o) \/ AttachReceipt(o)
        PROVE  About(o)
    BY <1>2 DEF OpenTransfer, AttachReceipt, rest, About, Types
  <1>3. ASSUME NEW o \in Orders,
               \/ CompleteOrder(o) \/ ConfirmOrder(o) \/ ReportProblem(o)
               \/ CloseStaleOrder(o) \/ FlagStaleReview(o) \/ CustomerCancel(o)
               \/ RefundOrder(o) \/ CloseRefunded(o)
        PROVE  About(o)
    <2>1. UNCHANGED access /\ \E from, new : Claims(o, from, new)
      BY <1>3 DEF CompleteOrder, ConfirmOrder, ReportProblem, CloseStaleOrder,
         FlagStaleReview, CustomerCancel, RefundOrder, CloseRefunded, rest
    <2>2. QED
      BY <2>1, ClaimAbout
  <1>4. ASSUME NEW t \in Tasks,
               \/ ConfirmTransfer(t) \/ ParkFailed(t) \/ RejectTransfer(t)
               \/ CancelOrder(t) \/ Deliver(t) \/ ParkUnstored(t)
        PROVE  UNCHANGED <<order, access>> \/ (About(task[t].o) /\ task[t].o \in Orders)
    <2>1. task[t].o \in Orders
      BY <1>4, Working DEF ConfirmTransfer, ParkFailed, RejectTransfer, CancelOrder, Deliver,
           ParkUnstored, Mine
    <2>2. UNCHANGED access /\ (UNCHANGED order \/ \E from, new : Claims(task[t].o, from, new))
      BY <1>4 DEF ConfirmTransfer, ParkFailed, RejectTransfer, CancelOrder, Deliver, ParkUnstored,
         rest
    <2>3. QED
      BY <2>1, <2>2, ClaimAbout
  <1>5. ASSUME NEW t \in Tasks, ApplyPayment(t)
        PROVE  UNCHANGED <<order, access>> \/ (About(task[t].o) /\ task[t].o \in Orders)
    <2>1. task[t].o \in Orders /\ Eligible(task[t].o)
      BY <1>5, Working DEF ApplyPayment
    <2>2. CASE /\ ~order[task[t].o].linked
               /\ order' = [order EXCEPT ![task[t].o].linked = TRUE]
               /\ access' = [access EXCEPT ![task[t].o] = "active"]
      BY <2>1, <2>2 DEF About, Types, Granted, Row
    <2>3. QED
      BY <1>5, <2>1, <2>2 DEF ApplyPayment
  <1>6. ASSUME NEW t \in Tasks, RevokeRefused(t)
        PROVE  UNCHANGED <<order, access>> \/ (About(task[t].o) /\ task[t].o \in Orders)
    <2>1. task[t].o \in Orders
      BY <1>6, Working DEF RevokeRefused, Mine
    <2>2. QED
      BY <1>6, <2>1, WithdrawnAbout DEF RevokeRefused
  <1>7. ASSUME NEW o \in Orders, RevokeRefunded(o)
        PROVE  About(o)
    BY <1>7, WithdrawnAbout DEF RevokeRefunded
  <1>8. ASSUME NEW o \in Orders, EndAccess(o)
        PROVE  About(o)
    BY <1>8, WithdrawnAbout DEF EndAccess, Withdrawn
  <1>9. ASSUME \/ Restart
               \/ \E o \in Orders : SetDetails(o)
               \/ \E t \in Tasks :
                     \/ \E o \in Orders : \/ ReadConfirm(t, o) \/ ReadReject(t, o)
                                          \/ ReadCancel(t, o) \/ ReadDeliver(t, o)
                     \/ ApplyFails(t) \/ StoreDetails(t)
        PROVE  UNCHANGED <<order, access>>
    BY <1>9 DEF Restart, SetDetails, ReadConfirm, ReadReject, ReadCancel, ReadDeliver, ApplyFails,
       StoreDetails, rest
  <1>10. QED
    BY <1>1, <1>2, <1>3, <1>4, <1>5, <1>6, <1>7, <1>8, <1>9
       DEF Next, Confirming, Refusing, Delivering, Others

LEMMA PromiseMoves ==
    ASSUME IInv, Types, Granted, Next, NEW p \in Orders, About(p)
    PROVE  [P!PromiseNext]_(P!promiseVars)
  <1>1. /\ order[p] \in Row /\ order'[p] \in Row
        /\ access \in [Orders -> {"none", "active", "closed"}]
        /\ access' \in [Orders -> {"none", "active", "closed"}]
    BY Rows, Subscribed DEF Types, AccessStep
  <1>2. PICK to : to = Stage(order'[p])
    OBVIOUS
  <1>3. Stages' = [Stages EXCEPT ![p] = to] /\ Stages[p] = Stage(order[p])
    <2>1. \A q \in Orders \ {p} : Stages'[q] = Stages[q]
      BY DEF About, Stages
    <2>2. Stages'[p] = to /\ Stages[p] = Stage(order[p])
      BY <1>2 DEF Stages
    <2>3. Stages \in [Orders -> {Stages[q] : q \in Orders}] /\ DOMAIN Stages' = Orders
          /\ Stages' = [q \in Orders |-> Stages'[q]]
      BY DEF Stages
    <2>4. QED
      BY <2>1, <2>2, <2>3
  <1>4. CASE access'[p] = access[p]
    <2>1. UNCHANGED access
      BY <1>1, <1>4 DEF About
    <2>2. StageStep(p)
      BY StageMoves
    <2>3. CASE Stages[p] = to
      <3>1. UNCHANGED Stages
        BY <1>3, <2>3 DEF Stages
      <3>2. QED
        BY <2>1, <3>1 DEF P!promiseVars, Stages
    <2>4. CASE Stages[p] # to
      BY <1>2, <1>3, <2>1, <2>2, <2>4
         DEF StageStep, Stages, P!PromiseNext, P!Advance, P!Place, P!Refuse, P!Sell, P!Owe,
             P!Return
    <2>5. QED
      BY <2>3, <2>4
  <1>5. CASE /\ order'[p].status = order[p].status /\ order'[p].paid = order[p].paid
             /\ \/ access[p] = "active" /\ access'[p] = "closed"
                \/ access[p] = "none" /\ access'[p] = "active" /\ Eligible(p)
    <2>1. to = Stages[p]
      BY <1>1, <1>2, <1>3, <1>5, StageByStatus
    <2>2. UNCHANGED Stages
      BY <1>3, <2>1 DEF Stages
    <2>3. access' = [access EXCEPT ![p] = access'[p]]
      BY <1>1 DEF About
    <2>4. CASE access[p] = "active" /\ access'[p] = "closed"
      BY <2>2, <2>3, <2>4 DEF P!PromiseNext, P!EndAccess, Stages
    <2>5. CASE access[p] = "none" /\ access'[p] = "active" /\ Eligible(p)
      <3>1. order[p].paid /\ order[p].status \notin Reversed \cup {"refund_pending", "none"}
        BY <2>5 DEF Eligible, IInv, OrderInv
      <3>2. Stages[p] = "sold"
        BY <1>1, <1>3, <3>1, StageByStatus DEF Reversed
      <3>3. QED
        BY <2>2, <2>3, <2>5, <3>2 DEF P!PromiseNext, P!Serve, Stages
    <2>6. QED
      BY <1>5, <2>4, <2>5
  <1>6. QED
    BY <1>4, <1>5 DEF About

\* Whatever staff, the customer and the scheduler read before they claim, an order keeps its
\* promise: it is sold once or refused for good, gives access once and while it is sold,
\* and only what is owed is returned.
THEOREM ImplementsPromise ==
    ASSUME FulfilmentAssumption
    PROVE  Spec => P!PromiseSpec
  <1>1. Init => P!PromiseInit
    <2>1. NoRow \in Row /\ NoRow.status = "none"
      BY DEF NoRow, Row
    <2>2. Stage(NoRow) = "none"
      BY <2>1, StageByStatus
    <2>3. QED
      BY <2>2 DEF Init, P!PromiseInit
  <1>2. IInv /\ [Next]_vars => [P!PromiseNext]_(P!promiseVars)
    <2> SUFFICES ASSUME IInv, [Next]_vars
                 PROVE  [P!PromiseNext]_(P!promiseVars)
      OBVIOUS
    <2>1. CASE UNCHANGED <<order, access>>
      BY <2>1 DEF P!promiseVars
    <2>2. CASE Next
      <3>1. Types /\ Granted
        BY DEF IInv, TypeOK, Types, Granted
      <3>2. QED
        BY <2>1, <2>2, <3>1, OneAtATime, PromiseMoves
    <2>3. QED
      BY <2>1, <2>2 DEF vars
  <1>3. QED
    BY <1>1, <1>2, Invariance, PTL DEF Spec, P!PromiseSpec

-----------------------------------------------------------------------------
(* The other components of MCWork.  Each leaf that speaks of two instances  *)
(* of a module expands both to the last definition, where they are the same.*)

WP == INSTANCE WorkProofs WITH
    Profiles <- Seniors \cup {"client"}, Accounts <- People, Staff <- Seniors,
    Gifted <- {"client"}, Tasks <- Tasks, Nobody <- Nobody, account <- x1, used <- x2,
    names <- x3, onDuty <- x4, queue <- x5, task <- x6,
    NoTask <- Nobody, MaxCalls <- 2, MaxCancels <- 2, MaxRestarts <- 1,
    disk <- x1, conn <- x2, up <- x3, lock <- x4, owner <- x5, at <- x6, seen <- x7,
    acks <- x8, calls <- x9, cancels <- x10, restarts <- x11,
    Before <- 3, Periods <- {1, 2}, LastDay <- 5, MaxRenewals <- 2, MaxDoubts <- 1,
    MaxKills <- 1, Refunds <- TRUE, sub <- x1, added <- x2, renewals <- x3, now <- x4,
    job <- x5, told <- x6, moved <- x7, unsure <- x8, broken <- x9, kills <- x10,
    Admins <- {}, HoursPerDay <- 1, DaysPerMonth <- 1, ReportDay <- 1, MaxClock <- 0,
    MaxStarts <- 0, MaxSaves <- 0, MaxFailures <- 0, Legacy <- {}, MaxCrashes <- 0,
    MaxErrors <- 0,                                     \* of the others, which are not here
    phase <- x1, online <- x1, clock <- x1, hour <- x1, trigger <- x1, due <- x1, run <- x1,
    holder <- x1, stamp <- x1, saving <- x1, starts <- x1, saves <- x1, failures <- x1,
    sent <- x1, cut <- x1, lastCheck <- x1, shifted <- x1, skipped <- x1, file <- x1,
    first <- x1, crashes <- x1, errors <- x1

\* What WorkProofs shows of the connection, for the instance in MCWork.
LEMMA OfTransactions ==
    ASSUME T!TransactionsAssumption
    PROVE  T!Spec => []T!WholeOrNothing
  BY WP!AllOrNothing, PTL
       DEF T!TransactionsAssumption, WP!T!TransactionsAssumption, T!vars, WP!T!vars,
           T!bounds, WP!T!bounds, T!Rows, WP!T!Rows, T!Empty, WP!T!Empty, T!Kinds,
           WP!T!Kinds, T!Waiting, WP!T!Waiting, T!Waits, WP!T!Waits, T!Goes, WP!T!Goes,
           T!Opened, WP!T!Opened, T!Owns, WP!T!Owns, T!Release, WP!T!Release, T!Over,
           WP!T!Over, T!Committed, WP!T!Committed, T!RolledBack, WP!T!RolledBack,
           T!Written, WP!T!Written, T!Call, WP!T!Call, T!Enter, WP!T!Enter, T!Begin,
           WP!T!Begin, T!First, WP!T!First, T!Second, WP!T!Second, T!Spawn, WP!T!Spawn,
           T!BodyFails, WP!T!BodyFails, T!Commit, WP!T!Commit, T!Execute, WP!T!Execute,
           T!CommitOne, WP!T!CommitOne, T!ExecuteFails, WP!T!ExecuteFails, T!FetchAnytime,
           WP!T!FetchAnytime, T!Fetch, WP!T!Fetch, T!Cancel, WP!T!Cancel, T!Disconnect,
           WP!T!Disconnect, T!Restart, WP!T!Restart, T!Init, WP!T!Init, T!Next, WP!T!Next,
           T!Spec, WP!T!Spec, T!Whole, WP!T!Whole, T!TypeOK, WP!T!TypeOK, T!NothingHalf,
           WP!T!NothingHalf, T!ReadsAreWhole, WP!T!ReadsAreWhole, T!ReportedIsWritten,
           WP!T!ReportedIsWritten, T!OpenIsOwned, WP!T!OpenIsOwned, T!WholeOrNothing,
           WP!T!WholeOrNothing, T!Cardinality, WP!T!Cardinality

\* And of the store that it implements.
LEMMA OfStore ==
    ASSUME T!TransactionsAssumption
    PROVE  T!Spec => [][T!StoreStep]_(T!vars)
  <1>1. WP!T!TransactionsAssumption
    BY DEF T!TransactionsAssumption, WP!T!TransactionsAssumption
  <1>2. T!Init => WP!T!Init
    BY DEF T!Init, WP!T!Init, T!Empty, WP!T!Empty
  <1>3. T!Next => WP!T!Next
    BY DEF T!bounds, WP!T!bounds, T!Rows, WP!T!Rows, T!Empty, WP!T!Empty, T!Kinds,
           WP!T!Kinds, T!Waiting, WP!T!Waiting, T!Waits, WP!T!Waits, T!Goes, WP!T!Goes,
           T!Opened, WP!T!Opened, T!Owns, WP!T!Owns, T!Release, WP!T!Release, T!Over,
           WP!T!Over, T!Committed, WP!T!Committed, T!RolledBack, WP!T!RolledBack,
           T!Written, WP!T!Written, T!Call, WP!T!Call, T!Enter, WP!T!Enter, T!Begin,
           WP!T!Begin, T!First, WP!T!First, T!Second, WP!T!Second, T!Spawn, WP!T!Spawn,
           T!BodyFails, WP!T!BodyFails, T!Commit, WP!T!Commit, T!Execute, WP!T!Execute,
           T!CommitOne, WP!T!CommitOne, T!ExecuteFails, WP!T!ExecuteFails, T!Fetch,
           WP!T!Fetch, T!Cancel, WP!T!Cancel, T!Disconnect, WP!T!Disconnect, T!Restart,
           WP!T!Restart, T!Next, WP!T!Next
  <1>4. [T!Next]_(T!vars) => [WP!T!Next]_(WP!T!vars)
    BY <1>3 DEF T!vars, WP!T!vars
  <1>5. [WP!T!S!StoreNext]_(WP!T!S!storeVars) => [T!StoreStep]_(T!vars)
    BY DEF T!StoreStep, T!S!Calls, WP!T!S!Calls, T!S!Ask, WP!T!S!Ask, T!S!Ends, WP!T!S!Ends,
           T!S!InDoubt, WP!T!S!InDoubt, T!S!Both, WP!T!S!Both, T!S!One, WP!T!S!One,
           T!S!Transact, WP!T!S!Transact, T!S!Write,
           WP!T!S!Write, T!S!Read, WP!T!S!Read, T!S!Fail, WP!T!S!Fail, T!S!Stop,
           WP!T!S!Stop, T!S!StoreNext, WP!T!S!StoreNext, T!S!storeVars, WP!T!S!storeVars,
           T!Asking, WP!T!Asking, T!Waiting, WP!T!Waiting
  <1>6. T!Spec => WP!T!Spec
    BY <1>2, <1>4, PTL DEF T!Spec, WP!T!Spec
  <1>7. QED
    BY <1>1, <1>5, <1>6, WP!ImplementsStore, PTL DEF WP!T!S!StoreSpec

\* What WorkProofs shows of the lifecycle locks, for the instance in MCWork.
LEMMA OfLifecycle ==
    ASSUME L!LifecycleAssumption, "client" \notin Seniors
    PROVE  L!Spec => []L!LockIsKept
  <1>1. {"client"} \cap Seniors = {}
    OBVIOUS
  <1>2. QED
    BY <1>1, WP!LockKept, PTL
         DEF L!LifecycleAssumption, WP!LifecycleAssumption, L!vars, WP!vars, L!rows,
             WP!rows, L!Idle, WP!Idle, L!Places, WP!Places, L!Waits, WP!Waits, L!Started,
             WP!Started, L!Live, WP!Live, L!Goes, WP!Goes, L!Ask, WP!Ask, L!Leave, WP!Leave,
             L!MayEnter, WP!MayEnter, L!Enters, WP!Enters, L!Ends, WP!Ends, L!Sends,
             WP!Sends, L!Arrive, WP!Arrive, L!Register, WP!Register, L!NoRowLeft,
             WP!NoRowLeft, L!Meet, WP!Meet, L!Reply, WP!Reply, L!Notice, WP!Notice,
             L!LookForAnyone, WP!LookForAnyone, L!Look, WP!Look, L!Call, WP!Call, L!Called,
             WP!Called, L!OwnLock, WP!OwnLock, L!Expire, WP!Expire, L!Own, WP!Own,
             L!OwnDone, WP!OwnDone, L!Broadcast, WP!Broadcast, L!Brief, WP!Brief, L!Briefed,
             WP!Briefed, L!Gift, WP!Gift, L!GiveDays, WP!GiveDays, L!DaysGiven,
             WP!DaysGiven, L!Change, WP!Change, L!Erase, WP!Erase, L!SetDuty, WP!SetDuty,
             L!Init, WP!Init, L!Step, WP!Step, L!Begin, WP!Begin, L!Next, WP!Next, L!Spec,
             WP!Spec, L!FairSpec, WP!FairSpec, L!Record, WP!Record, L!TypeOK, WP!TypeOK,
             L!Sending, WP!Sending, L!MessageFindsItsProfile, WP!MessageFindsItsProfile,
             L!ErasedStaysNameless, WP!ErasedStaysNameless, L!StaffNoticesReachStaff,
             WP!StaffNoticesReachStaff, L!Stuck, WP!Stuck, L!NoCircularWait,
             WP!NoCircularWait, L!Ended, WP!Ended, L!EveryTaskEnds, WP!EveryTaskEnds,
             L!LockIsKept, WP!LockIsKept

\* What WorkProofs shows of the reminders, for the instance in MCWork.
LEMMA OfReminders ==
    ASSUME N!RemindersAssumption
    PROVE  /\ N!Spec => []N!RemindedOnce
           /\ N!Spec => N!NearAfterTomorrow
  <1>1. WP!N!RemindersAssumption
    BY DEF N!RemindersAssumption, WP!N!RemindersAssumption
  <1>2. N!Init => WP!N!Init
    BY DEF N!Init, WP!N!Init, N!Idle, WP!N!Idle, N!NoneTold, WP!N!NoneTold, N!Passes,
           WP!N!Passes
  <1>3. N!Next => WP!N!Next
    BY DEF N!Next, WP!N!Next, N!faults, WP!N!faults, N!Passes, WP!N!Passes, N!Days,
           WP!N!Days, N!Flags, WP!N!Flags, N!Idle, WP!N!Idle, N!Run, WP!N!Run,
           N!NoneTold, WP!N!NoneTold, N!Begin, WP!N!Begin, N!NextPass, WP!N!NextPass,
           N!Due, WP!N!Due, N!ReadDue, WP!N!ReadDue, N!Claimable, WP!N!Claimable,
           N!Claim, WP!N!Claim, N!ClaimOther, WP!N!ClaimOther, N!Arrives, WP!N!Arrives,
           N!Delivered, WP!N!Delivered, N!NotDelivered, WP!N!NotDelivered, N!Given,
           WP!N!Given, N!Release, WP!N!Release, N!Cancel, WP!N!Cancel, N!Kill,
           WP!N!Kill, N!Extend, WP!N!Extend, N!TakeBack, WP!N!TakeBack, N!End, WP!N!End,
           N!Tick, WP!N!Tick
  <1>4. WP!N!RemindedOnce => N!RemindedOnce
    BY DEF N!RemindedOnce, WP!N!RemindedOnce, N!TypeOK, WP!N!TypeOK,
           N!FlagsAreDeliveries, WP!N!FlagsAreDeliveries, N!FlagsHoldUndisturbed,
           WP!N!FlagsHoldUndisturbed, N!OncePerTerm, WP!N!OncePerTerm, N!OnePerRun,
           WP!N!OnePerRun, N!Passes, WP!N!Passes, N!Flags, WP!N!Flags, N!Idle, WP!N!Idle
  <1>5. WP!N!NearAfterTomorrowStep => N!NearAfterTomorrowStep
    BY DEF N!NearAfterTomorrowStep, WP!N!NearAfterTomorrowStep
  <1>6. [N!Next]_(N!vars) => [WP!N!Next]_(WP!N!vars)
    BY <1>3 DEF N!vars, WP!N!vars
  <1>7. [WP!N!NearAfterTomorrowStep]_(WP!N!vars) => [N!NearAfterTomorrowStep]_(N!vars)
    BY <1>5 DEF N!vars, WP!N!vars
  <1>8. N!Spec => WP!N!Spec
    BY <1>2, <1>6, PTL DEF N!Spec, WP!N!Spec
  <1>9. QED
    BY <1>1, <1>4, <1>7, <1>8, WP!RemindsOnce, WP!NoneAfterTomorrow, PTL
       DEF N!NearAfterTomorrow, WP!N!NearAfterTomorrow

\* Handlers that share the one connection leave whole transactions on the disk, read no
\* half of one, are told no more than was written and leave none open, for any number of them.
THEOREM ConnectionKept == WorkSpec => []WholeOrNothing
  <1> DEFINE Here == part = "transactions"
  <1>1. WorkInit => (Here => T!Init)
    BY DEF WorkInit
  <1>2. [WorkNext]_workVars => (Here => Here' /\ [T!Next]_(T!vars)) /\ (~Here => ~Here')
    BY DEF WorkNext, workVars, others, T!vars
  <1>3. T!Spec => []T!WholeOrNothing
    BY OfTransactions, WorkAssumption
  <1>4. QED
    BY <1>1, <1>2, <1>3, PTL DEF WorkSpec, T!Spec, WholeOrNothing

\* Messages sent under the lifecycle lock find the profile they are meant for, and the
\* handlers that take it wait in no circle, for any number of tasks, accounts and staff.
THEOREM LocksKept == WorkSpec => []LockIsKept
  <1> DEFINE Here == part = "lifecycle"
  <1>1. WorkInit => (Here => L!Init)
    BY DEF WorkInit
  <1>2. [WorkNext]_workVars => (Here => Here' /\ [L!Next]_(L!vars)) /\ (~Here => ~Here')
    BY DEF WorkNext, workVars, others, L!vars
  <1>3. L!Spec => []L!LockIsKept
    BY OfLifecycle, WorkAssumption
  <1>4. QED
    BY <1>1, <1>2, <1>3, PTL DEF WorkSpec, L!Spec, LockIsKept

\* Nobody is reminded twice of a term, but where the parts of RemindedOnce name what disturbed
\* the run, and a flag that is set undisturbed is a message that was delivered.
THEOREM RemindersKept == WorkSpec => []RemindedOnce
  <1> DEFINE Here == part = "reminders"
  <1>1. WorkInit => (Here => N!Init)
    BY DEF WorkInit
  <1>2. [WorkNext]_workVars => (Here => Here' /\ [N!Next]_(N!vars)) /\ (~Here => ~Here')
    BY DEF WorkNext, workVars, others, N!vars
  <1>3. N!Spec => []N!RemindedOnce
    BY OfReminders, WorkAssumption
  <1>4. QED
    BY <1>1, <1>2, <1>3, PTL DEF WorkSpec, N!Spec, RemindedOnce

\* Whatever other handlers do, a refunded, rejected or cancelled order is not walked back and
\* each order keeps its promise, who was told that the end is tomorrow is not told
\* afterwards that it is near, and the calls to the connection take effect as those to a
\* store do, each at one moment.
THEOREM SettledKept == WorkSpec => SettledStays
  <1> DEFINE Here == part = "reminders"
             There == part = "transactions"
             Ours == part = "fulfilment"
  <1>1. WorkInit => Init /\ (Here => N!Init) /\ (There => T!Init)
    BY DEF WorkInit
  <1>2. [WorkNext]_workVars =>
          /\ (Here => Here' /\ [N!Next]_(N!vars)) /\ (~Here => ~Here')
          /\ (There => There' /\ [T!Next]_(T!vars)) /\ (~There => ~There')
          /\ [Next]_vars
    BY DEF WorkNext, workVars, others, N!vars, T!vars
  <1>3. Spec => [][ReversedStaysStep]_vars
    BY NothingIsWalkedBack, WorkAssumption DEF ReversedStays
  <1>4. Spec => [][PromiseStep]_vars
    <2>1. [P!PromiseNext]_(P!promiseVars) => [PromiseStep]_vars
      BY DEF PromiseStep
    <2>2. QED
      BY <2>1, ImplementsPromise, WorkAssumption, PTL DEF P!PromiseSpec
  <1>5. N!Spec => [][N!NearAfterTomorrowStep]_(N!vars)
    BY OfReminders, WorkAssumption DEF N!NearAfterTomorrow
  <1>6. T!Spec => [][T!StoreStep]_(T!vars)
    BY OfStore, WorkAssumption
  <1>7. /\ [WorkNext]_workVars
        /\ [ReversedStaysStep]_vars /\ [PromiseStep]_vars
        /\ Here => [N!NearAfterTomorrowStep]_(N!vars)
        /\ There => [T!StoreStep]_(T!vars)
        => [SettledStaysStep]_workVars
    <2> SUFFICES ASSUME WorkNext, workVars' # workVars,
                        [ReversedStaysStep]_vars, [PromiseStep]_vars,
                        Here => [N!NearAfterTomorrowStep]_(N!vars),
                        There => [T!StoreStep]_(T!vars)
                 PROVE  SettledStaysStep
      OBVIOUS
    <2>1. Here => N!vars' # N!vars
      BY DEF WorkNext, workVars, others, N!vars
    <2>2. vars' = vars => ReversedStaysStep
      BY DEF vars, ReversedStaysStep
    <2>3. There => T!vars' # T!vars
      BY DEF WorkNext, workVars, others, T!vars
    <2>4. Ours => vars' # vars
      BY DEF WorkNext, workVars, others
    <2>5. QED
      BY <2>1, <2>2, <2>3, <2>4 DEF SettledStaysStep
  <1>8. QED
    BY <1>1, <1>2, <1>3, <1>4, <1>5, <1>6, <1>7, PTL
       DEF WorkSpec, Spec, N!Spec, T!Spec, SettledStays
=============================================================================
