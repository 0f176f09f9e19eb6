----------------------------- MODULE Fulfilment -----------------------------
(***************************************************************************)
(* What staff, the customer and the scheduler do to an order after         *)
(* checkout: handlers/admin/orders.py, handlers/account.py, db/orders.py.  *)
(*                                                                         *)
(* A handler reads the row, judges it, claims a status that the claim      *)
(* names, and does the rest in later calls.  What it read may be old by    *)
(* then: confirming, rejecting and cancelling read that no money was       *)
(* recorded, which another handler can change, so their read and their     *)
(* claim are two steps.  The other handlers ask only whether the order is  *)
(* paid and has its subscription; neither is ever taken back, so they read *)
(* and claim in one step.                                                  *)
(***************************************************************************)
EXTENDS Naturals

CONSTANTS
    Orders,
    Tasks,          \* handlers under way at one time
    MaxFaults,      \* bound on fulfilments that fail
    MaxRestarts     \* bound on restarts of the process

FulfilmentAssumption ==
    /\ MaxFaults \in Nat
    /\ MaxRestarts \in Nat

VARIABLES
    order,      \* rows of orders
    access,     \* the subscription an order gave: none, active or closed
    details,    \* its access details: never stored, stored, or dropped with it
    task,       \* where each handler stands
    late,       \* who went before a handler since its last database call
    faults,
    restarts

vars == <<order, access, details, task, late, faults, restarts>>

Open == {"receipt", "review", "paid", "delivered", "problem", "refund_pending"}
NeedsAdmin == {"review", "paid", "problem", "refund_pending"}
Reversed == {"refunded", "rejected", "cancelled"}
Final == Reversed \cup {"completed", "expired"}

Row == [status : {"none"} \cup Open \cup Final, paid : BOOLEAN, linked : BOOLEAN,
        receipt : BOOLEAN, reversed : BOOLEAN]
NoRow == [status |-> "none", paid |-> FALSE, linked |-> FALSE,
          receipt |-> FALSE, reversed |-> FALSE]

Idle == [at |-> "idle", saw |-> NoRow]
Handler ==
    [at : {"confirm", "apply", "pay", "failed", "reject", "cancel", "revoke",
           "deliver", "store", "unstored"}, o : Orders, saw : Row]

-----------------------------------------------------------------------------
(* The database: compare and swap, and whose turn it is *)

\* claim_status.  paid_at is stamped the first time money is confirmed.
Claims(o, expected, new) ==
    /\ order[o].status \in expected
    /\ order' = [order EXCEPT ![o].status = new, ![o].paid = @ \/ new = "paid"]

\* Handlers whose next call to the database follows at once on their last.
AtTheLock(t) == task[t].at \in {"confirm", "reject", "cancel", "deliver", "failed",
                                   "unstored"}

\* Mutant: the lock is given to whoever asks.
TurnOfAnyone(t) ==
    late' = [u \in Tasks |-> {}]

\* The write lock is first come, first served: while a handler waits for it,
\* each of the others gets it at most once.
Turn(t) ==
    /\ \A u \in Tasks \ {t} : AtTheLock(u) => t \notin late[u]
    /\ late' = [u \in Tasks |-> IF u # t /\ AtTheLock(u) THEN late[u] \cup {t} ELSE {}]

Goes(t, at) == task' = [task EXCEPT ![t].at = at]
Ends(t) == task' = [task EXCEPT ![t] = Idle]
Reads(t, o, at) ==
    /\ task[t] = Idle /\ order[o].status # "none"
    /\ task' = [task EXCEPT ![t] = [at |-> at, o |-> o, saw |-> order[o]]]
Mine(t, at) == task[t].at = at

rest == UNCHANGED <<access, details, faults, restarts>>

-----------------------------------------------------------------------------
(* Where orders come from *)

\* start_transfer, of an order that waits for its receipt.
OpenTransfer(o) ==
    /\ order[o].status = "none"
    /\ order' = [order EXCEPT ![o].status = "receipt"]
    /\ UNCHANGED <<task, late>> /\ rest

\* handle_payment has recorded a charge and goes on to fulfil the order.
StarsPaid(t, o) ==
    /\ order[o].status = "none" /\ task[t] = Idle /\ Turn(t)
    /\ order' = [order EXCEPT ![o].status = "paid", ![o].paid = TRUE]
    /\ task' = [task EXCEPT ![t] = [at |-> "pay", o |-> o, saw |-> NoRow]]
    /\ rest

\* attach_receipt: once, also to a transfer whose time ran out lately.
AttachReceipt(o) ==
    /\ order[o].status \in {"receipt", "expired"} /\ ~order[o].receipt
    /\ order' = [order EXCEPT ![o].status = "review", ![o].receipt = TRUE]
    /\ UNCHANGED <<task, late>> /\ rest

\* close_stale_orders.
CloseStaleOrder(o) ==
    /\ Claims(o, {"receipt"}, "expired")
    /\ UNCHANGED <<task, late>> /\ rest

\* flag_stale_reviews.
FlagStaleReview(o) ==
    /\ Claims(o, {"review"}, "problem")
    /\ UNCHANGED <<task, late>> /\ rest

\* The customer's own Cancel: a claim, whatever was read.
CustomerCancel(o) ==
    /\ Claims(o, {"receipt"}, "cancelled")
    /\ UNCHANGED <<task, late>> /\ rest

-----------------------------------------------------------------------------
(* Confirming a transfer *)

Recovering(row) == row.paid /\ ~row.linked

\* confirm_transfer reads the order.  One that is paid and was not fulfilled is
\* taken up again.
ReadConfirm(t, o) ==
    /\ Turn(t)
    /\ LET row == order[o] IN
       IF Recovering(row)
       THEN \/ row.status = "problem" /\ Reads(t, o, "confirm")
            \/ row.status = "paid" /\ Reads(t, o, "apply")
       ELSE ~row.paid /\ Reads(t, o, "confirm")
    /\ UNCHANGED order /\ rest

ConfirmTransfer(t) ==
    /\ Mine(t, "confirm") /\ Turn(t)
    /\ LET o == task[t].o
           from == IF Recovering(task[t].saw) THEN {"problem"} ELSE {"review", "problem"} IN
       \/ Claims(o, from, "paid") /\ Goes(t, "apply")
       \/ order[o].status \notin from /\ UNCHANGED order /\ Ends(t)
    /\ rest

Eligible(o) ==
    /\ order[o].paid /\ ~order[o].reversed
    /\ order[o].status \notin Reversed \cup {"refund_pending"}

\* apply_payment, for staff and for a payment in Stars.  It reads the order once
\* more; one that has its subscription is left as it is.
ApplyPayment(t) ==
    /\ task[t].at \in {"apply", "pay"} /\ Turn(t)
    /\ LET o == task[t].o IN
       /\ Eligible(o)
       /\ IF order[o].linked THEN UNCHANGED <<order, access>>
          ELSE /\ order' = [order EXCEPT ![o].linked = TRUE]
               /\ access' = [access EXCEPT ![o] = "active"]
    /\ Ends(t)
    /\ UNCHANGED <<details, faults, restarts>>

\* The order is not eligible, the customer is blocked, or the write fails.  The
\* payment handler leaves the order to staff as it is.
ApplyFails(t) ==
    /\ task[t].at \in {"apply", "pay"} /\ Turn(t)
    /\ IF Eligible(task[t].o) THEN faults < MaxFaults /\ faults' = faults + 1
       ELSE UNCHANGED faults
    /\ IF Mine(t, "apply") THEN Goes(t, "failed") ELSE Ends(t)
    /\ UNCHANGED <<order, access, details, restarts>>

\* The end of confirm_transfer when fulfilment failed.
ParkFailed(t) ==
    /\ Mine(t, "failed") /\ Turn(t)
    /\ LET o == task[t].o IN
       \/ Claims(o, {"paid"}, "problem")
       \/ order[o].status # "paid" /\ UNCHANGED order
    /\ Ends(t)
    /\ rest

-----------------------------------------------------------------------------
(* Refusing *)

ReadReject(t, o) ==
    /\ ~order[o].paid /\ Reads(t, o, "reject") /\ Turn(t)
    /\ UNCHANGED order /\ rest

RejectTransfer(t) ==
    /\ Mine(t, "reject") /\ Turn(t)
    /\ LET o == task[t].o IN
       \/ Claims(o, {"review", "problem"}, "rejected") /\ Goes(t, "revoke")
       \/ order[o].status \notin {"review", "problem"} /\ UNCHANGED order /\ Ends(t)
    /\ rest

ReadCancel(t, o) ==
    /\ ~order[o].paid /\ Reads(t, o, "cancel") /\ Turn(t)
    /\ UNCHANGED order /\ rest

\* cancel_order: cancel_unpaid asks for paid_at in the same update.
CancelOrder(t) ==
    /\ Mine(t, "cancel") /\ Turn(t)
    /\ LET o == task[t].o IN
       \/ ~order[o].paid /\ Claims(o, Open, "cancelled") /\ Goes(t, "revoke")
       \/ /\ order[o].paid \/ order[o].status \notin Open
          /\ UNCHANGED order /\ Ends(t)
    /\ rest

\* set_status drops the details with the access.
Dropped(o) == details' = [details EXCEPT ![o] = IF @ = "stored" THEN "wiped" ELSE @]

\* Days of a subscription that others gave stay; without them it is closed.
Withdrawn(o) ==
    \/ UNCHANGED <<access, details>>
    \/ /\ access[o] = "active"
       /\ access' = [access EXCEPT ![o] = "closed"]
       /\ Dropped(o)

\* revoke_payment, after a refusal: it reads the order once more.
RevokeRefused(t) ==
    /\ Mine(t, "revoke") /\ Turn(t)
    /\ LET o == task[t].o IN
       IF order[o].paid /\ ~order[o].reversed
       THEN order' = [order EXCEPT ![o].reversed = TRUE] /\ Withdrawn(o)
       ELSE UNCHANGED <<order, access, details>>
    /\ Ends(t)
    /\ UNCHANGED <<faults, restarts>>

-----------------------------------------------------------------------------
(* Delivering *)

Fulfilled(o) == order[o].paid /\ order[o].linked

\* save_order_credentials reads the order and its subscription.
ReadDeliver(t, o) ==
    /\ Fulfilled(o) /\ access[o] = "active"
    /\ Reads(t, o, "deliver") /\ Turn(t)
    /\ UNCHANGED order /\ rest

\* It claims the order before it stores the details.
Deliver(t) ==
    /\ Mine(t, "deliver") /\ Turn(t)
    /\ LET o == task[t].o
           from == {"paid", "delivered", "problem"} IN
       \/ Claims(o, from, "delivered") /\ Goes(t, "store")
       \/ order[o].status \notin from /\ UNCHANGED order /\ Ends(t)
    /\ rest

\* set_credentials looks at the subscription under the subscription lock.
StoreDetails(t) ==
    /\ Mine(t, "store") /\ Turn(t)
    /\ LET o == task[t].o IN
       IF access[o] = "active"
       THEN details' = [details EXCEPT ![o] = "stored"] /\ Ends(t)
       ELSE Goes(t, "unstored") /\ UNCHANGED details
    /\ UNCHANGED <<order, access, faults, restarts>>

\* The subscription was closed before the details were saved.
ParkUnstored(t) ==
    /\ Mine(t, "unstored") /\ Turn(t)
    /\ LET o == task[t].o IN
       \/ Claims(o, {"delivered"}, "problem")
       \/ order[o].status # "delivered" /\ UNCHANGED order
    /\ Ends(t)
    /\ rest

\* complete_order of staff.
CompleteOrder(o) ==
    /\ Fulfilled(o)
    /\ Claims(o, {"delivered", "problem"}, "completed")
    /\ UNCHANGED <<task, late>> /\ rest

\* confirm_order of the customer.
ConfirmOrder(o) ==
    /\ Fulfilled(o)
    /\ Claims(o, {"delivered", "problem"}, "completed")
    /\ UNCHANGED <<task, late>> /\ rest

\* Mutant: a button in an old message reopens any order that was fulfilled.
ReportOnAnything(o) ==
    /\ Fulfilled(o)
    /\ Claims(o, Open \cup Final, "problem")
    /\ UNCHANGED <<task, late>> /\ rest

\* report_problem of the customer.
ReportProblem(o) ==
    /\ Fulfilled(o)
    /\ Claims(o, {"delivered", "completed"}, "problem")
    /\ UNCHANGED <<task, late>> /\ rest

-----------------------------------------------------------------------------
(* Refunds, and the life of a subscription *)

\* refund_order records the obligation with the status.
RefundOrder(o) ==
    /\ order[o].paid
    /\ Claims(o, {"paid", "delivered", "completed", "problem"}, "refund_pending")
    /\ UNCHANGED <<task, late>> /\ rest

\* _finalize_order_refund, when the money is back, takes back the days first
\* and closes the order in a second call; a crash may come between.
RevokeRefunded(o) ==
    /\ order[o].status = "refund_pending" /\ ~order[o].reversed
    /\ order' = [order EXCEPT ![o].reversed = TRUE]
    /\ Withdrawn(o)
    /\ UNCHANGED <<task, late, faults, restarts>>

CloseRefunded(o) ==
    /\ order[o].reversed
    /\ Claims(o, {"refund_pending"}, "refunded")
    /\ UNCHANGED <<task, late>> /\ rest

\* close_subscription and claim_expired drop the details with the access.
EndAccess(o) ==
    /\ access[o] = "active"
    /\ access' = [access EXCEPT ![o] = "closed"]
    /\ Dropped(o)
    /\ UNCHANGED <<order, task, late, faults, restarts>>

\* set_subscription_credentials, without an order.
SetDetails(o) ==
    /\ access[o] = "active"
    /\ details' = [details EXCEPT ![o] = "stored"]
    /\ UNCHANGED <<order, access, task, late, faults, restarts>>

Restart ==
    /\ restarts < MaxRestarts
    /\ restarts' = restarts + 1
    /\ task' = [t \in Tasks |-> Idle]
    /\ late' = [t \in Tasks |-> {}]
    /\ UNCHANGED <<order, access, details, faults>>

-----------------------------------------------------------------------------

Init ==
    /\ order = [o \in Orders |-> NoRow]
    /\ access = [o \in Orders |-> "none"]
    /\ details = [o \in Orders |-> "none"]
    /\ task = [t \in Tasks |-> Idle]
    /\ late = [t \in Tasks |-> {}]
    /\ faults = 0 /\ restarts = 0

Confirming ==
    \E t \in Tasks :
        \/ \E o \in Orders : ReadConfirm(t, o) \/ StarsPaid(t, o)
        \/ ConfirmTransfer(t) \/ ApplyPayment(t) \/ ApplyFails(t) \/ ParkFailed(t)

Refusing ==
    \E t \in Tasks :
        \/ \E o \in Orders : ReadReject(t, o) \/ ReadCancel(t, o)
        \/ RejectTransfer(t) \/ CancelOrder(t) \/ RevokeRefused(t)

Delivering ==
    \/ \E t \in Tasks :
          \/ \E o \in Orders : ReadDeliver(t, o)
          \/ Deliver(t) \/ StoreDetails(t) \/ ParkUnstored(t)
    \/ \E o \in Orders : CompleteOrder(o) \/ ConfirmOrder(o) \/ ReportProblem(o)

Others ==
    \E o \in Orders :
        \/ OpenTransfer(o) \/ AttachReceipt(o) \/ CloseStaleOrder(o) \/ FlagStaleReview(o)
        \/ CustomerCancel(o)
        \/ RefundOrder(o) \/ RevokeRefunded(o) \/ CloseRefunded(o)
        \/ EndAccess(o) \/ SetDetails(o)

Next == Confirming \/ Refusing \/ Delivering \/ Others \/ Restart

Spec == Init /\ [][Next]_vars

-----------------------------------------------------------------------------
(* What an order promises *)

Stage(row) ==
    CASE row.status = "none" -> "none"
      [] row.status \in {"rejected", "cancelled"} -> "refused"
      [] row.status = "refund_pending" -> "owed"
      [] row.status = "refunded" -> "returned"
      [] row.status \in (Open \ {"refund_pending"}) \cup {"completed", "expired"} ->
            IF row.paid THEN "sold" ELSE "open"

P == INSTANCE OrderPromise WITH
    stage <- [o \in Orders |-> Stage(order[o])], holds <- access

\* An order is sold once or refused, gives access once, and only what is owed is returned,
\* in whatever order staff, the customer and the scheduler look at it and claim it.
PromiseStep == [P!PromiseNext]_(P!promiseVars)

-----------------------------------------------------------------------------
(* What reconcile() reports: inconsistencies() *)

PaidWithoutSubscription(o) ==
    order[o].paid /\ ~order[o].linked /\ order[o].status \notin Reversed
ReviewWithoutReceipt(o) == order[o].status = "review" /\ ~order[o].receipt
ClosedButGranting(o) ==
    /\ order[o].status \in Reversed
    /\ order[o].paid /\ ~order[o].reversed
    /\ order[o].linked /\ access[o] = "active"

Named(o) == PaidWithoutSubscription(o) \/ ReviewWithoutReceipt(o) \/ ClosedButGranting(o)

-----------------------------------------------------------------------------
(* Properties *)

\* Types, and that an order, its money and its subscription go together.
TypeOK ==
    /\ order \in [Orders -> Row]
    /\ access \in [Orders -> {"none", "active", "closed"}]
    /\ details \in [Orders -> {"none", "stored", "wiped"}]
    /\ task \in [Tasks -> {Idle} \cup Handler]
    /\ late \in [Tasks -> SUBSET Tasks]
    /\ faults \in 0..MaxFaults /\ restarts \in 0..MaxRestarts
    /\ \A o \in Orders : /\ order[o].linked <=> access[o] # "none"
                         /\ order[o].linked => order[o].paid

\* Money that was recorded is not refused.  reject_transfer and cancel_order look
\* at paid_at in a row they read before; of the two only the cancellation names
\* it in its claim, and a failed confirmation brings a paid order back into a
\* status that a rejection names ("This order was paid, use Refund").
PaidIsNotRefused ==
    \A o \in Orders : order[o].paid => order[o].status \notin {"rejected", "cancelled"}

\* Paid and not served is never out of sight: the order stands in the queue of
\* staff until somebody gives access or the money back, whatever was tapped and
\* wherever the process stopped.
UnservedIsInTheQueue ==
    \A o \in Orders : PaidWithoutSubscription(o) => order[o].status \in NeedsAdmin

\* The nightly reconciliation finds no order under review without its receipt
\* and no closed order that still gives access, also after a crash.
NothingToReconcile ==
    \A o \in Orders : ~ReviewWithoutReceipt(o) /\ ~ClosedButGranting(o)

\* As long as the process was not stopped half-way, a delivered order has had its
\* details, or a handler is about to store them or to find that access ended.
DeliveredHadDetails ==
    \A o \in Orders :
        order[o].status = "delivered" /\ restarts = 0
            => details[o] # "none" \/ \E t \in Tasks : task[t] # Idle /\ task[t].o = o

\* A refunded, rejected or cancelled order is not walked back ("where it would be
\* counted as collected revenue a second time").
ReversedStaysStep ==
    \A o \in Orders : order[o].status \in Reversed => order'[o].status = order[o].status
ReversedStays == [][ReversedStaysStep]_vars

\* The comment at db/orders.py:40, that a closed order never turns back into a
\* paying one.
\* The code does not keep it: see Disagreements in README.md.
ClosedStaysClosedStep ==
    \A o \in Orders :
       order[o].status \in Final => order'[o].status \notin {"receipt", "review", "paid"}
ClosedStaysClosed == [][ClosedStaysClosedStep]_vars

\* The comment at services/scheduler.py:297, that the report names what a crash
\* between two commits left broken: a delivered order, out of the queue of
\* staff, whose running subscription has no details and nobody at work on it.
\* The code does not keep it: see Disagreements in README.md.
InterruptionsAreNamed ==
    \A o \in Orders :
        /\ order[o].status = "delivered" /\ access[o] = "active" /\ details[o] = "none"
        /\ \A t \in Tasks : task[t] = Idle
        => Named(o)

\* Money that was recorded is not refused, and a paid order is served or in the queue of
\* staff until it is: handlers that read before they claim, errors and crashes leave no
\* order that gives access unpaid, or that was delivered without its details.
PaidOrdersAreServed ==
    /\ TypeOK /\ PaidIsNotRefused /\ UnservedIsInTheQueue /\ NothingToReconcile
    /\ DeliveredHadDetails
=============================================================================
