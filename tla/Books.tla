------------------------------- MODULE Books -------------------------------
(***************************************************************************)
(* The money the panel shows: stats.dashboard, which judges every order by *)
(* what it is now, and stats.revenue_for_month, which counts payments and  *)
(* reversals by the local month they were recorded in and is sent to staff *)
(* once the month is over.  The figures are read from orders               *)
(* (db/orders.py) that other handlers go on moving, also long after.       *)
(*                                                                         *)
(* Time is the local calendar month, a pair <<year, month>>.  A transfer   *)
(* waiting for its receipt, or whose time for one ran out, and one under   *)
(* review have paid nothing and are "pending" alike.                       *)
(***************************************************************************)
EXTENDS Integers, FiniteSets, Functions

CONSTANTS
    Orders,
    Amounts,        \* what an order may cost
    FirstMonth,     \* the month the shop opens, in year 0
    MaxMonths       \* bound on the months that pass

BooksAssumption ==
    /\ Amounts \subseteq Nat /\ MaxMonths \in Nat /\ FirstMonth \in 1..12

VARIABLES
    order,      \* the rows: status, amount, paid_at, reversed_at, linked to a subscription
    age,        \* months since the shop opened
    report      \* what staff were told of a month, by its age

vars == <<order, age, report>>

Never == <<>>
MonthAt(n) == <<(FirstMonth - 1 + n) \div 12, ((FirstMonth - 1 + n) % 12) + 1>>
Today == MonthAt(age)

Before(a, b) == a[1] < b[1] \/ (a[1] = b[1] /\ a[2] < b[2])

NoRow == [status |-> "none", amount |-> 0, paid |-> Never, reversed |-> Never,
          linked |-> FALSE]
ReversedStatuses == {"refunded", "rejected", "cancelled"}

-----------------------------------------------------------------------------
(* The figures *)

\* month_bounds_utc: the first instants of a local month and of the one after it.
MonthBounds(offset) ==
    LET months == Today[2] + offset
        year == Today[1] + (months - 1) \div 12
        month == ((months - 1) % 12) + 1 IN
    [start |-> <<year, month>>, end |-> <<year + month \div 12, (month % 12) + 1>>]

Within(when, bounds) ==
    when # Never /\ ~Before(when, bounds.start) /\ Before(when, bounds.end)

Sum(S) == SumFunctionOnSet([o \in Orders |-> order[o].amount], S)

\* revenue_for_month, its net.
RevenueForMonth(offset) ==
    LET bounds == MonthBounds(offset) IN
    Sum({o \in Orders : Within(order[o].paid, bounds)})
      - Sum({o \in Orders : order[o].paid # Never /\ Within(order[o].reversed, bounds)})

\* PAID_CONDITION.
Collected(o) == order[o].paid # Never /\ order[o].status \notin ReversedStatuses

Dashboard == Sum({o \in Orders : Collected(o)})

-----------------------------------------------------------------------------
(* The life of an order, as far as money goes *)

\* create: an order that is created as paid is stamped at once.
Create(o, status, amount) ==
    /\ order[o] = NoRow
    /\ order' = [order EXCEPT ![o] = [status |-> status, amount |-> amount, reversed |-> Never,
                                      paid |-> IF status = "paid" THEN Today ELSE Never,
                                      linked |-> status = "completed"]]
    /\ UNCHANGED <<age, report>>

Transfer(o) == \E a \in Amounts : Create(o, "pending", a)
StarsPaid(o) == \E a \in Amounts : Create(o, "paid", a)
\* grant_subscription: nothing to pay, and not income.
Granted(o) == Create(o, "completed", 0)

Claims(o, expected, new) ==
    /\ order[o].status \in expected
    /\ order' = [order EXCEPT ![o].status = new]
    /\ UNCHANGED <<age, report>>

\* confirm_transfer, also of an order that was parked when its fulfilment failed.
Confirm(o) ==
    /\ order[o].status \in {"pending", "problem"} /\ ~order[o].linked
    /\ order' = [order EXCEPT ![o].status = "paid",
                              ![o].paid = IF @ = Never THEN Today ELSE @]
    /\ UNCHANGED <<age, report>>

\* apply_payment.
Fulfil(o) ==
    /\ order[o].status = "paid" /\ ~order[o].linked
    /\ order' = [order EXCEPT ![o].linked = TRUE]
    /\ UNCHANGED <<age, report>>

\* A fulfilment that failed, or a receipt nobody looked at.
Park(o) == ~order[o].linked /\ Claims(o, {"paid", "pending"}, "problem")

\* Credentials sent, order completed by either side, problem reported.
Serve(o) ==
    /\ order[o].paid # Never /\ order[o].linked
    /\ \/ Claims(o, {"paid", "problem"}, "delivered")
       \/ Claims(o, {"delivered", "problem"}, "completed")
       \/ Claims(o, {"delivered", "completed"}, "problem")

\* reject_transfer, once no money is recorded.
Reject(o) == order[o].paid = Never /\ Claims(o, {"pending", "problem"}, "rejected")

\* cancel_unpaid.
CancelUnpaid(o) == order[o].paid = Never /\ Claims(o, {"pending", "problem"}, "cancelled")

\* refund_order.
Refund(o) ==
    /\ order[o].paid # Never
    /\ Claims(o, {"paid", "delivered", "completed", "problem"}, "refund_pending")

\* _finalize_order_refund, its first commit: mark_reversed.  It is made again when the
\* process stopped before the second.
Revoke(o) ==
    /\ order[o].status = "refund_pending"
    /\ order' = [order EXCEPT ![o].reversed = IF @ = Never THEN Today ELSE @]
    /\ UNCHANGED <<age, report>>

\* Mutant: the order is closed first, and the process may stop after it.
CloseFirst(o) == Claims(o, {"refund_pending"}, "refunded")

\* Its second commit.
Close(o) == order[o].reversed # Never /\ Claims(o, {"refund_pending"}, "refunded")

-----------------------------------------------------------------------------
(* Months *)

NextMonth ==
    /\ age < MaxMonths /\ age' = age + 1
    /\ UNCHANGED <<order, report>>

\* monthly_report, on any day of the month after.
MonthlyReport ==
    /\ age > 0 /\ age - 1 \notin DOMAIN report
    /\ report' = [n \in DOMAIN report \cup {age - 1} |->
                     IF n = age - 1 THEN RevenueForMonth(-1) ELSE report[n]]
    /\ UNCHANGED <<order, age>>

-----------------------------------------------------------------------------

Init ==
    /\ order = [o \in Orders |-> NoRow] /\ age = 0
    /\ report = [n \in {} |-> 0]

Next ==
    \/ \E o \in Orders :
          \/ Transfer(o) \/ StarsPaid(o) \/ Granted(o)
          \/ Confirm(o) \/ Fulfil(o) \/ Park(o) \/ Serve(o) \/ Reject(o) \/ CancelUnpaid(o)
          \/ Refund(o) \/ Revoke(o) \/ Close(o)
    \/ NextMonth \/ MonthlyReport

Spec == Init /\ [][Next]_vars

-----------------------------------------------------------------------------
(* Properties *)

Months == {MonthAt(n) : n \in 0..MaxMonths}
Statuses == {"none", "pending", "paid", "problem", "delivered", "completed",
             "refund_pending"} \cup ReversedStatuses

\* Types; money is reversed only after it was recorded, and reports are of months past.
TypeOK ==
    /\ age \in 0..MaxMonths
    /\ \A o \in Orders :
          /\ order[o].status \in Statuses /\ order[o].linked \in BOOLEAN
          /\ order[o].amount \in Amounts \cup {0}
          /\ order[o].paid \in Months \cup {Never} /\ order[o].reversed \in Months \cup {Never}
          /\ order[o].reversed # Never => order[o].paid # Never
                                          /\ ~Before(order[o].reversed, order[o].paid)
    /\ DOMAIN report \subseteq 0..(age - 1) /\ \A n \in DOMAIN report : report[n] \in Int

\* The two figures are of one purse: what the dashboard says was collected is the sum of
\* all months' nets, but for a refund between its two commits, which the month already
\* counts and the dashboard not yet.
BooksBalance ==
    LET nets == SumFunction([n \in 0..age |-> RevenueForMonth(n - age)]) IN
    Dashboard = nets + Sum({o \in Orders : /\ order[o].status = "refund_pending"
                                           /\ order[o].reversed # Never})

\* What staff were told of a month stays true: nothing that happens to its orders later
\* moves money into or out of a month that is over.
ReportsStand == \A n \in DOMAIN report : report[n] = RevenueForMonth(n - age)

\* Seen from today, a payment lies in one month: the bounds of the months, worked out by
\* offset, leave no gap and do not overlap over the turn of the year.
EveryPaymentHasItsMonth ==
    \A o \in Orders : order[o].paid # Never =>
       Cardinality({n \in 0..age : Within(order[o].paid, MonthBounds(n - age))}) = 1

\* Every payment lies in one month, the months add up to the dashboard, and a report that
\* went out stays right, whatever happens to its orders afterwards.
BooksAgree ==
    /\ TypeOK /\ EveryPaymentHasItsMonth /\ BooksBalance /\ ReportsStand
=============================================================================
