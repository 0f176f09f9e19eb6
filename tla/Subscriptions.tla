---------------------------- MODULE Subscriptions ----------------------------
(***************************************************************************)
(* The subscriptions of one customer to one product, and what paid orders, *)
(* gifts, refunds, staff, erasing and the nightly sweep do to their dates: *)
(* services/billing.py and db/subscriptions.py.                            *)
(*                                                                         *)
(* An operation that holds _subscription_lock is one action.  Erasing does *)
(* not take that lock and the sweep reads before it takes it, so these     *)
(* come between.  Time is counted in days; a day is the unit in which      *)
(* periods are sold.                                                       *)
(***************************************************************************)
EXTENDS Integers, FiniteSetsExt

CONSTANTS
    Orders,     \* paid orders and gifts of access
    Subs,       \* rows of subscriptions
    NoSub,
    Days,       \* the periods that are sold and given
    MaxTime,    \* bound on the clock
    MaxGifts    \* bound on gifts of days

ASSUME SubscriptionsAssumption ==
    /\ NoSub \notin Subs
    /\ Days \subseteq Nat \ {0}
    /\ MaxTime \in Nat /\ MaxGifts \in Nat

VARIABLES
    now,
    account,    \* live, blocked or erased
    order,      \* rows of orders
    sub,        \* rows of subscriptions
    gifts,      \* days given to each row, as the audit log has them
    given,      \* how many gifts there were
    sweep       \* the row the sweep has read, and the date it saw

vars == <<now, account, order, sub, gifts, given, sweep>>

OrderRow ==
    [status : {"none", "paid", "completed", "refund_pending", "refunded"},
     paid : BOOLEAN, days : Days \cup {0}, sub : Subs \cup {NoSub}, reversed : BOOLEAN]
SubRow ==
    [status : {"absent", "active", "expired", "cancelled"},
     started : Nat, expires : Int, credentials : BOOLEAN]

NoOrder == [status |-> "none", paid |-> FALSE, days |-> 0, sub |-> NoSub, reversed |-> FALSE]
NoRow == [status |-> "absent", started |-> 0, expires |-> 0, credentials |-> FALSE]
NotSweeping == [sub |-> NoSub, expires |-> 0]

Init ==
    /\ now = 0
    /\ account = "live"
    /\ order = [o \in Orders |-> NoOrder]
    /\ sub = [s \in Subs |-> NoRow]
    /\ gifts = [s \in Subs |-> 0]
    /\ given = 0
    /\ sweep = NotSweeping

-----------------------------------------------------------------------------
(* Vocabulary *)

Active(s) == sub[s].status = "active"
Running == {s \in Subs : Active(s)}

\* next_expiry: a period starts where the paid time ends, or now.
NextExpiry(expires, days) == (IF expires > now THEN expires ELSE now) + days

\* close: the status, and the access details with it.
Closed(row, status) == [row EXCEPT !.status = status, !.credentials = FALSE]

Create(s, days) ==
    /\ sub[s].status = "absent"
    /\ sub' = [sub EXCEPT ![s] = [status |-> "active", started |-> now,
                                  expires |-> now + days, credentials |-> FALSE]]

rest == UNCHANGED <<now, account, gifts, given, sweep>>

-----------------------------------------------------------------------------
(* Orders *)

\* The money of an order is recorded: record_payment, confirm_transfer.
Pay(o, d) ==
    /\ order[o].status = "none" /\ account # "erased"
    /\ order' = [order EXCEPT ![o] =
                     [NoOrder EXCEPT !.status = "paid", !.paid = TRUE, !.days = d]]
    /\ UNCHANGED sub /\ rest

Eligible(o) ==
    /\ order[o].paid /\ ~order[o].reversed
    /\ order[o].status \notin {"refund_pending", "refunded"}
    /\ account = "live"

\* apply_payment: the running subscription is extended, or a new one starts.
Apply(o) ==
    /\ Eligible(o) /\ order[o].sub = NoSub
    /\ \E s \in Subs :
          /\ \/ Active(s)
                /\ sub' = [sub EXCEPT ![s].expires = NextExpiry(@, order[o].days)]
             \/ Running = {} /\ Create(s, order[o].days)
          /\ order' = [order EXCEPT ![o].sub = s]
    /\ rest

\* Mutant: the status is written without the claim.
CompleteUnclaimed(o) ==
    /\ order[o].paid /\ order[o].sub # NoSub
    /\ order' = [order EXCEPT ![o].status = "completed"]
    /\ UNCHANGED sub /\ rest

\* Delivered and confirmed, by staff or by the customer: complete_order,
\* confirm_order.
Complete(o) ==
    /\ order[o].status = "paid" /\ order[o].sub # NoSub
    /\ order' = [order EXCEPT ![o].status = "completed"]
    /\ UNCHANGED sub /\ rest

RefundOrder(o) ==
    /\ order[o].paid /\ order[o].status \in {"paid", "completed"}
    /\ order' = [order EXCEPT ![o].status = "refund_pending"]
    /\ UNCHANGED sub /\ rest

\* Mutant: staff press Retry on a completed refund and the days go again.
RevokeAgain(o) ==
    /\ order[o].status \in {"refund_pending", "refunded"}
    /\ order' = [order EXCEPT ![o].reversed = TRUE]
    /\ LET s == order[o].sub
           back == sub[s].expires - order[o].days IN
       IF s = NoSub THEN UNCHANGED sub
       ELSE IF Active(s) /\ back <= now
       THEN sub' = [sub EXCEPT ![s] = Closed(@, "cancelled")]
       ELSE sub' = [sub EXCEPT ![s].expires = back]
    /\ rest

\* The money is back and revoke_payment takes back the days, once.  A row whose
\* date falls to now or before is closed and keeps its date.
Revoke(o) ==
    /\ order[o].status \in {"refund_pending", "refunded"} /\ ~order[o].reversed
    /\ order' = [order EXCEPT ![o].reversed = TRUE]
    /\ LET s == order[o].sub
           back == sub[s].expires - order[o].days IN
       IF s = NoSub THEN UNCHANGED sub
       ELSE IF Active(s) /\ back <= now
       THEN sub' = [sub EXCEPT ![s] = Closed(@, "cancelled")]
       ELSE sub' = [sub EXCEPT ![s].expires = back]
    /\ rest

\* The end of _finalize_order_refund, by the task that revoked.
CloseRefund(o) ==
    /\ order[o].status = "refund_pending" /\ order[o].reversed
    /\ order' = [order EXCEPT ![o].status = "refunded"]
    /\ UNCHANGED sub /\ rest

-----------------------------------------------------------------------------
(* Staff *)

\* gift_days.  A gift too short to reach the present closes a lapsed row.
GiftDays(s, d) ==
    /\ given < MaxGifts /\ given' = given + 1
    /\ Active(s) /\ account = "live"
    /\ LET until == sub[s].expires + d
           moved == [sub[s] EXCEPT !.expires = until] IN
       sub' = [sub EXCEPT ![s] = IF until <= now THEN Closed(moved, "expired") ELSE moved]
    /\ gifts' = [gifts EXCEPT ![s] = @ + d]
    /\ UNCHANGED <<now, account, order, sweep>>

\* grant_subscription: access without a payment, with an order of nothing.
Granted(o, s, d) ==
    order' = [order EXCEPT ![o] = [NoOrder EXCEPT !.status = "completed", !.days = d, !.sub = s]]

\* Mutant: a second subscription beside a running one.
GrantBeside(o, s, d) ==
    /\ account = "live" /\ order[o].status = "none"
    /\ Create(s, d) /\ Granted(o, s, d)
    /\ rest

GrantSubscription(o, s, d) ==
    /\ account = "live" /\ order[o].status = "none"
    /\ Running = {}
    /\ Create(s, d) /\ Granted(o, s, d)
    /\ rest

CloseSubscription(s) ==
    /\ Active(s)
    /\ sub' = [sub EXCEPT ![s] = Closed(@, "cancelled")]
    /\ UNCHANGED order /\ rest

\* Mutant: the details are stored by the id of the row alone.
StoreCredentials(s) ==
    /\ sub[s].status # "absent"
    /\ sub' = [sub EXCEPT ![s].credentials = TRUE]
    /\ UNCHANGED order /\ rest

SetCredentials(s) ==
    /\ Active(s)
    /\ sub' = [sub EXCEPT ![s].credentials = TRUE]
    /\ UNCHANGED order /\ rest

-----------------------------------------------------------------------------
(* The sweep, the account, the clock *)

\* close_expired reads the row once more under the customer's lifecycle lock.
\* The list it works on was read before, so the row need not be over any more; one
\* that was closed since is let alone.
ReadDue(s) ==
    /\ sweep = NotSweeping /\ account # "erased"
    /\ Active(s)
    /\ sweep' = [sub |-> s, expires |-> sub[s].expires]
    /\ UNCHANGED <<now, account, order, sub, gifts, given>>

\* Mutant: the row is closed because the list said so.
ClaimExpiredBlindly ==
    /\ sweep # NotSweeping
    /\ LET s == sweep.sub IN
       sub' = [sub EXCEPT ![s] = IF Active(s) THEN Closed(@, "expired") ELSE @]
    /\ sweep' = NotSweeping
    /\ UNCHANGED <<now, account, order, gifts, given>>

\* claim_expired: only the row as it was read, and only when it is over.
ClaimExpired ==
    /\ sweep # NotSweeping
    /\ LET s == sweep.sub
           due == Active(s) /\ sub[s].expires = sweep.expires /\ sub[s].expires <= now IN
       sub' = [sub EXCEPT ![s] = IF due THEN Closed(@, "expired") ELSE @]
    /\ sweep' = NotSweeping
    /\ UNCHANGED <<now, account, order, gifts, given>>

SetBlocked(to) ==
    /\ sweep = NotSweeping /\ account # "erased"
    /\ account' = to
    /\ UNCHANGED <<now, order, sub, gifts, given, sweep>>

\* The lifecycle lock keeps erasing and the sweep of one customer apart.
Erase ==
    /\ sweep = NotSweeping /\ account # "erased"
    /\ \A o \in Orders : order[o].status \notin {"paid", "refund_pending"}
    /\ account' = "erased"
    /\ sub' = [s \in Subs |-> IF sub[s].status = "absent" THEN sub[s]
                              ELSE Closed(sub[s], "cancelled")]
    /\ UNCHANGED <<now, order, gifts, given, sweep>>

Tick ==
    /\ now < MaxTime
    /\ now' = now + 1
    /\ UNCHANGED <<account, order, sub, gifts, given, sweep>>

\* A restart forgets what the sweep has read.
Restart ==
    /\ sweep # NotSweeping
    /\ sweep' = NotSweeping
    /\ UNCHANGED <<now, account, order, sub, gifts, given>>

-----------------------------------------------------------------------------

Next ==
    \/ \E o \in Orders :
          \/ \E d \in Days : Pay(o, d)
          \/ Apply(o) \/ Complete(o) \/ RefundOrder(o) \/ Revoke(o) \/ CloseRefund(o)
          \/ \E s \in Subs, d \in Days : GrantSubscription(o, s, d)
    \/ \E s \in Subs :
          \/ \E d \in Days : GiftDays(s, d)
          \/ CloseSubscription(s) \/ SetCredentials(s) \/ ReadDue(s)
    \/ ClaimExpired
    \/ \E to \in {"live", "blocked"} : SetBlocked(to)
    \/ Erase \/ Tick \/ Restart

Spec == Init /\ [][Next]_vars

-----------------------------------------------------------------------------
(* Properties *)

\* What the rows say of each other: an order points at a row that was written,
\* and only the refund it is marked for has taken its days back.
Linked ==
    \A o \in Orders :
        /\ order[o].sub # NoSub => sub[order[o].sub].status # "absent"
        /\ order[o].reversed => order[o].status \in {"refund_pending", "refunded"}

\* The types of the rows, and the links between them.
TypeOK ==
    /\ now \in Nat
    /\ account \in {"live", "blocked", "erased"}
    /\ order \in [Orders -> OrderRow]
    /\ sub \in [Subs -> SubRow]
    /\ gifts \in [Subs -> Nat] /\ given \in Nat
    /\ sweep \in {NotSweeping} \cup [sub : Subs, expires : Int]
    /\ Linked

\* A customer holds one running subscription to a product, whichever of
\* payment, gift and renewal comes first.  (idx_subs_active_slug enforces it;
\* here it holds because the code never tries.)
OneRunning == \A s, u \in Subs : Active(s) /\ Active(u) => s = u

\* Access details are in the table only while the access runs: a button in an
\* old message shows nothing after the end.  (set_status's comment.)
DetailsEndWithAccess == \A s \in Subs : sub[s].credentials => Active(s)

\* Nobody who was erased has access, and no operation under way gives it back.
ErasedHasNoAccess == account = "erased" => Running = {}

\* What ended is gone: no access details without running access and no access of an
\* erased customer, although staff write details, and payments and gifts give access,
\* for a row that they read before.
EndedAccessIsGone == DetailsEndWithAccess /\ ErasedHasNoAccess

\* The days of a running row: those of its orders that were not taken back,
\* and the gifts.
Credit(s) ==
    MapThenSumSet(LAMBDA o : order[o].days,
                  {o \in Orders : order[o].sub = s /\ ~order[o].reversed}) + gifts[s]

\* Days add up.  A running subscription ends no earlier than its start plus all
\* the days it was credited with, and no later than now plus these days, through
\* renewals before and after the end, gifts, and refunds in any order: no paid
\* day is lost and none is had for nothing.
DaysAddUp ==
    \A s \in Subs : Active(s) =>
        /\ sub[s].started + Credit(s) <= sub[s].expires
        /\ sub[s].expires <= now + Credit(s)

\* The sweep ends only what is over, although it reads the row before it takes
\* the lock and a renewal or a gift may come between.
SweepSparesPaidTime ==
    [][\A s \in Subs : Active(s) /\ sub'[s].status = "expired" => sub[s].expires <= now]_vars
=============================================================================
