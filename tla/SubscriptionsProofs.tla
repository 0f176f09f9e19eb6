------------------------- MODULE SubscriptionsProofs -------------------------
(***************************************************************************)
(* Proofs about Subscriptions, for any orders, rows, periods and bounds:   *)
(* one running subscription, details that end with it, no access after     *)
(* erasing, a sweep that spares paid time, and days that add up; and about *)
(* Books, whose months add up by the same lemmas on sums.                  *)
(***************************************************************************)
EXTENDS Subscriptions, FiniteSetTheorems, WellFoundedInduction, TLAPS

CONSTANTS Sales, Amounts, FirstMonth, MaxMonths     \* of Books
VARIABLES ledger, age, report                       \* of Books

B == INSTANCE Books WITH Orders <- Sales, order <- ledger

\* The invariant: each part is inductive beside the types.
Inv == TypeOK /\ OneRunning /\ DetailsEndWithAccess /\ ErasedHasNoAccess

-----------------------------------------------------------------------------
(* The rows: what an update leaves *)

Statuses == {"none", "paid", "completed", "refund_pending", "refunded"}

LEMMA OrderRows ==
    ASSUME NEW r \in OrderRow
    PROVE  /\ \A st \in Statuses :
                /\ [r EXCEPT !.status = st] \in OrderRow
                /\ [r EXCEPT !.status = st].status = st
                /\ [r EXCEPT !.status = st].sub = r.sub
                /\ [r EXCEPT !.status = st].reversed = r.reversed
           /\ [r EXCEPT !.reversed = TRUE] \in OrderRow
           /\ [r EXCEPT !.reversed = TRUE].sub = r.sub
           /\ [r EXCEPT !.reversed = TRUE].status = r.status
  BY Zenon DEF OrderRow, Statuses

LEMMA OrderFields ==
    ASSUME NEW r \in OrderRow
    PROVE  r.days \in Nat /\ r.sub \in Subs \cup {NoSub}
<1>1. r.days \in Days \cup {0} /\ r.sub \in Subs \cup {NoSub}
  BY Zenon DEF OrderRow
<1>2. \A d \in Days \cup {0} : d \in Nat
  BY SubscriptionsAssumption, SMT
<1>3. QED
  BY <1>1, <1>2, Zenon

LEMMA LinkedRow ==
    ASSUME NEW r \in OrderRow, NEW s \in Subs
    PROVE  /\ [r EXCEPT !.sub = s] \in OrderRow
           /\ [r EXCEPT !.sub = s].sub = s
           /\ [r EXCEPT !.sub = s].status = r.status
           /\ [r EXCEPT !.sub = s].reversed = r.reversed
  BY Zenon DEF OrderRow

LEMMA SubRows ==
    ASSUME NEW r \in SubRow
    PROVE  /\ r.expires \in Int /\ r.started \in Nat
           /\ \A st \in {"expired", "cancelled"} :
                /\ Closed(r, st) \in SubRow
                /\ Closed(r, st).status = st
                /\ Closed(r, st).credentials = FALSE
           /\ [r EXCEPT !.credentials = TRUE] \in SubRow
           /\ [r EXCEPT !.credentials = TRUE].status = r.status
  BY Zenon DEF SubRow, Closed

LEMMA MovedRow ==
    ASSUME NEW r \in SubRow, NEW e \in Int
    PROVE  /\ [r EXCEPT !.expires = e] \in SubRow
           /\ [r EXCEPT !.expires = e].status = r.status
           /\ [r EXCEPT !.expires = e].credentials = r.credentials
  BY Zenon DEF SubRow

LEMMA PaidRow ==
    ASSUME NEW d \in Days
    PROVE  /\ [NoOrder EXCEPT !.status = "paid", !.paid = TRUE, !.days = d] \in OrderRow
           /\ [NoOrder EXCEPT !.status = "paid", !.paid = TRUE, !.days = d].sub = NoSub
           /\ [NoOrder EXCEPT !.status = "paid", !.paid = TRUE, !.days = d].reversed = FALSE
  BY Zenon DEF NoOrder, OrderRow

LEMMA GrantedRow ==
    ASSUME NEW d \in Days, NEW s \in Subs
    PROVE  /\ [NoOrder EXCEPT !.status = "completed", !.days = d, !.sub = s] \in OrderRow
           /\ [NoOrder EXCEPT !.status = "completed", !.days = d, !.sub = s].sub = s
           /\ [NoOrder EXCEPT !.status = "completed", !.days = d, !.sub = s].reversed = FALSE
  BY Zenon DEF NoOrder, OrderRow

Created(until) ==
    [status |-> "active", started |-> now, expires |-> until, credentials |-> FALSE]

LEMMA CreatedRow ==
    ASSUME now \in Nat, NEW until \in Int
    PROVE  /\ Created(until) \in SubRow
           /\ Created(until).status = "active" /\ Created(until).credentials = FALSE
  BY Zenon DEF SubRow, Created

\* Closing one row keeps every part of the invariant that is about rows.
LEMMA CloseKeeps ==
    ASSUME Inv, NEW s \in Subs, Active(s), NEW st \in {"expired", "cancelled"},
           NEW e \in Int,
           sub' = [sub EXCEPT ![s] = Closed([@ EXCEPT !.expires = e], st)]
                  \/ sub' = [sub EXCEPT ![s] = Closed(@, st)]
    PROVE  /\ sub' \in [Subs -> SubRow]
           /\ \A u \in Subs : sub[u].status # "absent" => sub'[u].status # "absent"
           /\ \A u \in Subs : Active(u)' => Active(u)
           /\ DetailsEndWithAccess'
<1>1. sub[s] \in SubRow
  BY DEF Inv, TypeOK
<1>2. /\ Closed(sub[s], st) \in SubRow
      /\ Closed(sub[s], st).status = st /\ Closed(sub[s], st).credentials = FALSE
  BY <1>1, SubRows, Zenon
<1>3. [sub[s] EXCEPT !.expires = e] \in SubRow
  BY <1>1, MovedRow
<1>4. /\ Closed([sub[s] EXCEPT !.expires = e], st) \in SubRow
      /\ Closed([sub[s] EXCEPT !.expires = e], st).status = st
      /\ Closed([sub[s] EXCEPT !.expires = e], st).credentials = FALSE
  BY <1>3, SubRows, Zenon
<1>5. QED
  BY <1>2, <1>4, SMT DEF Inv, TypeOK, DetailsEndWithAccess, Active

-----------------------------------------------------------------------------

LEMMA InitInv == Init => Inv
  BY SubscriptionsAssumption, SMT
     DEF Init, Inv, TypeOK, Linked, OneRunning, DetailsEndWithAccess, ErasedHasNoAccess,
         OrderRow, SubRow, NoOrder, NoRow, NotSweeping, Active, Running

LEMMA NextInv == Inv /\ [Next]_vars => Inv'
<1> SUFFICES ASSUME Inv, [Next]_vars PROVE Inv'
  OBVIOUS
<1> USE SubscriptionsAssumption
    DEF Inv, TypeOK, Linked, OneRunning, DetailsEndWithAccess, ErasedHasNoAccess,
        Active, Running, rest, Statuses
<1>o. ASSUME NEW o \in Orders PROVE order[o] \in OrderRow
  OBVIOUS
<1>s. ASSUME NEW s \in Subs PROVE sub[s] \in SubRow
  OBVIOUS
<1>1. ASSUME NEW o \in Orders, NEW d \in Days, Pay(o, d) PROVE Inv'
  <2>0. d \in Days
    OBVIOUS
  <2>1. /\ [NoOrder EXCEPT !.status = "paid", !.paid = TRUE, !.days = d] \in OrderRow
        /\ [NoOrder EXCEPT !.status = "paid", !.paid = TRUE, !.days = d].sub = NoSub
        /\ [NoOrder EXCEPT !.status = "paid", !.paid = TRUE, !.days = d].reversed = FALSE
    BY ONLY <2>0, PaidRow, Zenon
  <2>2. QED
    BY <1>1, <2>1, SMT DEF Pay
<1>2. ASSUME NEW o \in Orders, Apply(o) PROVE Inv'
  <2>1. order[o].days \in Nat
    BY <1>o, OrderFields
  <2>2. ASSUME NEW s \in Subs PROVE /\ [order[o] EXCEPT !.sub = s] \in OrderRow
                                    /\ [order[o] EXCEPT !.sub = s].sub = s
                                    /\ [order[o] EXCEPT !.sub = s].status = order[o].status
                                    /\ [order[o] EXCEPT !.sub = s].reversed = order[o].reversed
    BY <1>o, LinkedRow
  <2>3. ASSUME NEW s \in Subs, Active(s), order' = [order EXCEPT ![o].sub = s],
               sub' = [sub EXCEPT ![s].expires = NextExpiry(@, order[o].days)]
        PROVE Inv'
    <3>1. NextExpiry(sub[s].expires, order[o].days) \in Int
      <4>1. sub[s].expires \in Int
        BY <1>s, SubRows
      <4>2. QED
        BY <2>1, <4>1, SMT DEF NextExpiry
    <3>2. /\ [sub[s] EXCEPT !.expires = NextExpiry(sub[s].expires, order[o].days)] \in SubRow
          /\ [sub[s] EXCEPT !.expires = NextExpiry(sub[s].expires, order[o].days)].status
               = sub[s].status
          /\ [sub[s] EXCEPT !.expires = NextExpiry(sub[s].expires, order[o].days)].credentials
               = sub[s].credentials
      BY <3>1, <1>s, MovedRow
    <3>3. sub' = [sub EXCEPT ![s] =
                     [sub[s] EXCEPT !.expires = NextExpiry(sub[s].expires, order[o].days)]]
      BY <2>3
    <3> HIDE DEF NextExpiry
    <3>4. QED
      BY <1>2, <2>2, <2>3, <3>2, <3>3, SMT DEF Apply, Eligible
  <2>4. ASSUME NEW s \in Subs, Running = {}, Create(s, order[o].days),
               order' = [order EXCEPT ![o].sub = s]
        PROVE Inv'
    <3>1. /\ Created(now + order[o].days) \in SubRow
          /\ Created(now + order[o].days).status = "active"
          /\ Created(now + order[o].days).credentials = FALSE
      <4>1. now + order[o].days \in Int
        BY <2>1, SMT
      <4>2. QED
        BY <4>1, CreatedRow
    <3>2. sub' = [sub EXCEPT ![s] = Created(now + order[o].days)]
      BY <2>4 DEF Create, Created
    <3>3. TypeOK'
      <4>1. order' \in [Orders -> OrderRow] /\ sub' \in [Subs -> SubRow]
        BY <2>2, <2>4, <3>1, <3>2
      <4>2. Linked'
        BY <1>2, <2>2, <2>4, <3>1, <3>2, SMT DEF Apply, Eligible, Create
      <4>3. QED
        BY <1>2, <4>1, <4>2 DEF Apply, Eligible, Create
    <3>4. OneRunning'
      BY <1>2, <2>4, <3>1, <3>2, SMT DEF Apply, Create
    <3>5. DetailsEndWithAccess'
      BY <1>2, <2>4, <3>1, <3>2, SMT DEF Apply, Create
    <3>6. ErasedHasNoAccess'
      BY <1>2, <2>4, SMT DEF Apply, Eligible
    <3>7. QED
      BY <3>3, <3>4, <3>5, <3>6
  <2>5. QED
    BY <1>2, <2>3, <2>4 DEF Apply
<1>3. ASSUME NEW o \in Orders, Complete(o) PROVE Inv'
  <2>1. /\ [order[o] EXCEPT !.status = "completed"] \in OrderRow
        /\ [order[o] EXCEPT !.status = "completed"].sub = order[o].sub
        /\ [order[o] EXCEPT !.status = "completed"].reversed = order[o].reversed
    BY <1>o, OrderRows, Zenon DEF Statuses
  <2>2. QED
    BY <1>3, <2>1, SMT DEF Complete
<1>4. ASSUME NEW o \in Orders, RefundOrder(o) PROVE Inv'
  <2>1. /\ [order[o] EXCEPT !.status = "refund_pending"] \in OrderRow
        /\ [order[o] EXCEPT !.status = "refund_pending"].sub = order[o].sub
        /\ [order[o] EXCEPT !.status = "refund_pending"].status = "refund_pending"
    BY <1>o, OrderRows, Zenon DEF Statuses
  <2>2. QED
    BY <1>4, <2>1, SMT DEF RefundOrder
<1>5. ASSUME NEW o \in Orders, Revoke(o) PROVE Inv'
  <2>1. /\ [order[o] EXCEPT !.reversed = TRUE] \in OrderRow
        /\ [order[o] EXCEPT !.reversed = TRUE].sub = order[o].sub
        /\ [order[o] EXCEPT !.reversed = TRUE].status = order[o].status
    BY <1>o, OrderRows, Zenon
  <2>2. CASE UNCHANGED sub
    BY <1>5, <2>1, <2>2, SMT DEF Revoke
  <2>3. ASSUME NEW s \in Subs, Active(s), sub' = [sub EXCEPT ![s] = Closed(@, "cancelled")]
        PROVE Inv'
    <3>1. /\ sub' \in [Subs -> SubRow]
          /\ \A u \in Subs : sub[u].status # "absent" => sub'[u].status # "absent"
          /\ \A u \in Subs : Active(u)' => Active(u)
          /\ DetailsEndWithAccess'
      BY <2>3, CloseKeeps, 0 \in Int
    <3>2. TypeOK'
      <4>1. order' \in [Orders -> OrderRow] /\ sub' \in [Subs -> SubRow]
        BY <1>5, <2>1, <3>1, SMT DEF Revoke
      <4>2. Linked'
        <5>1. /\ order' = [order EXCEPT ![o] = [order[o] EXCEPT !.reversed = TRUE]]
              /\ order[o].status \in {"refund_pending", "refunded"}
          BY <1>5 DEF Revoke
        <5>2. ASSUME NEW p \in Orders
              PROVE  /\ order'[p].sub = order[p].sub /\ order'[p].status = order[p].status
                     /\ p # o => order'[p].reversed = order[p].reversed
                     /\ order[p].sub # NoSub => order[p].sub \in Subs
          BY <2>1, <5>1, <1>o, OrderFields
        <5>3. ASSUME NEW p \in Orders, order'[p].sub # NoSub
              PROVE  sub'[order'[p].sub].status # "absent"
          BY <3>1, <5>2, <5>3
        <5>4. ASSUME NEW p \in Orders, order'[p].reversed
              PROVE  order'[p].status \in {"refund_pending", "refunded"}
          BY <5>1, <5>2, <5>4
        <5>5. QED
          BY <5>3, <5>4
      <4>3. QED
        BY <1>5, <4>1, <4>2 DEF Revoke
    <3>3. OneRunning' /\ ErasedHasNoAccess'
      BY <1>5, <3>1, SMT DEF Revoke
    <3>4. QED
      BY <3>1, <3>2, <3>3
  <2>4. ASSUME NEW s \in Subs, NEW e \in Int, sub' = [sub EXCEPT ![s].expires = e]
        PROVE Inv'
    <3>1. /\ [sub[s] EXCEPT !.expires = e] \in SubRow
          /\ [sub[s] EXCEPT !.expires = e].status = sub[s].status
          /\ [sub[s] EXCEPT !.expires = e].credentials = sub[s].credentials
      BY <1>s, MovedRow
    <3>2. QED
      BY <1>5, <2>1, <2>4, <3>1, SMT DEF Revoke
  <2>5. /\ order[o].sub \in Subs \cup {NoSub} /\ order[o].days \in Int
        /\ order[o].sub \in Subs => sub[order[o].sub].expires \in Int
    <3>1. order[o].days \in Nat /\ order[o].sub \in Subs \cup {NoSub}
      BY <1>o, OrderFields
    <3>2. ASSUME order[o].sub \in Subs PROVE sub[order[o].sub].expires \in Int
      BY <3>2, <1>s, SubRows
    <3>3. QED
      BY <3>1, <3>2, SMT
  <2>6. CASE order[o].sub = NoSub
    BY <1>5, <2>2, <2>6 DEF Revoke
  <2>7. CASE order[o].sub # NoSub
    <3>1. sub[order[o].sub].expires - order[o].days \in Int
      BY <2>5, <2>7, SMT
    <3>2. QED
      BY <1>5, <2>3, <2>4, <2>5, <2>7, <3>1 DEF Revoke
  <2>8. QED
    BY <2>6, <2>7
<1>6. ASSUME NEW o \in Orders, CloseRefund(o) PROVE Inv'
  <2>1. /\ [order[o] EXCEPT !.status = "refunded"] \in OrderRow
        /\ [order[o] EXCEPT !.status = "refunded"].sub = order[o].sub
        /\ [order[o] EXCEPT !.status = "refunded"].status = "refunded"
    BY <1>o, OrderRows, Zenon DEF Statuses
  <2>2. QED
    BY <1>6, <2>1, SMT DEF CloseRefund
<1>7. ASSUME NEW o \in Orders, NEW s \in Subs, NEW d \in Days, GrantSubscription(o, s, d)
      PROVE Inv'
  <2>0. d \in Days /\ s \in Subs
    OBVIOUS
  <2>1. /\ [NoOrder EXCEPT !.status = "completed", !.days = d, !.sub = s] \in OrderRow
        /\ [NoOrder EXCEPT !.status = "completed", !.days = d, !.sub = s].sub = s
        /\ [NoOrder EXCEPT !.status = "completed", !.days = d, !.sub = s].reversed = FALSE
    BY ONLY <2>0, GrantedRow, Zenon
  <2>2. /\ Created(now + d) \in SubRow
        /\ Created(now + d).status = "active" /\ Created(now + d).credentials = FALSE
    <3>1. now + d \in Int
      BY SMT
    <3>2. QED
      BY <3>1, CreatedRow
  <2>3. sub' = [sub EXCEPT ![s] = Created(now + d)]
    BY <1>7 DEF GrantSubscription, Create, Created
  <2>4. TypeOK'
    <3>1. order' \in [Orders -> OrderRow] /\ sub' \in [Subs -> SubRow]
      <4>1. order' = [order EXCEPT ![o] =
                       [NoOrder EXCEPT !.status = "completed", !.days = d, !.sub = s]]
        BY <1>7 DEF GrantSubscription, Granted
      <4>2. QED
        BY <2>1, <2>2, <2>3, <4>1
    <3>2. Linked'
      BY <1>7, <2>1, <2>2, <2>3, SMT DEF GrantSubscription, Create, Granted
    <3>3. QED
      BY <1>7, <3>1, <3>2 DEF GrantSubscription, Create, Granted
  <2>5. OneRunning'
    BY <1>7, <2>2, <2>3, SMT DEF GrantSubscription
  <2>6. DetailsEndWithAccess'
    BY <1>7, <2>2, <2>3, SMT DEF GrantSubscription
  <2>7. ErasedHasNoAccess'
    BY <1>7, SMT DEF GrantSubscription
  <2>8. QED
    BY <2>4, <2>5, <2>6, <2>7
<1>8. ASSUME NEW s \in Subs, NEW d \in Days, GiftDays(s, d) PROVE Inv'
  <2> DEFINE until == sub[s].expires + d
  <2>1. until \in Int
    <3>1. sub[s].expires \in Int
      BY <1>s, SubRows
    <3>2. QED
      BY <3>1, SMT
  <2>2. /\ [sub[s] EXCEPT !.expires = until] \in SubRow
        /\ [sub[s] EXCEPT !.expires = until].status = sub[s].status
        /\ [sub[s] EXCEPT !.expires = until].credentials = sub[s].credentials
    BY <2>1, <1>s, MovedRow
  <2>3. gifts' \in [Subs -> Nat] /\ given' \in Nat
    BY <1>8, SMT DEF GiftDays
  <2> HIDE DEF until
  <2>4. CASE sub' = [sub EXCEPT ![s] = [sub[s] EXCEPT !.expires = until]]
    <3>1. sub' \in [Subs -> SubRow]
      BY <2>2, <2>4
    <3>2. \A u \in Subs : /\ sub'[u].status = sub[u].status
                          /\ sub'[u].credentials = sub[u].credentials
      BY <2>2, <2>4
    <3>3. Linked'
      BY <1>8, <3>2 DEF GiftDays
    <3>4. QED
      BY <1>8, <2>3, <3>1, <3>2, <3>3 DEF GiftDays
  <2>5. CASE sub' = [sub EXCEPT ![s] = Closed([sub[s] EXCEPT !.expires = until], "expired")]
    <3>1. /\ sub' \in [Subs -> SubRow]
          /\ \A u \in Subs : sub[u].status # "absent" => sub'[u].status # "absent"
          /\ \A u \in Subs : Active(u)' => Active(u)
          /\ DetailsEndWithAccess'
      <4>1. Active(s)
        BY <1>8 DEF GiftDays
      <4>2. QED
        BY <2>1, <2>5, <4>1, CloseKeeps
    <3>2. QED
      BY <1>8, <2>3, <3>1, SMT DEF GiftDays
  <2>6. QED
    BY <1>8, <2>4, <2>5 DEF GiftDays, until
<1>9. ASSUME NEW s \in Subs, CloseSubscription(s) PROVE Inv'
  <2>1. /\ sub' \in [Subs -> SubRow]
        /\ \A u \in Subs : sub[u].status # "absent" => sub'[u].status # "absent"
        /\ \A u \in Subs : Active(u)' => Active(u)
        /\ DetailsEndWithAccess'
    BY <1>9, CloseKeeps, 0 \in Int DEF CloseSubscription
  <2>2. QED
    BY <1>9, <2>1, SMT DEF CloseSubscription
<1>10. ASSUME NEW s \in Subs, SetCredentials(s) PROVE Inv'
  <2>1. /\ [sub[s] EXCEPT !.credentials = TRUE] \in SubRow
        /\ [sub[s] EXCEPT !.credentials = TRUE].status = sub[s].status
    BY <1>s, SubRows, Zenon
  <2>2. QED
    BY <1>10, <2>1, SMT DEF SetCredentials
<1>11. ASSUME NEW s \in Subs, ReadDue(s) PROVE Inv'
  <2>1. sub[s].expires \in Int
    BY <1>s, SubRows
  <2>2. QED
    BY <1>11, <2>1, SMT DEF ReadDue
<1>12. CASE ClaimExpired
  <2>1. CASE UNCHANGED sub
    BY <1>12, <2>1, SMT DEF ClaimExpired
  <2>2. ASSUME NEW s \in Subs, Active(s), sub' = [sub EXCEPT ![s] = Closed(@, "expired")]
        PROVE Inv'
    <3>1. /\ sub' \in [Subs -> SubRow]
          /\ \A u \in Subs : sub[u].status # "absent" => sub'[u].status # "absent"
          /\ \A u \in Subs : Active(u)' => Active(u)
          /\ DetailsEndWithAccess'
      BY <2>2, CloseKeeps, 0 \in Int
    <3>2. QED
      BY <1>12, <3>1, SMTT(20) DEF ClaimExpired
  <2>3. sweep.sub \in Subs
    BY <1>12 DEF ClaimExpired
  <2>4. CASE /\ Active(sweep.sub) /\ sub[sweep.sub].expires = sweep.expires
             /\ sub[sweep.sub].expires <= now
    BY <1>12, <2>2, <2>3, <2>4 DEF ClaimExpired
  <2>5. CASE ~(/\ Active(sweep.sub) /\ sub[sweep.sub].expires = sweep.expires
               /\ sub[sweep.sub].expires <= now)
    <3>1. sub' = [sub EXCEPT ![sweep.sub] = sub[sweep.sub]]
      BY <1>12, <2>5 DEF ClaimExpired
    <3>2. QED
      BY <2>1, <3>1
  <2>6. QED
    BY <2>4, <2>5
<1>13. ASSUME NEW to \in {"live", "blocked"}, SetBlocked(to) PROVE Inv'
  BY <1>13, SMT DEF SetBlocked
<1>14. CASE Erase
  <2>1. ASSUME NEW s \in Subs
        PROVE  /\ sub'[s] \in SubRow
               /\ ~Active(s)' /\ ~sub'[s].credentials
               /\ sub[s].status # "absent" => sub'[s].status # "absent"
    <3>1. /\ Closed(sub[s], "cancelled") \in SubRow
          /\ Closed(sub[s], "cancelled").status = "cancelled"
          /\ Closed(sub[s], "cancelled").credentials = FALSE
      BY <1>s, SubRows, Zenon
    <3>2. sub'[s] = IF sub[s].status = "absent" THEN sub[s] ELSE Closed(sub[s], "cancelled")
      BY <1>14 DEF Erase
    <3>3. QED
      BY <3>1, <3>2, <1>s
  <2>2. sub' \in [Subs -> SubRow]
    <3>1. sub' = [s \in Subs |-> sub'[s]]
      BY <1>14 DEF Erase
    <3>2. QED
      BY <3>1, <2>1
  <2>3. TypeOK'
    <3>1. order' \in [Orders -> OrderRow] /\ sub' \in [Subs -> SubRow]
      BY <1>14, <2>1, <2>2, SMT DEF Erase
    <3>2. Linked'
      <4>1. order' = order
        BY <1>14 DEF Erase
      <4>2. ASSUME NEW o \in Orders, order[o].sub # NoSub PROVE order[o].sub \in Subs
        BY <4>2, <1>o, OrderFields
      <4>3. QED
        BY <2>1, <4>1, <4>2
    <3>3. QED
      BY <1>14, <3>1, <3>2 DEF Erase
  <2>4. QED
    BY <2>1, <2>3
<1>15. CASE Tick \/ Restart \/ UNCHANGED vars
  BY <1>15, SMT DEF Tick, Restart, vars, NotSweeping
<1>16. QED
  BY <1>1, <1>2, <1>3, <1>4, <1>5, <1>6, <1>7, <1>8, <1>9, <1>10, <1>11, <1>12, <1>13,
     <1>14, <1>15 DEF Next

LEMMA Invariance == Spec => []Inv
  BY InitInv, NextInv, PTL DEF Spec

\* The types, and that only a refund marked on an order has taken its days back:
\* TypeOK in every state.
THEOREM SubscriptionTypes == Spec => []TypeOK
  BY Invariance, PTL DEF Inv

\* Two subscriptions of one customer to one product never run at a time
\* (apply_payment and grant_subscription look before they create).
THEOREM OneRuns == Spec => []OneRunning
  BY Invariance, PTL DEF Inv

\* Access details are stored only while the access runs (set_credentials and
\* every way a row is closed).
THEOREM DetailsEnd == Spec => []DetailsEndWithAccess
  BY Invariance, PTL DEF Inv

\* An erased customer has no access, however operations that began before meet
\* the erasing (_require_access_recipient within the transaction).
THEOREM ErasedHasNone == Spec => []ErasedHasNoAccess
  BY Invariance, PTL DEF Inv

\* Nothing is left of access that ended.
THEOREM EndedIsGone == Spec => []EndedAccessIsGone
  BY DetailsEnd, ErasedHasNone, PTL DEF EndedAccessIsGone

\* Only claim_expired and a gift too short to reach the present make a row expired.
LEMMA WhoExpires ==
    ASSUME TypeOK, [Next]_vars, NEW s \in Subs, Active(s), sub'[s].status = "expired"
    PROVE  sub[s].expires <= now
<1> USE SubscriptionsAssumption DEF TypeOK, Active, Running, rest
<1>s. ASSUME NEW u \in Subs PROVE sub[u] \in SubRow
  OBVIOUS
<1>0. ASSUME sub'[s].status = sub[s].status \/ sub'[s].status \in {"active", "cancelled"}
      PROVE  FALSE
  BY <1>0
<1>1. ASSUME NEW u \in Subs, NEW d \in Days, GiftDays(u, d) PROVE sub[s].expires <= now
  <2>1. CASE u # s
    BY <1>1, <2>1, <1>0 DEF GiftDays
  <2>2. CASE u = s
    <3>1. sub[s].expires \in Int
      BY <1>s, SubRows
    <3>2. [sub[s] EXCEPT !.expires = sub[s].expires + d].status = sub[s].status
      <4>1. sub[s].expires + d \in Int
        BY <3>1, SMT
      <4>2. QED
        BY <4>1, <1>s, MovedRow
    <3>3. sub[s].expires + d <= now
      BY <1>1, <2>2, <3>2, <1>0 DEF GiftDays
    <3>4. d \in Nat
      BY SMT
    <3>5. QED
      BY <3>1, <3>3, <3>4, SMT
  <2>3. QED
    BY <2>1, <2>2
<1>2. CASE ClaimExpired
  BY <1>2, <1>0 DEF ClaimExpired
<1>3. ASSUME NEW o \in Orders, Revoke(o) PROVE FALSE
  <2>1. Closed(sub[s], "cancelled").status = "cancelled"
    BY <1>s, SubRows, Zenon
  <2>2. [sub[s] EXCEPT !.expires = sub[s].expires - order[o].days].status = sub[s].status
    <3>1. sub[s].expires \in Int /\ order[o].days \in Nat
      BY <1>s, SubRows, OrderFields
    <3>2. sub[s].expires - order[o].days \in Int
      BY <3>1, SMT
    <3>3. QED
      BY <3>2, <1>s, MovedRow
  <2>3. \/ sub'[s] = sub[s]
        \/ sub'[s] = Closed(sub[s], "cancelled")
        \/ sub'[s] = [sub[s] EXCEPT !.expires = sub[s].expires - order[o].days]
    <3> DEFINE u == order[o].sub
               back == sub[u].expires - order[o].days
    <3>1. \/ sub' = sub
          \/ sub' = [sub EXCEPT ![u] = Closed(@, "cancelled")]
          \/ sub' = [sub EXCEPT ![u].expires = back]
      BY <1>3 DEF Revoke
    <3>2. CASE u # s
      BY <3>1, <3>2
    <3>3. CASE u = s
      BY <3>1, <3>3
    <3>4. QED
      BY <3>2, <3>3
  <2>4. QED
    BY <2>1, <2>2, <2>3, <1>0
<1>4. ASSUME NEW u \in Subs, NEW d \in Nat, Create(u, d) PROVE FALSE
  BY <1>4, <1>0 DEF Create
<1>5. ASSUME NEW o \in Orders, Apply(o) PROVE FALSE
  <2>1. order[o].days \in Nat
    BY OrderFields
  <2>2. ASSUME NEW u \in Subs, sub' = [sub EXCEPT ![u].expires = NextExpiry(@, order[o].days)]
        PROVE FALSE
    <3>1. NextExpiry(sub[s].expires, order[o].days) \in Int
      <4>1. sub[s].expires \in Int
        BY <1>s, SubRows
      <4>2. QED
        BY <2>1, <4>1, SMT DEF NextExpiry
    <3>2. [sub[s] EXCEPT !.expires = NextExpiry(sub[s].expires, order[o].days)].status
            = sub[s].status
      BY <3>1, <1>s, MovedRow
    <3>3. QED
      BY <2>2, <3>2, <1>0
  <2>3. QED
    BY <1>5, <2>1, <2>2, <1>4 DEF Apply
<1>6. ASSUME NEW u \in Subs, CloseSubscription(u) \/ SetCredentials(u) PROVE FALSE
  <2>1. /\ Closed(sub[s], "cancelled").status = "cancelled"
        /\ [sub[s] EXCEPT !.credentials = TRUE].status = sub[s].status
    BY <1>s, SubRows, Zenon
  <2>2. QED
    BY <1>6, <2>1, <1>0 DEF CloseSubscription, SetCredentials
<1>7. CASE Erase
  <2>1. Closed(sub[s], "cancelled").status = "cancelled"
    BY <1>s, SubRows, Zenon
  <2>2. QED
    BY <1>7, <2>1, <1>0 DEF Erase
<1>8. CASE UNCHANGED sub
  BY <1>8, <1>0
<1>9. ASSUME NEW o \in Orders, NEW u \in Subs, NEW d \in Days, GrantSubscription(o, u, d)
      PROVE FALSE
  <2>1. d \in Nat
    BY SMT
  <2>2. QED
    BY <1>9, <2>1, <1>4 DEF GrantSubscription
<1>10. QED
  BY <1>1, <1>2, <1>3, <1>5, <1>6, <1>7, <1>8, <1>9
     DEF Next, vars, Pay, Complete, RefundOrder, CloseRefund, ReadDue, SetBlocked, Tick, Restart

\* A row becomes expired only when it is over (claim_expired, extend).
THEOREM SweepSpares == Spec => SweepSparesPaidTime
<1>1. TypeOK /\ [Next]_vars => [\A s \in Subs : Active(s) /\ sub'[s].status = "expired"
                                   => sub[s].expires <= now]_vars
  BY WhoExpires
<1>2. QED
  BY SubscriptionTypes, <1>1, PTL DEF Spec, SweepSparesPaidTime

-----------------------------------------------------------------------------
(* Sums over finite sets, by induction on their size *)

LEMMA LeastNumber ==
    ASSUME NEW T \in SUBSET Nat, T # {}
    PROVE  \E m \in T : \A k \in T : m <= k
<1>1. PICK m \in T : \A k \in T : ~(<<k, m>> \in OpToRel(<, Nat))
  BY NatLessThanWellFounded, WFMin, Zenon
<1>2. \A k \in T : ~(k < m)
  BY <1>1 DEF OpToRel
<1>3. QED
  BY <1>2

\* A function that sums w over the subsets of S, whichever element is taken away first.
Sums(g, w, S) ==
    /\ g \in [SUBSET S -> Int] /\ g[{}] = 0
    /\ \A s \in SUBSET S : \A x \in s : g[s] = w[x] + g[s \ {x}]

\* One that takes some element away at each step.
Folds(f, w, S) ==
    \A s \in SUBSET S :
       IF s = {} THEN f[s] = 0 ELSE \E x \in s : f[s] = w[x] + f[s \ {x}]

Weighs(w, rows, S) == \A o \in S : rows[o].days = w[o]

\* If some subset of a finite set is bad, there is a bad one without smaller bad ones.
LEMMA Smallest ==
    ASSUME NEW S, IsFiniteSet(S), NEW Bad \in SUBSET SUBSET S, Bad # {}
    PROVE  \E s \in Bad : \A x \in s : s \ {x} \notin Bad
<1>1. \A s \in SUBSET S : IsFiniteSet(s) /\ Cardinality(s) \in Nat
  BY FS_Subset, FS_CardinalityType
<1> DEFINE T == {Cardinality(s) : s \in Bad}
<1>2. T \in SUBSET Nat /\ T # {}
  BY <1>1
<1>3. PICK m \in T : \A k \in T : m <= k
  BY <1>2, LeastNumber
<1>4. PICK s \in Bad : Cardinality(s) = m
  OBVIOUS
<1>5. ASSUME NEW x \in s, s \ {x} \in Bad PROVE FALSE
  <2>1. Cardinality(s \ {x}) = Cardinality(s) - 1
    BY <1>1, FS_RemoveElement
  <2>2. m <= Cardinality(s \ {x})
    BY <1>3, <1>5
  <2>3. QED
    BY <1>1, <1>4, <2>1, <2>2
<1>6. QED
  BY <1>5

LEMMA SumsExist ==
    ASSUME NEW S, IsFiniteSet(S), NEW w \in [S -> Int]
    PROVE  \E g : Sums(g, w, S)
<1> DEFINE Bad == {s \in SUBSET S : ~\E g : Sums(g, w, s)}
<1>1. SUFFICES ASSUME Bad # {} PROVE FALSE
  OBVIOUS
<1>2. PICK R \in Bad : \A x \in R : R \ {x} \notin Bad
  <2>1. Bad \in SUBSET SUBSET S
    OBVIOUS
  <2> HIDE DEF Bad
  <2>2. QED
    BY <1>1, <2>1, Smallest
<1>3. R # {}
  <2>1. Sums([s \in SUBSET {} |-> 0], w, {})
    BY DEF Sums
  <2>2. QED
    BY <2>1
<1>4. PICK a \in R : TRUE
  BY <1>3
<1>5. PICK h : Sums(h, w, R \ {a})
  BY <1>2
<1>6. w[a] \in Int
  OBVIOUS
<1> DEFINE g == [s \in SUBSET R |-> IF a \in s THEN w[a] + h[s \ {a}] ELSE h[s]]
<1>7. \A s \in SUBSET R : s \ {a} \in SUBSET (R \ {a}) /\ (a \notin s => s \in SUBSET (R \ {a}))
  OBVIOUS
<1>8. h \in [SUBSET (R \ {a}) -> Int] /\ h[{}] = 0
  BY <1>5 DEF Sums
<1>9. \A s \in SUBSET (R \ {a}) : h[s] \in Int /\ \A x \in s : h[s] = w[x] + h[s \ {x}]
  BY <1>5 DEF Sums
<1>10. g \in [SUBSET R -> Int] /\ g[{}] = 0
  BY <1>6, <1>7, <1>8
<1>11. ASSUME NEW s \in SUBSET R, NEW x \in s
       PROVE  g[s] = w[x] + g[s \ {x}]
  <2>1. CASE x = a
    <3>1. a \notin s \ {x} /\ s \ {x} \in SUBSET R
      BY <2>1
    <3>2. QED
      BY <2>1, <3>1
  <2>2. CASE x # a /\ a \in s
    <3>1. g[s] = w[a] + h[s \ {a}]
      BY <2>2
    <3>2. h[s \ {a}] = w[x] + h[(s \ {a}) \ {x}]
      BY <1>7, <1>9, <2>2
    <3>3. a \in s \ {x} /\ s \ {x} \in SUBSET R /\ (s \ {x}) \ {a} = (s \ {a}) \ {x}
      BY <2>2
    <3>4. g[s \ {x}] = w[a] + h[(s \ {a}) \ {x}]
      BY <3>3
    <3>5. w[x] \in Int /\ h[(s \ {a}) \ {x}] \in Int
      BY <1>7, <1>9, <3>3
    <3>6. QED
      BY <1>6, <3>1, <3>2, <3>4, <3>5
  <2>3. CASE a \notin s
    <3>1. a \notin s \ {x} /\ s \ {x} \in SUBSET R /\ s \in SUBSET (R \ {a})
      BY <2>3
    <3>2. QED
      BY <1>9, <2>3, <3>1
  <2>4. QED
    BY <2>1, <2>2, <2>3
<1>12. Sums(g, w, R)
  BY <1>10, <1>11 DEF Sums
<1>13. QED
  BY <1>12

\* What a fold computes is that sum.
LEMMA FoldIsSum ==
    ASSUME NEW S, IsFiniteSet(S), NEW w, NEW g, Sums(g, w, S),
           NEW f, Folds(f, w, S)
    PROVE  \A s \in SUBSET S : f[s] = g[s]
<1> DEFINE Bad == {s \in SUBSET S : f[s] # g[s]}
<1>1. Bad = {}
  <2>1. SUFFICES ASSUME Bad # {} PROVE FALSE
    OBVIOUS
  <2>2. PICK s \in Bad : \A x \in s : s \ {x} \notin Bad
    <3>1. Bad \in SUBSET SUBSET S
      OBVIOUS
    <3> HIDE DEF Bad
    <3>2. QED
      BY <2>1, <3>1, Smallest
  <2>3. CASE s = {}
    BY <2>3 DEF Sums, Folds
  <2>4. CASE s # {}
    <3>1. PICK x \in s : f[s] = w[x] + f[s \ {x}]
      BY <2>4 DEF Folds
    <3>2. g[s] = w[x] + g[s \ {x}]
      BY DEF Sums
    <3>3. f[s \ {x}] = g[s \ {x}]
      BY <2>2
    <3>4. QED
      BY <3>1, <3>2, <3>3
  <2>5. QED
    BY <2>3, <2>4
<1>2. QED
  BY <1>1

LEMMA SumsOfParts ==
    ASSUME NEW S, NEW R \in SUBSET S, NEW w, NEW g, Sums(g, w, S)
    PROVE  Sums([s \in SUBSET R |-> g[s]], w, R)
<1>1. \A s \in SUBSET R : s \in SUBSET S /\ g[s] \in Int
  BY DEF Sums
<1>2. \A s \in SUBSET R : \A x \in s : s \ {x} \in SUBSET R /\ g[s] = w[x] + g[s \ {x}]
  BY <1>1 DEF Sums
<1>3. QED
  BY <1>1, <1>2 DEF Sums

\* The sums of two parts that share nothing add up.
LEMMA SumOfUnion ==
    ASSUME NEW S, IsFiniteSet(S), NEW w, NEW g, Sums(g, w, S), \A x \in S : w[x] \in Int
    PROVE  \A P, Q \in SUBSET S : P \cap Q = {} => g[P \cup Q] = g[P] + g[Q]
<1> SUFFICES ASSUME NEW P \in SUBSET S, NEW Q \in SUBSET S, P \cap Q = {}
             PROVE  g[P \cup Q] = g[P] + g[Q]
  OBVIOUS
<1> DEFINE Bad == {s \in SUBSET S : P \cap s = {} /\ g[P \cup s] # g[P] + g[s]}
<1>1. Bad = {}
  <2>1. SUFFICES ASSUME Bad # {} PROVE FALSE
    OBVIOUS
  <2>2. PICK s \in Bad : \A x \in s : s \ {x} \notin Bad
    <3>1. Bad \in SUBSET SUBSET S
      OBVIOUS
    <3> HIDE DEF Bad
    <3>2. QED
      BY <2>1, <3>1, Smallest
  <2>3. \A r \in SUBSET S : g[r] \in Int
    BY DEF Sums
  <2>4. CASE s = {}
    <3>1. P \cup s = P
      BY <2>4
    <3>2. g[s] = 0 /\ g[P] \in Int
      BY <2>3, <2>4 DEF Sums
    <3>3. g[P \cup s] = g[P]
      BY ONLY <3>1
    <3>4. g[P] = g[P] + g[s]
      BY ONLY <3>2
    <3>5. g[P \cup s] = g[P] + g[s]
      BY ONLY <3>3, <3>4
    <3>6. QED
      BY <3>5
  <2>5. CASE s # {}
    <3>1. PICK x \in s : TRUE
      BY <2>5
    <3>2. PICK r \in SUBSET S : r = s \ {x} /\ P \cap r = {} /\ r \notin Bad
      <4>1. s \ {x} \in SUBSET S /\ P \cap (s \ {x}) = {}
        OBVIOUS
      <4>2. s \ {x} \notin Bad
        BY <2>2, <3>1
      <4> HIDE DEF Bad
      <4>3. QED
        BY <4>1, <4>2
    <3>3. g[s] = w[x] + g[r]
      BY <3>2 DEF Sums
    <3>4. g[P \cup s] = w[x] + g[P \cup r]
      <4>0. s \in SUBSET S /\ P \cap s = {}
        OBVIOUS
      <4>1. x \in s /\ r = s \ {x}
        BY <3>1, <3>2
      <4>2. PICK b : b = P \cup s
        OBVIOUS
      <4>3. b \in SUBSET S /\ x \in b
        BY <4>0, <4>1, <4>2
      <4>4. b \ {x} = P \cup r
        BY <4>0, <4>1, <4>2
      <4>5. g[b] = w[x] + g[b \ {x}]
        BY <4>3 DEF Sums
      <4>6. QED
        BY <4>2, <4>4, <4>5
    <3>5. g[P \cup r] = g[P] + g[r]
      BY <3>2
    <3>6. g[P] \in Int /\ g[r] \in Int /\ w[x] \in Int
      BY <2>3
    <3>7. g[P \cup s] = g[P] + g[s]
      BY <3>3, <3>4, <3>5, <3>6
    <3>8. QED
      BY <3>7
  <2>6. QED
    BY <2>4, <2>5
<1>2. QED
  BY <1>1

\* SumFunctionOnSet is that sum.
LEMMA FunctionSum ==
    ASSUME NEW S, IsFiniteSet(S), NEW R \in SUBSET S, NEW w, NEW g, Sums(g, w, S)
    PROVE  SumFunctionOnSet(w, R) = g[R]
<1> DEFINE Any(s) == CHOOSE x \in s : TRUE
           Fold(f) == [s \in SUBSET R |-> IF s = {} THEN 0 ELSE w[Any(s)] + f[s \ {Any(s)}]]
<1>1. SumFunctionOnSet(w, R) = (CHOOSE f : f = Fold(f))[R]
  BY DEF SumFunctionOnSet, FoldFunctionOnSet, MapThenFoldSet
<1>2. \A s \in SUBSET R : s # {} => Any(s) \in s
  OBVIOUS
<1>3. PICK h : h = [s \in SUBSET R |-> g[s]]
  OBVIOUS
<1>4. Sums(h, w, R)
  <2>1. Sums([s \in SUBSET R |-> g[s]], w, R)
    BY ONLY R \in SUBSET S, Sums(g, w, S), SumsOfParts
  <2>2. QED
    BY <1>3, <2>1
<1> HIDE DEF Any
<1>5. h = Fold(h)
  <2>1. h = [s \in SUBSET R |-> h[s]]
    BY <1>4 DEF Sums
  <2>2. ASSUME NEW s \in SUBSET R
        PROVE  h[s] = IF s = {} THEN 0 ELSE w[Any(s)] + h[s \ {Any(s)}]
    BY <1>2, <1>4 DEF Sums
  <2>3. QED
    BY <2>1, <2>2
<1>6. IsFiniteSet(R)
  BY FS_Subset
<1>7. ASSUME NEW f, f = Fold(f) PROVE f = h
  <2>1. /\ f = [s \in SUBSET R |-> f[s]]
        /\ \A s \in SUBSET R :
              f[s] = IF s = {} THEN 0 ELSE w[Any(s)] + f[s \ {Any(s)}]
    BY <1>7
  <2>2. Folds(f, w, R)
    BY <1>2, <2>1 DEF Folds
  <2>3. \A s \in SUBSET R : f[s] = h[s]
    BY <1>4, <1>6, <2>2, FoldIsSum
  <2>4. h = [s \in SUBSET R |-> h[s]]
    BY <1>4 DEF Sums
  <2>5. QED
    BY <2>1, <2>3, <2>4
<1> HIDE DEF Fold
<1>8. (CHOOSE f : f = Fold(f)) = h
  BY <1>5, <1>7
<1>9. h[R] = g[R]
  BY <1>3
<1>10. QED
  BY <1>1, <1>8, <1>9

SumOfDays(rows, S) == MapThenSumSet(LAMBDA o : rows[o].days, S)

LEMMA SumOfDaysIs ==
    ASSUME NEW S, IsFiniteSet(S), NEW R \in SUBSET S, NEW rows, NEW w, NEW g, Sums(g, w, S),
           Weighs(w, rows, S)
    PROVE  SumOfDays(rows, R) = g[R]
<1> DEFINE Any(s) == CHOOSE x \in s : TRUE
           Step(f) == [s \in SUBSET R |-> IF s = {} THEN 0 ELSE w[Any(s)] + f[s \ {Any(s)}]]
           Fold(f) == [s \in SUBSET R |->
                          IF s = {} THEN 0 ELSE rows[Any(s)].days + f[s \ {Any(s)}]]
<1>1. SumOfDays(rows, R) = (CHOOSE f : f = Fold(f))[R]
  BY DEF SumOfDays, MapThenSumSet, MapThenFoldSet
<1>2. \A s \in SUBSET R : s # {} => Any(s) \in s
  OBVIOUS
<1>3. PICK h : h = [s \in SUBSET R |-> g[s]]
  OBVIOUS
<1>4. Sums(h, w, R)
  <2>1. Sums([s \in SUBSET R |-> g[s]], w, R)
    BY ONLY R \in SUBSET S, Sums(g, w, S), SumsOfParts
  <2>2. QED
    BY <1>3, <2>1
<1> HIDE DEF Any
<1>5. \A f : Fold(f) = Step(f)
  <2>1. \A s \in SUBSET R : s # {} => Any(s) \in S
    BY <1>2
  <2>2. QED
    BY <2>1 DEF Weighs
<1>6. h = Step(h)
  <2>1. h = [s \in SUBSET R |-> h[s]]
    BY <1>4 DEF Sums
  <2>2. ASSUME NEW s \in SUBSET R
        PROVE  h[s] = IF s = {} THEN 0 ELSE w[Any(s)] + h[s \ {Any(s)}]
    BY <1>2, <1>4 DEF Sums
  <2>3. QED
    BY <2>1, <2>2
<1>7. IsFiniteSet(R)
  BY FS_Subset
<1>8. ASSUME NEW f, f = Step(f) PROVE f = h
  <2>1. /\ f = [s \in SUBSET R |-> f[s]]
        /\ \A s \in SUBSET R :
              f[s] = IF s = {} THEN 0 ELSE w[Any(s)] + f[s \ {Any(s)}]
    BY <1>8
  <2>2. Folds(f, w, R)
    BY <1>2, <2>1 DEF Folds
  <2>3. \A s \in SUBSET R : f[s] = h[s]
    BY <1>4, <1>7, <2>2, FoldIsSum
  <2>4. h = [s \in SUBSET R |-> h[s]]
    BY <1>4 DEF Sums
  <2>5. QED
    BY <2>1, <2>3, <2>4
<1>9. h = Fold(h) /\ \A f : f = Fold(f) => f = h
  BY <1>5, <1>6, <1>8
<1> HIDE DEF Fold
<1>10. (CHOOSE f : f = Fold(f)) = h
  BY <1>9
<1>11. h[R] = g[R]
  BY <1>3
<1>12. QED
  BY <1>1, <1>10, <1>11

\* The sum of no days, of one more row, and of rows that did not change.
LEMMA SumOfNoDays == ASSUME NEW rows PROVE SumOfDays(rows, {}) = 0
<1>1. PICK w : w = [x \in {} |-> 0]
  OBVIOUS
<1>2. IsFiniteSet({}) /\ w \in [{} -> Int]
  BY <1>1, FS_EmptySet
<1>3. PICK g : Sums(g, w, {})
  BY <1>2, SumsExist
<1>4. SumOfDays(rows, {}) = g[{}]
  <2>1. {} \in SUBSET {} /\ Weighs(w, rows, {})
    BY DEF Weighs
  <2>2. QED
    BY <1>2, <1>3, <2>1, SumOfDaysIs
<1>5. QED
  BY <1>3, <1>4 DEF Sums

LEMMA SumOfOneMore ==
    ASSUME NEW S, IsFiniteSet(S), NEW x, x \notin S, NEW rows,
           \A o \in S \cup {x} : rows[o].days \in Int
    PROVE  SumOfDays(rows, S \cup {x}) = SumOfDays(rows, S) + rows[x].days
<1>1. PICK w : w = [o \in S \cup {x} |-> rows[o].days]
  OBVIOUS
<1>2. w \in [S \cup {x} -> Int] /\ Weighs(w, rows, S \cup {x})
      /\ w[x] = rows[x].days
  BY <1>1 DEF Weighs
<1>3. IsFiniteSet(S \cup {x})
  BY FS_AddElement
<1>4. PICK g : Sums(g, w, S \cup {x})
  BY <1>2, <1>3, SumsExist
<1>5. SumOfDays(rows, S \cup {x}) = g[S \cup {x}]
  BY <1>2, <1>3, <1>4, SumOfDaysIs, S \in SUBSET (S \cup {x})
<1>6. SumOfDays(rows, S) = g[S]
  BY <1>2, <1>3, <1>4, SumOfDaysIs, S \in SUBSET (S \cup {x})
<1>7. g[S \cup {x}] = w[x] + g[S] /\ g[S] \in Int
  <2>1. (S \cup {x}) \ {x} = S
    OBVIOUS
  <2>2. QED
    BY <1>4, <2>1 DEF Sums
<1>8. QED
  BY <1>2, <1>5, <1>6, <1>7

LEMMA SumOfSameDays ==
    ASSUME NEW S, IsFiniteSet(S), NEW rows, NEW later,
           \A o \in S : rows[o].days \in Int /\ later[o].days = rows[o].days
    PROVE  SumOfDays(later, S) = SumOfDays(rows, S)
<1>1. PICK w : w = [o \in S |-> rows[o].days]
  OBVIOUS
<1>2. /\ w \in [S -> Int]
      /\ Weighs(w, rows, S) /\ Weighs(w, later, S)
  BY <1>1 DEF Weighs
<1>3. PICK g : Sums(g, w, S)
  BY <1>2, SumsExist
<1>0. S \in SUBSET S
  OBVIOUS
<1>4. SumOfDays(rows, S) = g[S]
  BY ONLY IsFiniteSet(S), <1>0, <1>2, <1>3, SumOfDaysIs
<1>5. SumOfDays(later, S) = g[S]
  BY ONLY IsFiniteSet(S), <1>0, <1>2, <1>3, SumOfDaysIs
<1>6. QED
  BY <1>4, <1>5

LEMMA SumIsNatural ==
    ASSUME NEW S, IsFiniteSet(S), NEW rows, \A o \in S : rows[o].days \in Nat
    PROVE  SumOfDays(rows, S) \in Nat
<1>1. PICK w : w = [o \in S |-> rows[o].days]
  OBVIOUS
<1>2. w \in [S -> Int] /\ Weighs(w, rows, S) /\ \A o \in S : w[o] \in Nat
  BY <1>1 DEF Weighs
<1>3. PICK g : Sums(g, w, S)
  BY <1>2, SumsExist
<1> DEFINE Bad == {s \in SUBSET S : g[s] \notin Nat}
<1>4. Bad = {}
  <2>1. SUFFICES ASSUME Bad # {} PROVE FALSE
    OBVIOUS
  <2>2. PICK s \in Bad : \A x \in s : s \ {x} \notin Bad
    <3>1. Bad \in SUBSET SUBSET S
      OBVIOUS
    <3> HIDE DEF Bad
    <3>2. QED
      BY <2>1, <3>1, Smallest
  <2>3. s # {}
    BY <1>3 DEF Sums
  <2>4. PICK x \in s : TRUE
    BY <2>3
  <2>5. g[s] = w[x] + g[s \ {x}] /\ g[s \ {x}] \in Nat /\ w[x] \in Nat
    BY <1>2, <1>3, <2>2 DEF Sums
  <2>6. QED
    BY <2>5
<1>5. SumOfDays(rows, S) = g[S]
  BY <1>2, <1>3, SumOfDaysIs, S \in SUBSET S
<1>6. QED
  BY <1>4, <1>5

-----------------------------------------------------------------------------
(* Days add up *)

\* An order that was not paid or given has no money and points at no row, a row that was
\* not created was given nothing, and finitely many orders point at rows.
Fresh == \A o \in Orders : order[o].status = "none" => ~order[o].paid /\ order[o].sub = NoSub
Ungifted == \A s \in Subs : sub[s].status = "absent" => gifts[s] = 0
LinkedOrders == {o \in Orders : order[o].sub # NoSub}
DaysInv == Fresh /\ Ungifted /\ IsFiniteSet(LinkedOrders) /\ DaysAddUp

Counted(s) == {o \in Orders : order[o].sub = s /\ ~order[o].reversed}

CreditIsSum == \A s \in Subs : Credit(s) = SumOfDays(order, Counted(s)) + gifts[s]

LEMMA CreditNow == CreditIsSum
  BY DEF CreditIsSum, Credit, SumOfDays, Counted

LEMMA CreditThen == CreditIsSum'
  BY CreditNow, PTL

LEMMA CreditIs ==
    ASSUME NEW s \in Subs
    PROVE  /\ Credit(s) = SumOfDays(order, Counted(s)) + gifts[s]
           /\ Credit(s)' = SumOfDays(order', Counted(s)') + gifts'[s]
  BY CreditNow, CreditThen DEF CreditIsSum

LEMMA CountedAreFew ==
    ASSUME Inv, IsFiniteSet(LinkedOrders), NEW s \in Subs
    PROVE  /\ IsFiniteSet(Counted(s)) /\ \A o \in Counted(s) : order[o].days \in Nat
           /\ SumOfDays(order, Counted(s)) \in Nat /\ gifts[s] \in Nat
           /\ Credit(s) \in Nat
<1>1. Counted(s) \subseteq LinkedOrders
  BY SubscriptionsAssumption DEF Counted, LinkedOrders
<1>2. IsFiniteSet(Counted(s))
  BY <1>1, FS_Subset
<1>3. \A o \in Counted(s) : order[o].days \in Nat
  BY OrderFields DEF Inv, TypeOK, Counted
<1>4. SumOfDays(order, Counted(s)) \in Nat
  BY <1>2, <1>3, SumIsNatural
<1>5. gifts[s] \in Nat
  BY DEF Inv, TypeOK
<1>6. QED
  BY <1>2, <1>3, <1>4, <1>5, CreditIs

\* A credit stays, is given one more order, or loses one.
LEMMA CreditStays ==
    ASSUME Inv, IsFiniteSet(LinkedOrders), NEW s \in Subs, gifts'[s] = gifts[s],
           Counted(s)' = Counted(s), \A o \in Counted(s) : order'[o].days = order[o].days
    PROVE  Credit(s)' = Credit(s)
<1>1. IsFiniteSet(Counted(s)) /\ \A o \in Counted(s) : order[o].days \in Int
  BY CountedAreFew
<1>2. SumOfDays(order', Counted(s)) = SumOfDays(order, Counted(s))
  BY <1>1, SumOfSameDays
<1>3. QED
  BY <1>2, CreditIs

LEMMA CreditGrows ==
    ASSUME Inv, IsFiniteSet(LinkedOrders), NEW s \in Subs, gifts'[s] = gifts[s],
           NEW o \in Orders, o \notin Counted(s), Counted(s)' = Counted(s) \cup {o},
           \A p \in Counted(s) : order'[p].days = order[p].days, order'[o].days \in Nat
    PROVE  Credit(s)' = Credit(s) + order'[o].days
<1>1. /\ IsFiniteSet(Counted(s)) /\ \A p \in Counted(s) : order[p].days \in Int
      /\ SumOfDays(order, Counted(s)) \in Nat /\ gifts[s] \in Nat
  BY CountedAreFew
<1>2. SumOfDays(order', Counted(s)) = SumOfDays(order, Counted(s))
  BY <1>1, SumOfSameDays
<1>3. \A p \in Counted(s) \cup {o} : order'[p].days \in Int
  BY <1>1
<1>4. SumOfDays(order', Counted(s) \cup {o}) = SumOfDays(order', Counted(s)) + order'[o].days
  BY <1>1, <1>3, SumOfOneMore
<1>5. SumOfDays(order', Counted(s)') = SumOfDays(order, Counted(s)) + order'[o].days
  BY <1>2, <1>4
<1>6. /\ Credit(s) = SumOfDays(order, Counted(s)) + gifts[s]
      /\ Credit(s)' = SumOfDays(order', Counted(s)') + gifts[s]
  BY CreditIs
<1>7. QED
  BY <1>1, <1>5, <1>6

LEMMA CreditFalls ==
    ASSUME Inv, IsFiniteSet(LinkedOrders), NEW s \in Subs, gifts'[s] = gifts[s],
           NEW o \in Orders, o \in Counted(s), Counted(s)' = Counted(s) \ {o},
           \A p \in Counted(s) : order'[p].days = order[p].days
    PROVE  Credit(s)' = Credit(s) - order[o].days /\ Credit(s)' \in Nat
<1> DEFINE left == Counted(s) \ {o}
<1>1. /\ IsFiniteSet(Counted(s)) /\ \A p \in Counted(s) : order[p].days \in Nat
      /\ gifts[s] \in Nat
  BY CountedAreFew
<1>2. IsFiniteSet(left) /\ o \notin left /\ left \cup {o} = Counted(s)
  BY <1>1, FS_RemoveElement
<1>3. SumOfDays(order', left) = SumOfDays(order, left)
  <2>1. \A p \in left : order[p].days \in Int /\ order'[p].days = order[p].days
    BY <1>1
  <2> HIDE DEF left
  <2>2. QED
    BY <1>2, <2>1, SumOfSameDays
<1>4. SumOfDays(order, left) \in Nat
  <2>1. \A p \in left : order[p].days \in Nat
    BY <1>1
  <2> HIDE DEF left
  <2>2. QED
    BY <1>2, <2>1, SumIsNatural
<1>5. SumOfDays(order, Counted(s)) = SumOfDays(order, left) + order[o].days
  <2>1. \A p \in left \cup {o} : order[p].days \in Int
    BY <1>1
  <2> HIDE DEF left
  <2>2. SumOfDays(order, left \cup {o}) = SumOfDays(order, left) + order[o].days
    BY ONLY <1>2, <2>1, SumOfOneMore
  <2>3. QED
    BY <1>2, <2>2
<1>6. Counted(s)' = left
  OBVIOUS
<1>7. order[o].days \in Nat
  BY <1>1
<1> HIDE DEF left
<1>8. QED
  BY <1>1, <1>3, <1>4, <1>5, <1>6, <1>7, CreditIs

-----------------------------------------------------------------------------
(* What a step changes *)

SameCredit(s) ==
    /\ Counted(s)' = Counted(s)
    /\ \A p \in Counted(s) : order'[p].days = order[p].days
DatesKept(s) == sub'[s].started = sub[s].started /\ sub'[s].expires = sub[s].expires
RowsStay == \A s \in Subs : sub'[s].status = "absent" => sub[s].status = "absent"
Balanced(s) ==
    /\ sub[s].started + Credit(s) <= sub[s].expires
    /\ sub[s].expires <= now + Credit(s)

LEMMA KeptDays ==
    ASSUME NEW r \in OrderRow
    PROVE  /\ \A st \in Statuses : [r EXCEPT !.status = st].days = r.days
           /\ [r EXCEPT !.reversed = TRUE].days = r.days
           /\ [r EXCEPT !.reversed = TRUE].reversed = TRUE
           /\ \A s \in Subs : [r EXCEPT !.sub = s].days = r.days
  BY Zenon DEF OrderRow, Statuses

LEMMA KeptDates ==
    ASSUME NEW r \in SubRow
    PROVE  /\ [r EXCEPT !.credentials = TRUE].started = r.started
           /\ [r EXCEPT !.credentials = TRUE].expires = r.expires
           /\ \A e \in Int : /\ [r EXCEPT !.expires = e].started = r.started
                             /\ [r EXCEPT !.expires = e].expires = e
  BY Zenon DEF SubRow

\* One order is written, and not to one that was never paid or given.
LEMMA OneOrderWritten ==
    ASSUME Inv, DaysInv, NEW o \in Orders, NEW r, r.status # "none",
           order' = [order EXCEPT ![o] = r]
    PROVE  Fresh' /\ IsFiniteSet(LinkedOrders')
<1>1. \A p \in Orders : p # o => order'[p] = order[p]
  BY DEF Inv, TypeOK
<1>2. order'[o] = r
  BY DEF Inv, TypeOK
<1>3. Fresh'
  BY <1>1, <1>2 DEF DaysInv, Fresh
<1>4. LinkedOrders' \subseteq LinkedOrders \cup {o}
  BY <1>1 DEF LinkedOrders
<1>5. IsFiniteSet(LinkedOrders \cup {o})
  BY FS_AddElement DEF DaysInv
<1>6. IsFiniteSet(LinkedOrders')
  BY <1>4, <1>5, FS_Subset
<1>7. QED
  BY <1>3, <1>6

\* It leaves the credit of a row it does not belong to, or in which it counts as before.
LEMMA OthersKept ==
    ASSUME Inv, NEW o \in Orders, NEW r, order' = [order EXCEPT ![o] = r], NEW s \in Subs,
           \/ order[o].sub # s /\ r.sub # s
           \/ r.sub = order[o].sub /\ r.reversed = order[o].reversed /\ r.days = order[o].days
    PROVE  SameCredit(s)
<1>1. \A p \in Orders : p # o => order'[p] = order[p]
  BY DEF Inv, TypeOK
<1>2. order'[o] = r
  BY DEF Inv, TypeOK
<1>3. QED
  BY <1>1, <1>2 DEF SameCredit, Counted

LEMMA Undisturbed ==
    ASSUME Inv, DaysInv, NEW s \in Subs, Active(s), SameCredit(s), gifts'[s] = gifts[s],
           DatesKept(s), now' \in Nat, now <= now'
    PROVE  Balanced(s)'
<1>1. Credit(s)' = Credit(s) /\ Credit(s) \in Nat
  BY CreditStays, CountedAreFew DEF SameCredit, DaysInv
<1>2. sub[s].started \in Nat /\ sub[s].expires \in Int /\ now \in Nat
  BY SubRows DEF Inv, TypeOK
<1>3. Balanced(s)
  BY DEF DaysInv, DaysAddUp, Balanced
<1>4. QED
  BY <1>1, <1>2, <1>3 DEF Balanced, DatesKept

LEMMA AllBalanced ==
    ASSUME \A s \in Subs : Active(s)' => Balanced(s)'
    PROVE  DaysAddUp'
  BY DEF DaysAddUp, Balanced

\* A step that credits nothing, moves no date of a running row and starts none.
LEMMA Quiet ==
    ASSUME Inv, DaysInv, Fresh', IsFiniteSet(LinkedOrders'), RowsStay,
           gifts' = gifts, now' \in Nat, now <= now',
           \A s \in Subs : SameCredit(s),
           \A s \in Subs : Active(s)' => Active(s) /\ DatesKept(s)
    PROVE  DaysInv'
<1>1. ASSUME NEW s \in Subs, Active(s)' PROVE Balanced(s)'
  BY <1>1, Undisturbed
<1>2. DaysAddUp'
  BY <1>1, AllBalanced
<1>3. Ungifted'
  BY DEF Ungifted, RowsStay, DaysInv
<1>4. QED
  BY <1>2, <1>3 DEF DaysInv

\* A step that writes no order and gives no days.
LEMMA OrdersAlone ==
    ASSUME Inv, DaysInv, UNCHANGED <<order, gifts>>, RowsStay, now' \in Nat, now <= now',
           \A s \in Subs : Active(s)' => Active(s) /\ DatesKept(s)
    PROVE  DaysInv'
<1>1. Fresh' /\ IsFiniteSet(LinkedOrders')
  BY DEF DaysInv, Fresh, LinkedOrders
<1>2. \A s \in Subs : SameCredit(s)
  BY DEF SameCredit, Counted
<1>3. QED
  BY <1>1, <1>2, Quiet

\* A step that writes one order and no row.
LEMMA RowsAlone ==
    ASSUME Inv, DaysInv, UNCHANGED <<sub, now, gifts>>,
           NEW o \in Orders, NEW r, r.status # "none", order' = [order EXCEPT ![o] = r],
           \/ order[o].sub = NoSub /\ r.sub = NoSub
           \/ r.sub = order[o].sub /\ r.reversed = order[o].reversed /\ r.days = order[o].days
    PROVE  DaysInv'
<1>1. Fresh' /\ IsFiniteSet(LinkedOrders')
  BY OneOrderWritten
<1>2. ASSUME NEW s \in Subs PROVE SameCredit(s)
  <2>1. s # NoSub
    BY SubscriptionsAssumption
  <2>2. QED
    BY <2>1, OthersKept
<1>3. now' \in Nat /\ now <= now'
  BY DEF Inv, TypeOK
<1>4. RowsStay /\ \A s \in Subs : Active(s)' => Active(s) /\ DatesKept(s)
  BY DEF RowsStay, Active, DatesKept
<1>5. QED
  BY <1>1, <1>2, <1>3, <1>4, Quiet

\* One order and the row it belongs to are written: the other rows keep their balance.
LEMMA OneRowWritten ==
    ASSUME Inv, DaysInv, UNCHANGED <<now, gifts>>,
           NEW o \in Orders, NEW r, r.status # "none", order' = [order EXCEPT ![o] = r],
           NEW s \in Subs, r.sub = s, order[o].sub \in {NoSub, s},
           \A u \in Subs : u # s => sub'[u] = sub[u],
           sub'[s].status = "absent" => sub[s].status = "absent",
           Active(s)' => Balanced(s)'
    PROVE  DaysInv'
<1>1. Fresh' /\ IsFiniteSet(LinkedOrders')
  BY OneOrderWritten
<1>2. ASSUME NEW u \in Subs, u # s, Active(u)' PROVE Balanced(u)'
  <2>1. SameCredit(u)
    <3>1. u # NoSub
      BY SubscriptionsAssumption
    <3>2. QED
      BY <1>2, <3>1, OthersKept
  <2>2. Active(u) /\ DatesKept(u)
    BY <1>2 DEF Active, DatesKept
  <2>3. now' \in Nat /\ now <= now' /\ gifts'[u] = gifts[u]
    BY DEF Inv, TypeOK
  <2>4. QED
    BY <2>1, <2>2, <2>3, Undisturbed
<1>3. DaysAddUp'
  BY <1>2, AllBalanced
<1>4. Ungifted'
  BY DEF Ungifted, DaysInv
<1>5. QED
  BY <1>1, <1>3, <1>4 DEF DaysInv

\* An order that was applied to no row is applied to s.
LEMMA OneMoreOrder ==
    ASSUME Inv, DaysInv, NEW s \in Subs, gifts' = gifts,
           NEW o \in Orders, order[o].sub = NoSub, NEW r, order' = [order EXCEPT ![o] = r],
           r.sub = s, r.reversed = FALSE, r.days \in Nat
    PROVE  Credit(s)' = Credit(s) + r.days /\ Credit(s) \in Nat
<1>0. s # NoSub
  BY SubscriptionsAssumption
<1>1. \A p \in Orders : p # o => order'[p] = order[p]
  BY DEF Inv, TypeOK
<1>2. order'[o] = r
  BY DEF Inv, TypeOK
<1>3. o \notin Counted(s) /\ Counted(s)' = Counted(s) \cup {o}
  BY <1>0, <1>1, <1>2 DEF Counted
<1>4. \A p \in Counted(s) : order'[p].days = order[p].days
  BY <1>1, <1>3 DEF Counted
<1>5. Credit(s)' = Credit(s) + order'[o].days
  BY <1>2, <1>3, <1>4, CreditGrows DEF DaysInv
<1>6. Credit(s) \in Nat
  BY CountedAreFew DEF DaysInv
<1>7. QED
  BY <1>2, <1>5, <1>6

\* A row that was not created yet has no credit.
LEMMA NoCreditBefore ==
    ASSUME Inv, DaysInv, NEW s \in Subs, sub[s].status = "absent"
    PROVE  Credit(s) = 0
<1>1. Counted(s) = {}
  BY SubscriptionsAssumption DEF Counted, Inv, TypeOK, Linked
<1>2. gifts[s] = 0
  BY DEF DaysInv, Ungifted
<1>3. QED
  BY <1>1, <1>2, CreditIs, SumOfNoDays

\* A new row starts with the days of the order it is created for.
LEMMA CreateBalanced ==
    ASSUME Inv, DaysInv, UNCHANGED <<now, gifts>>, NEW s \in Subs,
           NEW o \in Orders, order[o].sub = NoSub, NEW r, order' = [order EXCEPT ![o] = r],
           r.status # "none", r.sub = s, r.reversed = FALSE, r.days \in Nat, Create(s, r.days)
    PROVE  DaysInv'
<1>1. Credit(s)' = r.days
  <2>1. Credit(s)' = Credit(s) + r.days
    BY OneMoreOrder
  <2>2. Credit(s) = 0
    BY NoCreditBefore DEF Create
  <2>3. QED
    BY <2>1, <2>2
<1>2. sub' = [sub EXCEPT ![s] = Created(now + r.days)] /\ sub[s].status = "absent"
  BY DEF Create, Created
<1>3. sub \in [Subs -> SubRow] /\ now \in Nat
  BY DEF Inv, TypeOK
<1>4. sub'[s].started = now /\ sub'[s].expires = now + r.days
  BY <1>2, <1>3 DEF Created
<1>5. Balanced(s)'
  BY <1>1, <1>3, <1>4 DEF Balanced
<1>6. \A u \in Subs : u # s => sub'[u] = sub[u]
  BY <1>2, <1>3
<1>7. QED
  BY <1>2, <1>5, <1>6, OneRowWritten

-----------------------------------------------------------------------------
(* Days add up: the actions *)

LEMMA PayDays ==
    ASSUME Inv, DaysInv, NEW o \in Orders, NEW d \in Days, Pay(o, d)
    PROVE  DaysInv'
<1> DEFINE r == [NoOrder EXCEPT !.status = "paid", !.paid = TRUE, !.days = d]
<1>1. r.sub = NoSub /\ r.status # "none"
  BY DEF NoOrder
<1>2. order[o].sub = NoSub
  BY DEF DaysInv, Fresh, Pay
<1>3. order' = [order EXCEPT ![o] = r] /\ UNCHANGED <<sub, now, gifts>>
  BY DEF Pay, rest
<1> HIDE DEF r
<1>4. QED
  BY <1>1, <1>2, <1>3, RowsAlone

\* Complete, RefundOrder and CloseRefund write the status and nothing else.
LEMMA StatusDays ==
    ASSUME Inv, DaysInv, UNCHANGED <<sub, now, gifts>>, NEW o \in Orders,
           NEW st \in Statuses, st # "none",
           order' = [order EXCEPT ![o] = [order[o] EXCEPT !.status = st]]
    PROVE  DaysInv'
<1>1. PICK r : r = [order[o] EXCEPT !.status = st]
  OBVIOUS
<1>2. order[o] \in OrderRow
  BY DEF Inv, TypeOK
<1>3. /\ r.status = st /\ r.sub = order[o].sub /\ r.reversed = order[o].reversed
      /\ r.days = order[o].days
  BY <1>1, <1>2, OrderRows, KeptDays, Zenon
<1>4. order' = [order EXCEPT ![o] = r]
  BY <1>1
<1>5. QED
  BY <1>3, <1>4, RowsAlone

LEMMA ApplyDays ==
    ASSUME Inv, DaysInv, NEW o \in Orders, Apply(o)
    PROVE  DaysInv'
<1>0. order[o] \in OrderRow /\ order[o].days \in Nat /\ now \in Nat
  BY OrderFields DEF Inv, TypeOK
<1>1. /\ order[o].sub = NoSub /\ order[o].reversed = FALSE /\ order[o].status # "none"
      /\ UNCHANGED <<now, gifts>>
  <2>1. order[o].reversed \in BOOLEAN
    BY <1>0, Zenon DEF OrderRow
  <2>2. QED
    BY <2>1 DEF Apply, Eligible, DaysInv, Fresh, rest
<1>2. ASSUME NEW s \in Subs, order' = [order EXCEPT ![o].sub = s],
             \/ Active(s) /\ sub' = [sub EXCEPT ![s].expires = NextExpiry(@, order[o].days)]
             \/ Create(s, order[o].days)
      PROVE  DaysInv'
  <2>1. PICK r : r = [order[o] EXCEPT !.sub = s]
    OBVIOUS
  <2>2. /\ r.status = order[o].status /\ r.sub = s /\ r.reversed = order[o].reversed
        /\ r.days = order[o].days
    BY <1>0, <2>1, LinkedRow, KeptDays, Zenon
  <2>3. order' = [order EXCEPT ![o] = r]
    BY <1>2, <2>1
  <2>4. Credit(s)' = Credit(s) + order[o].days /\ Credit(s) \in Nat
    BY <1>0, <1>1, <2>2, <2>3, OneMoreOrder
  <2>5. CASE Create(s, order[o].days)
    BY <1>0, <1>1, <2>2, <2>3, <2>5, CreateBalanced
  <2>6. CASE Active(s) /\ sub' = [sub EXCEPT ![s].expires = NextExpiry(@, order[o].days)]
    <3>1. PICK e : e = NextExpiry(sub[s].expires, order[o].days)
      OBVIOUS
    <3>2. sub \in [Subs -> SubRow] /\ sub[s] \in SubRow
          /\ sub[s].started \in Nat /\ sub[s].expires \in Int
      BY SubRows DEF Inv, TypeOK
    <3>3. e \in Int
      BY <1>0, <3>1, <3>2 DEF NextExpiry
    <3>4. sub' = [sub EXCEPT ![s] = [sub[s] EXCEPT !.expires = e]]
      BY <2>6, <3>1
    <3>5. sub'[s] = [sub[s] EXCEPT !.expires = e]
      BY <3>2, <3>4
    <3>6. sub'[s].started = sub[s].started /\ sub'[s].expires = e
          /\ sub'[s].status = sub[s].status
      <4>1. /\ [sub[s] EXCEPT !.expires = e].started = sub[s].started
            /\ [sub[s] EXCEPT !.expires = e].expires = e
            /\ [sub[s] EXCEPT !.expires = e].status = sub[s].status
        BY <3>2, <3>3, KeptDates, MovedRow, Zenon
      <4>2. QED
        BY <3>5, <4>1
    <3>7. Balanced(s)
      BY <2>6 DEF DaysInv, DaysAddUp, Balanced
    <3>8. Balanced(s)'
      BY <1>0, <1>1, <2>4, <3>1, <3>2, <3>6, <3>7 DEF Balanced, NextExpiry
    <3>9. \A u \in Subs : u # s => sub'[u] = sub[u]
      BY <3>2, <3>4
    <3>10. QED
      BY <1>1, <2>2, <2>3, <3>6, <3>8, <3>9, OneRowWritten
  <2>7. QED
    BY <1>2, <2>5, <2>6
<1>3. QED
  BY <1>2 DEF Apply

LEMMA RevokeDays ==
    ASSUME Inv, DaysInv, NEW o \in Orders, Revoke(o)
    PROVE  DaysInv'
<1>0. order[o] \in OrderRow /\ order[o].days \in Nat /\ order[o].sub \in Subs \cup {NoSub}
      /\ now \in Nat
  BY OrderFields DEF Inv, TypeOK
<1>1. PICK r : r = [order[o] EXCEPT !.reversed = TRUE]
  OBVIOUS
<1>2. /\ r.status = order[o].status /\ r.sub = order[o].sub /\ r.reversed = TRUE
      /\ r.days = order[o].days
  BY <1>0, <1>1, OrderRows, KeptDays, Zenon
<1>3. /\ order' = [order EXCEPT ![o] = r] /\ r.status # "none" /\ ~order[o].reversed
      /\ UNCHANGED <<now, gifts>>
  BY <1>1, <1>2 DEF Revoke, rest
<1>4. CASE order[o].sub = NoSub
  <2>1. UNCHANGED sub
    BY <1>4 DEF Revoke
  <2>2. QED
    BY <1>2, <1>3, <1>4, <2>1, RowsAlone
<1>5. CASE order[o].sub # NoSub
  <2>1. PICK s \in Subs : s = order[o].sub
    BY <1>0, <1>5
  <2>2. sub \in [Subs -> SubRow] /\ sub[s] \in SubRow
    BY <2>1 DEF Inv, TypeOK
  <2>3. sub[s].started \in Nat /\ sub[s].expires \in Int
    BY <2>2, SubRows
  <2>4. PICK back \in Int : back = sub[s].expires - order[o].days
    BY <1>0, <2>3
  <2>5. sub' = [sub EXCEPT ![s] = IF Active(s) /\ back <= now THEN Closed(sub[s], "cancelled")
                                  ELSE [sub[s] EXCEPT !.expires = back]]
    BY <1>5, <2>1, <2>4 DEF Revoke
  <2>6. /\ sub'[s] = IF Active(s) /\ back <= now THEN Closed(sub[s], "cancelled")
                     ELSE [sub[s] EXCEPT !.expires = back]
        /\ \A u \in Subs : u # s => sub'[u] = sub[u]
    BY <2>2, <2>5
  <2>7. /\ Closed(sub[s], "cancelled").status = "cancelled"
        /\ [sub[s] EXCEPT !.expires = back].status = sub[s].status
        /\ [sub[s] EXCEPT !.expires = back].started = sub[s].started
        /\ [sub[s] EXCEPT !.expires = back].expires = back
    BY <2>2, SubRows, MovedRow, KeptDates, Zenon
  <2>8. sub'[s].status = "absent" => sub[s].status = "absent"
    BY <2>6, <2>7
  <2>9. ASSUME Active(s)' PROVE Balanced(s)'
    <3>1. Active(s) /\ sub'[s].started = sub[s].started /\ sub'[s].expires = back
      <4>1. sub'[s].status # "cancelled"
        BY <2>9 DEF Active
      <4>2. sub'[s] = [sub[s] EXCEPT !.expires = back]
        BY <2>6, <2>7, <4>1
      <4>3. QED
        BY <2>7, <2>9, <4>2 DEF Active
    <3>2. Credit(s)' = Credit(s) - order[o].days /\ Credit(s) \in Nat
      <4>1. \A p \in Orders : p # o => order'[p] = order[p]
        BY <1>3 DEF Inv, TypeOK
      <4>2. order'[o] = r
        BY <1>3 DEF Inv, TypeOK
      <4>3. o \in Counted(s) /\ Counted(s)' = Counted(s) \ {o}
        BY <1>2, <1>3, <2>1, <4>1, <4>2 DEF Counted
      <4>4. \A p \in Counted(s) : order'[p].days = order[p].days
        BY <1>2, <4>1, <4>2 DEF Counted
      <4>5. gifts'[s] = gifts[s] /\ IsFiniteSet(LinkedOrders)
        BY <1>3 DEF DaysInv
      <4>6. Credit(s)' = Credit(s) - order[o].days
        BY <4>3, <4>4, <4>5, CreditFalls
      <4>7. Credit(s) \in Nat
        BY <4>5, CountedAreFew
      <4>8. QED
        BY <4>6, <4>7
    <3>3. Balanced(s)
      BY <3>1 DEF DaysInv, DaysAddUp, Balanced
    <3>4. now' = now
      BY <1>3
    <3>5. QED
      BY <1>0, <2>3, <2>4, <3>1, <3>2, <3>3, <3>4 DEF Balanced
  <2>10. QED
    BY <1>2, <1>3, <2>1, <2>6, <2>8, <2>9, OneRowWritten
<1>6. QED
  BY <1>4, <1>5

LEMMA GrantDays ==
    ASSUME Inv, DaysInv, NEW o \in Orders, NEW s \in Subs, NEW d \in Days,
           GrantSubscription(o, s, d)
    PROVE  DaysInv'
<1>1. PICK r : r = [NoOrder EXCEPT !.status = "completed", !.days = d, !.sub = s]
  OBVIOUS
<1>2. r.status # "none" /\ r.sub = s /\ r.reversed = FALSE /\ r.days = d
  BY <1>1 DEF NoOrder
<1>3. r.days \in Nat
  BY <1>2, SubscriptionsAssumption
<1>4. /\ order' = [order EXCEPT ![o] = r] /\ order[o].sub = NoSub
      /\ UNCHANGED <<now, gifts>> /\ Create(s, r.days)
  BY <1>1, <1>2 DEF GrantSubscription, Granted, DaysInv, Fresh, rest
<1>5. QED
  BY <1>2, <1>3, <1>4, CreateBalanced

LEMMA GiftsDays ==
    ASSUME Inv, DaysInv, NEW s \in Subs, NEW d \in Days, GiftDays(s, d)
    PROVE  DaysInv'
<1>0. d \in Nat /\ now \in Nat
  BY SubscriptionsAssumption DEF Inv, TypeOK
<1>1. sub \in [Subs -> SubRow] /\ sub[s] \in SubRow /\ gifts \in [Subs -> Nat]
  BY DEF Inv, TypeOK
<1>2. sub[s].started \in Nat /\ sub[s].expires \in Int
  BY <1>1, SubRows
<1>3. PICK until \in Int : until = sub[s].expires + d
  BY <1>0, <1>2
<1>4. PICK moved : moved = [sub[s] EXCEPT !.expires = until]
  OBVIOUS
<1>5. sub' = [sub EXCEPT ![s] = IF until <= now THEN Closed(moved, "expired") ELSE moved]
  BY <1>3, <1>4 DEF GiftDays
<1>6. /\ sub'[s] = IF until <= now THEN Closed(moved, "expired") ELSE moved
      /\ \A u \in Subs : u # s => sub'[u] = sub[u]
  BY <1>1, <1>5
<1>7. /\ moved \in SubRow /\ moved.status = sub[s].status
      /\ moved.started = sub[s].started /\ moved.expires = until
  BY <1>1, <1>3, <1>4, MovedRow, KeptDates, Zenon
<1>8. Closed(moved, "expired").status = "expired"
  BY <1>7, SubRows, Zenon
<1>9. Active(s) /\ sub'[s].status # "absent"
  BY <1>6, <1>7, <1>8 DEF GiftDays, Active
<1>10. /\ now' = now /\ order' = order
       /\ gifts'[s] = gifts[s] + d /\ \A u \in Subs : u # s => gifts'[u] = gifts[u]
  BY <1>1 DEF GiftDays
<1>11. Fresh' /\ IsFiniteSet(LinkedOrders')
  BY <1>10 DEF DaysInv, Fresh, LinkedOrders
<1>12. \A u \in Subs : SameCredit(u)
  BY <1>10 DEF SameCredit, Counted
<1>13. Credit(s)' = Credit(s) + d /\ Credit(s) \in Nat
  <2>1. IsFiniteSet(LinkedOrders)
    BY DEF DaysInv
  <2>2. /\ SumOfDays(order, Counted(s)) \in Nat /\ gifts[s] \in Nat
        /\ Credit(s) \in Nat
    BY <2>1, CountedAreFew
  <2>3. SumOfDays(order', Counted(s)') = SumOfDays(order, Counted(s))
    BY <1>10 DEF Counted
  <2>4. /\ Credit(s) = SumOfDays(order, Counted(s)) + gifts[s]
        /\ Credit(s)' = SumOfDays(order', Counted(s)') + gifts'[s]
    BY CreditIs
  <2>5. QED
    BY <1>0, <1>10, <2>2, <2>3, <2>4
<1>14. ASSUME NEW u \in Subs, Active(u)' PROVE Balanced(u)'
  <2>1. CASE u # s
    <3>1. Active(u) /\ DatesKept(u)
      BY <1>6, <1>14, <2>1 DEF Active, DatesKept
    <3>2. now' \in Nat /\ now <= now' /\ gifts'[u] = gifts[u] /\ SameCredit(u)
      BY <1>0, <1>10, <1>12, <2>1
    <3>3. QED
      BY <3>1, <3>2, Undisturbed
  <2>2. CASE u = s
    <3>1. sub'[s].status # "expired"
      BY <1>14, <2>2 DEF Active
    <3>2. sub'[s].started = sub[s].started /\ sub'[s].expires = until
      BY <1>6, <1>7, <1>8, <3>1
    <3>3. Balanced(s)
      BY <1>9 DEF DaysInv, DaysAddUp, Balanced
    <3>4. QED
      BY <1>0, <1>2, <1>3, <1>10, <1>13, <2>2, <3>2, <3>3 DEF Balanced
  <2>3. QED
    BY <2>1, <2>2
<1>15. DaysAddUp'
  BY <1>14, AllBalanced
<1>16. Ungifted'
  BY <1>6, <1>9, <1>10 DEF Ungifted, DaysInv
<1>17. QED
  BY <1>11, <1>15, <1>16 DEF DaysInv

\* Closing rows, storing details, and what writes no row at all.
LEMMA CloseDays ==
    ASSUME Inv, DaysInv, UNCHANGED <<order, gifts, now>>, NEW s \in Subs, Active(s),
           NEW st \in {"expired", "cancelled"}, sub' = [sub EXCEPT ![s] = Closed(sub[s], st)]
    PROVE  DaysInv'
<1>1. sub \in [Subs -> SubRow] /\ sub[s] \in SubRow /\ now \in Nat
  BY DEF Inv, TypeOK
<1>2. Closed(sub[s], st).status = st
  BY <1>1, SubRows, Zenon
<1>3. sub'[s].status \in {"expired", "cancelled"} /\ \A u \in Subs : u # s => sub'[u] = sub[u]
  BY <1>1, <1>2
<1>4. RowsStay
  BY <1>3 DEF RowsStay
<1>5. \A u \in Subs : Active(u)' => Active(u) /\ DatesKept(u)
  BY <1>3 DEF Active, DatesKept
<1>6. now' \in Nat /\ now <= now'
  BY <1>1
<1>7. QED
  BY <1>4, <1>5, <1>6, OrdersAlone

LEMMA DetailsDays ==
    ASSUME Inv, DaysInv, NEW s \in Subs, SetCredentials(s)
    PROVE  DaysInv'
<1>1. sub \in [Subs -> SubRow] /\ sub[s] \in SubRow /\ now \in Nat
  BY DEF Inv, TypeOK
<1>2. PICK r : r = [sub[s] EXCEPT !.credentials = TRUE]
  OBVIOUS
<1>3. r.status = sub[s].status /\ r.started = sub[s].started /\ r.expires = sub[s].expires
  BY <1>1, <1>2, SubRows, KeptDates, Zenon
<1>4. sub' = [sub EXCEPT ![s] = r] /\ UNCHANGED <<order, gifts, now>>
  BY <1>2 DEF SetCredentials, rest
<1>5. sub'[s] = r /\ \A u \in Subs : u # s => sub'[u] = sub[u]
  BY <1>1, <1>4
<1>6. RowsStay
  BY <1>3, <1>5 DEF RowsStay
<1>7. \A u \in Subs : Active(u)' => Active(u) /\ DatesKept(u)
  BY <1>3, <1>5 DEF Active, DatesKept
<1>8. now' \in Nat /\ now <= now'
  BY <1>1, <1>4
<1>9. QED
  BY <1>4, <1>6, <1>7, <1>8, OrdersAlone

LEMMA NothingDays ==
    ASSUME Inv, DaysInv, UNCHANGED <<order, gifts, sub>>, now' \in Nat, now <= now'
    PROVE  DaysInv'
<1>1. RowsStay /\ \A u \in Subs : Active(u)' => Active(u) /\ DatesKept(u)
  BY DEF RowsStay, Active, DatesKept
<1>2. QED
  BY <1>1, OrdersAlone

LEMMA ClaimDays == ASSUME Inv, DaysInv, ClaimExpired PROVE DaysInv'
<1>1. sub \in [Subs -> SubRow] /\ now \in Nat /\ sweep.sub \in Subs
  BY DEF Inv, TypeOK, ClaimExpired
<1>2. PICK s \in Subs : s = sweep.sub
  BY <1>1
<1>3. UNCHANGED <<order, gifts, now>>
  BY DEF ClaimExpired
<1>4. CASE Active(s) /\ sub' = [sub EXCEPT ![s] = Closed(sub[s], "expired")]
  BY <1>3, <1>4, CloseDays
<1>5. CASE sub' = [sub EXCEPT ![s] = sub[s]]
  <2>1. sub' = sub
    BY <1>1, <1>5
  <2>2. QED
    BY <1>1, <1>3, <2>1, NothingDays
<1>6. QED
  BY <1>2, <1>4, <1>5 DEF ClaimExpired

LEMMA EraseDays == ASSUME Inv, DaysInv, Erase PROVE DaysInv'
<1>1. sub \in [Subs -> SubRow] /\ now \in Nat
  BY DEF Inv, TypeOK
<1>2. UNCHANGED <<order, gifts, now>>
  BY DEF Erase
<1>3. ASSUME NEW s \in Subs
      PROVE  sub'[s].status = IF sub[s].status = "absent" THEN "absent" ELSE "cancelled"
  <2>1. Closed(sub[s], "cancelled").status = "cancelled"
    BY <1>1, SubRows, Zenon
  <2>2. sub'[s] = IF sub[s].status = "absent" THEN sub[s] ELSE Closed(sub[s], "cancelled")
    BY DEF Erase
  <2>3. QED
    BY <2>1, <2>2
<1>4. RowsStay
  BY <1>3 DEF RowsStay
<1>5. \A u \in Subs : Active(u)' => Active(u) /\ DatesKept(u)
  BY <1>3 DEF Active
<1>6. now' \in Nat /\ now <= now'
  BY <1>1, <1>2
<1>7. QED
  BY <1>2, <1>4, <1>5, <1>6, OrdersAlone

-----------------------------------------------------------------------------

LEMMA InitDays == Init => DaysInv
<1> SUFFICES ASSUME Init PROVE DaysInv
  OBVIOUS
<1>1. Fresh /\ Ungifted
  BY DEF Init, Fresh, Ungifted, NoOrder
<1>2. LinkedOrders = {}
  BY DEF Init, LinkedOrders, NoOrder
<1>3. IsFiniteSet(LinkedOrders)
  BY <1>2, FS_EmptySet
<1>4. DaysAddUp
  BY DEF Init, NoRow, DaysAddUp, Active
<1>5. QED
  BY <1>1, <1>3, <1>4 DEF DaysInv

LEMMA NextDays == Inv /\ DaysInv /\ [Next]_vars => DaysInv'
<1> SUFFICES ASSUME Inv, DaysInv, [Next]_vars PROVE DaysInv'
  OBVIOUS
<1>0. now \in Nat /\ order \in [Orders -> OrderRow] /\ sub \in [Subs -> SubRow]
  BY DEF Inv, TypeOK
<1>1. ASSUME NEW o \in Orders, Complete(o) \/ RefundOrder(o) \/ CloseRefund(o) PROVE DaysInv'
  <2>1. UNCHANGED <<sub, now, gifts>>
    BY <1>1 DEF Complete, RefundOrder, CloseRefund, rest
  <2>2. PICK st \in {"completed", "refund_pending", "refunded"} :
             order' = [order EXCEPT ![o] = [order[o] EXCEPT !.status = st]]
    BY <1>1 DEF Complete, RefundOrder, CloseRefund
  <2>3. st \in Statuses /\ st # "none"
    BY DEF Statuses
  <2>4. QED
    BY <2>1, <2>2, <2>3, StatusDays
<1>2. ASSUME NEW s \in Subs, CloseSubscription(s) PROVE DaysInv'
  BY <1>2, CloseDays DEF CloseSubscription, rest
<1>3. ASSUME NEW s \in Subs, ReadDue(s) PROVE DaysInv'
  BY <1>0, <1>3, NothingDays DEF ReadDue
<1>4. ASSUME NEW to \in {"live", "blocked"}, SetBlocked(to) PROVE DaysInv'
  BY <1>0, <1>4, NothingDays DEF SetBlocked
<1>5. CASE Tick
  <2>1. now' \in Nat /\ now <= now' /\ UNCHANGED <<order, gifts, sub>>
    BY <1>0, <1>5 DEF Tick
  <2>2. QED
    BY <2>1, NothingDays
<1>6. CASE Restart
  BY <1>0, <1>6, NothingDays DEF Restart
<1>7. CASE UNCHANGED vars
  BY <1>0, <1>7, NothingDays DEF vars
<1>8. QED
  BY <1>1, <1>2, <1>3, <1>4, <1>5, <1>6, <1>7, PayDays, ApplyDays, RevokeDays, GrantDays,
     GiftsDays, DetailsDays, ClaimDays, EraseDays DEF Next

\* The days of a running row are those of its orders and gifts: it never ends before its
\* start plus what it was credited with, nor later than now plus that, whatever renewals,
\* gifts and refunds come (next_expiry, gift_days, revoke_payment).
THEOREM DaysKept == Spec => []DaysAddUp
<1>1. Inv /\ DaysInv /\ [Next]_vars => DaysInv'
  BY NextDays
<1>2. DaysInv => DaysAddUp
  BY DEF DaysInv
<1>3. QED
  BY Invariance, InitDays, <1>1, <1>2, PTL DEF Spec

-----------------------------------------------------------------------------
(* The books: months *)


\* The months of a year, and of the years before and after it.
LEMMA Years ==
    ASSUME NEW t \in Int, NEW q \in Int
    PROVE  /\ t \div 12 \in Int /\ t % 12 \in 0..11 /\ t = 12 * (t \div 12) + (t % 12)
           /\ (t - 12 * q) \div 12 = (t \div 12) - q
           /\ (t - 12 * q) % 12 = t % 12
           /\ t \in Nat => t \div 12 \in Nat
  OBVIOUS

\* The month after is one month on, or January of the year after.
LEMMA MonthAfter ==
    ASSUME NEW t \in Int
    PROVE  IF t % 12 = 11
           THEN (t + 1) \div 12 = (t \div 12) + 1 /\ (t + 1) % 12 = 0
           ELSE (t + 1) \div 12 = t \div 12 /\ (t + 1) % 12 = (t % 12) + 1
  OBVIOUS

Count(n) == FirstMonth - 1 + n      \* months since January of the year 0

LEMMA MonthIsAt ==
    ASSUME B!BooksAssumption, NEW n \in Nat
    PROVE  /\ Count(n) \in Nat
           /\ B!MonthAt(n) = <<Count(n) \div 12, (Count(n) % 12) + 1>>
           /\ B!MonthAt(n) # B!Never
           /\ B!MonthAt(n)[1] = Count(n) \div 12 /\ B!MonthAt(n)[2] = (Count(n) % 12) + 1
<1>1. FirstMonth \in 1..12
  BY DEF B!BooksAssumption
<1>2. Count(n) \in Nat
  BY <1>1 DEF Count
<1>3. B!MonthAt(n) = <<Count(n) \div 12, (Count(n) % 12) + 1>>
  BY DEF B!MonthAt, Count
<1>4. QED
  BY <1>2, <1>3 DEF B!Never

\* Months come one after the other.
LEMMA MonthsInOrder ==
    ASSUME B!BooksAssumption, NEW n \in Nat, NEW k \in Nat
    PROVE  B!Before(B!MonthAt(n), B!MonthAt(k)) <=> n < k
<1>1. PICK s \in Nat, t \in Nat : s = Count(n) /\ t = Count(k)
  BY MonthIsAt
<1>2. n < k <=> s < t
  BY <1>1 DEF Count, B!BooksAssumption
<1>3. PICK p \in Nat, a \in 0..11 : p = s \div 12 /\ a = s % 12 /\ s = 12 * p + a
  BY Years
<1>4. PICK q \in Nat, b \in 0..11 : q = t \div 12 /\ b = t % 12 /\ t = 12 * q + b
  BY Years
<1>5. B!Before(B!MonthAt(n), B!MonthAt(k)) <=> p < q \/ (p = q /\ a < b)
  <2>1. /\ B!MonthAt(n)[1] = p /\ B!MonthAt(n)[2] = a + 1
        /\ B!MonthAt(k)[1] = q /\ B!MonthAt(k)[2] = b + 1
    BY <1>1, <1>3, <1>4, MonthIsAt
  <2>2. a + 1 < b + 1 <=> a < b
    BY <1>3, <1>4
  <2>3. QED
    BY <2>1, <2>2 DEF B!Before
<1>6. s < t <=> p < q \/ (p = q /\ a < b)
  BY <1>3, <1>4
<1>7. QED
  BY <1>2, <1>5, <1>6

\* month_bounds_utc, for a month that is n months after the first, seen from today.
LEMMA BoundsAre ==
    ASSUME B!BooksAssumption, NEW n \in Nat, age \in Nat
    PROVE  B!MonthBounds(n - age) = [start |-> B!MonthAt(n), end |-> B!MonthAt(n + 1)]
<1>1. PICK u \in Nat, t \in Nat : u = Count(age) /\ t = Count(n) /\ t = u + (n - age)
  BY MonthIsAt DEF Count, B!BooksAssumption
<1>2. PICK q \in Nat, r \in 0..11 : q = u \div 12 /\ r = u % 12 /\ u = 12 * q + r
  BY Years
<1>3. PICK p \in Nat, a \in 0..11 : p = t \div 12 /\ a = t % 12 /\ t = 12 * p + a
  BY Years
<1>4. B!Today[1] = q /\ B!Today[2] = r + 1
  BY <1>1, <1>2, MonthIsAt DEF B!Today
<1>5. ((r + 1) + (n - age)) - 1 = t - 12 * q
  BY <1>1, <1>2
<1>6. PICK m : m = (r + 1) + (n - age)
  OBVIOUS
<1>7. q + (m - 1) \div 12 = p /\ (m - 1) % 12 = a
  <2>1. (t - 12 * q) \div 12 = p - q /\ (t - 12 * q) % 12 = a
    BY <1>3, Years
  <2>2. QED
    BY <1>2, <1>3, <1>5, <1>6, <2>1
<1>8. B!MonthBounds(n - age) =
        [start |-> <<p, a + 1>>, end |-> <<p + (a + 1) \div 12, ((a + 1) % 12) + 1>>]
  BY <1>4, <1>6, <1>7 DEF B!MonthBounds
<1>9. B!MonthAt(n) = <<p, a + 1>>
  BY <1>1, <1>3, MonthIsAt
<1>10. B!MonthAt(n + 1) = <<p + (a + 1) \div 12, ((a + 1) % 12) + 1>>
  <2>1. Count(n + 1) = t + 1
    BY <1>1 DEF Count, B!BooksAssumption
  <2>2. B!MonthAt(n + 1) = <<(t + 1) \div 12, ((t + 1) % 12) + 1>>
    BY <2>1, MonthIsAt, n + 1 \in Nat
  <2>3. (t + 1) \div 12 = p + (a + 1) \div 12 /\ (t + 1) % 12 = (a + 1) % 12
    <3>1. CASE a = 11
      BY <1>3, <3>1, MonthAfter
    <3>2. CASE a # 11
      BY <1>3, <3>2, MonthAfter
    <3>3. QED
      BY <3>1, <3>2
  <2>4. QED
    BY <2>2, <2>3
<1>11. QED
  BY <1>8, <1>9, <1>10

\* So a month lies within the bounds of itself and of no other.
LEMMA WithinIs ==
    ASSUME B!BooksAssumption, NEW n \in Nat, NEW k \in Nat, age \in Nat
    PROVE  B!Within(B!MonthAt(k), B!MonthBounds(n - age)) <=> k = n
<1>0. B!MonthBounds(n - age) = [start |-> B!MonthAt(n), end |-> B!MonthAt(n + 1)]
  BY BoundsAre
<1>1. PICK bounds : /\ bounds = B!MonthBounds(n - age)
                    /\ bounds.start = B!MonthAt(n) /\ bounds.end = B!MonthAt(n + 1)
  BY <1>0
<1>2. B!Before(B!MonthAt(k), B!MonthAt(n)) <=> k < n
  BY MonthsInOrder
<1>3. B!Before(B!MonthAt(k), B!MonthAt(n + 1)) <=> k < n + 1
  BY MonthsInOrder, n + 1 \in Nat
<1>4. B!MonthAt(k) # B!Never
  BY MonthIsAt
<1>5. B!Within(B!MonthAt(k), bounds) <=> ~(k < n) /\ k < n + 1
  BY <1>1, <1>2, <1>3, <1>4 DEF B!Within
<1>6. QED
  BY <1>1, <1>5

-----------------------------------------------------------------------------
(* The books: what orders amount to *)

\* What the orders of a set cost, going by the rows.
Total(rows, S) == SumFunctionOnSet([o \in Sales |-> rows[o].amount], S)

\* One function has the totals of all sets of orders within a finite one.
LEMMA Totals ==
    ASSUME NEW S \in SUBSET Sales, IsFiniteSet(S), NEW rows, \A o \in S : rows[o].amount \in Int
    PROVE  \E g, w : /\ Sums(g, w, S) /\ \A o \in S : w[o] = rows[o].amount
                     /\ \A R \in SUBSET S : Total(rows, R) = g[R]
<1>1. PICK w : w = [o \in S |-> rows[o].amount]
  OBVIOUS
<1>2. PICK all : all = [o \in Sales |-> rows[o].amount]
  OBVIOUS
<1>3. w \in [S -> Int] /\ \A o \in S : all[o] = w[o] /\ w[o] = rows[o].amount
  BY <1>1, <1>2
<1>4. PICK g : Sums(g, w, S)
  BY <1>3, SumsExist
<1>5. Sums(g, all, S)
  BY <1>3, <1>4 DEF Sums
<1>6. ASSUME NEW R \in SUBSET S PROVE Total(rows, R) = g[R]
  <2>1. SumFunctionOnSet(all, R) = g[R]
    BY <1>5, FunctionSum
  <2>2. QED
    BY <1>2, <2>1 DEF Total
<1>7. QED
  BY <1>3, <1>4, <1>6

\* Orders that cost what they did amount to what they did.
LEMMA SameTotals ==
    ASSUME NEW S \in SUBSET Sales, IsFiniteSet(S), NEW rows, NEW later,
           \A o \in S : rows[o].amount \in Int /\ later[o].amount = rows[o].amount
    PROVE  Total(later, S) = Total(rows, S)
<1>1. PICK w : w = [o \in S |-> rows[o].amount]
  OBVIOUS
<1>2. PICK a, b : /\ a = [o \in Sales |-> rows[o].amount]
                  /\ b = [o \in Sales |-> later[o].amount]
  OBVIOUS
<1>3. w \in [S -> Int] /\ \A o \in S : a[o] = w[o] /\ b[o] = w[o]
  BY <1>1, <1>2
<1>4. PICK g : Sums(g, w, S)
  BY <1>3, SumsExist
<1>5. Sums(g, a, S) /\ Sums(g, b, S)
  BY <1>3, <1>4 DEF Sums
<1>6. S \in SUBSET S
  OBVIOUS
<1>7. SumFunctionOnSet(a, S) = g[S]
  BY ONLY IsFiniteSet(S), <1>5, <1>6, FunctionSum
<1>8. SumFunctionOnSet(b, S) = g[S]
  BY ONLY IsFiniteSet(S), <1>5, <1>6, FunctionSum
<1>9. QED
  BY <1>2, <1>7, <1>8 DEF Total

-----------------------------------------------------------------------------
(* The invariant of the books *)

Past == {B!MonthAt(n) : n \in 0..age}
Prices == Amounts \cup {0}

\* What the status of an order says of the money recorded with it.
RowOk(r) ==
    /\ r \in [status : B!Statuses, amount : Prices, paid : Past \cup {B!Never},
              reversed : Past \cup {B!Never}, linked : BOOLEAN]
    /\ r.reversed # B!Never => /\ r.status \in {"refund_pending", "refunded"}
                               /\ ~B!Before(r.reversed, r.paid)
    /\ r.status = "refund_pending" => r.paid # B!Never
    /\ r.status = "refunded" => r.paid # B!Never /\ r.reversed # B!Never
    /\ r.status \in {"none", "rejected", "cancelled"} => r.paid = B!Never
    /\ r.status = "none" => r = B!NoRow

Placed == {o \in Sales : ledger[o] # B!NoRow}

BooksRows ==
    /\ age \in 0..MaxMonths
    /\ ledger = [o \in Sales |-> ledger[o]] /\ \A o \in Sales : RowOk(ledger[o])
    /\ IsFiniteSet(Placed)

\* Reports are of months that are over, and stand.
Reported ==
    /\ DOMAIN report \subseteq 0..(age - 1)
    /\ \A n \in DOMAIN report : report[n] \in Int /\ report[n] = B!RevenueForMonth(n - age)

BooksInv == BooksRows /\ Reported

-----------------------------------------------------------------------------
(* The books: the figures *)

\* The orders paid in a month, and those whose money went back in it.
PaidIn(n) == {o \in Sales : ledger[o].paid = B!MonthAt(n)}
ReturnedIn(n) == {o \in Sales : ledger[o].reversed = B!MonthAt(n)}

LEMMA AgeIs == ASSUME B!BooksAssumption, BooksRows PROVE age \in Nat
  BY DEF B!BooksAssumption, BooksRows

\* Two months that are not the same have other dates.
LEMMA MonthsDiffer ==
    ASSUME B!BooksAssumption, NEW n \in Nat, NEW k \in Nat, B!MonthAt(n) = B!MonthAt(k)
    PROVE  n = k
<1>1. /\ B!Before(B!MonthAt(n), B!MonthAt(k)) <=> n < k
      /\ B!Before(B!MonthAt(k), B!MonthAt(n)) <=> k < n
      /\ B!Before(B!MonthAt(n), B!MonthAt(n)) <=> n < n
  BY MonthsInOrder
<1>2. ~(n < k) /\ ~(k < n)
  BY <1>1
<1>3. QED
  BY <1>2

LEMMA RowIs ==
    ASSUME B!BooksAssumption, BooksRows, NEW o \in Sales
    PROVE  /\ ledger[o].amount \in Nat
           /\ ledger[o].paid # B!Never => o \in Placed
           /\ ledger[o].reversed # B!Never => o \in Placed /\ ledger[o].paid # B!Never
           /\ ledger[o].paid # B!Never =>
                 \E k \in 0..age : ledger[o].paid = B!MonthAt(k) /\ k \in Nat
           /\ ledger[o].reversed # B!Never =>
                 \E k \in 0..age : ledger[o].reversed = B!MonthAt(k) /\ k \in Nat
<1>1. RowOk(ledger[o])
  BY DEF BooksRows
<1>2. ledger[o].amount \in Nat
  <2>1. ledger[o].amount \in Prices
    BY <1>1 DEF RowOk
  <2>2. \A a \in Prices : a \in Nat
    BY DEF Prices, B!BooksAssumption
  <2>3. QED
    BY <2>1, <2>2
<1>3. B!NoRow.paid = B!Never /\ B!NoRow.reversed = B!Never
  BY DEF B!NoRow
<1>4. ledger[o].reversed # B!Never => ledger[o].paid # B!Never
  BY <1>1 DEF RowOk
<1>5. /\ ledger[o].paid \in Past \cup {B!Never}
      /\ ledger[o].reversed \in Past \cup {B!Never}
  BY <1>1 DEF RowOk
<1>6. \A x \in Past : \E k \in 0..age : x = B!MonthAt(k) /\ k \in Nat
  BY AgeIs DEF Past
<1>7. QED
  BY <1>2, <1>3, <1>4, <1>5, <1>6 DEF Placed

\* The sums of the module are totals by the rows there are.
SumsAreTotals ==
    /\ \A n \in Int :
          B!RevenueForMonth(n) =
             Total(ledger, {o \in Sales : B!Within(ledger[o].paid, B!MonthBounds(n))})
             - Total(ledger, {o \in Sales : /\ ledger[o].paid # B!Never
                                            /\ B!Within(ledger[o].reversed, B!MonthBounds(n))})
    /\ B!Dashboard = Total(ledger, {o \in Sales : B!Collected(o)})
    /\ \A S : B!Sum(S) = Total(ledger, S)

LEMMA TotalsNow == SumsAreTotals
<1>1. \A S : B!Sum(S) = Total(ledger, S)
  BY DEF B!Sum, Total, B!SumFunctionOnSet, SumFunctionOnSet, B!FoldFunctionOnSet,
         FoldFunctionOnSet, B!MapThenFoldSet, MapThenFoldSet
<1>2. QED
  BY <1>1 DEF SumsAreTotals, B!RevenueForMonth, B!Dashboard

LEMMA TotalsThen == SumsAreTotals'
  BY TotalsNow, PTL

\* revenue_for_month is about the orders paid and returned in that month.
LEMMA RevenueIs ==
    ASSUME B!BooksAssumption, BooksRows, NEW n \in 0..age
    PROVE  /\ B!RevenueForMonth(n - age) = Total(ledger, PaidIn(n)) - Total(ledger, ReturnedIn(n))
           /\ PaidIn(n) \in SUBSET Placed /\ ReturnedIn(n) \in SUBSET Placed
<1>1. age \in Nat /\ n \in Nat
  BY AgeIs
<1>2. PICK bounds : bounds = B!MonthBounds(n - age)
  OBVIOUS
<1>3. \A k \in Nat : B!Within(B!MonthAt(k), bounds) <=> k = n
  BY <1>1, <1>2, WithinIs
<1>4. ~B!Within(B!Never, bounds) /\ B!MonthAt(n) # B!Never
  BY <1>1, MonthIsAt DEF B!Within
<1>5. \A o \in Sales : /\ B!Within(ledger[o].paid, bounds) <=> o \in PaidIn(n)
                       /\ B!Within(ledger[o].reversed, bounds) <=> o \in ReturnedIn(n)
  <2> SUFFICES ASSUME NEW o \in Sales
               PROVE  /\ B!Within(ledger[o].paid, bounds) <=> o \in PaidIn(n)
                      /\ B!Within(ledger[o].reversed, bounds) <=> o \in ReturnedIn(n)
    OBVIOUS
  <2>1. \A k \in Nat : B!MonthAt(k) = B!MonthAt(n) <=> k = n
    BY <1>1, MonthsDiffer
  <2>2. B!Within(ledger[o].paid, bounds) <=> ledger[o].paid = B!MonthAt(n)
    BY <1>3, <1>4, <2>1, RowIs
  <2>3. B!Within(ledger[o].reversed, bounds) <=> ledger[o].reversed = B!MonthAt(n)
    BY <1>3, <1>4, <2>1, RowIs
  <2>4. QED
    BY <2>2, <2>3 DEF PaidIn, ReturnedIn
<1>6. {o \in Sales : B!Within(ledger[o].paid, bounds)} = PaidIn(n)
  BY <1>5 DEF PaidIn
<1>7. {o \in Sales : ledger[o].paid # B!Never /\ B!Within(ledger[o].reversed, bounds)}
      = ReturnedIn(n)
  <2>1. \A o \in Sales : o \in ReturnedIn(n) => ledger[o].paid # B!Never
    BY <1>4, RowIs DEF ReturnedIn
  <2>2. QED
    BY <1>5, <2>1 DEF ReturnedIn
<1>8. PaidIn(n) \in SUBSET Placed /\ ReturnedIn(n) \in SUBSET Placed
  BY <1>4, RowIs DEF PaidIn, ReturnedIn
<1>9. QED
  BY <1>1, <1>2, <1>6, <1>7, <1>8, TotalsNow DEF SumsAreTotals

Revenues ==
    B!BooksAssumption /\ BooksRows =>
       \A n \in 0..age :
          /\ B!RevenueForMonth(n - age) = Total(ledger, PaidIn(n)) - Total(ledger, ReturnedIn(n))
          /\ PaidIn(n) \in SUBSET Placed /\ ReturnedIn(n) \in SUBSET Placed

LEMMA RevenuesNow == Revenues
  BY RevenueIs DEF Revenues

LEMMA RevenuesThen == Revenues'
  BY RevenuesNow, PTL

LEMMA TotalIsInt ==
    ASSUME B!BooksAssumption, BooksRows, NEW S \in SUBSET Placed
    PROVE  /\ Total(ledger, S) \in Int /\ IsFiniteSet(S) /\ S \in SUBSET Sales
           /\ \A o \in S : ledger[o].amount \in Int
<1>1. Placed \in SUBSET Sales /\ IsFiniteSet(Placed) /\ \A o \in Placed : ledger[o].amount \in Int
  BY RowIs DEF Placed, BooksRows
<1>2. PICK g, w : Sums(g, w, Placed) /\ \A R \in SUBSET Placed : Total(ledger, R) = g[R]
  BY <1>1, Totals
<1>3. Total(ledger, S) = g[S] /\ g[S] \in Int
  BY <1>2 DEF Sums
<1>4. IsFiniteSet(S)
  BY <1>1, FS_Subset
<1>5. QED
  BY <1>1, <1>3, <1>4

-----------------------------------------------------------------------------
(* The books: steps *)

\* What a step may do to a row.
RowMoves(r, q) ==
    /\ RowOk(q)
    /\ r # B!NoRow => q.amount = r.amount
    /\ q.paid = r.paid \/ (r.paid = B!Never /\ q.paid = B!Today)
    /\ q.reversed = r.reversed \/ (r.reversed = B!Never /\ q.reversed = B!Today)

OrderMoves(o) ==
    /\ ledger' = [ledger EXCEPT ![o] = ledger'[o]]
    /\ RowMoves(ledger[o], ledger'[o])
    /\ age' = age /\ report' = report

\* A fresh row.
LEMMA CreateMoves ==
    ASSUME B!BooksAssumption, BooksRows, NEW o \in Sales,
           NEW status \in {"pending", "paid", "completed"}, NEW amount \in Prices,
           B!Create(o, status, amount)
    PROVE  OrderMoves(o)
<1>1. PICK r : r = [status |-> status, amount |-> amount, reversed |-> B!Never,
                    paid |-> IF status = "paid" THEN B!Today ELSE B!Never,
                    linked |-> status = "completed"]
  OBVIOUS
<1>2. /\ ledger[o] = B!NoRow /\ ledger' = [ledger EXCEPT ![o] = r]
      /\ age' = age /\ report' = report
  BY <1>1 DEF B!Create
<1>3. ledger'[o] = r
  BY <1>2 DEF BooksRows
<1>4. B!Today \in Past
  BY AgeIs DEF Past, B!Today
<1>5. RowOk(r)
  <2>1. /\ r.status = status /\ r.amount = amount /\ r.reversed = B!Never
        /\ r.paid \in Past \cup {B!Never}
    BY <1>1, <1>4
  <2>2. r \in [status : B!Statuses, amount : Prices, paid : Past \cup {B!Never},
               reversed : Past \cup {B!Never}, linked : BOOLEAN]
    BY <1>1, <1>4 DEF B!Statuses
  <2>3. QED
    BY <2>1, <2>2 DEF RowOk
<1>6. r.reversed = B!Never /\ (r.paid = B!Never \/ r.paid = B!Today)
  BY <1>1
<1>7. B!NoRow.paid = B!Never /\ B!NoRow.reversed = B!Never
  BY DEF B!NoRow
<1>8. QED
  BY <1>2, <1>3, <1>5, <1>6, <1>7 DEF OrderMoves, RowMoves

\* A change of status that leaves the money alone.
LEMMA ClaimMoves ==
    ASSUME B!BooksAssumption, BooksRows, NEW o \in Sales, NEW expected, NEW new \in B!Statuses,
           B!Claims(o, expected, new), new # "none", ledger[o].status # "none",
           ledger[o].reversed # B!Never => new \in {"refund_pending", "refunded"},
           new = "refund_pending" => ledger[o].paid # B!Never,
           new = "refunded" => ledger[o].paid # B!Never /\ ledger[o].reversed # B!Never,
           new \in {"rejected", "cancelled"} => ledger[o].paid = B!Never
    PROVE  OrderMoves(o)
<1>1. PICK r : r = [ledger[o] EXCEPT !.status = new]
  OBVIOUS
<1>2. ledger' = [ledger EXCEPT ![o] = r] /\ age' = age /\ report' = report
  BY <1>1 DEF B!Claims
<1>3. ledger'[o] = r
  BY <1>2 DEF BooksRows
<1>4. RowOk(ledger[o])
  BY DEF BooksRows
<1>5. /\ r.status = new /\ r.paid = ledger[o].paid /\ r.reversed = ledger[o].reversed
      /\ r.amount = ledger[o].amount
      /\ r \in [status : B!Statuses, amount : Prices, paid : Past \cup {B!Never},
                reversed : Past \cup {B!Never}, linked : BOOLEAN]
  BY <1>1, <1>4 DEF RowOk
<1>6. RowOk(r)
  BY <1>4, <1>5 DEF RowOk
<1>7. QED
  BY <1>2, <1>3, <1>5, <1>6 DEF OrderMoves, RowMoves

\* Every step of an order moves its row so.
LEMMA OrdersMove ==
    ASSUME B!BooksAssumption, BooksRows, NEW o \in Sales,
           \/ B!Transfer(o) \/ B!StarsPaid(o) \/ B!Granted(o)
           \/ B!Confirm(o) \/ B!Fulfil(o) \/ B!Park(o) \/ B!Serve(o) \/ B!Reject(o)
           \/ B!CancelUnpaid(o) \/ B!Refund(o) \/ B!Revoke(o) \/ B!Close(o)
    PROVE  OrderMoves(o)
<1>1. RowOk(ledger[o])
  BY DEF BooksRows
<1>2. /\ ledger[o].status \in B!Statuses /\ ledger[o].paid \in Past \cup {B!Never}
      /\ ledger[o].reversed # B!Never => ledger[o].status \in {"refund_pending", "refunded"}
  BY <1>1 DEF RowOk
<1>3. B!Today \in Past /\ B!Today # B!Never
  BY AgeIs, MonthIsAt DEF Past, B!Today
<1>4. CASE B!Transfer(o) \/ B!StarsPaid(o) \/ B!Granted(o)
  <2>1. Amounts \subseteq Prices /\ 0 \in Prices
    BY DEF Prices
  <2>2. QED
    BY <1>4, <2>1, CreateMoves DEF B!Transfer, B!StarsPaid, B!Granted
<1>5. CASE B!Park(o) \/ B!Serve(o) \/ B!Reject(o) \/ B!CancelUnpaid(o) \/ B!Refund(o)
           \/ B!Close(o)
  <2>1. \A s \in {"problem", "delivered", "completed", "rejected", "cancelled",
                  "refund_pending", "refunded"} : s \in B!Statuses
    BY DEF B!Statuses, B!ReversedStatuses
  <2>2. ledger[o].status = "refund_pending" => ledger[o].paid # B!Never
    BY <1>1 DEF RowOk
  <2>3. CASE B!Park(o)
    <3>1. B!Claims(o, {"paid", "pending"}, "problem") /\ ledger[o].status \in {"paid", "pending"}
      BY <2>3 DEF B!Park, B!Claims
    <3>2. QED
      BY <1>2, <2>1, <3>1, ClaimMoves
  <2>4. CASE B!Serve(o)
    <3>1. /\ ledger[o].status \in {"paid", "problem", "delivered", "completed"}
          /\ \E e : \E s \in {"problem", "delivered", "completed"} : B!Claims(o, e, s)
      BY <2>4 DEF B!Serve, B!Claims
    <3>2. PICK e : \E s \in {"problem", "delivered", "completed"} : B!Claims(o, e, s)
      BY <3>1
    <3>3. PICK s \in {"problem", "delivered", "completed"} : B!Claims(o, e, s)
      BY <3>2
    <3>4. ledger[o].reversed = B!Never /\ s \in B!Statuses
      BY <1>2, <2>1, <3>1
    <3>5. QED
      BY <3>1, <3>3, <3>4, ClaimMoves
  <2>5. CASE B!Reject(o)
    <3>1. /\ B!Claims(o, {"pending", "problem"}, "rejected") /\ ledger[o].paid = B!Never
          /\ ledger[o].status \in {"pending", "problem"}
      BY <2>5 DEF B!Reject, B!Claims
    <3>2. QED
      BY <1>2, <2>1, <3>1, ClaimMoves
  <2>6. CASE B!CancelUnpaid(o)
    <3>1. /\ B!Claims(o, {"pending", "problem"}, "cancelled") /\ ledger[o].paid = B!Never
          /\ ledger[o].status \in {"pending", "problem"}
      BY <2>6 DEF B!CancelUnpaid, B!Claims
    <3>2. QED
      BY <1>2, <2>1, <3>1, ClaimMoves
  <2>7. CASE B!Refund(o)
    <3>1. /\ B!Claims(o, {"paid", "delivered", "completed", "problem"}, "refund_pending")
          /\ ledger[o].paid # B!Never
          /\ ledger[o].status \in {"paid", "delivered", "completed", "problem"}
      BY <2>7 DEF B!Refund, B!Claims
    <3>2. QED
      BY <1>2, <2>1, <3>1, ClaimMoves
  <2>8. CASE B!Close(o)
    <3>1. /\ B!Claims(o, {"refund_pending"}, "refunded") /\ ledger[o].reversed # B!Never
          /\ ledger[o].status = "refund_pending"
      BY <2>8 DEF B!Close, B!Claims
    <3>2. QED
      BY <1>2, <2>1, <2>2, <3>1, ClaimMoves
  <2>9. QED
    BY <1>5, <2>3, <2>4, <2>5, <2>6, <2>7, <2>8
<1>6. CASE B!Confirm(o)
  <2>1. PICK r : r = [ledger[o] EXCEPT !.status = "paid",
                                       !.paid = IF @ = B!Never THEN B!Today ELSE @]
    OBVIOUS
  <2>2. /\ ledger' = [ledger EXCEPT ![o] = r] /\ age' = age /\ report' = report
        /\ ledger[o].status \in {"pending", "problem"}
    BY <1>6, <2>1 DEF B!Confirm
  <2>3. ledger'[o] = r
    BY <2>2 DEF BooksRows
  <2>4. /\ r.status = "paid" /\ r.reversed = ledger[o].reversed /\ r.amount = ledger[o].amount
        /\ r.paid = IF ledger[o].paid = B!Never THEN B!Today ELSE ledger[o].paid
        /\ r \in [status : B!Statuses, amount : Prices, paid : Past \cup {B!Never},
                  reversed : Past \cup {B!Never}, linked : BOOLEAN]
    BY <1>1, <1>3, <2>1 DEF RowOk, B!Statuses
  <2>5. RowOk(r)
    BY <1>2, <2>2, <2>4 DEF RowOk
  <2>6. QED
    BY <2>2, <2>3, <2>4, <2>5 DEF OrderMoves, RowMoves
<1>7. CASE B!Fulfil(o)
  <2>1. PICK r : r = [ledger[o] EXCEPT !.linked = TRUE]
    OBVIOUS
  <2>2. /\ ledger' = [ledger EXCEPT ![o] = r] /\ age' = age /\ report' = report
        /\ ledger[o].status = "paid"
    BY <1>7, <2>1 DEF B!Fulfil
  <2>3. ledger'[o] = r
    BY <2>2 DEF BooksRows
  <2>4. /\ r.status = "paid" /\ r.reversed = ledger[o].reversed /\ r.amount = ledger[o].amount
        /\ r.paid = ledger[o].paid
        /\ r \in [status : B!Statuses, amount : Prices, paid : Past \cup {B!Never},
                  reversed : Past \cup {B!Never}, linked : BOOLEAN]
    BY <1>1, <2>1, <2>2 DEF RowOk, B!Statuses
  <2>5. RowOk(r)
    BY <1>2, <2>2, <2>4 DEF RowOk
  <2>6. QED
    BY <2>2, <2>3, <2>4, <2>5 DEF OrderMoves, RowMoves
<1>8. CASE B!Revoke(o)
  <2>1. PICK r : r = [ledger[o] EXCEPT !.reversed = IF @ = B!Never THEN B!Today ELSE @]
    OBVIOUS
  <2>2. /\ ledger' = [ledger EXCEPT ![o] = r] /\ age' = age /\ report' = report
        /\ ledger[o].status = "refund_pending"
    BY <1>8, <2>1 DEF B!Revoke
  <2>3. ledger'[o] = r
    BY <2>2 DEF BooksRows
  <2>4. /\ r.status = "refund_pending" /\ r.amount = ledger[o].amount /\ r.paid = ledger[o].paid
        /\ r.reversed = IF ledger[o].reversed = B!Never THEN B!Today ELSE ledger[o].reversed
        /\ r \in [status : B!Statuses, amount : Prices, paid : Past \cup {B!Never},
                  reversed : Past \cup {B!Never}, linked : BOOLEAN]
    BY <1>1, <1>3, <2>1, <2>2 DEF RowOk, B!Statuses
  <2>5. ledger[o].paid # B!Never
    BY <1>1, <2>2 DEF RowOk
  <2>6. ~B!Before(B!Today, ledger[o].paid)
    <3>1. PICK k \in 0..age : ledger[o].paid = B!MonthAt(k) /\ k \in Nat
      BY <2>5, RowIs
    <3>2. B!Before(B!MonthAt(age), B!MonthAt(k)) <=> age < k
      BY <3>1, AgeIs, MonthsInOrder
    <3>3. QED
      BY <3>1, <3>2, AgeIs DEF B!Today
  <2>7. RowOk(r)
    BY <1>1, <2>4, <2>5, <2>6 DEF RowOk
  <2>8. QED
    BY <2>2, <2>3, <2>4, <2>7 DEF OrderMoves, RowMoves
<1>9. QED
  BY <1>4, <1>5, <1>6, <1>7, <1>8

\* What is paid or returned in a month that is over stays so, and so does what was told of it.
LEMMA MovesKeep ==
    ASSUME B!BooksAssumption, BooksInv, NEW o \in Sales, OrderMoves(o)
    PROVE  BooksInv'
<1>1. /\ ledger' = [ledger EXCEPT ![o] = ledger'[o]] /\ RowMoves(ledger[o], ledger'[o])
      /\ age' = age /\ report' = report
  BY DEF OrderMoves
<1>2. BooksRows /\ Reported /\ age \in Nat
  BY AgeIs DEF BooksInv
<1>3. /\ ledger' = [p \in Sales |-> ledger'[p]]
      /\ \A p \in Sales : p # o => ledger'[p] = ledger[p]
  BY <1>1, <1>2 DEF BooksRows
<1>4. \A p \in Sales : RowOk(ledger'[p])
  BY <1>1, <1>2, <1>3 DEF RowMoves, BooksRows
<1>5. BooksRows'
  <2>1. Past' = Past
    BY <1>1 DEF Past
  <2>2. \A p \in Sales : RowOk(ledger[p])'
    BY <1>4, <2>1 DEF RowOk
  <2>3. Placed' \subseteq Placed \cup {o}
    BY <1>3 DEF Placed
  <2>4. IsFiniteSet(Placed \cup {o})
    BY <1>2, FS_AddElement DEF BooksRows
  <2>5. IsFiniteSet(Placed')
    BY <2>3, <2>4, FS_Subset
  <2>6. QED
    BY <1>1, <1>2, <1>3, <2>2, <2>5 DEF BooksRows
<1>6. ASSUME NEW n \in DOMAIN report
      PROVE  B!RevenueForMonth(n - age)' = B!RevenueForMonth(n - age)
  <2>1. n \in 0..(age - 1) /\ n \in 0..age /\ n \in Nat
    BY <1>2 DEF Reported
  <2>2. B!MonthAt(n) # B!Today /\ B!MonthAt(n) # B!Never
    <3>1. B!MonthAt(n) = B!MonthAt(age) => n = age
      BY <1>2, <2>1, MonthsDiffer
    <3>2. QED
      BY <1>2, <2>1, <3>1, MonthIsAt DEF B!Today
  <2>3. PaidIn(n)' = PaidIn(n) /\ ReturnedIn(n)' = ReturnedIn(n)
    BY <1>1, <1>3, <2>2 DEF PaidIn, ReturnedIn, RowMoves
  <2>4. PaidIn(n) \in SUBSET Placed /\ ReturnedIn(n) \in SUBSET Placed
    BY <1>2, <2>1, RevenueIs
  <2>5. \A p \in Placed : ledger'[p].amount = ledger[p].amount
    BY <1>1, <1>3 DEF RowMoves, Placed
  <2>6. ASSUME NEW S \in SUBSET Placed PROVE Total(ledger', S) = Total(ledger, S)
    <3>1. /\ IsFiniteSet(S) /\ S \in SUBSET Sales /\ \A p \in S : ledger[p].amount \in Int
      BY <1>2, TotalIsInt
    <3>2. \A p \in S : ledger'[p].amount = ledger[p].amount
      BY <2>5
    <3>3. QED
      BY <3>1, <3>2, SameTotals
  <2>7. /\ B!RevenueForMonth(n - age) = Total(ledger, PaidIn(n)) - Total(ledger, ReturnedIn(n))
        /\ B!RevenueForMonth(n - age)' =
              Total(ledger', PaidIn(n)') - Total(ledger', ReturnedIn(n)')
    <3>1. n \in 0..age'
      BY <1>1, <2>1
    <3>2. QED
      BY <1>2, <1>5, <2>1, <3>1, RevenuesNow, RevenuesThen DEF Revenues, Total
  <2>8. QED
    BY <2>3, <2>4, <2>6, <2>7
<1>7. Reported'
  <2>1. \A n \in DOMAIN report : B!RevenueForMonth(n - age)' = report[n] /\ report[n] \in Int
    BY <1>2, <1>6 DEF Reported
  <2>2. QED
    BY <1>1, <1>2, <2>1 DEF Reported
<1>8. QED
  BY <1>5, <1>7 DEF BooksInv

\* The bounds of a month are the same from whichever month they are worked out.
LEMMA NextMonthKeeps ==
    ASSUME B!BooksAssumption, BooksInv, B!NextMonth
    PROVE  BooksInv'
<1>1. age' = age + 1 /\ age < MaxMonths /\ ledger' = ledger /\ report' = report
  BY DEF B!NextMonth
<1>2. BooksRows /\ Reported /\ age \in Nat /\ MaxMonths \in Nat
  BY AgeIs DEF BooksInv, B!BooksAssumption
<1>3. BooksRows'
  <2>1. Past \subseteq Past'
    <3>1. 0..age \subseteq 0..age'
      BY <1>1, <1>2
    <3>2. QED
      BY <3>1 DEF Past
  <2>2. \A p \in Sales : RowOk(ledger[p])'
    <3>1. \A p \in Sales : RowOk(ledger[p])
      BY <1>2 DEF BooksRows
    <3>2. QED
      BY <1>1, <2>1, <3>1 DEF RowOk
  <2>3. Placed' = Placed
    BY <1>1 DEF Placed
  <2>4. age' \in 0..MaxMonths
    BY <1>1, <1>2
  <2>5. QED
    BY <1>1, <1>2, <2>2, <2>3, <2>4 DEF BooksRows
<1>4. ASSUME NEW n \in DOMAIN report
      PROVE  B!RevenueForMonth(n - age)' = B!RevenueForMonth(n - age)
  <2>1. n \in 0..age /\ n \in 0..age'
    BY <1>1, <1>2 DEF Reported
  <2>2. PaidIn(n)' = PaidIn(n) /\ ReturnedIn(n)' = ReturnedIn(n)
    BY <1>1 DEF PaidIn, ReturnedIn
  <2>3. /\ B!RevenueForMonth(n - age) = Total(ledger, PaidIn(n)) - Total(ledger, ReturnedIn(n))
        /\ B!RevenueForMonth(n - age)' =
              Total(ledger', PaidIn(n)') - Total(ledger', ReturnedIn(n)')
    BY <1>2, <1>3, <2>1, RevenuesNow, RevenuesThen DEF Revenues, Total
  <2>4. QED
    BY <1>1, <2>2, <2>3
<1>5. Reported'
  <2>1. \A n \in DOMAIN report : B!RevenueForMonth(n - age)' = report[n] /\ report[n] \in Int
    BY <1>2, <1>4 DEF Reported
  <2>2. \A n \in DOMAIN report : n \in 0..(age' - 1)
    BY <1>1, <1>2 DEF Reported
  <2>3. QED
    BY <1>1, <2>1, <2>2 DEF Reported
<1>6. QED
  BY <1>3, <1>5 DEF BooksInv

LEMMA ReportKeeps ==
    ASSUME B!BooksAssumption, BooksInv, B!MonthlyReport
    PROVE  BooksInv'
<1>1. /\ age > 0 /\ age' = age /\ ledger' = ledger
      /\ report' = [n \in DOMAIN report \cup {age - 1} |->
                       IF n = age - 1 THEN B!RevenueForMonth(-1) ELSE report[n]]
  BY DEF B!MonthlyReport
<1>2. BooksRows /\ Reported /\ age \in Nat
  BY AgeIs DEF BooksInv
<1>3. BooksRows'
  <2>1. Past' = Past /\ Placed' = Placed
    BY <1>1 DEF Past, Placed
  <2>2. \A p \in Sales : RowOk(ledger[p])'
    BY <1>1, <1>2, <2>1 DEF RowOk, BooksRows
  <2>3. QED
    BY <1>1, <1>2, <2>1, <2>2 DEF BooksRows
<1>4. ASSUME NEW n \in 0..age
      PROVE  /\ B!RevenueForMonth(n - age)' = B!RevenueForMonth(n - age)
             /\ B!RevenueForMonth(n - age) \in Int
  <2>1. n \in 0..age'
    BY <1>1
  <2>2. PaidIn(n)' = PaidIn(n) /\ ReturnedIn(n)' = ReturnedIn(n)
    BY <1>1 DEF PaidIn, ReturnedIn
  <2>3. /\ B!RevenueForMonth(n - age) = Total(ledger, PaidIn(n)) - Total(ledger, ReturnedIn(n))
        /\ PaidIn(n) \in SUBSET Placed /\ ReturnedIn(n) \in SUBSET Placed
    BY <1>2, RevenueIs
  <2>4. B!RevenueForMonth(n - age)' = Total(ledger', PaidIn(n)') - Total(ledger', ReturnedIn(n)')
    BY <1>3, <2>1, RevenuesThen DEF Revenues, Total
  <2>5. Total(ledger, PaidIn(n)) \in Int /\ Total(ledger, ReturnedIn(n)) \in Int
    BY <1>2, <2>3, TotalIsInt
  <2>6. QED
    BY <1>1, <2>2, <2>3, <2>4, <2>5
<1>5. Reported'
  <2>1. age - 1 \in 0..age /\ (age - 1) - age = -1 /\ age - 1 \in 0..(age - 1)
    BY <1>1, <1>2
  <2>2. \A n \in DOMAIN report : n \in 0..age /\ n \in 0..(age - 1)
    BY <1>2 DEF Reported
  <2>3. ASSUME NEW n \in DOMAIN report'
        PROVE  report'[n] \in Int /\ report'[n] = B!RevenueForMonth(n - age)'
    <3>1. CASE n = age - 1
      <4>1. report'[n] = B!RevenueForMonth(-1)
        BY <1>1, <3>1
      <4>2. n - age = -1 /\ n \in 0..age
        BY <2>1, <3>1
      <4>3. B!RevenueForMonth(n - age) = B!RevenueForMonth(-1)
        BY <4>2
      <4>4. QED
        BY <1>4, <4>1, <4>2, <4>3
    <3>2. CASE n # age - 1
      <4>1. n \in DOMAIN report /\ report'[n] = report[n]
        BY <1>1, <3>2
      <4>2. report[n] \in Int /\ report[n] = B!RevenueForMonth(n - age)
        BY <1>2, <4>1 DEF Reported
      <4>3. QED
        BY <1>4, <2>2, <4>1, <4>2
    <3>3. QED
      BY <3>1, <3>2
  <2>4. DOMAIN report' \subseteq 0..(age' - 1)
    BY <1>1, <2>1, <2>2
  <2>5. QED
    BY <1>1, <2>3, <2>4 DEF Reported
<1>6. QED
  BY <1>3, <1>5 DEF BooksInv

LEMMA BooksOpen == ASSUME B!BooksAssumption, B!Init PROVE BooksInv
<1>1. /\ ledger = [o \in Sales |-> B!NoRow] /\ age = 0 /\ report = [n \in {} |-> 0]
  BY DEF B!Init
<1>2. RowOk(B!NoRow)
  BY DEF RowOk, B!NoRow, B!Statuses, Prices
<1>3. Placed = {}
  BY <1>1 DEF Placed
<1>4. BooksRows
  BY <1>1, <1>2, <1>3, FS_EmptySet DEF BooksRows, B!BooksAssumption
<1>5. Reported
  BY <1>1 DEF Reported
<1>6. QED
  BY <1>4, <1>5 DEF BooksInv

LEMMA BooksStep == ASSUME B!BooksAssumption, BooksInv, [B!Next]_(B!vars) PROVE BooksInv'
<1>1. CASE UNCHANGED B!vars
  <2>1. ledger' = ledger /\ age' = age /\ report' = report
    BY <1>1 DEF B!vars
  <2>2. BooksRows /\ Reported /\ age \in Nat
    BY AgeIs DEF BooksInv
  <2>3. BooksRows'
    <3>1. Past' = Past /\ Placed' = Placed
      BY <2>1 DEF Past, Placed
    <3>2. \A p \in Sales : RowOk(ledger[p])'
      BY <2>1, <2>2, <3>1 DEF RowOk, BooksRows
    <3>3. QED
      BY <2>1, <2>2, <3>1, <3>2 DEF BooksRows
  <2>4. ASSUME NEW n \in DOMAIN report
        PROVE  B!RevenueForMonth(n - age)' = B!RevenueForMonth(n - age)
    <3>1. n \in 0..age /\ n \in 0..age'
      BY <2>1, <2>2 DEF Reported
    <3>2. PaidIn(n)' = PaidIn(n) /\ ReturnedIn(n)' = ReturnedIn(n)
      BY <2>1 DEF PaidIn, ReturnedIn
    <3>3. /\ B!RevenueForMonth(n - age) = Total(ledger, PaidIn(n)) - Total(ledger, ReturnedIn(n))
          /\ B!RevenueForMonth(n - age)' =
                Total(ledger', PaidIn(n)') - Total(ledger', ReturnedIn(n)')
      BY <2>2, <2>3, <3>1, RevenuesNow, RevenuesThen DEF Revenues, Total
    <3>4. QED
      BY <2>1, <3>2, <3>3
  <2>5. Reported'
    <3>1. \A n \in DOMAIN report : B!RevenueForMonth(n - age)' = report[n]
      BY <2>2, <2>4 DEF Reported
    <3>2. QED
      BY <2>1, <2>2, <3>1 DEF Reported
  <2>6. QED
    BY <2>3, <2>5 DEF BooksInv
<1>2. CASE B!Next
  <2>1. CASE B!NextMonth \/ B!MonthlyReport
    BY <2>1, NextMonthKeeps, ReportKeeps
  <2>2. ASSUME NEW o \in Sales,
               \/ B!Transfer(o) \/ B!StarsPaid(o) \/ B!Granted(o)
               \/ B!Confirm(o) \/ B!Fulfil(o) \/ B!Park(o) \/ B!Serve(o) \/ B!Reject(o)
               \/ B!CancelUnpaid(o) \/ B!Refund(o) \/ B!Revoke(o) \/ B!Close(o)
        PROVE  BooksInv'
    <3>1. OrderMoves(o)
      BY <2>2, OrdersMove DEF BooksInv
    <3>2. QED
      BY <3>1, MovesKeep
  <2>3. QED
    BY <1>2, <2>1, <2>2 DEF B!Next
<1>3. QED
  BY <1>1, <1>2

-----------------------------------------------------------------------------
(* The books: the properties *)

\* A payment lies in the bounds of one month, whichever they are worked out from.
LEMMA PaymentsHaveMonths ==
    ASSUME B!BooksAssumption, BooksRows PROVE B!EveryPaymentHasItsMonth
<1> SUFFICES ASSUME NEW o \in Sales, ledger[o].paid # B!Never
             PROVE  B!Cardinality({n \in 0..age :
                                      B!Within(ledger[o].paid, B!MonthBounds(n - age))}) = 1
  BY DEF B!EveryPaymentHasItsMonth
<1>1. age \in Nat
  BY AgeIs
<1>2. PICK k \in 0..age : ledger[o].paid = B!MonthAt(k) /\ k \in Nat
  BY RowIs
<1>3. \A n \in 0..age : B!Within(ledger[o].paid, B!MonthBounds(n - age)) <=> k = n
  BY <1>1, <1>2, WithinIs
<1>4. {n \in 0..age : B!Within(ledger[o].paid, B!MonthBounds(n - age))} = {k}
  BY <1>3
<1>5. Cardinality({k}) = 1
  BY FS_Singleton
<1>6. B!Cardinality({k}) = 1
  BY <1>5 DEF Cardinality, B!Cardinality
<1>7. QED
  BY <1>4, <1>6

\* The orders of some months, by the month of the payment or of its return.
PaidWithin(s) == {o \in Sales : \E n \in s : ledger[o].paid = B!MonthAt(n)}
ReturnedWithin(s) == {o \in Sales : \E n \in s : ledger[o].reversed = B!MonthAt(n)}

\* The months add up to what was paid less what was returned in them.
LEMMA MonthsAddUp ==
    ASSUME B!BooksAssumption, BooksRows,
           NEW g, NEW w, Sums(g, w, Placed), \A o \in Placed : w[o] \in Int,
           \A R \in SUBSET Placed : Total(ledger, R) = g[R]
    PROVE  SumFunction([n \in 0..age |-> B!RevenueForMonth(n - age)])
              = g[PaidWithin(0..age)] - g[ReturnedWithin(0..age)]
<1>1. age \in Nat /\ IsFiniteSet(Placed)
  BY AgeIs DEF BooksRows
<1>2. PICK v : v = [n \in 0..age |-> B!RevenueForMonth(n - age)]
  OBVIOUS
<1>3. /\ \A R \in SUBSET Placed : g[R] \in Int
      /\ \A A, C \in SUBSET Placed : A \cap C = {} => g[A \cup C] = g[A] + g[C]
  <2>1. \A R \in SUBSET Placed : g[R] \in Int
    BY DEF Sums
  <2>2. \A A, C \in SUBSET Placed : A \cap C = {} => g[A \cup C] = g[A] + g[C]
    BY <1>1, SumOfUnion
  <2>3. QED
    BY <2>1, <2>2
<1>4. ASSUME NEW n \in 0..age
      PROVE  /\ PaidIn(n) \in SUBSET Placed /\ ReturnedIn(n) \in SUBSET Placed
             /\ v[n] = g[PaidIn(n)] - g[ReturnedIn(n)] /\ v[n] \in Int
  <2>1. /\ B!RevenueForMonth(n - age) = Total(ledger, PaidIn(n)) - Total(ledger, ReturnedIn(n))
        /\ PaidIn(n) \in SUBSET Placed /\ ReturnedIn(n) \in SUBSET Placed
    BY RevenueIs
  <2>2. QED
    BY <1>2, <1>3, <2>1
<1>5. IsFiniteSet(0..age) /\ v \in [0..age -> Int] /\ DOMAIN v = 0..age
  <2>1. IsFiniteSet(0..age)
    BY <1>1, FS_Interval, 0 \in Int, age \in Int
  <2>2. \A n \in 0..age : v[n] \in Int
    BY <1>4
  <2>3. v = [n \in 0..age |-> v[n]]
    BY <1>2
  <2>4. QED
    BY <2>1, <2>2, <2>3
<1>6. PICK h : Sums(h, v, 0..age)
  BY <1>5, SumsExist
<1>7. SumFunction(v) = h[0..age]
  <2>1. SumFunctionOnSet(v, 0..age) = h[0..age]
    BY <1>5, <1>6, FunctionSum, 0..age \in SUBSET (0..age)
  <2>2. QED
    BY <1>5, <2>1 DEF SumFunction
<1>8. ASSUME NEW s \in SUBSET (0..age)
      PROVE  PaidWithin(s) \in SUBSET Placed /\ ReturnedWithin(s) \in SUBSET Placed
  BY <1>4 DEF PaidWithin, ReturnedWithin, PaidIn, ReturnedIn
<1> DEFINE Bad == {s \in SUBSET (0..age) : h[s] # g[PaidWithin(s)] - g[ReturnedWithin(s)]}
<1>9. Bad = {}
  <2>1. SUFFICES ASSUME Bad # {} PROVE FALSE
    OBVIOUS
  <2>2. PICK s \in Bad : \A x \in s : s \ {x} \notin Bad
    <3>1. Bad \in SUBSET SUBSET (0..age)
      OBVIOUS
    <3> HIDE DEF Bad
    <3>2. QED
      BY <1>5, <2>1, <3>1, Smallest
  <2>3. CASE s = {}
    <3>1. PaidWithin(s) = {} /\ ReturnedWithin(s) = {}
      BY <2>3 DEF PaidWithin, ReturnedWithin
    <3>2. h[s] = 0 /\ g[{}] = 0
      BY <1>6, <2>3 DEF Sums
    <3>3. g[PaidWithin(s)] = 0 /\ g[ReturnedWithin(s)] = 0
      BY <3>1, <3>2
    <3>4. h[s] = g[PaidWithin(s)] - g[ReturnedWithin(s)]
      BY <3>2, <3>3
    <3>5. QED
      BY <3>4
  <2>4. CASE s # {}
    <3>1. PICK x \in s : TRUE
      BY <2>4
    <3>2. PICK r \in SUBSET (0..age) : r = s \ {x} /\ r \notin Bad
      BY <2>2, <3>1
    <3>3. x \in 0..age /\ x \notin r /\ s = r \cup {x}
      BY <3>1, <3>2
    <3>4. h[s] = v[x] + h[r]
      <4>1. s \in SUBSET (0..age)
        OBVIOUS
      <4>2. QED
        BY <1>6, <3>1, <3>2, <4>1 DEF Sums
    <3>5. h[r] = g[PaidWithin(r)] - g[ReturnedWithin(r)]
      BY <3>2
    <3>6. \A n \in r : B!MonthAt(n) # B!MonthAt(x)
      BY <1>1, <3>3, MonthsDiffer
    <3>7. PICK P \in SUBSET Placed, Q \in SUBSET Placed,
               F \in SUBSET Placed, G \in SUBSET Placed :
             /\ P = PaidWithin(r) /\ Q = PaidIn(x) /\ F = ReturnedWithin(r) /\ G = ReturnedIn(x)
      BY <1>4, <1>8, <3>3
    <3>8. P \cap Q = {} /\ F \cap G = {}
      BY <3>6, <3>7 DEF PaidWithin, PaidIn, ReturnedWithin, ReturnedIn
    <3>9. PaidWithin(s) = P \cup Q /\ ReturnedWithin(s) = F \cup G
      BY <3>3, <3>7 DEF PaidWithin, PaidIn, ReturnedWithin, ReturnedIn
    <3>10. g[P \cup Q] = g[P] + g[Q]
      BY ONLY <1>3, <3>7, <3>8
    <3>11. g[F \cup G] = g[F] + g[G]
      BY ONLY <1>3, <3>7, <3>8
    <3>12. v[x] = g[Q] - g[G]
      BY <1>4, <3>3, <3>7
    <3>13. h[r] = g[P] - g[F]
      BY <3>5, <3>7
    <3>14. g[P] \in Int /\ g[Q] \in Int /\ g[F] \in Int /\ g[G] \in Int
      BY <1>3
    <3>15. h[s] = g[P \cup Q] - g[F \cup G]
      BY ONLY <3>4, <3>10, <3>11, <3>12, <3>13, <3>14
    <3>16. h[s] = g[PaidWithin(s)] - g[ReturnedWithin(s)]
      BY <3>9, <3>15
    <3>17. QED
      BY <3>16
  <2>5. QED
    BY <2>3, <2>4
<1>10. h[0..age] = g[PaidWithin(0..age)] - g[ReturnedWithin(0..age)]
  BY <1>9
<1>11. QED
  BY <1>2, <1>7, <1>10

\* What the dashboard says was collected is what was paid, less what was returned by orders
\* that are closed.
LEMMA BooksAddUp == ASSUME B!BooksAssumption, BooksRows PROVE B!BooksBalance
<1> DEFINE InDoubt == {o \in Sales : /\ ledger[o].status = "refund_pending"
                                     /\ ledger[o].reversed # B!Never}
           Gone == {o \in Sales : ledger[o].status = "refunded"}
           Kept == {o \in Sales : B!Collected(o)}
           Paid == PaidWithin(0..age)
           Returned == ReturnedWithin(0..age)
<1>1. Placed \in SUBSET Sales /\ IsFiniteSet(Placed) /\ \A o \in Placed : ledger[o].amount \in Int
  BY RowIs DEF Placed, BooksRows
<1>2. PICK g, w : /\ Sums(g, w, Placed) /\ \A o \in Placed : w[o] = ledger[o].amount
                  /\ \A R \in SUBSET Placed : Total(ledger, R) = g[R]
  BY <1>1, Totals
<1>3. \A o \in Placed : w[o] \in Int
  BY <1>1, <1>2
<1>4. SumFunction([n \in 0..age |-> B!RevenueForMonth(n - age)]) = g[Paid] - g[Returned]
  BY <1>2, <1>3, MonthsAddUp
<1>5. \A o \in Sales : /\ o \in Paid <=> ledger[o].paid # B!Never
                       /\ o \in Returned <=> ledger[o].reversed # B!Never
  <2> SUFFICES ASSUME NEW o \in Sales
               PROVE  /\ o \in Paid <=> ledger[o].paid # B!Never
                      /\ o \in Returned <=> ledger[o].reversed # B!Never
    OBVIOUS
  <2>1. \A n \in 0..age : B!MonthAt(n) # B!Never
    BY AgeIs, MonthIsAt
  <2>2. QED
    BY <2>1, RowIs DEF PaidWithin, ReturnedWithin
<1>6. \A o \in Sales : RowOk(ledger[o])
  BY DEF BooksRows
<1>7. /\ Paid = Kept \cup Gone /\ Kept \cap Gone = {}
      /\ Returned = InDoubt \cup Gone /\ InDoubt \cap Gone = {}
      /\ Kept \in SUBSET Placed /\ Gone \in SUBSET Placed /\ InDoubt \in SUBSET Placed
  <2> SUFFICES ASSUME NEW o \in Sales
               PROVE  /\ o \in Paid <=> o \in Kept \/ o \in Gone
                      /\ ~(o \in Kept /\ o \in Gone)
                      /\ o \in Returned <=> o \in InDoubt \/ o \in Gone
                      /\ ~(o \in InDoubt /\ o \in Gone)
                      /\ o \in Kept \/ o \in Gone \/ o \in InDoubt => o \in Placed
    BY DEF PaidWithin, ReturnedWithin
  <2>1. RowOk(ledger[o])
    BY <1>6
  <2>2. o \in Kept <=> /\ ledger[o].paid # B!Never
                       /\ ledger[o].status \notin {"refunded", "rejected", "cancelled"}
    BY DEF B!Collected, B!ReversedStatuses
  <2>3. ledger[o].status \in {"refunded", "rejected", "cancelled"} /\ ledger[o].paid # B!Never
          => ledger[o].status = "refunded"
    BY <2>1 DEF RowOk
  <2>4. /\ ledger[o].status = "refunded" => /\ ledger[o].paid # B!Never
                                             /\ ledger[o].reversed # B!Never
        /\ ledger[o].reversed # B!Never => ledger[o].status \in {"refund_pending", "refunded"}
    BY <2>1 DEF RowOk
  <2>5. ledger[o].paid # B!Never \/ ledger[o].reversed # B!Never => o \in Placed
    BY RowIs
  <2>6. o \in Gone <=> ledger[o].status = "refunded"
    OBVIOUS
  <2>7. o \in InDoubt <=> ledger[o].status = "refund_pending" /\ ledger[o].reversed # B!Never
    OBVIOUS
  <2>8. /\ o \in Paid <=> ledger[o].paid # B!Never
        /\ o \in Returned <=> ledger[o].reversed # B!Never
    BY <1>5
  <2> HIDE DEF Kept, Gone, InDoubt, Paid, Returned
  <2>9. QED
    BY <2>2, <2>3, <2>4, <2>5, <2>6, <2>7, <2>8
<1>8. B!Dashboard = Total(ledger, Kept) /\ B!Sum(InDoubt) = Total(ledger, InDoubt)
  BY TotalsNow DEF SumsAreTotals
<1> HIDE DEF Kept, Gone, InDoubt, Paid, Returned
<1>9. \A A, C \in SUBSET Placed : A \cap C = {} => g[A \cup C] = g[A] + g[C]
  BY <1>1, <1>2, <1>3, SumOfUnion
<1>10. g[Paid] = g[Kept] + g[Gone]
  <2>1. g[Kept \cup Gone] = g[Kept] + g[Gone]
    BY ONLY <1>7, <1>9
  <2>2. QED
    BY <1>7, <2>1
<1>11. g[Returned] = g[InDoubt] + g[Gone]
  <2>1. g[InDoubt \cup Gone] = g[InDoubt] + g[Gone]
    BY ONLY <1>7, <1>9
  <2>2. QED
    BY <1>7, <2>1
<1>12. g[Kept] \in Int /\ g[Gone] \in Int /\ g[InDoubt] \in Int
  BY <1>2, <1>7 DEF Sums
<1>13. Total(ledger, Kept) = g[Kept] /\ Total(ledger, InDoubt) = g[InDoubt]
  BY <1>2, <1>7
<1>14. PICK nets : /\ nets = SumFunction([n \in 0..age |-> B!RevenueForMonth(n - age)])
                   /\ nets = g[Paid] - g[Returned]
  BY <1>4
<1>15. B!Dashboard = nets + B!Sum(InDoubt)
  BY <1>8, <1>10, <1>11, <1>12, <1>13, <1>14
<1>16. B!SumFunction([n \in 0..age |-> B!RevenueForMonth(n - age)]) = nets
  BY <1>14 DEF B!SumFunction, SumFunction, B!SumFunctionOnSet, SumFunctionOnSet,
               B!FoldFunctionOnSet, FoldFunctionOnSet, B!MapThenFoldSet, MapThenFoldSet
<1>17. QED
  BY <1>15, <1>16 DEF B!BooksBalance, InDoubt

LEMMA BooksTypes == ASSUME B!BooksAssumption, BooksInv PROVE B!TypeOK
<1>1. age \in 0..MaxMonths /\ age \in Nat /\ \A o \in Sales : RowOk(ledger[o])
  BY AgeIs DEF BooksInv, BooksRows
<1>2. Past \subseteq B!Months
  <2>1. \A n \in 0..age : n \in 0..MaxMonths
    BY <1>1 DEF B!BooksAssumption
  <2>2. QED
    BY <2>1 DEF Past, B!Months
<1>3. ASSUME NEW o \in Sales
      PROVE  /\ ledger[o].status \in B!Statuses /\ ledger[o].linked \in BOOLEAN
             /\ ledger[o].amount \in Amounts \cup {0}
             /\ ledger[o].paid \in B!Months \cup {B!Never}
             /\ ledger[o].reversed \in B!Months \cup {B!Never}
             /\ ledger[o].reversed # B!Never => ledger[o].paid # B!Never
                                                /\ ~B!Before(ledger[o].reversed, ledger[o].paid)
  BY <1>1, <1>2 DEF RowOk, Prices
<1>4. DOMAIN report \subseteq 0..(age - 1) /\ \A n \in DOMAIN report : report[n] \in Int
  BY DEF BooksInv, Reported
<1>5. QED
  BY <1>1, <1>3, <1>4 DEF B!TypeOK

\* Every payment lies in one month, the months add up to the dashboard, and a report that
\* went out stays right, whatever happens to its orders afterwards (month_bounds_utc,
\* revenue_for_month, dashboard, mark_reversed).
THEOREM BooksKept == ASSUME B!BooksAssumption PROVE B!Spec => []B!BooksAgree
<1>1. B!Init => BooksInv
  BY BooksOpen
<1>2. BooksInv /\ [B!Next]_(B!vars) => BooksInv'
  BY BooksStep
<1>3. BooksInv => B!BooksAgree
  BY BooksTypes, PaymentsHaveMonths, BooksAddUp
     DEF BooksInv, Reported, B!BooksAgree, B!ReportsStand
<1>4. QED
  BY <1>1, <1>2, <1>3, PTL DEF B!Spec
=============================================================================
