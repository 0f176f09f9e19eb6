------------------------------- MODULE Refunds -------------------------------
(***************************************************************************)
(* Durable refund obligations, their retry leases and the closing of the   *)
(* orders they belong to: db/refunds.py, services/stars.py and the refund  *)
(* handlers of handlers/admin/orders.py.                                   *)
(*                                                                         *)
(* A job is one row of the refunds table.  The row of an order is keyed by *)
(* order_id (created when staff ask for the refund); the row of a refused  *)
(* charge is keyed by the charge (created when checkout refuses money      *)
(* Telegram already took).  Every awaited database call is one step, so    *)
(* tasks interleave exactly where the event loop may switch between them;  *)
(* the money moves in Telegram, outside the database, and a request may be *)
(* answered late, with an error, or after the bot was restarted.           *)
(***************************************************************************)
EXTENDS Naturals

CONSTANTS
    PaidOrders,   \* paid orders, each may be refunded by staff
    Refused,      \* charges checkout refused; their refund has no order
    Stars,        \* jobs paid in Stars with a recorded Telegram charge id
    Tasks,        \* concurrent handler tasks (staff presses, checkout)
    Tokens,       \* lease tokens (secrets.token_hex is never repeated)
    NoToken, NoJob,
    MaxFaults     \* bound on restarts, failed requests and stolen leases

Jobs == PaidOrders \cup Refused

ASSUME RefundsAssumption ==
    /\ PaidOrders \cap Refused = {}
    /\ Stars \subseteq Jobs
    /\ NoToken \notin Tokens
    /\ NoJob \notin Jobs
    /\ MaxFaults \in Nat

VARIABLES
    order,    \* status of each paid order, as far as refunds see it
    access,   \* what the order did to the customer's subscription
    reversed, \* orders.reversed_at is set
    row,      \* the refunds table
    money,    \* Telegram's ledger: "held" or "returned"
    byHand,   \* staff gave the money back outside the bot
    wire,     \* refund requests sent and not yet carried out by Telegram
    task,     \* where each task is
    faults    \* how many faults have happened

vars == <<order, access, reversed, row, money, byHand, wire, task, faults>>
dbVars == <<order, access, reversed, row>>
worldVars == <<money, byHand, wire, faults>>

\* "paid" stands for PAID, DELIVERED, COMPLETED and PROBLEM with paid_at set,
\* the statuses refund_order accepts.
OrderStatus == {"paid", "refund_pending", "refunded"}
Access == {"none", "granted", "revoked"}

\* A lease exists exactly while a row is being processed, a resolution exactly
\* when it is completed; live says that lease_expires_at is in the future.
IdleRow == [status : {"absent", "pending"}, token : {NoToken}, live : {FALSE},
            resolution : {"none"}]
LeasedRow == [status : {"processing"}, token : Tokens, live : BOOLEAN,
              resolution : {"none"}]
DoneRow == [status : {"completed"}, token : {NoToken}, live : {FALSE},
            resolution : {"telegram", "manual"}]
Row == IdleRow \cup LeasedRow \cup DoneRow

Pc == {"idle", "refund_tx", "process", "claim", "recheck", "rpc", "fail",
       "complete", "manual_read", "manual_claim", "manual_mark",
       "revoke", "close"}

Task == [pc : Pc, job : Jobs \cup {NoJob}, token : Tokens \cup {NoToken},
         seen : OrderStatus]

NoRow == [status |-> "absent", token |-> NoToken, live |-> FALSE,
          resolution |-> "none"]
PendingRow == [NoRow EXCEPT !.status = "pending"]
Idle == [pc |-> "idle", job |-> NoJob, token |-> NoToken, seen |-> "paid"]

TypeOK ==
    /\ order \in [PaidOrders -> OrderStatus]
    /\ access \in [PaidOrders -> Access]
    /\ reversed \in [PaidOrders -> BOOLEAN]
    /\ row \in [Jobs -> Row]
    /\ money \in [Jobs -> {"held", "returned"}]
    /\ byHand \in [Jobs -> BOOLEAN]
    /\ wire \subseteq [job : Jobs, token : Tokens]
    /\ task \in [Tasks -> Task]
    /\ faults \in 0..MaxFaults

Init ==
    /\ order = [o \in PaidOrders |-> "paid"]
    /\ access = [o \in PaidOrders |-> "none"]
    /\ reversed = [o \in PaidOrders |-> FALSE]
    /\ row = [j \in Jobs |-> NoRow]
    /\ money = [j \in Jobs |-> "held"]
    /\ byHand = [j \in Jobs |-> FALSE]
    /\ wire = {}
    /\ task = [t \in Tasks |-> Idle]
    /\ faults = 0

-----------------------------------------------------------------------------
(* Helpers *)

Goto(t, pc) == task' = [task EXCEPT ![t].pc = pc]
Finish(t) == task' = [task EXCEPT ![t] = Idle]
Begin(t, pc, j, seen) ==
    /\ task[t].pc = "idle"
    /\ task' = [task EXCEPT ![t] = [Idle EXCEPT !.pc = pc, !.job = j, !.seen = seen]]

\* Mutant: the handler closes the order without revoking what it granted.
ReturnedNoRevoke(t) ==
    IF task[t].job \in PaidOrders THEN Goto(t, "close") ELSE Finish(t)

\* A confirmed return: staff handlers go on to _finalize_order_refund, which
\* has nothing to do for a charge that never became an order.
Returned(t) ==
    IF task[t].job \in PaidOrders THEN Goto(t, "revoke") ELSE Finish(t)

UsedTokens ==
    {row[j].token : j \in Jobs} \cup {task[t].token : t \in Tasks}
        \cup {q.token : q \in wire}
\* claim draws a random token; all that matters of it is that nothing still in
\* use has the same one.
HasFreshToken == Tokens \ UsedTokens # {}
FreshToken == CHOOSE tok \in Tokens : tok \notin UsedTokens

\* Mutant: a lease left behind by a dead worker is never taken over.
ClaimableOnlyPending(r) == r.status = "pending"

\* The WHERE clause of refunds.claim: pending, or abandoned in processing.
Claimable(r) ==
    \/ r.status = "pending"
    \/ r.status = "processing" /\ ~r.live

\* Mutant: a takeover keeps the token of the lease it takes over.
LeaseKeepingToken(t, pc) ==
    LET j == task[t].job
        tok == IF row[j].token = NoToken THEN FreshToken ELSE row[j].token IN
    /\ Claimable(row[j])
    /\ HasFreshToken
    /\ row' = [row EXCEPT ![j] = [status |-> "processing", token |-> tok,
                                  live |-> TRUE, resolution |-> "none"]]
    /\ task' = [task EXCEPT ![t] = [@ EXCEPT !.token = tok, !.pc = pc]]

\* refunds.claim: exactly one caller gets the token, and a new lease with it.
Lease(t, pc) ==
    LET j == task[t].job IN
    /\ Claimable(row[j])
    /\ HasFreshToken
    /\ row' = [row EXCEPT ![j] = [status |-> "processing", token |-> FreshToken,
                                  live |-> TRUE, resolution |-> "none"]]
    /\ task' = [task EXCEPT ![t] = [@ EXCEPT !.token = FreshToken, !.pc = pc]]

\* Mutant: the outcome is recorded by row id alone.
OwnsLeaseById(t) == TRUE

\* The WHERE clause of mark_completed and mark_failed.
OwnsLease(t) ==
    LET r == row[task[t].job] IN
    r.status = "processing" /\ r.token = task[t].token

-----------------------------------------------------------------------------
(* Where obligations come from *)

\* Mutant: access is granted without looking at the order's status.
ApplyPaymentAnyStatus(o) ==
    /\ ~reversed[o]
    /\ access[o] = "none"
    /\ access' = [access EXCEPT ![o] = "granted"]
    /\ UNCHANGED <<order, reversed, row, worldVars, task>>

\* The payment task applies a paid order: refused once the order is being
\* refunded or reversed, a no-op when the subscription was already granted.
ApplyPayment(o) ==
    /\ order[o] = "paid" /\ ~reversed[o]
    /\ access[o] = "none"
    /\ access' = [access EXCEPT ![o] = "granted"]
    /\ UNCHANGED <<order, reversed, row, worldVars, task>>

\* Staff press "Confirm refund": the order is read before the transaction.
RefundOrder(t, o) ==
    /\ Begin(t, "refund_tx", o, order[o])
    /\ UNCHANGED <<dbVars, worldVars>>

\* The obligation and the order state are written in one transaction.  Only
\* a row that was already REFUND_PENDING when read may skip the claim.
ClaimRefund(t) ==
    LET o == task[t].job
        next == IF o \in Stars THEN Goto(t, "process") ELSE Finish(t) IN
    /\ task[t].pc = "refund_tx"
    /\ \/ /\ task[t].seen = "refund_pending"
          /\ next
          /\ UNCHANGED <<order, row>>
       \/ /\ task[t].seen # "refund_pending" /\ order[o] = "paid"
          /\ order' = [order EXCEPT ![o] = "refund_pending"]
          /\ row' = [row EXCEPT ![o] = IF @ = NoRow THEN PendingRow ELSE @]
          /\ next
       \/ /\ task[t].seen # "refund_pending" /\ order[o] # "paid"
          /\ Finish(t)
          /\ UNCHANGED <<order, row>>
    /\ UNCHANGED <<access, reversed, worldVars>>

\* Checkout refuses a charge: the row is created (or found again, when the
\* payment update is delivered twice) and processed by the same task.
RefuseCharge(t, j) ==
    /\ Begin(t, "process", j, "paid")
    /\ row' = [row EXCEPT ![j] = IF @ = NoRow THEN PendingRow ELSE @]
    /\ UNCHANGED <<order, access, reversed, worldVars>>

\* Staff press Retry on a refund card.
RetryRefund(t, j) ==
    /\ row[j].status # "absent"
    /\ Begin(t, "process", j, "paid")
    /\ UNCHANGED <<dbVars, worldVars>>

\* Staff press "Money was returned", having returned it outside the bot.
ReturnByHand(t, j) ==
    /\ row[j].status # "absent"
    /\ Begin(t, "manual_read", j, "paid")
    /\ byHand' = [byHand EXCEPT ![j] = TRUE]
    /\ UNCHANGED <<dbVars, money, wire, faults>>

-----------------------------------------------------------------------------
(* process_refund: read, claim a lease, call Telegram, record the outcome *)

ReadRow(t) ==
    /\ task[t].pc = "process"
    /\ IF row[task[t].job].status = "completed" THEN Returned(t) ELSE Goto(t, "claim")
    /\ UNCHANGED <<dbVars, worldVars>>

\* The request leaves as soon as the lease is held; a job without a Telegram
\* charge id goes straight back to pending.
ClaimLease(t) ==
    LET j == task[t].job IN
    /\ task[t].pc = "claim"
    /\ \/ /\ Lease(t, IF j \in Stars THEN "rpc" ELSE "fail")
          /\ wire' = IF j \in Stars
                     THEN wire \cup {[job |-> j, token |-> FreshToken]}
                     ELSE wire
       \/ /\ ~Claimable(row[j])
          /\ Goto(t, "recheck")
          /\ UNCHANGED <<row, wire>>
    /\ UNCHANGED <<order, access, reversed, money, byHand, faults>>

\* Without a lease the answer is whatever another worker recorded.
Recheck(t) ==
    /\ task[t].pc = "recheck"
    /\ IF row[task[t].job].status = "completed" THEN Returned(t) ELSE Finish(t)
    /\ UNCHANGED <<dbVars, worldVars>>

Request(t) == [job |-> task[t].job, token |-> task[t].token]

\* Telegram answers: success, or CHARGE_ALREADY_REFUNDED, which the code
\* treats alike.
Answer(t) ==
    /\ task[t].pc = "rpc"
    /\ Request(t) \notin wire
    /\ Goto(t, "complete")
    /\ UNCHANGED <<dbVars, worldVars>>

\* Mutant: any error is taken for CHARGE_ALREADY_REFUNDED.
RpcFailsAsAlreadyRefunded(t) ==
    /\ task[t].pc = "rpc"
    /\ faults < MaxFaults
    /\ faults' = faults + 1
    /\ Goto(t, "complete")
    /\ wire' \in {wire, wire \ {Request(t)}}
    /\ UNCHANGED <<dbVars, money, byHand>>

\* The call raises: refused by Telegram, or its outcome was lost, in which
\* case the request may already be, or may still be, carried out.
RpcFails(t) ==
    /\ task[t].pc = "rpc"
    /\ faults < MaxFaults
    /\ faults' = faults + 1
    /\ Goto(t, "fail")
    /\ wire' \in {wire, wire \ {Request(t)}}
    /\ UNCHANGED <<dbVars, money, byHand>>

MarkCompleted(t, from, how) ==
    LET j == task[t].job IN
    /\ task[t].pc = from
    /\ IF OwnsLease(t)
       THEN /\ row' = [row EXCEPT ![j] = [NoRow EXCEPT !.status = "completed",
                                                       !.resolution = how]]
            /\ Returned(t)
       ELSE /\ Finish(t)
            /\ UNCHANGED row
    /\ UNCHANGED <<order, access, reversed, worldVars>>

RecordReturn(t) == MarkCompleted(t, "complete", "telegram")

\* Mutant: the status is reset and the lease columns are left behind.
MarkFailedKeepingLease(t) ==
    /\ task[t].pc = "fail"
    /\ row' = IF OwnsLease(t)
              THEN [row EXCEPT ![task[t].job].status = "pending"] ELSE row
    /\ Finish(t)
    /\ UNCHANGED <<order, access, reversed, worldVars>>

MarkFailed(t) ==
    /\ task[t].pc = "fail"
    /\ row' = IF OwnsLease(t) THEN [row EXCEPT ![task[t].job] = PendingRow] ELSE row
    /\ Finish(t)
    /\ UNCHANGED <<order, access, reversed, worldVars>>

-----------------------------------------------------------------------------
(* complete_manually *)

ManualRead(t) ==
    /\ task[t].pc = "manual_read"
    /\ IF row[task[t].job].status = "completed"
       THEN Returned(t)
       ELSE Goto(t, "manual_claim")
    /\ UNCHANGED <<dbVars, worldVars>>

ManualClaim(t) ==
    LET j == task[t].job IN
    /\ task[t].pc = "manual_claim"
    /\ \/ Lease(t, "manual_mark")
       \/ /\ ~Claimable(row[j])
          /\ Finish(t)
          /\ UNCHANGED row
    /\ UNCHANGED <<order, access, reversed, worldVars>>

RecordManual(t) == MarkCompleted(t, "manual_mark", "manual")

-----------------------------------------------------------------------------
(* _finalize_order_refund: two transactions, revoke then close *)

\* billing.revoke_payment: once per order, access granted by it is taken away.
Revoke(t) ==
    LET o == task[t].job IN
    /\ task[t].pc = "revoke"
    /\ reversed' = [reversed EXCEPT ![o] = TRUE]
    /\ access' = [access EXCEPT ![o] = IF ~reversed[o] /\ @ = "granted"
                                       THEN "revoked" ELSE @]
    /\ Goto(t, "close")
    /\ UNCHANGED <<order, row, worldVars>>

CloseOrder(t) ==
    LET o == task[t].job IN
    /\ task[t].pc = "close"
    /\ order' = [order EXCEPT ![o] = IF @ = "refund_pending" THEN "refunded" ELSE @]
    /\ Finish(t)
    /\ UNCHANGED <<access, reversed, row, worldVars>>

-----------------------------------------------------------------------------
(* The world around the bot *)

\* Telegram carries out a request; a charge is only ever returned once.
Execute(q) ==
    /\ q \in wire
    /\ wire' = wire \ {q}
    /\ money' = [money EXCEPT ![q.job] = "returned"]
    /\ UNCHANGED <<dbVars, byHand, task, faults>>

\* A lease runs out.  That is a fault when its worker is still at work, and
\* only a matter of time when the worker died.
AtWork(j) == \E t \in Tasks : task[t].job = j /\ OwnsLease(t)

ExpireLease(j) ==
    /\ row[j].status = "processing" /\ row[j].live
    /\ row' = [row EXCEPT ![j].live = FALSE]
    /\ IF AtWork(j)
       THEN faults < MaxFaults /\ faults' = faults + 1
       ELSE UNCHANGED faults
    /\ UNCHANGED <<order, access, reversed, money, byHand, wire, task>>

\* The process dies; the database and the requests already sent survive.
Restart ==
    /\ faults < MaxFaults
    /\ faults' = faults + 1
    /\ task' = [t \in Tasks |-> Idle]
    /\ UNCHANGED <<dbVars, money, byHand, wire>>

-----------------------------------------------------------------------------

Step(t) ==
    \/ ClaimRefund(t)
    \/ ReadRow(t) \/ ClaimLease(t) \/ Recheck(t)
    \/ Answer(t) \/ RecordReturn(t) \/ MarkFailed(t)
    \/ ManualRead(t) \/ ManualClaim(t) \/ RecordManual(t)
    \/ Revoke(t) \/ CloseOrder(t)

Next ==
    \/ \E t \in Tasks : Step(t) \/ RpcFails(t)
    \/ \E t \in Tasks, o \in PaidOrders : RefundOrder(t, o)
    \/ \E t \in Tasks, j \in Refused : RefuseCharge(t, j)
    \/ \E t \in Tasks, j \in Jobs : RetryRefund(t, j) \/ ReturnByHand(t, j)
    \/ \E o \in PaidOrders : ApplyPayment(o)
    \/ \E q \in wire : Execute(q)
    \/ \E j \in Jobs : ExpireLease(j)
    \/ Restart

Spec == Init /\ [][Next]_vars

\* Mutant: the queue lists unfinished rows only.
UnresolvedRowsOnly == {j \in Jobs : row[j].status \in {"pending", "processing"}}

\* The staff queue, refunds.unresolved.
Unresolved ==
    {j \in Jobs : \/ row[j].status \in {"pending", "processing"}
                  \/ j \in PaidOrders /\ order[j] = "refund_pending"}

\* Tasks run on one event loop that never starves one of them; Telegram carries
\* out what it accepted; the clock moves on; and staff keep pressing Retry on
\* what their queue shows, because nothing in the bot retries by itself.
LeaseLapses(j) == ExpireLease(j) /\ ~AtWork(j)
StaffRetry(j) == j \in Unresolved /\ \E t \in Tasks : RetryRefund(t, j)

Fairness ==
    /\ \A t \in Tasks : WF_vars(Step(t))
    /\ \A j \in Stars, tok \in Tokens : WF_vars(Execute([job |-> j, token |-> tok]))
    /\ \A j \in Jobs : WF_vars(LeaseLapses(j))
    /\ \A j \in Jobs : SF_vars(StaffRetry(j))

FairSpec == Spec /\ Fairness

-----------------------------------------------------------------------------
(* Properties *)

\* A row says "completed" only when the money really went back: in Telegram's
\* ledger for an automatic completion, out of a manager's hands for a manual
\* one.  (mark_completed after process_refund's call, complete_manually.)
CompletionIsBacked ==
    \A j \in Jobs : row[j].status = "completed" =>
        \/ row[j].resolution = "telegram" /\ money[j] = "returned"
        \/ row[j].resolution = "manual" /\ byHand[j]

\* Two tasks never own the lease of one job at the same time, however leases
\* expire, are taken over or survive a restart.  (refunds.claim's docstring:
\* exactly one concurrent caller gets a token.)
OneOwner ==
    \A t, u \in Tasks :
        /\ task[t].job # NoJob /\ task[t].job = task[u].job
        /\ OwnsLease(t) /\ OwnsLease(u)
        => t = u

\* Revenue and access remain as they were until the return is confirmed: an
\* order is reversed, and the days it granted are taken away, only after its
\* refund row is completed.  (refund_order, _finalize_order_refund.)
AccessKeptUntilReturned ==
    \A o \in PaidOrders :
        reversed[o] \/ access[o] = "revoked" => row[o].status = "completed"

\* A refunded order leaves no access behind, even when the payment task grants
\* it while the refund is under way.  (apply_payment against revoke_payment.)
RefundedOrderHasNoAccess ==
    \A o \in PaidOrders : order[o] = "refunded" =>
        access[o] # "granted" /\ row[o].status = "completed"

\* Access goes with the money: not before its return is confirmed, and not after its
\* order is refunded, whatever payment task or retry is under way.
AccessFollowsMoney == AccessKeptUntilReturned /\ RefundedOrderHasNoAccess

\* Money that went back is never out of sight: until its job is completed, and
\* its order closed, staff find it in the queue, also after a restart between
\* the request, the record of it and the closing of the order.
ReturnedMoneyIsTraceable ==
    \A j \in Jobs : money[j] = "returned" =>
        \/ j \in Unresolved
        \/ /\ row[j].status = "completed"
           /\ j \in PaidOrders => order[j] = "refunded"

\* What is completed stays completed, with the resolution it was completed with:
\* no stale worker puts a finished refund back in the queue.
CompletedIsFinal ==
    [][\A j \in Jobs : row[j].status = "completed" => row'[j] = row[j]]_vars

\* Every refund asked for by staff ends with the order refunded, and every
\* refused charge with its job completed, whatever faults happen on the way.
EveryRefundSettles ==
    /\ \A o \in PaidOrders : order[o] = "refund_pending" ~> order[o] = "refunded"
    /\ \A j \in Jobs : row[j].status # "absent" ~> row[j].status = "completed"

-----------------------------------------------------------------------------
(* The promise this protocol implements *)

StageOf(j) ==
    CASE row[j].status = "absent" -> "none"
      [] row[j].status \in {"pending", "processing"} -> "owed"
      [] OTHER -> IF j \notin PaidOrders \/ ~reversed[j] THEN "confirmed"
                  ELSE IF order[j] # "refunded" THEN "withdrawn"
                  ELSE "closed"

Promise == INSTANCE RefundPromise WITH
    stage <- [j \in Jobs |-> StageOf(j)],
    given <- {j \in Jobs : money[j] = "returned" \/ byHand[j]},
    entitled <- {o \in PaidOrders : access[o] = "granted"}

\* Every step of the lease protocol is a step of the promise or changes nothing
\* it speaks of: owed, given back, confirmed, access withdrawn, closed, in that
\* order and none of them twice.
KeepsPromise == Promise!PromiseSpec
=============================================================================
