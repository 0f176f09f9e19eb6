------------------------------ MODULE Checkout ------------------------------
(***************************************************************************)
(* Buying one product by one customer: Stars quotes and invoices, bank     *)
(* transfers, pre-checkout, the payment update, and what refuses a charge  *)
(* (handlers/checkout.py over db/invoices.py, db/orders.py).               *)
(*                                                                         *)
(* The update of a payment is handled in steps, by tasks that interleave   *)
(* with everything else, because handle_payment reads outside the          *)
(* transaction that decides.  What happens inside _order_lock and one      *)
(* write transaction is one action.  The product's other customers and     *)
(* other products share nothing with this state, so there is one of each.  *)
(***************************************************************************)
EXTENDS Naturals, FiniteSets

CONSTANTS
    Invoices,      \* quote tokens, all that the customer can ever draw
    Charges,       \* Stars charges Telegram may make; a charge names its order
    Transfers,     \* bank transfer orders the customer may open
    Tasks,         \* tasks handling payment updates at one time
    Terms,         \* versions of the product's price, period and text
    NoTerms,       \* the product is hidden or cannot be paid with Stars
    NoInvoice,
    NoCharge,
    Free,          \* nobody holds the customer's lifecycle lock
    OneDelivery,   \* TRUE: an update is redelivered only after its task ended
    CloseMayFail,  \* TRUE: after a refusal could not be written, closing its
                   \* invoice may fail as well
    MaxFaults,     \* bound on failed writes and failed messages
    MaxRestarts    \* bound on restarts of the process

ASSUME CheckoutAssumption ==
    /\ Charges \cap Transfers = {} /\ Invoices \cap Transfers = {}
    /\ NoTerms \notin Terms
    /\ NoInvoice \notin Invoices
    /\ NoCharge \notin Charges
    /\ Free \notin Invoices \cup Transfers
    /\ OneDelivery \in BOOLEAN /\ CloseMayFail \in BOOLEAN
    /\ MaxFaults \in Nat
    /\ MaxRestarts \in Nat

VARIABLES
    account,       \* the customer: live, blocked or erased
    terms,         \* the catalog's present version
    invoice,       \* rows of invoices, with their message in the chat
    order,         \* status of each order, the order of a charge included
    paid,          \* orders with paid_at
    granted,       \* orders with a subscription
    refund,        \* the refund obligation of each order or refused charge
    charge,        \* Telegram's side of each charge
    task,          \* tasks of handle_payment
    lifecycle,     \* what the holder of the lifecycle lock is sending
    receiving,     \* transfer orders a receipt is being downloaded for
    faults,
    restarts

bounds == <<faults, restarts>>
vars == <<account, terms, invoice, order, paid, granted, refund, charge, task,
          lifecycle, receiving, bounds>>

Orders == Charges \cup Transfers

OrderStatus ==
    {"absent", "pending_receipt", "pending_review", "paid", "delivered",
     "completed", "problem", "refund_pending", "rejected", "cancelled",
     "refunded", "payment_expired"}
Blocking == {"pending_receipt", "pending_review", "paid", "problem", "refund_pending"}

\* fresh: created_at is inside the TTL.  approval: precheckout_approved_at, and
\* whether it is inside its grace.  sent: the invoice can be paid from the chat.
Invoice ==
    [status : {"absent", "quote", "pending", "paid", "cancelled"},
     terms : Terms \cup {NoTerms}, fresh : BOOLEAN,
     approval : {"none", "live", "lapsed"}, sent : BOOLEAN]
NoRow == [status |-> "absent", terms |-> NoTerms, fresh |-> FALSE,
          approval |-> "none", sent |-> FALSE]

\* "lost": the handler failed with the charge in nobody's hands.
Pc == {"idle", "dup", "invoice", "orders", "decide", "refuse",
       "fallback", "apply", "lost"}
Idle == [pc |-> "idle", charge |-> NoCharge]

Init ==
    /\ account = "live"
    /\ terms \in Terms
    /\ invoice = [i \in Invoices |-> NoRow]
    /\ order = [o \in Orders |-> "absent"]
    /\ paid = {} /\ granted = {}
    /\ refund = [o \in Orders |-> "none"]
    /\ charge = [c \in Charges |-> [stage |-> "none", inv |-> NoInvoice]]
    /\ task = [t \in Tasks |-> Idle]
    /\ lifecycle = Free
    /\ receiving = {}
    /\ faults = 0 /\ restarts = 0

-----------------------------------------------------------------------------
(* Vocabulary *)

worldVars == <<account, terms, charge>>
orderVars == <<order, paid, granted>>

Fault == faults < MaxFaults /\ faults' = faults + 1 /\ UNCHANGED restarts
NoFault == UNCHANGED bounds

Goto(t, pc) == task' = [task EXCEPT ![t].pc = pc]
Finish(t) == task' = [task EXCEPT ![t] = Idle]
ChargeOf(t) == task[t].charge
InvoiceOf(t) == charge[task[t].charge].inv

OpenOrder == \E o \in Orders : order[o] \in Blocking

\* Mutant: an approved invoice is judged by its age like any other.
LiveByAge(v) == v.fresh

\* _LIVE_PAYMENT_WINDOW: inside the TTL, or once approved inside the grace.
Live(v) == IF v.approval = "none" THEN v.fresh ELSE v.approval = "live"

Payable(v) == v.status = "pending" /\ Live(v)

Cancel(v) == [v EXCEPT !.status = "cancelled"]
Unpayable(v) == IF v.status = "pending" THEN Cancel(v) ELSE v

\* Every checkout first closes the pending rows whose window is over.
CloseExpired(inv) ==
    [i \in Invoices |-> IF inv[i].status = "pending" /\ ~Live(inv[i])
                        THEN Cancel(inv[i]) ELSE inv[i]]

\* create_quote: a payable invoice wins, else the new quote replaces the old.
WithQuote(inv, j, v) ==
    LET swept == CloseExpired(inv) IN
    IF \E i \in Invoices : swept[i].status = "pending" THEN swept
    ELSE [i \in Invoices |->
            IF i = j THEN [NoRow EXCEPT !.status = "quote", !.terms = v, !.fresh = TRUE]
            ELSE IF swept[i].status = "quote" THEN Cancel(swept[i])
            ELSE swept[i]]

-----------------------------------------------------------------------------
(* Stars: from the terms to a payable invoice *)

\* The product was read before the lock, so the quoted version may be any.
ShowTerms(i, v) ==
    /\ lifecycle = Free /\ account = "live"
    /\ invoice[i].status = "absent"
    /\ invoice' = WithQuote(invoice, i, v)
    /\ UNCHANGED <<worldVars, orderVars, refund, task, lifecycle, receiving, bounds>>

\* The tap on Confirm, up to the sending of the invoice.  Changed terms are
\* shown again under the same lock, with a new token.
ConfirmQuote(i) ==
    /\ lifecycle = Free /\ account = "live"
    /\ invoice[i].status = "quote"
    /\ \/ /\ \/ terms = NoTerms
             \/ terms = invoice[i].terms /\ (OpenOrder \/ ~invoice[i].fresh)
          /\ invoice' = [invoice EXCEPT ![i] = Cancel(@)]
          /\ UNCHANGED lifecycle
       \/ /\ terms \in Terms \ {invoice[i].terms}
          /\ \E j \in Invoices :
                /\ invoice[j].status = "absent"
                /\ invoice' = WithQuote([invoice EXCEPT ![i] = Cancel(@)], j, terms)
          /\ UNCHANGED lifecycle
       \/ /\ terms = invoice[i].terms /\ ~OpenOrder /\ invoice[i].fresh
          /\ LET swept == CloseExpired(invoice) IN
             IF \E k \in Invoices : swept[k].status = "pending"
             THEN invoice' = swept /\ UNCHANGED lifecycle
             ELSE /\ invoice' = [swept EXCEPT ![i].status = "pending"]
                  /\ lifecycle' = i
    /\ UNCHANGED <<worldVars, orderVars, refund, task, receiving, bounds>>

InvoiceSent(i) ==
    /\ lifecycle = i
    /\ invoice' = [invoice EXCEPT ![i].sent = TRUE]
    /\ lifecycle' = Free
    /\ UNCHANGED <<worldVars, orderVars, refund, task, receiving, bounds>>

\* Sending raises; the message may have reached the chat all the same.
InvoiceNotSent(i) ==
    /\ lifecycle = i /\ Fault
    /\ \E sent \in BOOLEAN :
          invoice' = [invoice EXCEPT ![i] = [Unpayable(@) EXCEPT !.sent = sent]]
    /\ lifecycle' = Free
    /\ UNCHANGED <<worldVars, orderVars, refund, task, receiving>>

\* handle_precheckout says yes; a refused query changes nothing.  The approval
\* is stamped once, and age is judged by the TTL even when it is already there.
Precheckout(c, i) ==
    /\ lifecycle = Free /\ account = "live"
    /\ charge[c].stage = "none"
    /\ invoice[i].sent /\ Payable(invoice[i]) /\ invoice[i].fresh
    /\ terms # NoTerms /\ ~OpenOrder
    /\ invoice' = [invoice EXCEPT ![i].approval = "live"]
    /\ charge' = [charge EXCEPT ![c] = [stage |-> "approved", inv |-> i]]
    /\ UNCHANGED <<account, terms, orderVars, refund, task, lifecycle, receiving, bounds>>

-----------------------------------------------------------------------------
(* handle_payment *)

\* Telegram delivers the update of a charge, for the first time or again.
Deliver(t, c) ==
    /\ charge[c].stage = "taken"
    /\ task[t] = Idle
    /\ OneDelivery => \A u \in Tasks : task[u].charge # c
    /\ task' = [task EXCEPT ![t] = [pc |-> "dup", charge |-> c]]
    /\ UNCHANGED <<worldVars, invoice, orderVars, refund, lifecycle, receiving, bounds>>

\* Mutant: a redelivered update is judged like a new one.
JudgeAgain(t) ==
    /\ task[t].pc = "dup"
    /\ Goto(t, "invoice")
    /\ UNCHANGED <<worldVars, invoice, orderVars, refund, lifecycle, receiving, bounds>>

\* A recorded charge is only finished, never judged again.
CheckDuplicate(t) ==
    LET c == ChargeOf(t) IN
    /\ task[t].pc = "dup"
    /\ IF order[c] = "absent" THEN Goto(t, "invoice")
       ELSE IF c \in granted \/ order[c] = "refunded" THEN Finish(t)
       ELSE Goto(t, "apply")
    /\ UNCHANGED <<worldVars, invoice, orderVars, refund, lifecycle, receiving, bounds>>

\* _validate_invoice, outside any transaction: first the invoice and the
\* customer, then the open orders.  The catalog is not asked again.
ReadInvoice(t) ==
    /\ task[t].pc = "invoice"
    /\ Goto(t, IF Payable(invoice[InvoiceOf(t)]) /\ account = "live"
               THEN "orders" ELSE "refuse")
    /\ UNCHANGED <<worldVars, invoice, orderVars, refund, lifecycle, receiving, bounds>>

ReadOrders(t) ==
    /\ task[t].pc = "orders"
    /\ Goto(t, IF OpenOrder THEN "refuse" ELSE "decide")
    /\ UNCHANGED <<worldVars, invoice, orderVars, refund, lifecycle, receiving, bounds>>

ReadFails(t) ==
    /\ task[t].pc \in {"invoice", "orders", "decide"} /\ Fault
    /\ Goto(t, "refuse")
    /\ UNCHANGED <<worldVars, invoice, orderVars, refund, lifecycle, receiving>>

\* The lookups by_charge_id stand outside every try: the first one, the one after
\* a data conflict, and the one after an invoice that could not be claimed.
LookupFails(t) ==
    /\ \/ task[t].pc = "dup"
       \/ /\ task[t].pc = "decide"
          /\ account = "live" /\ order[ChargeOf(t)] = "absent" /\ ~OpenOrder
    /\ Fault
    /\ Goto(t, "lost")
    /\ UNCHANGED <<worldVars, invoice, orderVars, refund, lifecycle, receiving>>

\* raw_updates catches nothing: the client logs the error and the update counts
\* as handled.
GiveUp(t) ==
    /\ task[t].pc = "lost"
    /\ Finish(t)
    /\ UNCHANGED <<worldVars, invoice, orderVars, refund, lifecycle, receiving, bounds>>

\* Mutant: the claim of the invoice is a plain update.
DecideWithoutClaim(t) ==
    LET c == ChargeOf(t)
        i == InvoiceOf(t) IN
    /\ task[t].pc = "decide"
    /\ IF account = "live" /\ order[c] = "absent" /\ ~OpenOrder
       THEN /\ invoice' = [invoice EXCEPT ![i].status = "paid"]
            /\ order' = [order EXCEPT ![c] = "paid"]
            /\ paid' = paid \cup {c}
            /\ Goto(t, "apply")
       ELSE /\ IF account = "live" /\ order[c] # "absent" THEN Finish(t) ELSE Goto(t, "refuse")
            /\ UNCHANGED <<invoice, order, paid>>
    /\ UNCHANGED <<worldVars, granted, refund, lifecycle, receiving, bounds>>

\* Mutant: an invoice somebody else claimed is taken for a duplicate.
DecideSilently(t) ==
    LET c == ChargeOf(t)
        i == InvoiceOf(t) IN
    /\ task[t].pc = "decide"
    /\ IF account = "live" /\ order[c] = "absent" /\ ~OpenOrder /\ Payable(invoice[i])
       THEN /\ invoice' = [invoice EXCEPT ![i].status = "paid"]
            /\ order' = [order EXCEPT ![c] = "paid"]
            /\ paid' = paid \cup {c}
            /\ Goto(t, "apply")
       ELSE /\ IF account = "live" /\ ~OpenOrder THEN Finish(t) ELSE Goto(t, "refuse")
            /\ UNCHANGED <<invoice, order, paid>>
    /\ UNCHANGED <<worldVars, granted, refund, lifecycle, receiving, bounds>>

\* The decision, under _order_lock and one transaction: the invoice is claimed
\* and the order created together, or the charge is refused.
Decide(t) ==
    LET c == ChargeOf(t)
        i == InvoiceOf(t) IN
    /\ task[t].pc = "decide"
    /\ IF account = "live" /\ order[c] = "absent" /\ ~OpenOrder /\ Payable(invoice[i])
       THEN /\ invoice' = [invoice EXCEPT ![i].status = "paid"]
            /\ order' = [order EXCEPT ![c] = "paid"]
            /\ paid' = paid \cup {c}
            /\ Goto(t, "apply")
       ELSE /\ IF account = "live" /\ order[c] # "absent" THEN Finish(t) ELSE Goto(t, "refuse")
            /\ UNCHANGED <<invoice, order, paid>>
    /\ UNCHANGED <<worldVars, granted, refund, lifecycle, receiving, bounds>>

Owe(c) == refund' = [refund EXCEPT ![c] = IF @ = "none" THEN "owed" ELSE @]
CloseInvoice(i) == invoice' = [invoice EXCEPT ![i] = Unpayable(@)]

\* Mutant: the obligation is written and the invoice left as it is.
RefuseKeepingInvoice(t) ==
    /\ task[t].pc = "refuse"
    /\ Owe(ChargeOf(t))
    /\ Finish(t)
    /\ UNCHANGED <<worldVars, invoice, orderVars, lifecycle, receiving, bounds>>

\* _refund_refused_payment: the obligation and the closing of the invoice in
\* one transaction; module Refunds takes it from there.
Refuse(t) ==
    /\ task[t].pc = "refuse"
    /\ Owe(ChargeOf(t)) /\ CloseInvoice(InvoiceOf(t))
    /\ Finish(t)
    /\ UNCHANGED <<worldVars, orderVars, lifecycle, receiving, bounds>>

\* That transaction fails: the invoice is closed alone.
RefuseFails(t) ==
    /\ task[t].pc = "refuse" /\ Fault
    /\ CloseInvoice(InvoiceOf(t)) \/ (CloseMayFail /\ UNCHANGED invoice)
    /\ Goto(t, "fallback")
    /\ UNCHANGED <<worldVars, orderVars, refund, lifecycle, receiving>>

\* stars.refund writes the obligation itself.
Fallback(t) ==
    /\ task[t].pc = "fallback"
    /\ Owe(ChargeOf(t))
    /\ Finish(t)
    /\ UNCHANGED <<worldVars, invoice, orderVars, lifecycle, receiving, bounds>>

\* With no way to write it down the money is sent back at once, or else staff
\* are told, for which their list has to be read.
FallbackFails(t) ==
    /\ task[t].pc = "fallback" /\ Fault
    /\ \/ /\ \E outcome \in {"returned", "reported"} :
                refund' = [refund EXCEPT ![ChargeOf(t)] = IF @ = "none" THEN outcome ELSE @]
          /\ Finish(t)
       \/ Goto(t, "lost") /\ UNCHANGED refund
    /\ UNCHANGED <<worldVars, invoice, orderVars, lifecycle, receiving>>

\* apply_payment.
Eligible(o) == o \in paid /\ order[o] \notin {"refund_pending", "refunded"} /\ account = "live"

Apply(t) ==
    /\ task[t].pc = "apply"
    /\ granted' = IF Eligible(ChargeOf(t)) THEN granted \cup {ChargeOf(t)} ELSE granted
    /\ Finish(t)
    /\ UNCHANGED <<worldVars, invoice, order, paid, refund, lifecycle, receiving, bounds>>

ApplyFails(t) ==
    /\ task[t].pc = "apply" /\ Fault
    /\ Finish(t)
    /\ UNCHANGED <<worldVars, invoice, orderVars, refund, lifecycle, receiving>>

-----------------------------------------------------------------------------
(* Bank transfers *)

\* Mutant: an open Stars invoice does not stop a transfer.
StartTransferBesideInvoice(o) ==
    /\ lifecycle = Free /\ account = "live" /\ terms # NoTerms
    /\ order[o] = "absent" /\ ~OpenOrder
    /\ order' = [order EXCEPT ![o] = "pending_receipt"]
    /\ lifecycle' = o
    /\ UNCHANGED <<worldVars, invoice, paid, granted, refund, task, receiving, bounds>>

\* Mutant: an open order does not stop a transfer.
StartTransferAnyway(o) ==
    /\ lifecycle = Free /\ account = "live" /\ terms # NoTerms
    /\ order[o] = "absent"
    /\ \A i \in Invoices : ~Payable(invoice[i])
    /\ order' = [order EXCEPT ![o] = "pending_receipt"]
    /\ lifecycle' = o
    /\ UNCHANGED <<worldVars, invoice, paid, granted, refund, task, receiving, bounds>>

\* start_transfer up to the message with the bank details.
StartTransfer(o) ==
    /\ lifecycle = Free /\ account = "live" /\ terms # NoTerms
    /\ order[o] = "absent" /\ ~OpenOrder
    /\ \A i \in Invoices : ~Payable(invoice[i])
    /\ order' = [order EXCEPT ![o] = "pending_receipt"]
    /\ lifecycle' = o
    /\ UNCHANGED <<worldVars, invoice, paid, granted, refund, task, receiving, bounds>>

DetailsSent(o) ==
    /\ lifecycle = o
    /\ lifecycle' = Free
    /\ UNCHANGED <<worldVars, invoice, orderVars, refund, task, receiving, bounds>>

\* claim_status: compare and swap on the status.
Claim(o, from, to) ==
    /\ order[o] \in from
    /\ order' = [order EXCEPT ![o] = to]

DetailsNotSent(o) ==
    /\ lifecycle = o /\ Fault
    /\ lifecycle' = Free
    /\ \/ Claim(o, {"pending_receipt"}, "cancelled")
       \/ order[o] # "pending_receipt" /\ UNCHANGED order
    /\ UNCHANGED <<worldVars, invoice, paid, granted, refund, task, receiving>>

orderStep == UNCHANGED <<worldVars, invoice, refund, task, lifecycle, receiving, bounds>>

CancelOrder(o) ==
    /\ account = "live" /\ Claim(o, {"pending_receipt"}, "cancelled")
    /\ UNCHANGED <<paid, granted>> /\ orderStep

\* close_stale_orders.
CloseStale(o) ==
    /\ Claim(o, {"pending_receipt"}, "payment_expired")
    /\ UNCHANGED <<paid, granted>> /\ orderStep

\* handle_receipt: exactly one order can take the file, which is then
\* downloaded; a transfer that timed out can take it for seven days.
TakesReceipt == {o \in Transfers : order[o] \in {"pending_receipt", "payment_expired"}}

ReceiveFile(o) ==
    /\ account = "live" /\ TakesReceipt = {o}
    /\ receiving' = receiving \cup {o}
    /\ UNCHANGED <<worldVars, invoice, orderVars, refund, task, lifecycle, bounds>>

\* The claim may be refused, and the download or a write before it may fail.
AttachReceipt(o) ==
    /\ o \in receiving
    /\ receiving' = receiving \ {o}
    /\ \/ account # "erased" /\ Claim(o, {"pending_receipt", "payment_expired"}, "pending_review")
       \/ UNCHANGED order
    /\ UNCHANGED <<worldVars, invoice, paid, granted, refund, task, lifecycle, bounds>>

-----------------------------------------------------------------------------
(* What staff, the customer and the scheduler do to an order afterwards, as  *)
(* far as it decides whether the product can be bought again                 *)

\* flag_stale_reviews.
FlagReview(o) ==
    /\ Claim(o, {"pending_review"}, "problem")
    /\ UNCHANGED <<paid, granted>> /\ orderStep

\* Mutant: paid_at is not stamped.
ConfirmWithoutStamp(o) ==
    /\ o \notin granted
    /\ Claim(o, {"pending_review", "problem"}, "paid")
    /\ UNCHANGED <<paid, granted>> /\ orderStep

ConfirmPayment(o) ==
    /\ o \notin granted
    /\ Claim(o, {"pending_review", "problem"}, "paid")
    /\ paid' = paid \cup {o}
    /\ UNCHANGED granted /\ orderStep

\* The rest of confirm_transfer: access, or a problem for staff.
FulfilOrder(o) ==
    /\ order[o] = "paid" /\ o \notin granted
    /\ IF Eligible(o)
       THEN granted' = granted \cup {o} /\ UNCHANGED order
       ELSE Claim(o, {"paid"}, "problem") /\ UNCHANGED granted
    /\ UNCHANGED paid /\ orderStep

RejectTransfer(o) ==
    /\ o \notin paid
    /\ Claim(o, {"pending_review", "problem"}, "rejected")
    /\ UNCHANGED <<paid, granted>> /\ orderStep

\* The staff's Cancel; cancel_unpaid asks for paid_at and status in one update.
CancelUnpaid(o) ==
    /\ o \notin paid
    /\ Claim(o, {"pending_receipt", "pending_review", "problem"}, "cancelled")
    /\ UNCHANGED <<paid, granted>> /\ orderStep

SendAccess(o) ==
    /\ o \in granted
    /\ Claim(o, {"paid", "problem"}, "delivered")
    /\ UNCHANGED <<paid, granted>> /\ orderStep

CompleteOrder(o) ==
    /\ o \in granted
    /\ Claim(o, {"delivered", "problem"}, "completed")
    /\ UNCHANGED <<paid, granted>> /\ orderStep

ReportProblem(o) ==
    /\ lifecycle = Free /\ account = "live" /\ o \in granted
    /\ Claim(o, {"delivered", "completed"}, "problem")
    /\ UNCHANGED <<paid, granted>> /\ orderStep

RefundOrder(o) ==
    /\ o \in paid
    /\ Claim(o, {"paid", "delivered", "completed", "problem"}, "refund_pending")
    /\ Owe(o)
    /\ UNCHANGED <<worldVars, invoice, paid, granted, task, lifecycle, receiving, bounds>>

\* Module Refunds, seen from here: an obligation ends with the money returned
\* and its order closed.
SettleRefund(o) ==
    /\ refund[o] = "owed"
    /\ refund' = [refund EXCEPT ![o] = "returned"]
    /\ order' = [order EXCEPT ![o] = IF @ = "refund_pending" THEN "refunded" ELSE @]
    /\ UNCHANGED <<worldVars, invoice, paid, granted, task, lifecycle, receiving, bounds>>

-----------------------------------------------------------------------------
(* The customer's account, the catalog, the clock, Telegram, the process *)

SetBlocked(to) ==
    /\ lifecycle = Free /\ account # "erased"
    /\ account' = to
    /\ UNCHANGED <<terms, charge, invoice, orderVars, refund, task, lifecycle,
                   receiving, bounds>>

\* Erasing waits for every open order and refund, and closes what is unpaid.
Erase ==
    /\ lifecycle = Free /\ account # "erased"
    /\ \A o \in Orders :
          /\ order[o] \notin {"pending_review", "paid", "delivered", "problem", "refund_pending"}
          /\ refund[o] # "owed"
    /\ account' = "erased"
    /\ order' = [o \in Orders |-> IF order[o] = "pending_receipt" THEN "cancelled" ELSE order[o]]
    /\ invoice' = [i \in Invoices |-> IF invoice[i].status \in {"quote", "pending"}
                                      THEN Cancel(invoice[i]) ELSE invoice[i]]
    /\ UNCHANGED <<terms, charge, paid, granted, refund, task, lifecycle, receiving, bounds>>

EditProduct(v) ==
    /\ terms' = v
    /\ UNCHANGED <<account, charge, invoice, orderVars, refund, task, lifecycle,
                   receiving, bounds>>

\* INVOICE_TTL_MINUTES after a quote or an invoice was made.
TtlEnds(i) ==
    /\ invoice[i].status \in {"quote", "pending"} /\ invoice[i].fresh
    /\ invoice' = [invoice EXCEPT ![i].fresh = FALSE]
    /\ UNCHANGED <<worldVars, orderVars, refund, task, lifecycle, receiving, bounds>>

\* A day after the approval, which is after the TTL.
GraceEnds(i) ==
    /\ invoice[i].status = "pending" /\ invoice[i].approval = "live" /\ ~invoice[i].fresh
    /\ invoice' = [invoice EXCEPT ![i].approval = "lapsed"]
    /\ UNCHANGED <<worldVars, orderVars, refund, task, lifecycle, receiving, bounds>>

\* Telegram takes the money of a purchase the bot approved.
TakeMoney(c) ==
    /\ charge[c].stage = "approved"
    /\ charge' = [charge EXCEPT ![c].stage = "taken"]
    /\ UNCHANGED <<account, terms, invoice, orderVars, refund, task, lifecycle,
                   receiving, bounds>>

\* The process dies: tasks and locks are gone, a message being sent may have
\* left.
Restart ==
    /\ restarts < MaxRestarts
    /\ restarts' = restarts + 1 /\ UNCHANGED faults
    /\ task' = [t \in Tasks |-> Idle]
    /\ lifecycle' = Free
    /\ receiving' = {}
    /\ \/ UNCHANGED invoice
       \/ /\ lifecycle \in Invoices
          /\ invoice' = [invoice EXCEPT ![lifecycle].sent = TRUE]
    /\ UNCHANGED <<worldVars, orderVars, refund>>

-----------------------------------------------------------------------------

PaymentStep(t) ==
    \/ CheckDuplicate(t) \/ ReadInvoice(t) \/ ReadOrders(t) \/ Decide(t)
    \/ Refuse(t) \/ Fallback(t) \/ Apply(t) \/ GiveUp(t)

PaymentFault(t) ==
    \/ LookupFails(t) \/ ReadFails(t) \/ RefuseFails(t) \/ FallbackFails(t)
    \/ ApplyFails(t)

TransferStep(o) ==
    \/ StartTransfer(o) \/ DetailsSent(o) \/ DetailsNotSent(o) \/ CancelOrder(o)
    \/ CloseStale(o) \/ ReceiveFile(o) \/ AttachReceipt(o) \/ FlagReview(o)
    \/ RejectTransfer(o) \/ CancelUnpaid(o)

OrderStep(o) ==
    \/ ConfirmPayment(o) \/ FulfilOrder(o) \/ SendAccess(o) \/ CompleteOrder(o)
    \/ ReportProblem(o) \/ RefundOrder(o) \/ SettleRefund(o)

Next ==
    \/ \E i \in Invoices :
          \/ \E v \in Terms : ShowTerms(i, v)
          \/ ConfirmQuote(i) \/ InvoiceSent(i) \/ InvoiceNotSent(i)
          \/ \E c \in Charges : Precheckout(c, i)
          \/ TtlEnds(i) \/ GraceEnds(i)
    \/ \E c \in Charges : TakeMoney(c) \/ \E t \in Tasks : Deliver(t, c)
    \/ \E t \in Tasks : PaymentStep(t) \/ PaymentFault(t)
    \/ \E o \in Transfers : TransferStep(o)
    \/ \E o \in Orders : OrderStep(o)
    \/ \E to \in {"live", "blocked"} : SetBlocked(to)
    \/ Erase
    \/ \E v \in Terms \cup {NoTerms} : EditProduct(v)
    \/ Restart

Spec == Init /\ [][Next]_vars

\* The event loop runs every task that was started.
FairSpec == Spec /\ \A t \in Tasks : WF_vars(PaymentStep(t))

-----------------------------------------------------------------------------
(* Properties *)

\* The types, and that paid_at is there exactly when the status says the money
\* came (a problem order may be either).
PaidStatus == {"paid", "delivered", "completed", "refund_pending", "refunded"}

TypeOK ==
    /\ account \in {"live", "blocked", "erased"}
    /\ terms \in Terms \cup {NoTerms}
    /\ invoice \in [Invoices -> Invoice]
    /\ order \in [Orders -> OrderStatus]
    /\ paid \subseteq Orders /\ granted \subseteq paid
    /\ \A o \in Orders : /\ order[o] \in PaidStatus => o \in paid
                         /\ o \in paid => order[o] \in PaidStatus \cup {"problem"}
    /\ refund \in [Orders -> {"none", "owed", "returned", "reported"}]
    /\ charge \in [Charges -> [stage : {"none", "approved", "taken"},
                               inv : Invoices \cup {NoInvoice}]]
    /\ task \in [Tasks -> [pc : Pc, charge : Charges \cup {NoCharge}]]
    /\ lifecycle \in Invoices \cup Transfers \cup {Free}
    /\ receiving \subseteq Transfers
    /\ faults \in 0..MaxFaults /\ restarts \in 0..MaxRestarts

\* The charge of a sale is not refunded, unless staff refund the order: however
\* often the payment update is delivered, one money is used once.  (The test at
\* tools/edgecases.py:915: "concurrent redelivery never refunds the winning
\* charge".)
SaleKeepsItsCharge ==
    \A c \in Charges :
        order[c] \notin {"absent", "refund_pending", "refunded"} => refund[c] = "none"

\* An invoice is sold once, even when its message is paid twice and the second
\* payment arrives after the first order stopped blocking.
OneOrderPerInvoice ==
    \A c, d \in Charges :
        /\ order[c] # "absent" /\ order[d] # "absent"
        /\ charge[c].inv = charge[d].inv
        => c = d

\* While a Stars invoice can be paid no bank transfer for the same product is
\* waiting for its receipt: the customer is never asked for the money twice.
OneWayToPay ==
    (\E i \in Invoices : Payable(invoice[i]))
        => \A o \in Transfers : order[o] # "pending_receipt"

\* Of the orders a customer can still be asked to pay, or has just paid with
\* Stars, there is one: nothing opens or sells a second while one is open.
OneCheckout ==
    \A o, p \in Orders :
        /\ order[o] \in {"pending_receipt", "paid"} /\ order[p] \in {"pending_receipt", "paid"}
        /\ o \in Charges \/ order[o] = "pending_receipt"
        /\ p \in Charges \/ order[p] = "pending_receipt"
        => o = p

\* An approved purchase keeps its invoice for the whole grace, whatever the
\* customer taps meanwhile: only its own payment, a refused payment of it, or
\* the erasing of the customer ends it.
ApprovalIsKept ==
    [][\A i \in Invoices :
         /\ invoice[i].status = "pending" /\ invoice[i].approval = "live"
         /\ invoice'[i].status = "cancelled"
         => \/ account' = "erased"
            \/ \E t \in Tasks : task[t].pc = "refuse" /\ InvoiceOf(t) = i]_vars

Handled(c) == \E t \in Tasks : task[t].charge = c
Settled(c) == order[c] # "absent" \/ refund[c] # "none"
Lost(c) == \E t \in Tasks : task[t] = [pc |-> "lost", charge |-> c]

\* Every payment update that reaches the bot ends in an order or in money owed,
\* sent back or reported, through any failed read or write, unless the process
\* dies or the charge is lost with an error: a lookup by its identifier fails, or
\* the obligation, the direct refund and the report all do.  A delivery after
\* that, if Telegram makes one, is held to the same.
EveryUpdateSettles ==
    \A c \in Charges : Handled(c) ~> (Settled(c) \/ Lost(c))

\* Not so: "Attempt a refund even when local payment journaling fails"
\* (handlers/checkout.py:833), yet a failing lookup ends the handler with neither.
NoChargeIsLost == \A c \in Charges : Lost(c) => Settled(c)

-----------------------------------------------------------------------------
(* The promise this checkout implements, one delivery of an update at a time *)

Outcome(c) ==
    IF order[c] \in {"refund_pending", "refunded"} THEN "withdrawn"
    ELSE IF order[c] # "absent" THEN "sold"
    ELSE IF refund[c] # "none" THEN "refused"
    ELSE IF charge[c].stage = "taken" THEN "taken"
    ELSE "none"

Promise == INSTANCE Settlement WITH
    purchase <- [c \in Charges |-> Outcome(c)],
    bought <- [c \in Charges |-> charge[c].inv],
    access <- granted \cap Charges

\* Each charge is taken once and used once: sold or refused, and never sold
\* after it was refused, whatever crashes, redeliveries and edits come between.
KeepsSettlement == Promise!SettlementSpec
=============================================================================
