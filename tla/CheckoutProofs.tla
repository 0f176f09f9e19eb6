--------------------------- MODULE CheckoutProofs ---------------------------
(***************************************************************************)
(* Proofs about Checkout, for any number of invoices, charges, transfers,  *)
(* tasks, faults and restarts.                                             *)
(***************************************************************************)
EXTENDS Checkout, TLAPS

(* The strengthening.  A task at work handles a charge that was taken; a     *)
(* charge that was taken, and an order that was sold, name their invoice.    *)

TaskInv ==
    \A t \in Tasks :
        \/ task[t] = Idle
        \/ /\ task[t].pc # "idle" /\ task[t].charge \in Charges
           /\ charge[task[t].charge].stage = "taken"

ChargeInv ==
    \A c \in Charges : charge[c].stage # "none" => charge[c].inv \in Invoices

\* A row that was ever sent as an invoice is not a quote again.
SentInv ==
    \A c \in Charges : charge[c].stage # "none" =>
        invoice[charge[c].inv].status \in {"pending", "paid", "cancelled"}

SoldInv ==
    \A c \in Charges : order[c] # "absent" =>
        /\ charge[c].stage = "taken"
        /\ invoice[charge[c].inv].status = "paid"

\* An order the customer is asked to pay, has just paid with Stars, or that
\* staff are about to confirm again, is the only one of its kind.
Asking(o) ==
    \/ order[o] = "pending_receipt"
    \/ o \in Charges /\ order[o] = "paid"
    \/ o \in Charges /\ order[o] \in {"pending_review", "problem"} /\ o \notin granted

Alone == \A o, p \in Orders : Asking(o) /\ Asking(p) => o = p

OneTask ==
    OneDelivery => \A t, u \in Tasks :
        task[t].charge \in Charges /\ task[t].charge = task[u].charge => t = u

\* A charge is judged only before it is sold, and a refused one has lost its
\* invoice: this is what the order of the steps in handle_payment has to ensure.
Closed(i) == invoice[i].status \in {"paid", "cancelled"}

Judging == {"invoice", "orders", "decide", "refuse", "fallback"}

JudgeInv ==
    OneDelivery /\ ~CloseMayFail =>
        /\ \A t \in Tasks : task[t].pc \in Judging => order[task[t].charge] = "absent"
        /\ \A t \in Tasks : task[t].pc = "fallback" => Closed(charge[task[t].charge].inv)
        /\ \A c \in Charges : refund[c] # "none" /\ order[c] = "absent" =>
              charge[c].stage = "taken" /\ Closed(charge[c].inv)
        /\ SaleKeepsItsCharge

TypeInv == TypeOK /\ TaskInv /\ ChargeInv
IInv ==
    /\ TypeInv /\ SentInv /\ SoldInv /\ OneOrderPerInvoice
    /\ OneWayToPay /\ Alone /\ OneTask /\ JudgeInv

-----------------------------------------------------------------------------
(* The rows of invoices *)

InvoiceType == invoice \in [Invoices -> Invoice]

LEMMA RowShape ==
    \A v \in Invoice :
        /\ v = [status |-> v.status, terms |-> v.terms, fresh |-> v.fresh,
                approval |-> v.approval, sent |-> v.sent]
        /\ Cancel(v) \in Invoice /\ Cancel(v).status = "cancelled"
  BY DEF Invoice, Cancel

LEMMA SweepType ==
    ASSUME NEW inv \in [Invoices -> Invoice]
    PROVE  /\ CloseExpired(inv) \in [Invoices -> Invoice]
           /\ \A i \in Invoices :
                \/ CloseExpired(inv)[i] = inv[i]
                \/ inv[i].status = "pending" /\ CloseExpired(inv)[i] = Cancel(inv[i])
  BY RowShape DEF CloseExpired

LEMMA QuoteType ==
    ASSUME NEW inv \in [Invoices -> Invoice], NEW j \in Invoices,
           NEW v \in Terms \cup {NoTerms}, inv[j].status = "absent"
    PROVE  /\ WithQuote(inv, j, v) \in [Invoices -> Invoice]
           /\ \A i \in Invoices :
                \/ WithQuote(inv, j, v)[i] = inv[i]
                \/ /\ inv[i].status \in {"pending", "quote"}
                   /\ WithQuote(inv, j, v)[i].status = "cancelled"
                \/ inv[i].status = "absent" /\ WithQuote(inv, j, v)[i].status = "quote"
  <1> DEFINE swept == CloseExpired(inv)
             fresh == [NoRow EXCEPT !.status = "quote", !.terms = v, !.fresh = TRUE]
  <1>1. /\ swept \in [Invoices -> Invoice]
        /\ \A i \in Invoices :
              \/ swept[i] = inv[i]
              \/ inv[i].status = "pending" /\ swept[i] = Cancel(inv[i])
    BY SweepType
  <1>2. fresh \in Invoice /\ fresh.status = "quote"
    BY DEF NoRow, Invoice
  <1>3. \A i \in Invoices : Cancel(swept[i]) \in Invoice /\ Cancel(swept[i]).status = "cancelled"
    BY <1>1, RowShape
  <1>4. CASE \E i \in Invoices : swept[i].status = "pending"
    BY <1>1, <1>4, RowShape DEF WithQuote
  <1>5. CASE ~ \E i \in Invoices : swept[i].status = "pending"
    <2>1. WithQuote(inv, j, v) =
            [i \in Invoices |-> IF i = j THEN fresh
                                ELSE IF swept[i].status = "quote" THEN Cancel(swept[i])
                                ELSE swept[i]]
      BY <1>5 DEF WithQuote
    <2>. HIDE DEF swept, fresh
    <2>2. QED
      BY <1>1, <1>2, <1>3, <2>1, RowShape
  <1>6. QED
    BY <1>4, <1>5

-----------------------------------------------------------------------------
(* Types *)

\* What every action does to a row: nothing, or one of these.
RowStep(i) ==
    \/ invoice'[i].status = invoice[i].status
    \/ invoice[i].status = "absent" /\ invoice'[i].status = "quote"
    \/ invoice[i].status \in {"quote", "pending"} /\ invoice'[i].status = "cancelled"
    \/ /\ invoice[i].status = "quote" /\ invoice'[i].status = "pending"
       /\ ~OpenOrder /\ UNCHANGED <<order, granted>>
    \/ \E c \in Charges :
          /\ invoice[i].status = "pending" /\ invoice'[i].status = "paid"
          /\ order[c] = "absent" /\ order'[c] = "paid" /\ charge[c].inv = i

LEMMA TaskFacts ==
    ASSUME TypeInv, NEW t \in Tasks, task[t].pc # "idle"
    PROVE  /\ task[t].charge \in Charges /\ task[t].charge \in Orders
           /\ charge[task[t].charge].stage = "taken"
           /\ charge[task[t].charge].inv \in Invoices
  BY DEF TypeInv, TaskInv, ChargeInv, Idle, Orders

\* Setting one field of one row keeps the type.
LEMMA RowUpdates ==
    ASSUME InvoiceType, NEW i \in Invoices
    PROVE  /\ \A b \in BOOLEAN : [invoice EXCEPT ![i].fresh = b] \in [Invoices -> Invoice]
           /\ \A b \in BOOLEAN : [invoice EXCEPT ![i].sent = b] \in [Invoices -> Invoice]
           /\ \A a \in {"none", "live", "lapsed"} :
                 [invoice EXCEPT ![i].approval = a] \in [Invoices -> Invoice]
           /\ [invoice EXCEPT ![i].status = "paid"] \in [Invoices -> Invoice]
           /\ [invoice EXCEPT ![i] = Cancel(@)] \in [Invoices -> Invoice]
  BY DEF InvoiceType, Invoice, Cancel

LEMMA RowShowTerms ==
    ASSUME TypeInv, NEW i \in Invoices, NEW v \in Terms, ShowTerms(i, v)
    PROVE  InvoiceType' /\ \A k \in Invoices : RowStep(k)
  BY QuoteType DEF TypeInv, TypeOK, ShowTerms, InvoiceType, RowStep

LEMMA RowConfirm ==
    ASSUME TypeInv, NEW i \in Invoices, ConfirmQuote(i)
    PROVE  InvoiceType' /\ \A k \in Invoices : RowStep(k)
  <1>0. invoice \in [Invoices -> Invoice] /\ invoice[i].status = "quote"
    BY DEF TypeInv, TypeOK, ConfirmQuote
  <1>1. CASE invoice' = [invoice EXCEPT ![i] = Cancel(@)]
    BY <1>0, <1>1, RowUpdates, RowShape DEF InvoiceType, RowStep
  <1>2. ASSUME NEW j \in Invoices, invoice[j].status = "absent", terms \in Terms,
               invoice' = WithQuote([invoice EXCEPT ![i] = Cancel(@)], j, terms)
        PROVE  InvoiceType' /\ \A k \in Invoices : RowStep(k)
    <2> DEFINE inv == [invoice EXCEPT ![i] = Cancel(@)]
    <2>1. inv \in [Invoices -> Invoice]
      BY <1>0, RowUpdates DEF InvoiceType
    <2>2. /\ inv[i].status = "cancelled" /\ inv[j].status = "absent"
          /\ \A k \in Invoices \ {i} : inv[k] = invoice[k]
      BY <1>0, <1>2, RowShape
    <2>a. invoice' = WithQuote(inv, j, terms)
      BY <1>2
    <2>. HIDE DEF inv
    <2>3. /\ invoice' \in [Invoices -> Invoice]
          /\ \A k \in Invoices :
                \/ invoice'[k] = inv[k]
                \/ /\ inv[k].status \in {"pending", "quote"}
                   /\ invoice'[k].status = "cancelled"
                \/ inv[k].status = "absent" /\ invoice'[k].status = "quote"
      <3>1. terms \in Terms \cup {NoTerms} /\ inv[j].status = "absent"
        BY <1>2, <2>2
      <3>2. /\ WithQuote(inv, j, terms) \in [Invoices -> Invoice]
            /\ \A k \in Invoices :
                  \/ WithQuote(inv, j, terms)[k] = inv[k]
                  \/ /\ inv[k].status \in {"pending", "quote"}
                     /\ WithQuote(inv, j, terms)[k].status = "cancelled"
                  \/ /\ inv[k].status = "absent"
                     /\ WithQuote(inv, j, terms)[k].status = "quote"
        BY <2>1, <3>1, QuoteType
      <3>3. QED
        BY <2>a, <3>2
    <2>4. RowStep(i)
      BY <1>0, <2>2, <2>3 DEF RowStep
    <2>5. ASSUME NEW k \in Invoices \ {i} PROVE RowStep(k)
      <3>1. inv[k] = invoice[k]
        BY <2>2
      <3>2. QED
        BY <2>3, <3>1 DEF RowStep
    <2>6. QED
      BY <2>3, <2>4, <2>5 DEF InvoiceType
  <1>3. ASSUME terms = invoice[i].terms, ~OpenOrder, UNCHANGED <<order, granted>>,
               LET swept == CloseExpired(invoice) IN
               \/ invoice' = swept
               \/ invoice' = [swept EXCEPT ![i].status = "pending"]
        PROVE  InvoiceType' /\ \A k \in Invoices : RowStep(k)
    <2> DEFINE swept == CloseExpired(invoice)
    <2>1. /\ swept \in [Invoices -> Invoice]
          /\ \A k \in Invoices :
                \/ swept[k] = invoice[k]
                \/ invoice[k].status = "pending" /\ swept[k] = Cancel(invoice[k])
      BY <1>0, SweepType
    <2>. HIDE DEF swept
    <2>2. CASE invoice' = swept
      BY <1>0, <2>1, <2>2, RowShape DEF InvoiceType, RowStep
    <2>3. CASE invoice' = [swept EXCEPT ![i].status = "pending"]
      <3>1. swept[i] = invoice[i]
        BY <1>0, <2>1
      <3>2. InvoiceType'
        BY <2>1, <2>3 DEF InvoiceType, Invoice
      <3>3. \A k \in Invoices : RowStep(k)
        BY <1>0, <1>3, <2>1, <2>3, <3>1, RowShape DEF RowStep
      <3>4. QED
        BY <3>2, <3>3
    <2>4. QED
      BY <1>3, <2>2, <2>3 DEF swept
  <1>4. QED
    BY <1>1, <1>2, <1>3 DEF ConfirmQuote, orderVars

LEMMA RowOthers ==
    ASSUME TypeInv, NEW i \in Invoices,
           \/ InvoiceSent(i) \/ InvoiceNotSent(i) \/ TtlEnds(i) \/ GraceEnds(i)
           \/ \E c \in Charges : Precheckout(c, i)
    PROVE  InvoiceType' /\ \A k \in Invoices : RowStep(k)
  <1>0. invoice \in [Invoices -> Invoice]
    BY DEF TypeInv, TypeOK
  <1>1. ASSUME NEW v \in Invoice, invoice' = [invoice EXCEPT ![i] = v],
               \/ v.status = invoice[i].status
               \/ invoice[i].status = "pending" /\ v.status = "cancelled"
        PROVE  InvoiceType' /\ \A k \in Invoices : RowStep(k)
    BY <1>0, <1>1 DEF InvoiceType, RowStep
  <1>2. ASSUME NEW sent \in BOOLEAN,
               invoice' = [invoice EXCEPT ![i] = [Unpayable(@) EXCEPT !.sent = sent]]
        PROVE  InvoiceType' /\ \A k \in Invoices : RowStep(k)
    <2> DEFINE v == [Unpayable(invoice[i]) EXCEPT !.sent = sent]
    <2>1. /\ v \in Invoice
          /\ v.status = IF invoice[i].status = "pending" THEN "cancelled" ELSE invoice[i].status
      BY <1>0 DEF Invoice, Unpayable, Cancel
    <2>2. invoice' = [invoice EXCEPT ![i] = v]
      BY <1>2
    <2>. HIDE DEF v
    <2>3. QED
      BY <1>1, <2>1, <2>2
  <1>3. ASSUME NEW b \in BOOLEAN,
               \/ invoice' = [invoice EXCEPT ![i].fresh = b]
               \/ invoice' = [invoice EXCEPT ![i].sent = b]
        PROVE  InvoiceType' /\ \A k \in Invoices : RowStep(k)
    BY <1>0, <1>3 DEF InvoiceType, RowStep, Invoice
  <1>4. ASSUME NEW a \in {"none", "live", "lapsed"},
               invoice' = [invoice EXCEPT ![i].approval = a]
        PROVE  InvoiceType' /\ \A k \in Invoices : RowStep(k)
    BY <1>0, <1>4 DEF InvoiceType, RowStep, Invoice
  <1>5. CASE InvoiceNotSent(i)
    BY <1>2, <1>5 DEF InvoiceNotSent
  <1>6. CASE InvoiceSent(i) \/ TtlEnds(i)
    BY <1>3, <1>6 DEF InvoiceSent, TtlEnds
  <1>7. CASE GraceEnds(i) \/ \E c \in Charges : Precheckout(c, i)
    BY <1>4, <1>7 DEF GraceEnds, Precheckout
  <1>8. QED
    BY <1>5, <1>6, <1>7

LEMMA RowPayment ==
    ASSUME TypeInv, NEW t \in Tasks, PaymentStep(t) \/ PaymentFault(t)
    PROVE  InvoiceType' /\ \A k \in Invoices : RowStep(k)
  <1>0. invoice \in [Invoices -> Invoice]
    BY DEF TypeInv, TypeOK
  <1>1. ASSUME UNCHANGED invoice
        PROVE  InvoiceType' /\ \A k \in Invoices : RowStep(k)
    BY <1>0, <1>1 DEF InvoiceType, RowStep
  <1>2. ASSUME NEW i \in Invoices, CloseInvoice(i)
        PROVE  InvoiceType' /\ \A k \in Invoices : RowStep(k)
    <2>1. /\ Unpayable(invoice[i]) \in Invoice
          /\ \/ Unpayable(invoice[i]).status = invoice[i].status
             \/ /\ invoice[i].status = "pending"
                /\ Unpayable(invoice[i]).status = "cancelled"
      BY <1>0, RowShape DEF Unpayable
    <2>2. QED
      BY <1>0, <1>2, <2>1 DEF CloseInvoice, InvoiceType, RowStep
  <1>3. CASE Decide(t) /\ ~UNCHANGED invoice
    <2> DEFINE c == task[t].charge
               i == charge[task[t].charge].inv
    <2>1. task[t].pc = "decide"
      BY <1>3 DEF Decide
    <2>2. c \in Charges /\ c \in Orders /\ i \in Invoices
      BY <2>1, TaskFacts
    <2>3. /\ invoice' = [invoice EXCEPT ![i].status = "paid"]
          /\ order' = [order EXCEPT ![c] = "paid"]
          /\ invoice[i].status = "pending" /\ order[c] = "absent"
      BY <1>3 DEF Decide, ChargeOf, InvoiceOf, Payable
    <2>4. order'[c] = "paid"
      BY <2>2, <2>3 DEF TypeInv, TypeOK
    <2>5. InvoiceType'
      BY <1>0, <2>2, <2>3, RowUpdates DEF InvoiceType
    <2>6. invoice'[i].status = "paid" /\ \A k \in Invoices \ {i} : invoice'[k] = invoice[k]
      BY <1>0, <2>2, <2>3 DEF Invoice
    <2>7. RowStep(i)
      BY <2>2, <2>3, <2>4, <2>6 DEF RowStep
    <2>8. \A k \in Invoices \ {i} : RowStep(k)
      BY <2>6 DEF RowStep
    <2>9. QED
      BY <2>5, <2>7, <2>8
  <1>4. CASE Refuse(t) \/ RefuseFails(t)
    <2>1. charge[task[t].charge].inv \in Invoices
      BY <1>4, TaskFacts DEF Refuse, RefuseFails
    <2>2. QED
      BY <1>1, <1>2, <1>4, <2>1 DEF Refuse, RefuseFails, InvoiceOf
  <1>5. CASE /\ ~Decide(t) /\ ~Refuse(t) /\ ~RefuseFails(t)
    BY <1>1, <1>5
       DEF PaymentStep, PaymentFault, CheckDuplicate, ReadInvoice, ReadOrders, Fallback,
           Apply, ReadFails, FallbackFails, ApplyFails,
           LookupFails, GiveUp
  <1>6. QED
    BY <1>1, <1>3, <1>4, <1>5

\* No other action writes a row, except that erasing closes them and a restart
\* may leave a message sent.
LEMMA Rows ==
    ASSUME TypeInv, Next
    PROVE  InvoiceType' /\ \A k \in Invoices : RowStep(k)
  <1>0. invoice \in [Invoices -> Invoice]
    BY DEF TypeInv, TypeOK
  <1>1. ASSUME UNCHANGED invoice
        PROVE  InvoiceType' /\ \A k \in Invoices : RowStep(k)
    BY <1>0, <1>1 DEF InvoiceType, RowStep
  <1>2. CASE Erase
    <2>1. /\ InvoiceType'
          /\ \A k \in Invoices :
                invoice'[k] = invoice[k]
                  \/ (invoice[k].status \in {"quote", "pending"} /\ invoice'[k] = Cancel(invoice[k]))
      BY <1>0, <1>2, RowShape DEF Erase, InvoiceType
    <2>2. QED
      BY <1>0, <2>1, RowShape DEF RowStep
  <1>3. CASE Restart
    <2>1. CASE lifecycle \in Invoices /\ invoice' = [invoice EXCEPT ![lifecycle].sent = TRUE]
      BY <1>0, <2>1 DEF InvoiceType, RowStep, Invoice
    <2>2. QED
      BY <1>1, <1>3, <2>1 DEF Restart
  <1>4. ASSUME NEW o \in Transfers, TransferStep(o) PROVE UNCHANGED invoice
    BY <1>4 DEF TransferStep, StartTransfer, DetailsSent, DetailsNotSent, CancelOrder,
         CloseStale, ReceiveFile, AttachReceipt, FlagReview,
         RejectTransfer, CancelUnpaid, orderStep
  <1>5. ASSUME NEW o \in Orders, OrderStep(o) PROVE UNCHANGED invoice
    BY <1>5 DEF OrderStep, ConfirmPayment, FulfilOrder, SendAccess, CompleteOrder,
         ReportProblem, RefundOrder, SettleRefund, orderStep
  <1>6. ASSUME \/ \E c \in Charges : TakeMoney(c) \/ \E t \in Tasks : Deliver(t, c)
               \/ \E to \in {"live", "blocked"} : SetBlocked(to)
               \/ \E v \in Terms \cup {NoTerms} : EditProduct(v)
        PROVE  UNCHANGED invoice
    BY <1>6 DEF TakeMoney, Deliver, SetBlocked, EditProduct
  <1>7. QED
    BY <1>1, <1>2, <1>3, <1>4, <1>5, <1>6, RowShowTerms, RowConfirm, RowOthers, RowPayment
       DEF Next

\* The steps of a task, and what each leaves alone.
LEMMA PaymentType ==
    ASSUME TypeInv, InvoiceType', NEW t \in Tasks, PaymentStep(t) \/ PaymentFault(t)
    PROVE  TypeInv'
  <1> DEFINE c == task[t].charge
  <1>0. TypeOK /\ TaskInv /\ ChargeInv
    BY DEF TypeInv
  <1>1. UNCHANGED worldVars /\ lifecycle' = lifecycle /\ receiving' = receiving
    BY DEF PaymentStep, PaymentFault, CheckDuplicate, ReadInvoice, ReadOrders, Decide,
         Refuse, Fallback, Apply, ReadFails, RefuseFails, FallbackFails, ApplyFails,
         LookupFails, GiveUp
  <1>2. task[t].pc # "idle"
    BY DEF PaymentStep, PaymentFault, CheckDuplicate, ReadInvoice, ReadOrders, Decide,
         Refuse, Fallback, Apply, ReadFails, RefuseFails, FallbackFails, ApplyFails,
         LookupFails, GiveUp
  <1>3. /\ task[t].charge \in Charges /\ task[t].charge \in Orders
        /\ charge[task[t].charge].stage = "taken"
    BY <1>2, TaskFacts
  <1>4. /\ faults' \in 0..MaxFaults /\ restarts' \in 0..MaxRestarts
    <2>1. CASE UNCHANGED bounds
      BY <1>0, <2>1 DEF TypeOK, bounds
    <2>2. CASE Fault
      BY <1>0, <2>2, CheckoutAssumption DEF TypeOK, Fault
    <2>3. QED
      BY <2>1, <2>2
         DEF PaymentStep, PaymentFault, CheckDuplicate, ReadInvoice, ReadOrders, Decide,
         Refuse, Fallback, Apply, ReadFails, RefuseFails, FallbackFails, ApplyFails,
         LookupFails, GiveUp
  <1>5. \/ Finish(t)
        \/ \E pc \in Pc \ {"idle"} : Goto(t, pc)
    BY DEF PaymentStep, PaymentFault, CheckDuplicate, ReadInvoice, ReadOrders, Decide,
         Refuse, Fallback, Apply, ReadFails, RefuseFails, FallbackFails, ApplyFails,
         LookupFails, GiveUp, Pc
  <1>6. task' \in [Tasks -> [pc : Pc, charge : Charges \cup {NoCharge}]] /\ TaskInv'
    <2>1. CASE Finish(t)
      BY <1>0, <1>1, <2>1 DEF Finish, Idle, TypeOK, TaskInv, Pc, worldVars
    <2>2. ASSUME NEW pc \in Pc \ {"idle"}, Goto(t, pc)
          PROVE  task' \in [Tasks -> [pc : Pc, charge : Charges \cup {NoCharge}]] /\ TaskInv'
      BY <1>0, <1>1, <1>3, <2>2 DEF Goto, Idle, TypeOK, TaskInv, Pc, worldVars
    <2>3. QED
      BY <1>5, <2>1, <2>2
  <1>7. refund' \in [Orders -> {"none", "owed", "returned", "reported"}]
    <2>1. CASE refund' = refund
      BY <1>0, <2>1 DEF TypeOK
    <2>2. ASSUME NEW r \in {"owed", "returned", "reported"},
                 refund' = [refund EXCEPT ![task[t].charge] = IF @ = "none" THEN r ELSE @]
          PROVE  refund' \in [Orders -> {"none", "owed", "returned", "reported"}]
      BY <1>0, <1>3, <2>2 DEF TypeOK
    <2>3. QED
      BY <2>1, <2>2
         DEF PaymentStep, PaymentFault, CheckDuplicate, ReadInvoice, ReadOrders, Decide,
         Refuse, Fallback, Apply, ReadFails, RefuseFails, FallbackFails, ApplyFails,
         LookupFails, GiveUp,
         Owe, ChargeOf
  <1>8. /\ order' \in [Orders -> OrderStatus]
        /\ paid' \subseteq Orders /\ granted' \subseteq paid'
        /\ \A o \in Orders : /\ order'[o] \in PaidStatus => o \in paid'
                             /\ o \in paid' => order'[o] \in PaidStatus \cup {"problem"}
    <2>1. CASE UNCHANGED orderVars
      BY <1>0, <2>1 DEF TypeOK, orderVars
    <2>2. CASE UNCHANGED <<order, paid>> /\ granted' = granted \cup {task[t].charge}
               /\ task[t].charge \in paid
      BY <1>0, <2>2 DEF TypeOK
    <2>3. CASE /\ order' = [order EXCEPT ![task[t].charge] = "paid"]
               /\ paid' = paid \cup {task[t].charge} /\ granted' = granted
      BY <1>0, <1>3, <2>3 DEF TypeOK, OrderStatus, PaidStatus
    <2>4. QED
      BY <2>1, <2>2, <2>3
         DEF PaymentStep, PaymentFault, CheckDuplicate, ReadInvoice, ReadOrders, Decide,
         Refuse, Fallback, Apply, ReadFails, RefuseFails, FallbackFails, ApplyFails,
         LookupFails, GiveUp,
         ChargeOf, Eligible, orderVars
  <1>9. QED
    BY <1>0, <1>1, <1>4, <1>6, <1>7, <1>8
       DEF TypeInv, TypeOK, InvoiceType, ChargeInv, worldVars

\* A compare and swap of one order's status.
LEMMA ClaimType ==
    ASSUME TypeOK, NEW o \in Orders, NEW from, NEW to \in OrderStatus, Claim(o, from, to)
    PROVE  /\ order' \in [Orders -> OrderStatus]
           /\ order[o] \in from /\ order'[o] = to
           /\ \A p \in Orders \ {o} : order'[p] = order[p]
  BY DEF Claim, TypeOK

\* The part of TypeOK that speaks of orders.
OrderType ==
    /\ order \in [Orders -> OrderStatus]
    /\ paid \subseteq Orders /\ granted \subseteq paid
    /\ \A o \in Orders : /\ order[o] \in PaidStatus => o \in paid
                         /\ o \in paid => order[o] \in PaidStatus \cup {"problem"}
    /\ refund \in [Orders -> {"none", "owed", "returned", "reported"}]

LEMMA OrderStepType ==
    ASSUME TypeOK, NEW o \in Orders, OrderStep(o)
    PROVE  OrderType'
  <1> USE DEF OrderType, PaidStatus, OrderStatus, orderStep
  <1>1. CASE ConfirmPayment(o)
    BY <1>1, ClaimType DEF ConfirmPayment, TypeOK
  <1>2. CASE FulfilOrder(o)
    BY <1>2, ClaimType DEF FulfilOrder, TypeOK, Eligible
  <1>3. CASE SendAccess(o)
    BY <1>3, ClaimType DEF SendAccess, TypeOK
  <1>4. CASE CompleteOrder(o)
    BY <1>4, ClaimType DEF CompleteOrder, TypeOK
  <1>5. CASE ReportProblem(o)
    BY <1>5, ClaimType DEF ReportProblem, TypeOK
  <1>6. CASE RefundOrder(o)
    BY <1>6, ClaimType DEF RefundOrder, TypeOK, Owe
  <1>7. CASE SettleRefund(o)
    BY <1>7 DEF SettleRefund, TypeOK
  <1>8. QED
    BY <1>1, <1>2, <1>3, <1>4, <1>5, <1>6, <1>7 DEF OrderStep

LEMMA TransferStepType ==
    ASSUME TypeOK, NEW o \in Transfers, TransferStep(o)
    PROVE  OrderType'
  <1> USE DEF OrderType, PaidStatus, OrderStatus, orderStep, orderVars
  <1>0. o \in Orders
    BY DEF Orders
  <1>1. CASE StartTransfer(o)
    BY <1>0, <1>1 DEF StartTransfer, TypeOK
  <1>2. CASE DetailsSent(o) \/ ReceiveFile(o)
    BY <1>2 DEF DetailsSent, ReceiveFile, TypeOK
  <1>3. CASE DetailsNotSent(o)
    BY <1>0, <1>3, ClaimType DEF DetailsNotSent, TypeOK
  <1>4. CASE CancelOrder(o)
    BY <1>0, <1>4, ClaimType DEF CancelOrder, TypeOK
  <1>5. CASE CloseStale(o)
    BY <1>0, <1>5, ClaimType DEF CloseStale, TypeOK
  <1>6. CASE AttachReceipt(o)
    BY <1>0, <1>6, ClaimType DEF AttachReceipt, TypeOK
  <1>7. CASE FlagReview(o)
    BY <1>0, <1>7, ClaimType DEF FlagReview, TypeOK
  <1>8. CASE RejectTransfer(o)
    BY <1>0, <1>8, ClaimType DEF RejectTransfer, TypeOK
  <1>9. CASE CancelUnpaid(o)
    BY <1>0, <1>9, ClaimType DEF CancelUnpaid, TypeOK
  <1>10. QED
    BY <1>1, <1>2, <1>3, <1>4, <1>5, <1>6, <1>7, <1>8, <1>9 DEF TransferStep

LEMMA TypeStep ==
    ASSUME TypeInv, [Next]_vars
    PROVE  TypeInv'
  <1> USE DEF worldVars, orderVars
  <1>0. TypeOK /\ TaskInv /\ ChargeInv
    BY DEF TypeInv
  <1>1. ASSUME InvoiceType', OrderType', UNCHANGED <<account, terms, charge, task, bounds>>,
               lifecycle' \in Invoices \cup Transfers \cup {Free}, receiving' \subseteq Transfers
        PROVE  TypeInv'
    BY <1>0, <1>1 DEF TypeInv, TypeOK, InvoiceType, OrderType, TaskInv, ChargeInv, bounds
  <1>2. UNCHANGED orderVars /\ UNCHANGED refund => OrderType'
    BY <1>0 DEF TypeOK, OrderType
  <1>3. Next => InvoiceType'
    BY Rows
  <1>4. CASE UNCHANGED vars
    BY <1>0, <1>4 DEF vars, TypeInv, TypeOK, TaskInv, ChargeInv, bounds, Idle
  <1>5. ASSUME Next, NEW i \in Invoices,
               \/ InvoiceSent(i) \/ ConfirmQuote(i) \/ TtlEnds(i) \/ GraceEnds(i)
               \/ \E v \in Terms : ShowTerms(i, v)
        PROVE  TypeInv'
    <2>1. /\ UNCHANGED <<account, terms, charge, task, bounds, order, paid, granted, refund>>
          /\ lifecycle' \in Invoices \cup Transfers \cup {Free} /\ receiving' \subseteq Transfers
      BY <1>0, <1>5 DEF TypeOK, InvoiceSent, ConfirmQuote, TtlEnds, GraceEnds, ShowTerms
    <2>2. QED
      BY <1>1, <1>2, <1>3, <1>5, <2>1
  <1>6. ASSUME Next, NEW i \in Invoices, InvoiceNotSent(i)
        PROVE  TypeInv'
    <2>1. /\ UNCHANGED <<account, terms, charge, task, order, paid, granted, refund>>
          /\ lifecycle' \in Invoices \cup Transfers \cup {Free} /\ receiving' \subseteq Transfers
          /\ faults' \in 0..MaxFaults /\ restarts' \in 0..MaxRestarts
      BY <1>0, <1>6, CheckoutAssumption DEF TypeOK, InvoiceNotSent, Fault
    <2>2. QED
      BY <1>0, <1>2, <1>3, <1>6, <2>1
         DEF TypeInv, TypeOK, InvoiceType, OrderType, TaskInv, ChargeInv
  <1>7. ASSUME Next, NEW i \in Invoices, NEW c \in Charges, Precheckout(c, i)
        PROVE  TypeInv'
    <2>1. /\ charge' = [charge EXCEPT ![c] = [stage |-> "approved", inv |-> i]]
          /\ charge[c].stage = "none"
          /\ UNCHANGED <<account, terms, order, paid, granted, refund, task, lifecycle,
                         receiving, bounds>>
      BY <1>7 DEF Precheckout
    <2>2. QED
      BY <1>0, <1>2, <1>3, <1>7, <2>1
         DEF TypeInv, TypeOK, InvoiceType, OrderType, TaskInv, ChargeInv, bounds
  <1>8. ASSUME Next, NEW c \in Charges, TakeMoney(c)
        PROVE  TypeInv'
    BY <1>0, <1>2, <1>3, <1>8
       DEF TakeMoney, TypeInv, TypeOK, InvoiceType, OrderType, TaskInv, ChargeInv, bounds
  <1>9. ASSUME Next, NEW c \in Charges, NEW t \in Tasks, Deliver(t, c)
        PROVE  TypeInv'
    BY <1>0, <1>2, <1>3, <1>9
       DEF Deliver, TypeInv, TypeOK, InvoiceType, OrderType, TaskInv, ChargeInv, bounds, Pc
  <1>10. ASSUME Next, NEW t \in Tasks, PaymentStep(t) \/ PaymentFault(t)
         PROVE  TypeInv'
    BY <1>3, <1>10, PaymentType
  <1>11. ASSUME Next, NEW o \in Transfers, TransferStep(o)
         PROVE  TypeInv'
    <2>1. OrderType'
      BY <1>0, <1>11, TransferStepType
    <2>2. /\ UNCHANGED <<account, terms, charge, task>>
          /\ lifecycle' \in Invoices \cup Transfers \cup {Free} /\ receiving' \subseteq Transfers
      BY <1>0, <1>11 DEF TypeOK, TransferStep, StartTransfer, DetailsSent, DetailsNotSent,
           CancelOrder, CloseStale, ReceiveFile, AttachReceipt, FlagReview,
           RejectTransfer, CancelUnpaid,
           orderStep
    <2>3. faults' \in 0..MaxFaults /\ restarts' \in 0..MaxRestarts
      <3>1. CASE UNCHANGED bounds
        BY <1>0, <3>1 DEF TypeOK, bounds
      <3>2. CASE Fault
        BY <1>0, <3>2, CheckoutAssumption DEF TypeOK, Fault
      <3>3. QED
        BY <1>11, <3>1, <3>2 DEF TransferStep, StartTransfer, DetailsSent, DetailsNotSent,
           CancelOrder, CloseStale, ReceiveFile, AttachReceipt, FlagReview,
           RejectTransfer, CancelUnpaid,
           orderStep
    <2>4. QED
      BY <1>0, <1>3, <1>11, <2>1, <2>2, <2>3
         DEF TypeInv, TypeOK, InvoiceType, OrderType, TaskInv, ChargeInv
  <1>12. ASSUME Next, NEW o \in Orders, OrderStep(o)
         PROVE  TypeInv'
    <2>1. OrderType'
      BY <1>0, <1>12, OrderStepType
    <2>2. UNCHANGED <<account, terms, charge, task, lifecycle, receiving, bounds>>
      BY <1>12 DEF OrderStep, ConfirmPayment, FulfilOrder, SendAccess, CompleteOrder,
           ReportProblem, RefundOrder, SettleRefund, orderStep
    <2>3. QED
      BY <1>0, <1>1, <1>3, <1>12, <2>1, <2>2 DEF TypeOK
  <1>13. ASSUME Next, \/ \E to \in {"live", "blocked"} : SetBlocked(to)
                      \/ \E v \in Terms \cup {NoTerms} : EditProduct(v)
         PROVE  TypeInv'
    BY <1>0, <1>2, <1>3, <1>13
       DEF SetBlocked, EditProduct, TypeInv, TypeOK, InvoiceType, OrderType, TaskInv,
           ChargeInv, bounds
  <1>14. ASSUME Next, Erase
         PROVE  TypeInv'
    <2>1. OrderType'
      BY <1>0, <1>14 DEF Erase, TypeOK, OrderType, OrderStatus, PaidStatus
    <2>2. QED
      BY <1>0, <1>3, <1>14, <2>1
         DEF Erase, TypeInv, TypeOK, InvoiceType, OrderType, TaskInv, ChargeInv, bounds
  <1>15. ASSUME Next, Restart
         PROVE  TypeInv'
    <2>1. /\ faults' \in 0..MaxFaults /\ restarts' \in 0..MaxRestarts
          /\ task' \in [Tasks -> [pc : Pc, charge : Charges \cup {NoCharge}]] /\ TaskInv'
      BY <1>0, <1>15, CheckoutAssumption DEF Restart, TypeOK, TaskInv, Idle, Pc
    <2>2. QED
      BY <1>0, <1>2, <1>3, <1>15, <2>1
         DEF Restart, TypeInv, TypeOK, InvoiceType, OrderType, ChargeInv
  <1>16. QED
    BY <1>4, <1>5, <1>6, <1>7, <1>8, <1>9, <1>10, <1>11, <1>12, <1>13, <1>14, <1>15 DEF Next

-----------------------------------------------------------------------------
(* The money *)

\* Only pre-checkout and Telegram's charge write Telegram's side.
LEMMA ChargeFrame ==
    ASSUME Next
    PROVE  \/ UNCHANGED charge
           \/ \E d \in Charges : TakeMoney(d) \/ \E i \in Invoices : Precheckout(d, i)
  BY DEF Next, ShowTerms, ConfirmQuote, InvoiceSent, InvoiceNotSent, TtlEnds, GraceEnds,
     Deliver, PaymentStep, PaymentFault, CheckDuplicate, ReadInvoice, ReadOrders, Decide,
     Refuse, Fallback, Apply, ReadFails, RefuseFails, FallbackFails, ApplyFails,
     LookupFails, GiveUp,
     TransferStep, StartTransfer, DetailsSent, DetailsNotSent, CancelOrder, CloseStale,
     ReceiveFile, AttachReceipt, FlagReview, RejectTransfer, CancelUnpaid, OrderStep,
     ConfirmPayment, FulfilOrder, SendAccess, CompleteOrder, ReportProblem, RefundOrder,
     SettleRefund, orderStep, SetBlocked, Erase, EditProduct, Restart, worldVars

\* What every step does to the sale of a charge: nothing is unsold, and only
\* Decide sells.
LEMMA Sales ==
    ASSUME TypeInv, Next, NEW c \in Charges
    PROVE  /\ charge[c].stage # "none" => charge'[c].inv = charge[c].inv
           /\ charge[c].stage = "taken" => charge'[c] = charge[c]
           /\ order[c] # "absent" => order'[c] # "absent"
           /\ order[c] = "absent" /\ order'[c] # "absent" =>
                \E t \in Tasks :
                   /\ Decide(t) /\ task[t].charge = c
                   /\ charge[c].stage = "taken"
                   /\ invoice[charge[c].inv].status = "pending"
                   /\ invoice'[charge[c].inv].status = "paid"
                   /\ order' = [order EXCEPT ![c] = "paid"]
                   /\ ~OpenOrder /\ granted' = granted
  <1> USE DEF worldVars, orderVars
  <1>0. TypeOK /\ c \in Orders /\ c \notin Transfers
    BY CheckoutAssumption DEF TypeInv, Orders
  <1>1. /\ charge[c].stage # "none" => charge'[c].inv = charge[c].inv
        /\ charge[c].stage = "taken" => charge'[c] = charge[c]
    <2>1. CASE UNCHANGED charge
      BY <2>1
    <2>2. ASSUME NEW d \in Charges, NEW i \in Invoices, Precheckout(d, i)
          PROVE  \/ charge'[c] = charge[c]
                 \/ charge[c].stage = "none"
      BY <1>0, <2>2 DEF Precheckout, TypeOK
    <2>3. ASSUME NEW d \in Charges, TakeMoney(d)
          PROVE  \/ charge'[c] = charge[c]
                 \/ charge[c].stage = "approved" /\ charge'[c].inv = charge[c].inv
      BY <1>0, <2>3 DEF TakeMoney, TypeOK
    <2>4. QED
      BY <2>1, <2>2, <2>3, ChargeFrame
  <1>2. CASE order'[c] = order[c]
    BY <1>1, <1>2
  <1>3. ASSUME NEW t \in Tasks, Decide(t), order'[c] # order[c]
        PROVE  /\ order[c] = "absent" /\ order'[c] = "paid"
               /\ task[t].pc = "decide" /\ task[t].charge = c
               /\ charge[c].stage = "taken"
               /\ invoice[charge[c].inv].status = "pending"
               /\ invoice'[charge[c].inv].status = "paid"
               /\ order' = [order EXCEPT ![c] = "paid"]
               /\ ~OpenOrder /\ granted' = granted
    <2>1. /\ task[t].pc = "decide"
          /\ order' = [order EXCEPT ![task[t].charge] = "paid"] /\ order[task[t].charge] = "absent"
          /\ invoice' = [invoice EXCEPT ![charge[task[t].charge].inv].status = "paid"]
          /\ invoice[charge[task[t].charge].inv].status = "pending"
          /\ ~OpenOrder /\ granted' = granted
      BY <1>3 DEF Decide, ChargeOf, InvoiceOf, Payable
    <2>2. task[t].charge = c
      BY <1>0, <1>3, <2>1 DEF TypeOK
    <2>3. charge[c].stage = "taken" /\ charge[c].inv \in Invoices
      BY <2>1, <2>2, TaskFacts
    <2>4. QED
      BY <1>0, <2>1, <2>2, <2>3 DEF TypeOK, Invoice
  <1>4. ASSUME NEW o \in Orders, NEW from, NEW to \in OrderStatus \ {"absent"},
               Claim(o, from, to), "absent" \notin from
        PROVE  order'[c] = order[c] \/ (order[c] # "absent" /\ order'[c] # "absent")
    BY <1>0, <1>4, ClaimType
  <1>5. ASSUME NEW o \in Orders, OrderStep(o)
        PROVE  order'[c] = order[c] \/ (order[c] # "absent" /\ order'[c] # "absent")
    <2>1. CASE ConfirmPayment(o)
      BY <1>4, <2>1 DEF ConfirmPayment, OrderStatus
    <2>2. CASE FulfilOrder(o)
      BY <1>4, <2>2 DEF FulfilOrder, OrderStatus
    <2>3. CASE SendAccess(o)
      BY <1>4, <2>3 DEF SendAccess, OrderStatus
    <2>4. CASE CompleteOrder(o)
      BY <1>4, <2>4 DEF CompleteOrder, OrderStatus
    <2>5. CASE ReportProblem(o)
      BY <1>4, <2>5 DEF ReportProblem, OrderStatus
    <2>6. CASE RefundOrder(o)
      BY <1>4, <2>6 DEF RefundOrder, OrderStatus
    <2>7. CASE SettleRefund(o)
      BY <1>0, <2>7 DEF SettleRefund, TypeOK
    <2>8. QED
      BY <1>5, <2>1, <2>2, <2>3, <2>4, <2>5, <2>6, <2>7 DEF OrderStep
  <1>6. ASSUME NEW o \in Transfers, TransferStep(o)
        PROVE  order'[c] = order[c]
    BY <1>0, <1>6 DEF TransferStep, StartTransfer, DetailsSent, DetailsNotSent,
           CancelOrder, CloseStale, ReceiveFile, AttachReceipt, FlagReview,
           RejectTransfer, CancelUnpaid,
           orderStep, Claim, TypeOK
  <1>7. CASE Erase
    BY <1>0, <1>1, <1>7 DEF Erase, TypeOK
  <1>8. ASSUME NEW t \in Tasks, PaymentStep(t) \/ PaymentFault(t), ~Decide(t)
        PROVE  order' = order
    BY <1>8 DEF PaymentStep, PaymentFault, CheckDuplicate, ReadInvoice, ReadOrders, Decide,
         Refuse, Fallback, Apply, ReadFails, RefuseFails, FallbackFails, ApplyFails,
         LookupFails, GiveUp
  <1>9. ASSUME \/ \E i \in Invoices :
                    \/ \E v \in Terms : ShowTerms(i, v)
                    \/ ConfirmQuote(i) \/ InvoiceSent(i) \/ InvoiceNotSent(i)
                    \/ \E d \in Charges : Precheckout(d, i)
                    \/ TtlEnds(i) \/ GraceEnds(i)
               \/ \E d \in Charges : TakeMoney(d) \/ \E t \in Tasks : Deliver(t, d)
               \/ \E to \in {"live", "blocked"} : SetBlocked(to)
               \/ \E v \in Terms \cup {NoTerms} : EditProduct(v)
               \/ Restart
        PROVE  order' = order
    BY <1>9 DEF ShowTerms, ConfirmQuote, InvoiceSent, InvoiceNotSent, Precheckout, TtlEnds,
         GraceEnds, TakeMoney, Deliver, SetBlocked, EditProduct, Restart
  <1>10. \/ order'[c] = order[c]
         \/ order[c] # "absent" /\ order'[c] # "absent"
         \/ \E t \in Tasks : Decide(t)
    BY <1>0, <1>5, <1>6, <1>7, <1>8, <1>9 DEF Next, Erase, TypeOK
  <1>11. QED
    BY <1>1, <1>2, <1>3, <1>10

\* The paid status of a row is final, so an invoice is claimed by one charge.
LEMMA SoldStep ==
    ASSUME TypeInv, SoldInv, OneOrderPerInvoice, Next
    PROVE  SoldInv' /\ OneOrderPerInvoice'
  <1>1. ASSUME NEW c \in Charges, order[c] # "absent"
        PROVE  charge'[c] = charge[c] /\ charge[c].inv \in Invoices
               /\ charge[c].stage = "taken" /\ invoice[charge[c].inv].status = "paid"
    BY <1>1, Sales DEF SoldInv, TypeInv, ChargeInv
  <1>2. ASSUME NEW i \in Invoices, invoice[i].status = "paid"
        PROVE  invoice'[i].status = "paid"
    BY <1>2, Rows DEF RowStep
  <1>3. ASSUME NEW c \in Charges, order[c] = "absent", order'[c] # "absent"
        PROVE  /\ charge'[c] = charge[c] /\ charge[c].stage = "taken"
               /\ invoice[charge[c].inv].status = "pending"
               /\ invoice'[charge[c].inv].status = "paid"
               /\ order' = [order EXCEPT ![c] = "paid"]
    BY <1>3, Sales
  <1>4. SoldInv'
    BY <1>1, <1>2, <1>3 DEF SoldInv
  <1>5. ASSUME NEW c \in Charges, NEW d \in Charges, order'[c] # "absent", order'[d] # "absent",
               charge'[c].inv = charge'[d].inv
        PROVE  c = d
    <2>1. CASE order[c] # "absent" /\ order[d] # "absent"
      BY <1>1, <1>5, <2>1 DEF OneOrderPerInvoice
    <2>2. CASE order[c] = "absent" /\ order[d] # "absent"
      BY <1>1, <1>3, <1>5, <2>2
    <2>3. CASE order[c] # "absent" /\ order[d] = "absent"
      BY <1>1, <1>3, <1>5, <2>3
    <2>4. CASE order[c] = "absent" /\ order[d] = "absent"
      <3>1. order' = [order EXCEPT ![c] = "paid"] /\ d \in Orders
        BY <1>3, <1>5, <2>4 DEF Orders
      <3>2. QED
        BY <1>5, <2>4, <3>1 DEF TypeInv, TypeOK
    <2>5. QED
      BY <2>1, <2>2, <2>3, <2>4
  <1>6. QED
    BY <1>4, <1>5 DEF OneOrderPerInvoice

-----------------------------------------------------------------------------
(* Which actions write what *)

LEMMA Frames ==
    ASSUME Next
    PROVE  /\ \/ UNCHANGED task
              \/ Restart
              \/ \E t \in Tasks : PaymentStep(t) \/ PaymentFault(t)
              \/ \E t \in Tasks, c \in Charges : Deliver(t, c)
           /\ \/ UNCHANGED <<order, granted>>
              \/ Erase
              \/ \E t \in Tasks : Decide(t) \/ Apply(t)
              \/ \E o \in Transfers : TransferStep(o)
              \/ \E o \in Orders : OrderStep(o)
           /\ \/ UNCHANGED refund
              \/ \E t \in Tasks : Refuse(t) \/ Fallback(t) \/ FallbackFails(t)
              \/ \E o \in Orders : RefundOrder(o) \/ SettleRefund(o)
  <1> USE DEF worldVars, orderVars
  <1>1. ASSUME \/ \E i \in Invoices :
                    \/ \E v \in Terms : ShowTerms(i, v)
                    \/ ConfirmQuote(i) \/ InvoiceSent(i) \/ InvoiceNotSent(i)
                    \/ \E d \in Charges : Precheckout(d, i)
                    \/ TtlEnds(i) \/ GraceEnds(i)
               \/ \E d \in Charges : TakeMoney(d)
               \/ \E to \in {"live", "blocked"} : SetBlocked(to)
               \/ \E v \in Terms \cup {NoTerms} : EditProduct(v)
        PROVE  UNCHANGED <<task, order, granted, refund>>
    BY <1>1 DEF ShowTerms, ConfirmQuote, InvoiceSent, InvoiceNotSent, Precheckout, TtlEnds,
         GraceEnds, TakeMoney, SetBlocked, EditProduct
  <1>2. ASSUME Restart PROVE UNCHANGED <<order, granted, refund>>
    BY <1>2 DEF Restart
  <1>3. ASSUME Erase PROVE UNCHANGED <<task, refund>>
    BY <1>3 DEF Erase
  <1>4. ASSUME NEW t \in Tasks, NEW c \in Charges, Deliver(t, c)
        PROVE  UNCHANGED <<order, granted, refund>>
    BY <1>4 DEF Deliver
  <1>5. ASSUME NEW o \in Transfers, TransferStep(o)
        PROVE  UNCHANGED <<task, refund>>
    BY <1>5 DEF TransferStep, StartTransfer, DetailsSent, DetailsNotSent, CancelOrder,
         CloseStale, ReceiveFile, AttachReceipt, FlagReview,
         RejectTransfer, CancelUnpaid, orderStep
  <1>6. ASSUME NEW o \in Orders, OrderStep(o)
        PROVE  UNCHANGED task /\ (UNCHANGED refund \/ RefundOrder(o) \/ SettleRefund(o))
    BY <1>6 DEF OrderStep, ConfirmPayment, FulfilOrder, SendAccess, CompleteOrder,
         ReportProblem, RefundOrder, SettleRefund, orderStep
  <1>7. ASSUME NEW t \in Tasks, PaymentStep(t) \/ PaymentFault(t)
        PROVE  /\ UNCHANGED <<order, granted>> \/ Decide(t) \/ Apply(t)
               /\ UNCHANGED refund \/ Refuse(t) \/ Fallback(t) \/ FallbackFails(t)
    BY <1>7 DEF PaymentStep, PaymentFault, CheckDuplicate, ReadInvoice, ReadOrders, Decide,
         Refuse, Fallback, Apply, ReadFails, RefuseFails, FallbackFails, ApplyFails,
         LookupFails, GiveUp
  <1>8. QED
    BY <1>1, <1>2, <1>3, <1>4, <1>5, <1>6, <1>7 DEF Next

-----------------------------------------------------------------------------
(* One checkout at a time *)

\* An order comes to be asked for, or sold, only while none is open.
LEMMA AskingStep ==
    ASSUME TypeInv, Next
    PROVE  \/ \A p \in Orders : Asking(p)' => Asking(p)
           \/ /\ ~OpenOrder /\ UNCHANGED granted
              /\ \E o \in Orders, s \in OrderStatus : order' = [order EXCEPT ![o] = s]
  <1> USE DEF worldVars, orderVars
  <1>0. TypeOK /\ Charges \cap Transfers = {}
    BY CheckoutAssumption DEF TypeInv
  <1>1. CASE UNCHANGED <<order, granted>>
    BY <1>1 DEF Asking
  <1>2. CASE Erase
    BY <1>0, <1>2 DEF Erase, Asking, TypeOK
  <1>3. ASSUME NEW t \in Tasks, Decide(t) \/ Apply(t), ~UNCHANGED <<order, granted>>
        PROVE  \/ \A p \in Orders : Asking(p)' => Asking(p)
               \/ /\ ~OpenOrder /\ UNCHANGED granted
                  /\ \E o \in Orders, s \in OrderStatus : order' = [order EXCEPT ![o] = s]
    <2>1. CASE Apply(t)
      BY <2>1 DEF Apply, Asking
    <2>2. CASE Decide(t)
      <3>1. task[t].charge \in Orders
        BY <2>2, TaskFacts DEF Decide
      <3>2. QED
        BY <1>3, <2>2, <3>1 DEF Decide, ChargeOf, OrderStatus
    <2>3. QED
      BY <1>3, <2>1, <2>2
  <1>4. ASSUME NEW o \in Orders, NEW from, NEW to \in OrderStatus, Claim(o, from, to),
               granted \subseteq granted',
               \/ to \notin {"pending_receipt", "pending_review", "paid", "problem"}
               \/ to # "pending_receipt" /\ o \notin Charges
               \/ to \notin {"pending_receipt", "paid"} /\ o \in granted'
               \/ /\ to # "pending_receipt" /\ o \notin granted
                  /\ from \subseteq {"pending_review", "paid", "problem"}
        PROVE  \A p \in Orders : Asking(p)' => Asking(p)
    <2>1. \A p \in Orders : order'[p] = IF p = o THEN to ELSE order[p]
      BY <1>0, <1>4 DEF Claim, TypeOK
    <2>2. ASSUME Asking(o)' PROVE Asking(o)
      BY <1>4, <2>1, <2>2 DEF Claim, Asking
    <2>3. \A p \in Orders \ {o} : Asking(p)' => Asking(p)
      BY <1>4, <2>1 DEF Asking
    <2>4. QED
      BY <2>2, <2>3
  <1>5. ASSUME NEW o \in Transfers, TransferStep(o)
        PROVE  \/ \A p \in Orders : Asking(p)' => Asking(p)
               \/ /\ ~OpenOrder /\ UNCHANGED granted
                  /\ \E q \in Orders, s \in OrderStatus : order' = [order EXCEPT ![q] = s]
    <2>. USE DEF orderStep, OrderStatus
    <2>0. o \in Orders /\ o \notin Charges
      BY <1>0 DEF Orders
    <2>1. CASE StartTransfer(o)
      BY <2>0, <2>1 DEF StartTransfer
    <2>2. CASE DetailsSent(o) \/ ReceiveFile(o)
      BY <1>1, <2>2 DEF DetailsSent, ReceiveFile
    <2>3. CASE DetailsNotSent(o)
      BY <1>1, <1>4, <2>0, <2>3 DEF DetailsNotSent
    <2>4. CASE CancelOrder(o)
      BY <1>4, <2>0, <2>4 DEF CancelOrder
    <2>5. CASE CloseStale(o)
      BY <1>4, <2>0, <2>5 DEF CloseStale
    <2>6. CASE AttachReceipt(o)
      BY <1>1, <1>4, <2>0, <2>6 DEF AttachReceipt
    <2>7. CASE FlagReview(o)
      BY <1>4, <2>0, <2>7 DEF FlagReview
    <2>8. CASE RejectTransfer(o)
      BY <1>4, <2>0, <2>8 DEF RejectTransfer
    <2>9. CASE CancelUnpaid(o)
      BY <1>4, <2>0, <2>9 DEF CancelUnpaid
    <2>10. QED
      BY <1>5, <2>1, <2>2, <2>3, <2>4, <2>5, <2>6, <2>7, <2>8, <2>9 DEF TransferStep
  <1>6. ASSUME NEW o \in Orders, OrderStep(o)
        PROVE  \A p \in Orders : Asking(p)' => Asking(p)
    <2>. USE DEF orderStep, OrderStatus
    <2>1. CASE ConfirmPayment(o)
      BY <1>4, <2>1 DEF ConfirmPayment
    <2>2. CASE FulfilOrder(o)
      BY <1>0, <1>4, <2>2 DEF FulfilOrder, Asking
    <2>3. CASE SendAccess(o)
      BY <1>4, <2>3 DEF SendAccess
    <2>4. CASE CompleteOrder(o)
      BY <1>4, <2>4 DEF CompleteOrder
    <2>5. CASE ReportProblem(o)
      BY <1>4, <2>5 DEF ReportProblem
    <2>6. CASE RefundOrder(o)
      BY <1>4, <2>6 DEF RefundOrder
    <2>7. CASE SettleRefund(o)
      BY <1>0, <2>7 DEF SettleRefund, Asking, TypeOK
    <2>8. QED
      BY <1>6, <2>1, <2>2, <2>3, <2>4, <2>5, <2>6, <2>7 DEF OrderStep
  <1>7. QED
    BY <1>1, <1>2, <1>3, <1>5, <1>6, Frames

LEMMA AloneStep ==
    ASSUME TypeInv, Alone, Next
    PROVE  Alone'
  <1>1. CASE \A p \in Orders : Asking(p)' => Asking(p)
    BY <1>1 DEF Alone
  <1>2. ASSUME ~OpenOrder, UNCHANGED granted, NEW o \in Orders, NEW s \in OrderStatus,
               order' = [order EXCEPT ![o] = s]
        PROVE  Alone'
    <2>1. \A p \in Orders \ {o} : ~Asking(p)'
      BY <1>2 DEF OpenOrder, Asking, Blocking, TypeInv, TypeOK
    <2>2. QED
      BY <2>1 DEF Alone
  <1>3. QED
    BY <1>1, <1>2, AskingStep

-----------------------------------------------------------------------------
(* One way to pay *)

\* A row becomes payable only when its quote is confirmed.
LEMMA PayableStep ==
    ASSUME TypeInv, Next
    PROVE  \/ \A k \in Invoices : Payable(invoice[k])' => Payable(invoice[k])
           \/ ~OpenOrder /\ UNCHANGED order
  <1> USE DEF worldVars, orderVars
  <1>0. invoice \in [Invoices -> Invoice]
    BY DEF TypeInv, TypeOK
  <1>1. CASE UNCHANGED invoice
    BY <1>1 DEF Payable, Live
  <1>2. ASSUME NEW inv \in [Invoices -> Invoice], NEW j \in Invoices, NEW v \in Terms,
               inv[j].status = "absent"
        PROVE  \A k \in Invoices : Payable(WithQuote(inv, j, v)[k]) => Payable(inv[k])
    <2>1. \A k \in Invoices :
             \/ WithQuote(inv, j, v)[k] = inv[k]
             \/ WithQuote(inv, j, v)[k].status \in {"cancelled", "quote"}
      BY <1>2, QuoteType
    <2>2. QED
      BY <2>1 DEF Payable
  <1>3. ASSUME NEW i \in Invoices, NEW v \in Invoice, invoice' = [invoice EXCEPT ![i] = v],
               Payable(v) => Payable(invoice[i])
        PROVE  \A k \in Invoices : Payable(invoice[k])' => Payable(invoice[k])
    BY <1>0, <1>3 DEF Payable, Live
  <1>4. ASSUME NEW i \in Invoices, NEW v \in Terms, ShowTerms(i, v)
        PROVE  \A k \in Invoices : Payable(invoice[k])' => Payable(invoice[k])
    <2>1. invoice[i].status = "absent" /\ invoice' = WithQuote(invoice, i, v)
      BY <1>4 DEF ShowTerms
    <2>2. \A k \in Invoices : Payable(WithQuote(invoice, i, v)[k]) => Payable(invoice[k])
      BY <1>0, <1>2, <2>1
    <2>3. QED
      BY <2>1, <2>2 DEF Payable, Live
  <1>5. ASSUME NEW i \in Invoices, ConfirmQuote(i)
        PROVE  \/ \A k \in Invoices : Payable(invoice[k])' => Payable(invoice[k])
               \/ ~OpenOrder /\ UNCHANGED order
    <2>1. CASE invoice' = [invoice EXCEPT ![i] = Cancel(@)]
      BY <1>0, <1>3, <2>1, RowShape DEF Payable
    <2>2. ASSUME NEW j \in Invoices, invoice[j].status = "absent", terms \in Terms,
                 invoice' = WithQuote([invoice EXCEPT ![i] = Cancel(@)], j, terms)
          PROVE  \A k \in Invoices : Payable(invoice[k])' => Payable(invoice[k])
      <3> DEFINE inv == [invoice EXCEPT ![i] = Cancel(@)]
      <3>1. inv \in [Invoices -> Invoice] /\ inv[i].status = "cancelled"
        BY <1>0, RowUpdates, RowShape DEF InvoiceType
      <3>2. \A k \in Invoices \ {i} : inv[k] = invoice[k]
        BY <1>0
      <3>3. invoice[i].status = "quote" /\ invoice' = WithQuote(inv, j, terms)
        BY <1>5, <2>2 DEF ConfirmQuote
      <3>. HIDE DEF inv
      <3>4. inv[j].status = "absent"
        BY <2>2, <3>2, <3>3
      <3>5. \A k \in Invoices : Payable(WithQuote(inv, j, terms)[k]) => Payable(inv[k])
        BY <1>2, <2>2, <3>1, <3>4
      <3>6. \A k \in Invoices : Payable(inv[k]) => Payable(invoice[k])
        BY <3>1, <3>2 DEF Payable
      <3>7. QED
        BY <3>3, <3>5, <3>6 DEF Payable, Live
    <2>3. QED
      BY <1>5, <2>1, <2>2 DEF ConfirmQuote
  <1>6. ASSUME NEW i \in Invoices,
               \/ InvoiceSent(i) \/ InvoiceNotSent(i) \/ TtlEnds(i) \/ GraceEnds(i)
               \/ \E c \in Charges : Precheckout(c, i)
        PROVE  \A k \in Invoices : Payable(invoice[k])' => Payable(invoice[k])
    <2>1. PICK v \in Invoice : /\ invoice' = [invoice EXCEPT ![i] = v]
                               /\ Payable(v) => Payable(invoice[i])
      <3>1. CASE InvoiceSent(i)
        <4>1. [invoice[i] EXCEPT !.sent = TRUE] \in Invoice
          BY <1>0 DEF Invoice
        <4>2. QED
          BY <1>0, <3>1, <4>1 DEF InvoiceSent, Payable, Live, Invoice
      <3>2. ASSUME InvoiceNotSent(i), NEW sent \in BOOLEAN,
                   invoice' = [invoice EXCEPT ![i] = [Unpayable(@) EXCEPT !.sent = sent]]
            PROVE  \E v \in Invoice : /\ invoice' = [invoice EXCEPT ![i] = v]
                                      /\ Payable(v) => Payable(invoice[i])
        <4>1. /\ [Unpayable(invoice[i]) EXCEPT !.sent = sent] \in Invoice
              /\ [Unpayable(invoice[i]) EXCEPT !.sent = sent].status # "pending"
          BY <1>0 DEF Unpayable, Cancel, Invoice
        <4>2. QED
          BY <3>2, <4>1 DEF Payable
      <3>3. CASE TtlEnds(i)
        <4>1. [invoice[i] EXCEPT !.fresh = FALSE] \in Invoice
          BY <1>0 DEF Invoice
        <4>2. QED
          BY <1>0, <3>3, <4>1 DEF TtlEnds, Payable, Live, Invoice
      <3>4. CASE GraceEnds(i)
        <4>1. [invoice[i] EXCEPT !.approval = "lapsed"] \in Invoice
          BY <1>0 DEF Invoice
        <4>2. QED
          BY <1>0, <3>4, <4>1 DEF GraceEnds, Payable, Live, Invoice
      <3>5. ASSUME NEW c \in Charges, Precheckout(c, i)
            PROVE  \E v \in Invoice : /\ invoice' = [invoice EXCEPT ![i] = v]
                                      /\ Payable(v) => Payable(invoice[i])
        <4>1. [invoice[i] EXCEPT !.approval = "live"] \in Invoice
          BY <1>0 DEF Invoice
        <4>2. QED
          BY <1>0, <3>5, <4>1 DEF Precheckout
      <3>6. QED
        BY <1>6, <3>1, <3>2, <3>3, <3>4, <3>5 DEF InvoiceNotSent
    <2>2. QED
      BY <1>3, <2>1
  <1>7. ASSUME NEW t \in Tasks, PaymentStep(t) \/ PaymentFault(t)
        PROVE  \A k \in Invoices : Payable(invoice[k])' => Payable(invoice[k])
    <2>1. CASE Decide(t) /\ ~UNCHANGED invoice
      <3>1. charge[task[t].charge].inv \in Invoices
        BY <2>1, TaskFacts DEF Decide
      <3>2. QED
        BY <1>0, <2>1, <3>1 DEF Decide, InvoiceOf, ChargeOf, Payable, Live, Invoice
    <2>2. ASSUME NEW i \in Invoices, CloseInvoice(i)
          PROVE  \A k \in Invoices : Payable(invoice[k])' => Payable(invoice[k])
      BY <1>0, <2>2, RowShape DEF CloseInvoice, Unpayable, Payable, Live
    <2>3. CASE Refuse(t) \/ RefuseFails(t)
      BY <1>1, <2>2, <2>3, TaskFacts DEF Refuse, RefuseFails, InvoiceOf
    <2>4. CASE ~Decide(t) /\ ~Refuse(t) /\ ~RefuseFails(t)
      BY <1>1, <1>7, <2>4 DEF PaymentStep, PaymentFault, CheckDuplicate, ReadInvoice,
           ReadOrders, Fallback, Apply, ReadFails, FallbackFails, ApplyFails,
           LookupFails, GiveUp
    <2>5. QED
      BY <1>1, <2>1, <2>3, <2>4
  <1>8. CASE Erase
    BY <1>0, <1>8, RowShape DEF Erase, Payable, Live
  <1>9. CASE Restart
    BY <1>0, <1>1, <1>9 DEF Restart, Payable, Live, Invoice
  <1>10. ASSUME NEW o \in Transfers, TransferStep(o) PROVE UNCHANGED invoice
    BY <1>10 DEF TransferStep, StartTransfer, DetailsSent, DetailsNotSent, CancelOrder,
         CloseStale, ReceiveFile, AttachReceipt, FlagReview,
         RejectTransfer, CancelUnpaid, orderStep
  <1>11. ASSUME NEW o \in Orders, OrderStep(o) PROVE UNCHANGED invoice
    BY <1>11 DEF OrderStep, ConfirmPayment, FulfilOrder, SendAccess, CompleteOrder,
         ReportProblem, RefundOrder, SettleRefund, orderStep
  <1>12. ASSUME \/ \E c \in Charges : TakeMoney(c) \/ \E t \in Tasks : Deliver(t, c)
                \/ \E to \in {"live", "blocked"} : SetBlocked(to)
                \/ \E v \in Terms \cup {NoTerms} : EditProduct(v)
         PROVE  UNCHANGED invoice
    BY <1>12 DEF TakeMoney, Deliver, SetBlocked, EditProduct
  <1>13. QED
    BY <1>1, <1>4, <1>5, <1>6, <1>7, <1>8, <1>9, <1>10, <1>11, <1>12 DEF Next

\* A transfer opens only while no row is payable.
LEMMA ReceiptStep ==
    ASSUME TypeInv, Next, NEW o \in Transfers, order'[o] = "pending_receipt"
    PROVE  \/ order[o] = "pending_receipt"
           \/ UNCHANGED invoice /\ \A k \in Invoices : ~Payable(invoice[k])
  <1> USE DEF worldVars, orderVars
  <1>0. TypeOK /\ o \in Orders /\ o \notin Charges
    BY CheckoutAssumption DEF TypeInv, Orders
  <1>1. CASE order'[o] = order[o]
    BY <1>1
  <1>2. CASE Erase
    BY <1>0, <1>2 DEF Erase, TypeOK
  <1>3. ASSUME NEW t \in Tasks, Decide(t) \/ Apply(t), order'[o] # order[o]
        PROVE  FALSE
    BY <1>0, <1>3 DEF Decide, Apply, TypeOK
  <1>4. ASSUME NEW p \in Transfers, TransferStep(p), order'[o] # order[o]
        PROVE  UNCHANGED invoice /\ \A k \in Invoices : ~Payable(invoice[k])
    BY <1>0, <1>4 DEF TransferStep, StartTransfer, DetailsSent, DetailsNotSent, CancelOrder,
         CloseStale, ReceiveFile, AttachReceipt, FlagReview,
         RejectTransfer, CancelUnpaid, orderStep, Claim,
         TypeOK
  <1>5. ASSUME NEW p \in Orders, OrderStep(p), order'[o] # order[o]
        PROVE  FALSE
    BY <1>0, <1>5 DEF OrderStep, ConfirmPayment, FulfilOrder, SendAccess, CompleteOrder,
         ReportProblem, RefundOrder, SettleRefund, orderStep, Claim, TypeOK
  <1>6. QED
    BY <1>1, <1>2, <1>3, <1>4, <1>5, Frames

LEMMA OneWayStep ==
    ASSUME TypeInv, OneWayToPay, Next
    PROVE  OneWayToPay'
  <1> SUFFICES ASSUME NEW i \in Invoices, Payable(invoice[i])',
                      NEW o \in Transfers, order'[o] = "pending_receipt"
               PROVE  FALSE
    BY DEF OneWayToPay
  <1>1. CASE order[o] = "pending_receipt"
    <2>1. o \in Orders /\ ~Payable(invoice[i])
      BY <1>1 DEF OneWayToPay, Orders
    <2>2. ~OpenOrder
      BY <2>1, PayableStep
    <2>3. QED
      BY <1>1, <2>1, <2>2 DEF OpenOrder, Blocking
  <1>2. CASE UNCHANGED invoice /\ \A k \in Invoices : ~Payable(invoice[k])
    BY <1>2 DEF Payable, Live
  <1>3. QED
    BY <1>1, <1>2, ReceiptStep

-----------------------------------------------------------------------------
(* A charge is judged once *)

LEMMA SentStep ==
    ASSUME TypeInv, SentInv, Next
    PROVE  SentInv'
  <1> SUFFICES ASSUME NEW c \in Charges, charge'[c].stage # "none"
               PROVE  invoice'[charge'[c].inv].status \in {"pending", "paid", "cancelled"}
    BY DEF SentInv
  <1>1. CASE charge[c].stage # "none"
    <2>1. /\ charge'[c].inv = charge[c].inv /\ charge[c].inv \in Invoices
          /\ invoice[charge[c].inv].status \in {"pending", "paid", "cancelled"}
      BY <1>1, Sales DEF TypeInv, ChargeInv, SentInv
    <2>2. QED
      BY <2>1, Rows DEF RowStep
  <1>2. CASE charge[c].stage = "none"
    <2>1. PICK i \in Invoices : Precheckout(c, i)
      BY <1>2, ChargeFrame DEF TakeMoney, Precheckout, TypeInv, TypeOK
    <2>2. charge'[c].inv = i /\ invoice[i].status = "pending"
      BY <2>1 DEF Precheckout, Payable, TypeInv, TypeOK
    <2>3. invoice'[i].status = "pending"
      BY <2>1, <2>2 DEF Precheckout, TypeInv, TypeOK, Invoice
    <2>4. QED
      BY <2>2, <2>3
  <1>3. QED
    BY <1>1, <1>2

LEMMA TaskStep ==
    ASSUME TypeInv, OneTask, Next
    PROVE  OneTask'
  <1>0. TypeOK /\ NoCharge \notin Charges
    BY CheckoutAssumption DEF TypeInv
  <1>1. ASSUME \A t \in Tasks : task'[t].charge \in Charges => task'[t].charge = task[t].charge
        PROVE  OneTask'
    BY <1>1 DEF OneTask
  <1>2. CASE Restart
    BY <1>0, <1>1, <1>2 DEF Restart, Idle
  <1>3. ASSUME NEW t \in Tasks, PaymentStep(t) \/ PaymentFault(t)
        PROVE  OneTask'
    BY <1>0, <1>1, <1>3 DEF PaymentStep, PaymentFault, CheckDuplicate, ReadInvoice, ReadOrders,
         Decide, Refuse, Fallback, Apply, ReadFails, RefuseFails, FallbackFails, ApplyFails,
         LookupFails, GiveUp,
         Goto, Finish, Idle, TypeOK
  <1>4. ASSUME NEW t \in Tasks, NEW c \in Charges, Deliver(t, c)
        PROVE  OneTask'
    BY <1>0, <1>4 DEF Deliver, OneTask, TypeOK
  <1>5. QED
    BY <1>1, <1>2, <1>3, <1>4, Frames

\* What one step does to a task that judges a charge.
LEMMA JudgingStep ==
    ASSUME TypeInv, Next, NEW t \in Tasks, task'[t].pc \in Judging
    PROVE  /\ task[t].pc # "idle" /\ task'[t].charge = task[t].charge
           /\ task[t].pc \in Judging \/ order[task[t].charge] = "absent"
           /\ Decide(t) => UNCHANGED order
           /\ task'[t].pc = "fallback" =>
                \/ task[t].pc = "fallback"
                \/ CloseInvoice(charge[task[t].charge].inv) \/ CloseMayFail
  <1> USE DEF worldVars, orderVars
  <1>0. TypeOK /\ TaskInv
    BY DEF TypeInv
  <1>1. CASE task'[t] = task[t] /\ ~Decide(t)
    BY <1>0, <1>1 DEF Judging
  <1>2. CASE Restart
    BY <1>0, <1>2 DEF Restart, Idle, Judging
  <1>3. ASSUME NEW u \in Tasks, NEW c \in Charges, Deliver(u, c)
        PROVE  task'[t] = task[t] /\ ~Decide(t)
    <2>1. task'[t] = task[t]
      BY <1>0, <1>3 DEF Deliver, Judging, TypeOK
    <2>2. ~Decide(t)
      BY <1>0, <1>3, <2>1 DEF Deliver, Decide, Goto, Finish, Idle, TypeOK, TaskInv
    <2>3. QED
      BY <2>1, <2>2
  <1>4. ASSUME NEW u \in Tasks \ {t}, PaymentStep(u) \/ PaymentFault(u)
        PROVE  task'[t] = task[t]
    BY <1>0, <1>4 DEF PaymentStep, PaymentFault, CheckDuplicate, ReadInvoice, ReadOrders,
         Decide, Refuse, Fallback, Apply, ReadFails, RefuseFails, FallbackFails, ApplyFails,
         LookupFails, GiveUp,
         Goto, Finish, TypeOK
  <1>5. task[t].pc = "decide" /\ task'[t] = task[t] => ~Decide(t)
    BY <1>0 DEF Decide, Goto, Finish, Idle, TypeOK
  <1>6. CASE PaymentStep(t) \/ PaymentFault(t)
    <2>1. CASE CheckDuplicate(t) \/ ReadInvoice(t) \/ ReadOrders(t)
      BY <1>0, <2>1 DEF CheckDuplicate, ReadInvoice, ReadOrders, Decide, ChargeOf, Goto, Finish,
           Idle, Judging, TypeOK
    <2>2. CASE Decide(t)
      BY <1>0, <2>2 DEF Decide, ChargeOf, Goto, Finish, Idle, Judging, TypeOK
    <2>3. CASE Refuse(t) \/ Fallback(t) \/ Apply(t) \/ FallbackFails(t) \/ ApplyFails(t)
      BY <1>0, <2>3 DEF Refuse, Fallback, Apply, FallbackFails, ApplyFails, Finish, Idle,
           Goto, Judging, TypeOK
    <2>4. CASE ReadFails(t) \/ LookupFails(t) \/ GiveUp(t)
      BY <1>0, <2>4 DEF ReadFails, LookupFails, GiveUp, Goto, Finish, Idle, Judging, TypeOK
    <2>5. CASE RefuseFails(t)
      BY <1>0, <2>5 DEF RefuseFails, InvoiceOf, Decide, Goto, Judging, TypeOK
    <2>6. QED
      BY <1>6, <2>1, <2>2, <2>3, <2>4, <2>5 DEF PaymentStep, PaymentFault
  <1>7. QED
    BY <1>1, <1>2, <1>3, <1>4, <1>5, <1>6, Frames DEF Decide

\* Who writes the obligation of a charge.
LEMMA OweStep ==
    ASSUME TypeInv, Next, NEW c \in Charges, refund[c] = "none", refund'[c] # "none"
    PROVE  \/ /\ order[c] # "absent" /\ order'[c] = "refund_pending"
           \/ \E t \in Tasks :
                /\ task[t].pc \in {"refuse", "fallback"} /\ task[t].charge = c
                /\ UNCHANGED <<order, charge>>
                /\ task[t].pc = "refuse" => CloseInvoice(charge[c].inv)
                /\ task[t].pc = "fallback" => UNCHANGED invoice
  <1> USE DEF worldVars, orderVars
  <1>0. TypeOK /\ c \in Orders
    BY DEF TypeInv, Orders
  <1>1. ASSUME NEW t \in Tasks, Refuse(t) \/ Fallback(t) \/ FallbackFails(t)
        PROVE  /\ task[t].pc \in {"refuse", "fallback"} /\ task[t].charge = c
               /\ UNCHANGED <<order, charge>>
               /\ task[t].pc = "refuse" => CloseInvoice(charge[c].inv)
               /\ task[t].pc = "fallback" => UNCHANGED invoice
    <2>1. task[t].charge = c
      BY <1>0, <1>1 DEF Refuse, Fallback, FallbackFails, Owe, ChargeOf, TypeOK
    <2>2. QED
      BY <1>1, <2>1 DEF Refuse, Fallback, FallbackFails, InvoiceOf
  <1>2. ASSUME NEW o \in Orders, RefundOrder(o)
        PROVE  order[c] # "absent" /\ order'[c] = "refund_pending"
    <2>1. o = c
      BY <1>0, <1>2 DEF RefundOrder, Owe, TypeOK
    <2>2. QED
      BY <1>0, <1>2, <2>1 DEF RefundOrder, Claim, TypeOK
  <1>3. ASSUME NEW o \in Orders, SettleRefund(o)
        PROVE  FALSE
    BY <1>0, <1>3 DEF SettleRefund, TypeOK
  <1>4. QED
    BY <1>1, <1>2, <1>3, Frames

\* An order withdrawn for a refund stays so.
LEMMA Withdrawn ==
    ASSUME TypeInv, Next, NEW c \in Charges, order[c] \in {"refund_pending", "refunded"}
    PROVE  order'[c] \in {"refund_pending", "refunded"}
  <1> USE DEF worldVars, orderVars
  <1>0. TypeOK /\ c \in Orders /\ c \notin Transfers
    BY CheckoutAssumption DEF TypeInv, Orders
  <1>1. CASE Erase
    BY <1>0, <1>1 DEF Erase, TypeOK
  <1>2. ASSUME NEW t \in Tasks, Decide(t) \/ Apply(t) PROVE order'[c] = order[c]
    BY <1>0, <1>2 DEF Decide, Apply, TypeOK
  <1>3. ASSUME NEW o \in Transfers, TransferStep(o) PROVE order'[c] = order[c]
    BY <1>0, <1>3 DEF TransferStep, StartTransfer, DetailsSent, DetailsNotSent,
       CancelOrder, CloseStale, ReceiveFile, AttachReceipt, FlagReview,
       RejectTransfer, CancelUnpaid,
       orderStep, Claim, TypeOK
  <1>4. ASSUME NEW o \in Orders, OrderStep(o) PROVE order'[c] \in {"refund_pending", "refunded"}
    BY <1>0, <1>4 DEF OrderStep, ConfirmPayment, FulfilOrder, SendAccess, CompleteOrder,
       ReportProblem, RefundOrder, SettleRefund, orderStep, Claim, TypeOK
  <1>5. QED
    BY <1>1, <1>2, <1>3, <1>4, Frames

\* A closed row stays closed, and closing a row that was sent closes it.
LEMMA ClosedStep ==
    ASSUME TypeInv, SentInv, Next, NEW c \in Charges, charge[c].stage = "taken",
           \/ Closed(charge[c].inv)
           \/ CloseInvoice(charge[c].inv)
    PROVE  charge'[c] = charge[c] /\ Closed(charge[c].inv)'
  <1>1. charge'[c] = charge[c] /\ charge[c].inv \in Invoices
    BY Sales DEF TypeInv, ChargeInv
  <1>2. invoice[charge[c].inv].status \in {"pending", "paid", "cancelled"}
    BY DEF SentInv
  <1>3. CASE Closed(charge[c].inv)
    BY <1>1, <1>3, Rows DEF Closed, RowStep
  <1>4. CASE CloseInvoice(charge[c].inv)
    <2>1. invoice'[charge[c].inv] = Unpayable(invoice[charge[c].inv])
      BY <1>1, <1>4 DEF CloseInvoice, TypeInv, TypeOK
    <2>2. Unpayable(invoice[charge[c].inv]).status \in {"paid", "cancelled"}
      BY <1>1, <1>2, RowShape DEF Unpayable, TypeInv, TypeOK
    <2>3. QED
      BY <1>1, <2>1, <2>2 DEF Closed
  <1>5. QED
    BY <1>3, <1>4

LEMMA JudgeStep ==
    ASSUME TypeInv, SentInv, SoldInv, OneTask, JudgeInv, Next
    PROVE  JudgeInv'
  <1> SUFFICES ASSUME OneDelivery, ~CloseMayFail
               PROVE  /\ \A t \in Tasks : task'[t].pc \in Judging => order'[task'[t].charge] = "absent"
                      /\ \A t \in Tasks : task'[t].pc = "fallback" =>
                            Closed(charge[task[t].charge].inv)'
                      /\ \A c \in Charges : refund'[c] # "none" /\ order'[c] = "absent" =>
                            charge'[c].stage = "taken" /\ Closed(charge[c].inv)'
                      /\ SaleKeepsItsCharge'
    BY DEF JudgeInv
  <1>0. /\ \A t \in Tasks : task[t].pc \in Judging => order[task[t].charge] = "absent"
        /\ \A t \in Tasks : task[t].pc = "fallback" => Closed(charge[task[t].charge].inv)
        /\ \A c \in Charges : refund[c] # "none" /\ order[c] = "absent" =>
              charge[c].stage = "taken" /\ Closed(charge[c].inv)
        /\ SaleKeepsItsCharge
    BY DEF JudgeInv
  <1>1. ASSUME NEW t \in Tasks, task'[t].pc \in Judging
        PROVE  /\ task'[t].charge = task[t].charge /\ task[t].charge \in Charges
               /\ charge[task[t].charge].stage = "taken"
               /\ order[task[t].charge] = "absent" /\ order'[task[t].charge] = "absent"
    <2>1. /\ task'[t].charge = task[t].charge /\ task[t].charge \in Charges
          /\ charge[task[t].charge].stage = "taken"
          /\ order[task[t].charge] = "absent"
      BY <1>0, <1>1, JudgingStep, TaskFacts
    <2>2. ASSUME order'[task[t].charge] # "absent" PROVE FALSE
      <3>1. PICK u \in Tasks : Decide(u) /\ task[u].charge = task[t].charge
        BY <2>1, <2>2, Sales
      <3>2. u = t
        BY <2>1, <3>1 DEF OneTask
      <3>3. QED
        BY <1>1, <2>1, <2>2, <3>1, <3>2, JudgingStep
    <2>3. QED
      BY <2>1, <2>2
  <1>2. ASSUME NEW t \in Tasks, task'[t].pc = "fallback"
        PROVE  Closed(charge[task[t].charge].inv)'
    <2>1. task'[t].pc \in Judging
      BY <1>2 DEF Judging
    <2>2. /\ task'[t].charge = task[t].charge /\ task[t].charge \in Charges
          /\ charge[task[t].charge].stage = "taken"
      BY <1>1, <2>1
    <2>3. Closed(charge[task[t].charge].inv) \/ CloseInvoice(charge[task[t].charge].inv)
      BY <1>0, <1>2, <2>1, JudgingStep
    <2>4. QED
      BY <2>2, <2>3, ClosedStep DEF Closed
  <1>3. ASSUME NEW c \in Charges, refund'[c] # "none", order'[c] = "absent"
        PROVE  charge'[c].stage = "taken" /\ Closed(charge[c].inv)'
    <2>1. order[c] = "absent"
      BY <1>3, Sales
    <2>2. CASE refund[c] # "none"
      BY <1>0, <2>1, <2>2, ClosedStep
    <2>3. CASE refund[c] = "none"
      <3>1. PICK t \in Tasks :
                /\ task[t].pc \in {"refuse", "fallback"} /\ task[t].charge = c
                /\ task[t].pc = "refuse" => CloseInvoice(charge[c].inv)
        BY <1>3, <2>1, <2>3, OweStep
      <3>2. charge[c].stage = "taken"
        BY <3>1, TaskFacts
      <3>3. Closed(charge[c].inv) \/ CloseInvoice(charge[c].inv)
        BY <1>0, <3>1
      <3>4. QED
        BY <3>2, <3>3, ClosedStep
    <2>4. QED
      BY <2>2, <2>3
  <1>4. ASSUME NEW c \in Charges, order'[c] \notin {"absent", "refund_pending", "refunded"}
        PROVE  refund'[c] = "none"
    <2>1. CASE order[c] = "absent"
      <3>1. PICK t \in Tasks : /\ Decide(t) /\ charge[c].stage = "taken"
                               /\ invoice[charge[c].inv].status = "pending"
        BY <1>4, <2>1, Sales
      <3>2. refund[c] = "none" /\ UNCHANGED refund
        BY <1>0, <2>1, <3>1 DEF Closed, Decide
      <3>3. QED
        BY <3>2
    <2>2. CASE order[c] # "absent"
      <3>1. refund[c] = "none"
        BY <1>0, <1>4, <2>2, Withdrawn DEF SaleKeepsItsCharge
      <3>2. ASSUME NEW t \in Tasks, task[t].pc \in {"refuse", "fallback"}, task[t].charge = c
            PROVE  FALSE
        BY <1>0, <2>2, <3>2 DEF Judging
      <3>3. QED
        BY <1>4, <3>1, <3>2, OweStep
    <2>3. QED
      BY <2>1, <2>2
  <1>5. QED
    BY <1>1, <1>2, <1>3, <1>4 DEF SaleKeepsItsCharge

-----------------------------------------------------------------------------
(* The theorems *)

LEMMA Start == Init => IInv
  <1> SUFFICES ASSUME Init PROVE IInv
    OBVIOUS
  <1>1. TypeInv
    BY CheckoutAssumption
       DEF Init, TypeInv, TypeOK, TaskInv, ChargeInv, Invoice, NoRow, Idle, Pc, OrderStatus,
           PaidStatus
  <1>2. /\ \A c \in Charges : order[c] = "absent" /\ refund[c] = "none" /\ charge[c].stage = "none"
        /\ \A o \in Orders : order[o] = "absent"
        /\ \A i \in Invoices : invoice[i].status = "absent"
        /\ \A t \in Tasks : task[t] = Idle
    BY DEF Init, Orders, NoRow
  <1>3. SentInv /\ SoldInv /\ OneOrderPerInvoice /\ OneWayToPay /\ Alone
    BY <1>2 DEF SentInv, SoldInv, OneOrderPerInvoice, OneWayToPay, Payable, Alone, Asking
  <1>4. OneTask
    BY <1>2, CheckoutAssumption DEF OneTask, Idle
  <1>5. JudgeInv
    BY <1>2 DEF JudgeInv, Judging, SaleKeepsItsCharge, Idle
  <1>6. QED
    BY <1>1, <1>3, <1>4, <1>5 DEF IInv

LEMMA Unmoved ==
    ASSUME IInv, UNCHANGED vars
    PROVE  IInv'
  <1>1. /\ UNCHANGED <<invoice, order, granted, refund, charge, task>>
    BY DEF vars
  <1>2. TypeInv'
    BY TypeStep DEF IInv
  <1>3. QED
    BY <1>1, <1>2 DEF IInv, SentInv, SoldInv, OneOrderPerInvoice, OneWayToPay, Payable, Live,
         Alone, Asking, OneTask, JudgeInv, Closed, SaleKeepsItsCharge

LEMMA Preserved == IInv /\ [Next]_vars => IInv'
  <1>1. ASSUME IInv, Next PROVE IInv'
    BY <1>1, TypeStep, SentStep, SoldStep, OneWayStep, AloneStep, TaskStep, JudgeStep DEF IInv
  <1>2. QED
    BY <1>1, Unmoved

\* The inductive invariant holds in every reachable state.
THEOREM Invariance == Spec => []IInv
  <1>1. Init => IInv
    BY Start
  <1>2. IInv /\ [Next]_vars => IInv'
    BY Preserved
  <1>3. QED
    BY <1>1, <1>2, PTL DEF Spec

\* Every variable keeps its type, and an order has paid_at exactly when its
\* status says the money came: what handlers/checkout.py and db/orders.py write.
THEOREM CheckoutTypes == Spec => []TypeOK
  <1>1. IInv => TypeOK
    BY DEF IInv, TypeInv
  <1>2. QED
    BY <1>1, Invariance, PTL

\* However often an invoice is paid, and however the updates of its payments
\* interleave, the claim in record_payment sells it to one charge.
THEOREM SoldOnce == Spec => []OneOrderPerInvoice
  <1>1. IInv => OneOrderPerInvoice
    BY DEF IInv
  <1>2. QED
    BY <1>1, Invariance, PTL

\* A payable Stars invoice and a transfer waiting for its receipt never stand
\* side by side: the checks of confirm_quote, of handle_precheckout and of
\* start_transfer leave no gap.
THEOREM OneWay == Spec => []OneWayToPay
  <1>1. IInv => OneWayToPay
    BY DEF IInv
  <1>2. QED
    BY <1>1, Invariance, PTL

\* Among the orders that wait for money or were just paid with Stars there is
\* one at most, whatever staff and the scheduler do to the others.
THEOREM OneOpen == Spec => []OneCheckout
  <1>1. Alone => OneCheckout
    BY DEF Alone, OneCheckout, Asking
  <1>2. IInv => OneCheckout
    BY <1>1 DEF IInv
  <1>3. QED
    BY <1>2, Invariance, PTL

\* When one task at a time handles the update of a charge, and the invoice of a
\* refused charge can be closed, the charge of a sale is never refunded behind
\* its order.  Without the first the run redelivery has the counterexample.
THEOREM SaleKept ==
    ASSUME OneDelivery, ~CloseMayFail
    PROVE  Spec => []SaleKeepsItsCharge
  <1>1. IInv => SaleKeepsItsCharge
    BY DEF IInv, JudgeInv
  <1>2. QED
    BY <1>1, Invariance, PTL

-----------------------------------------------------------------------------
(* An approved purchase keeps its invoice *)

\* A row that is no invoice yet was not approved, and neither is the invoice
\* whose message is being sent.
QuoteInv ==
    \A i \in Invoices : invoice[i].status \in {"absent", "quote"} => invoice[i].approval = "none"

SendingInv == lifecycle \in Invoices => invoice[lifecycle].approval = "none"

ApprovedInv == QuoteInv /\ SendingInv

\* Sweeping and quoting leave an invoice that can be paid, and every approval.
LEMMA SweepApprovals ==
    ASSUME NEW inv \in [Invoices -> Invoice], NEW i \in Invoices
    PROVE  /\ CloseExpired(inv)[i].approval = inv[i].approval
           /\ Live(inv[i]) => CloseExpired(inv)[i] = inv[i]
  BY DEF CloseExpired, Cancel, Invoice

LEMMA QuoteApprovals ==
    ASSUME NEW inv \in [Invoices -> Invoice], NEW j \in Invoices,
           NEW v \in Terms \cup {NoTerms}, NEW i \in Invoices
    PROVE  /\ \/ WithQuote(inv, j, v)[i].approval = inv[i].approval
              \/ WithQuote(inv, j, v)[i].approval = "none"
           /\ inv[i].status = "pending" /\ Live(inv[i]) => WithQuote(inv, j, v)[i] = inv[i]
  <1> DEFINE swept == CloseExpired(inv)
             fresh == [NoRow EXCEPT !.status = "quote", !.terms = v, !.fresh = TRUE]
  <1>1. /\ swept \in [Invoices -> Invoice]
        /\ swept[i].approval = inv[i].approval
        /\ Live(inv[i]) => swept[i] = inv[i]
    BY SweepType, SweepApprovals
  <1>2. fresh.approval = "none"
    BY DEF NoRow
  <1>3. Cancel(swept[i]).approval = swept[i].approval
    BY <1>1 DEF Cancel, Invoice
  <1>4. CASE \E k \in Invoices : swept[k].status = "pending"
    BY <1>1, <1>4 DEF WithQuote
  <1>5. CASE ~ \E k \in Invoices : swept[k].status = "pending"
    <2>1. WithQuote(inv, j, v) =
            [k \in Invoices |-> IF k = j THEN fresh
                                ELSE IF swept[k].status = "quote" THEN Cancel(swept[k])
                                ELSE swept[k]]
      BY <1>5 DEF WithQuote
    <2>. HIDE DEF swept, fresh
    <2>2. ~(inv[i].status = "pending" /\ Live(inv[i]))
      BY <1>1, <1>5
    <2>3. QED
      BY <1>1, <1>2, <1>3, <2>1, <2>2
  <1>6. QED
    BY <1>4, <1>5

\* What a step does to an approval: nothing, or the row is new, or it is given
\* by pre-checkout, or its grace ends.
ApprovalStep(i) ==
    \/ invoice'[i].approval = invoice[i].approval
    \/ invoice'[i].approval = "none"
    \/ \E c \in Charges : Precheckout(c, i)
    \/ GraceEnds(i)

\* An approved invoice is cancelled by a refused payment of it or with the
\* customer's erasing; while its message is being sent it is not approved.
Cancels(i) ==
    /\ invoice[i].status = "pending" /\ invoice[i].approval = "live"
    /\ invoice'[i].status = "cancelled"

KeepsApproved(i) ==
    Cancels(i) => \/ account' = "erased"
                  \/ lifecycle = i
                  \/ \E t \in Tasks : task[t].pc = "refuse" /\ InvoiceOf(t) = i

LEMMA ApprovalsConfirm ==
    ASSUME TypeInv, NEW i \in Invoices, ConfirmQuote(i), NEW k \in Invoices
    PROVE  ApprovalStep(k) /\ KeepsApproved(k)
  <1>0. invoice \in [Invoices -> Invoice] /\ invoice[i].status = "quote"
    BY DEF TypeInv, TypeOK, ConfirmQuote
  <1> DEFINE inv == [invoice EXCEPT ![i] = Cancel(@)]
             swept == CloseExpired(invoice)
  <1>1. /\ inv \in [Invoices -> Invoice]
        /\ inv[k].approval = invoice[k].approval
        /\ k # i => inv[k] = invoice[k]
    <2>1. Cancel(invoice[i]).approval = invoice[i].approval
      BY <1>0 DEF Cancel, Invoice
    <2>2. inv \in [Invoices -> Invoice]
      BY <1>0, RowUpdates DEF InvoiceType
    <2>3. QED
      BY <1>0, <2>1, <2>2
  <1>2. /\ swept \in [Invoices -> Invoice]
        /\ swept[k].approval = invoice[k].approval
        /\ Live(invoice[k]) => swept[k] = invoice[k]
    BY <1>0, SweepType, SweepApprovals
  <1>3. invoice[k].approval = "live" => Live(invoice[k])
    BY DEF Live
  <1>4. \/ invoice' = inv
        \/ /\ terms \in Terms
           /\ \E j \in Invoices : invoice' = WithQuote(inv, j, terms)
        \/ invoice' = swept
        \/ invoice' = [swept EXCEPT ![i].status = "pending"]
    BY DEF ConfirmQuote
  <1> HIDE DEF inv, swept
  <1>5. CASE invoice' = inv
    BY <1>0, <1>1, <1>5 DEF ApprovalStep, KeepsApproved, Cancels
  <1>6. ASSUME terms \in Terms, NEW j \in Invoices, invoice' = WithQuote(inv, j, terms)
        PROVE  ApprovalStep(k) /\ KeepsApproved(k)
    <2>1. /\ invoice'[k].approval = inv[k].approval \/ invoice'[k].approval = "none"
          /\ inv[k].status = "pending" /\ Live(inv[k]) => invoice'[k] = inv[k]
      BY <1>1, <1>6, QuoteApprovals
    <2>2. QED
      BY <1>0, <1>1, <1>3, <2>1 DEF ApprovalStep, KeepsApproved, Cancels
  <1>7. CASE invoice' = swept
    BY <1>2, <1>3, <1>7 DEF ApprovalStep, KeepsApproved, Cancels
  <1>8. CASE invoice' = [swept EXCEPT ![i].status = "pending"]
    <2>1. /\ k # i => invoice'[k] = swept[k]
          /\ invoice'[k].approval = swept[k].approval
      BY <1>2, <1>8 DEF Invoice
    <2>2. QED
      BY <1>0, <1>2, <1>3, <2>1 DEF ApprovalStep, KeepsApproved, Cancels
  <1>9. QED
    BY <1>4, <1>5, <1>6, <1>7, <1>8

LEMMA ApprovalsClose ==
    ASSUME TypeInv, NEW k \in Invoices, NEW i, CloseInvoice(i)
    PROVE  /\ invoice'[k].approval = invoice[k].approval
           /\ k # i => invoice'[k] = invoice[k]
  <1>1. Unpayable(invoice[k]).approval = invoice[k].approval
    BY DEF Unpayable, Cancel, Invoice, TypeInv, TypeOK
  <1>2. QED
    BY <1>1 DEF CloseInvoice, TypeInv, TypeOK

LEMMA Approvals ==
    ASSUME TypeInv, Next, NEW k \in Invoices
    PROVE  ApprovalStep(k) /\ KeepsApproved(k)
  <1>0. invoice \in [Invoices -> Invoice]
    BY DEF TypeInv, TypeOK
  <1>1. CASE invoice'[k] = invoice[k]
    BY <1>0, <1>1 DEF ApprovalStep, KeepsApproved, Cancels
  <1>2. ASSUME NEW i \in Invoices, NEW v \in Terms, ShowTerms(i, v)
        PROVE  ApprovalStep(k) /\ KeepsApproved(k)
    <2>1. /\ invoice'[k].approval = invoice[k].approval \/ invoice'[k].approval = "none"
          /\ invoice[k].status = "pending" /\ Live(invoice[k]) => invoice'[k] = invoice[k]
      BY <1>0, <1>2, QuoteApprovals DEF ShowTerms
    <2>2. QED
      BY <2>1 DEF ApprovalStep, KeepsApproved, Cancels, Live
  <1>3. ASSUME NEW i \in Invoices, InvoiceNotSent(i)
        PROVE  ApprovalStep(k) /\ KeepsApproved(k)
    <2>1. PICK sent \in BOOLEAN :
            invoice' = [invoice EXCEPT ![i] = [Unpayable(@) EXCEPT !.sent = sent]]
      BY <1>3 DEF InvoiceNotSent
    <2>2. [Unpayable(invoice[i]) EXCEPT !.sent = sent].approval = invoice[i].approval
      BY <1>0 DEF Unpayable, Cancel, Invoice
    <2>3. invoice'[k].approval = invoice[k].approval /\ (k # i => invoice'[k] = invoice[k])
      BY <1>0, <2>1, <2>2
    <2>4. QED
      BY <1>3, <2>3 DEF ApprovalStep, KeepsApproved, Cancels, InvoiceNotSent
  <1>4. ASSUME NEW i \in Invoices, InvoiceSent(i) \/ TtlEnds(i) \/ GraceEnds(i)
        PROVE  ApprovalStep(k) /\ KeepsApproved(k)
    <2>1. /\ invoice'[k].status = invoice[k].status
          /\ invoice'[k].approval = invoice[k].approval \/ (k = i /\ GraceEnds(k))
      BY <1>0, <1>4 DEF InvoiceSent, TtlEnds, GraceEnds, Invoice
    <2>2. QED
      BY <2>1 DEF ApprovalStep, KeepsApproved, Cancels
  <1>5. ASSUME NEW i \in Invoices, NEW c \in Charges, Precheckout(c, i)
        PROVE  ApprovalStep(k) /\ KeepsApproved(k)
    <2>1. invoice'[k].status = invoice[k].status /\ (k # i => invoice'[k] = invoice[k])
      BY <1>0, <1>5 DEF Precheckout, Invoice
    <2>2. QED
      BY <1>5, <2>1 DEF ApprovalStep, KeepsApproved, Cancels
  <1>6. ASSUME NEW t \in Tasks, PaymentStep(t) \/ PaymentFault(t)
        PROVE  ApprovalStep(k) /\ KeepsApproved(k)
    <2>1. CASE UNCHANGED invoice
      BY <1>1, <2>1
    <2>2. CASE task[t].pc = "refuse" /\ CloseInvoice(InvoiceOf(t))
      BY <2>2, ApprovalsClose DEF ApprovalStep, KeepsApproved, Cancels
    <2>3. ASSUME NEW i \in Invoices, invoice' = [invoice EXCEPT ![i].status = "paid"]
          PROVE  ApprovalStep(k) /\ KeepsApproved(k)
      <3>1. /\ invoice'[k].approval = invoice[k].approval
            /\ invoice'[k] = invoice[k] \/ invoice'[k].status = "paid"
        BY <1>0, <2>3 DEF Invoice
      <3>2. QED
        BY <3>1 DEF ApprovalStep, KeepsApproved, Cancels
    <2>4. CASE Decide(t)
      BY <2>1, <2>3, <2>4, TaskFacts DEF Decide, InvoiceOf
    <2>5. QED
      BY <1>6, <2>1, <2>2, <2>4
         DEF PaymentStep, PaymentFault, CheckDuplicate, ReadInvoice, ReadOrders, Refuse, Fallback,
             Apply, ReadFails, RefuseFails, FallbackFails, ApplyFails,
             LookupFails, GiveUp
  <1>7. CASE Erase
    <2>1. account' = "erased"
          /\ (invoice'[k] = invoice[k] \/ invoice'[k] = Cancel(invoice[k]))
      BY <1>0, <1>7 DEF Erase
    <2>2. Cancel(invoice[k]).approval = invoice[k].approval
      BY <1>0 DEF Cancel, Invoice
    <2>3. QED
      BY <2>1, <2>2 DEF ApprovalStep, KeepsApproved
  <1>8. CASE Restart
    <2>1. invoice'[k].status = invoice[k].status /\ invoice'[k].approval = invoice[k].approval
      BY <1>0, <1>8 DEF Restart, Invoice
    <2>2. QED
      BY <2>1 DEF ApprovalStep, KeepsApproved, Cancels
  <1>9. ASSUME NEW o \in Transfers, TransferStep(o) PROVE UNCHANGED invoice
    BY <1>9 DEF TransferStep, StartTransfer, DetailsSent, DetailsNotSent, CancelOrder,
         CloseStale, ReceiveFile, AttachReceipt, FlagReview,
         RejectTransfer, CancelUnpaid, orderStep
  <1>10. ASSUME NEW o \in Orders, OrderStep(o) PROVE UNCHANGED invoice
    BY <1>10 DEF OrderStep, ConfirmPayment, FulfilOrder, SendAccess, CompleteOrder,
         ReportProblem, RefundOrder, SettleRefund, orderStep
  <1>11. ASSUME \/ \E c \in Charges : TakeMoney(c) \/ \E t \in Tasks : Deliver(t, c)
                \/ \E to \in {"live", "blocked"} : SetBlocked(to)
                \/ \E v \in Terms \cup {NoTerms} : EditProduct(v)
         PROVE  UNCHANGED invoice
    BY <1>11 DEF TakeMoney, Deliver, SetBlocked, EditProduct
  <1>12. QED
    BY <1>1, <1>2, <1>3, <1>4, <1>5, <1>6, <1>7, <1>8, <1>9, <1>10, <1>11, ApprovalsConfirm
       DEF Next

\* Only the tap on Confirm takes the lifecycle lock to send an invoice.
LEMMA Sending ==
    ASSUME TypeInv, Next, lifecycle' \in Invoices
    PROVE  lifecycle' = lifecycle \/ (lifecycle = Free /\ ConfirmQuote(lifecycle'))
  <1>0. Free \notin Invoices /\ Invoices \cap Transfers = {}
    BY CheckoutAssumption
  <1> USE DEF worldVars, orderVars
  <1>1. ASSUME NEW i \in Invoices,
               \/ \E v \in Terms : ShowTerms(i, v)
               \/ ConfirmQuote(i) \/ InvoiceSent(i) \/ InvoiceNotSent(i)
               \/ \E c \in Charges : Precheckout(c, i)
               \/ TtlEnds(i) \/ GraceEnds(i)
        PROVE  lifecycle' = lifecycle \/ (lifecycle = Free /\ ConfirmQuote(lifecycle'))
    <2>1. CASE ConfirmQuote(i)
      <3>1. lifecycle = Free /\ (lifecycle' = lifecycle \/ lifecycle' = i)
        BY <2>1 DEF ConfirmQuote
      <3>2. QED
        BY <2>1, <3>1
    <2>2. CASE ~ConfirmQuote(i)
      BY <1>0, <1>1, <2>2 DEF ShowTerms, InvoiceSent, InvoiceNotSent, Precheckout, TtlEnds,
           GraceEnds
    <2>3. QED
      BY <2>1, <2>2
  <1>2. ASSUME NEW t \in Tasks, PaymentStep(t) \/ PaymentFault(t)
        PROVE  lifecycle' = lifecycle
    BY <1>2 DEF PaymentStep, PaymentFault, CheckDuplicate, ReadInvoice, ReadOrders, Decide,
         Refuse, Fallback, Apply, ReadFails, RefuseFails, FallbackFails, ApplyFails,
         LookupFails, GiveUp
  <1>3. ASSUME NEW o \in Transfers, TransferStep(o)
        PROVE  lifecycle' = lifecycle \/ lifecycle' \in {o, Free}
    BY <1>3 DEF TransferStep, StartTransfer, DetailsSent, DetailsNotSent, CancelOrder,
         CloseStale, ReceiveFile, AttachReceipt, FlagReview, RejectTransfer, CancelUnpaid,
         orderStep
  <1>4. ASSUME NEW o \in Orders, OrderStep(o)
        PROVE  lifecycle' = lifecycle
    BY <1>4 DEF OrderStep, ConfirmPayment, FulfilOrder, SendAccess, CompleteOrder,
         ReportProblem, RefundOrder, SettleRefund, orderStep
  <1>5. ASSUME \/ \E c \in Charges : TakeMoney(c) \/ \E t \in Tasks : Deliver(t, c)
               \/ \E to \in {"live", "blocked"} : SetBlocked(to)
               \/ Erase
               \/ \E v \in Terms \cup {NoTerms} : EditProduct(v)
               \/ Restart
        PROVE  lifecycle' = lifecycle \/ lifecycle' = Free
    BY <1>5 DEF TakeMoney, Deliver, SetBlocked, Erase, EditProduct, Restart
  <1>6. QED
    BY <1>0, <1>1, <1>2, <1>3, <1>4, <1>5 DEF Next

LEMMA ApprovedStep ==
    ASSUME TypeInv, ApprovedInv, Next
    PROVE  ApprovedInv'
  <1>0. \A i \in Invoices : ApprovalStep(i) /\ RowStep(i)
    BY Approvals, Rows
  <1>1. ASSUME NEW i \in Invoices, invoice'[i].status \in {"absent", "quote"}
        PROVE  invoice'[i].approval = "none"
    <2>1. invoice[i].status \in {"absent", "quote"}
      BY <1>0, <1>1 DEF RowStep
    <2>2. ~GraceEnds(i) /\ ~ \E c \in Charges : Precheckout(c, i)
      BY <2>1 DEF GraceEnds, Precheckout, Payable
    <2>3. QED
      BY <1>0, <2>1, <2>2 DEF ApprovalStep, ApprovedInv, QuoteInv
  <1>2. ASSUME NEW i \in Invoices, lifecycle' = i
        PROVE  invoice'[i].approval = "none"
    <2>0. Free \notin Invoices
      BY CheckoutAssumption
    <2>1. invoice[i].approval = "none"
      BY <1>2, Sending DEF ApprovedInv, QuoteInv, SendingInv, ConfirmQuote
    <2>2. ~GraceEnds(i)
      BY <2>1 DEF GraceEnds
    <2>3. CASE \E c \in Charges : Precheckout(c, i)
      BY <1>2, <2>0, <2>3 DEF Precheckout
    <2>4. QED
      BY <1>0, <2>1, <2>2, <2>3 DEF ApprovalStep
  <1>3. QED
    BY <1>1, <1>2 DEF ApprovedInv, QuoteInv, SendingInv

LEMMA ApprovedInvariance == Spec => []ApprovedInv
  <1>1. Init => ApprovedInv
    BY CheckoutAssumption DEF Init, ApprovedInv, QuoteInv, SendingInv, NoRow
  <1>2. IInv /\ ApprovedInv /\ [Next]_vars => ApprovedInv'
    <2> SUFFICES ASSUME IInv, ApprovedInv, [Next]_vars PROVE ApprovedInv'
      OBVIOUS
    <2>1. CASE Next
      BY <2>1, ApprovedStep DEF IInv
    <2>2. CASE UNCHANGED vars
      BY <2>2 DEF vars, ApprovedInv, QuoteInv, SendingInv
    <2>3. QED
      BY <2>1, <2>2
  <1>3. QED
    BY <1>1, <1>2, Invariance, PTL DEF Spec

\* Once pre-checkout said yes, nothing the customer or staff do cancels the
\* invoice: not another quote, not the sweep of expired rows, not a failed send.
\* What is left is the customer's own refused payment of it, and erasing.
THEOREM ApprovalKept == Spec => ApprovalIsKept
  <1> DEFINE A == \A i \in Invoices :
                    /\ invoice[i].status = "pending" /\ invoice[i].approval = "live"
                    /\ invoice'[i].status = "cancelled"
                    => \/ account' = "erased"
                       \/ \E t \in Tasks : task[t].pc = "refuse" /\ InvoiceOf(t) = i
  <1>1. IInv /\ ApprovedInv /\ [Next]_vars => [A]_vars
    <2> SUFFICES ASSUME IInv, ApprovedInv, Next, NEW i \in Invoices, Cancels(i)
                 PROVE  \/ account' = "erased"
                        \/ \E t \in Tasks : task[t].pc = "refuse" /\ InvoiceOf(t) = i
      BY DEF Cancels
    <2>1. KeepsApproved(i)
      BY Approvals DEF IInv
    <2>2. lifecycle # i
      BY DEF ApprovedInv, SendingInv, Cancels
    <2>3. QED
      BY <2>1, <2>2 DEF KeepsApproved
  <1>2. QED
    BY <1>1, Invariance, ApprovedInvariance, PTL DEF Spec, ApprovalIsKept

-----------------------------------------------------------------------------
(* Checkout implements Settlement *)

Purchases == [c \in Charges |-> Outcome(c)]
Bought == [c \in Charges |-> charge[c].inv]
Access == granted \cap Charges

\* A charge that was not approved has no invoice yet.
NoneBought == \A c \in Charges : charge[c].stage = "none" => charge[c].inv = NoInvoice

LEMMA NoneBoughtStep ==
    ASSUME TypeInv, NoneBought, Next
    PROVE  NoneBought'
  <1>0. TypeOK
    BY DEF TypeInv
  <1>1. ASSUME NEW c \in Charges, charge'[c].stage = "none"
        PROVE  charge'[c] = charge[c]
    <2>1. CASE UNCHANGED charge
      BY <2>1
    <2>2. ASSUME NEW d \in Charges, NEW i \in Invoices, Precheckout(d, i)
          PROVE  charge'[c] = charge[c]
      BY <1>0, <1>1, <2>2 DEF Precheckout, TypeOK
    <2>3. ASSUME NEW d \in Charges, TakeMoney(d)
          PROVE  charge'[c] = charge[c]
      BY <1>0, <1>1, <2>3 DEF TakeMoney, TypeOK
    <2>4. QED
      BY <2>1, <2>2, <2>3, ChargeFrame
  <1>2. QED
    BY <1>1 DEF NoneBought

LEMMA NoneBoughtInvariance == Spec => []NoneBought
  <1>1. Init => NoneBought
    BY DEF Init, NoneBought
  <1>2. IInv /\ NoneBought /\ [Next]_vars => NoneBought'
    <2>1. ASSUME UNCHANGED vars, NoneBought PROVE NoneBought'
      BY <2>1 DEF vars, NoneBought
    <2>2. QED
      BY <2>1, NoneBoughtStep DEF IInv
  <1>3. QED
    BY <1>1, <1>2, Invariance, PTL DEF Spec

\* The steps of Settlement, written with the mapped variables.
LEMMA SettlementSteps ==
    /\ Promise!SettlementInit <=>
         /\ Purchases = [c \in Charges |-> "none"]
         /\ Bought = [c \in Charges |-> NoInvoice] /\ Access = {}
    /\ \A c \in Charges :
         /\ \A i \in Invoices :
              /\ Purchases[c] = "none" /\ Bought[c] = NoInvoice
              /\ Bought' = [Bought EXCEPT ![c] = i]
              /\ Purchases' = Purchases /\ Access' = Access
              => Promise!SettlementNext
         /\ /\ Bought[c] # NoInvoice /\ Purchases[c] = "none"
            /\ Purchases' = [Purchases EXCEPT ![c] = "taken"]
            /\ Bought' = Bought /\ Access' = Access
            => Promise!SettlementNext
         /\ /\ \A d \in Charges : Purchases[d] \in {"sold", "withdrawn"} => Bought[d] # Bought[c]
            /\ Purchases[c] = "taken" /\ Purchases' = [Purchases EXCEPT ![c] = "sold"]
            /\ Bought' = Bought /\ Access' = Access
            => Promise!SettlementNext
         /\ /\ Purchases[c] = "taken" /\ Purchases' = [Purchases EXCEPT ![c] = "refused"]
            /\ Bought' = Bought /\ Access' = Access
            => Promise!SettlementNext
         /\ /\ Purchases[c] = "sold" /\ Purchases' = [Purchases EXCEPT ![c] = "withdrawn"]
            /\ Bought' = Bought /\ Access' = Access
            => Promise!SettlementNext
         /\ /\ Purchases[c] = "sold" /\ Access' = Access \cup {c}
            /\ Purchases' = Purchases /\ Bought' = Bought
            => Promise!SettlementNext
    /\ Purchases' = Purchases /\ Bought' = Bought /\ Access' = Access
         => UNCHANGED Promise!settlementVars
  <1> USE DEF Purchases, Bought, Access
  <1>1. Promise!SettlementInit <=>
          /\ Purchases = [c \in Charges |-> "none"]
          /\ Bought = [c \in Charges |-> NoInvoice] /\ Access = {}
    BY DEF Promise!SettlementInit
  <1>2. ASSUME NEW c \in Charges, NEW i \in Invoices, Purchases[c] = "none", Bought[c] = NoInvoice,
               Bought' = [Bought EXCEPT ![c] = i], Purchases' = Purchases, Access' = Access
        PROVE  Promise!SettlementNext
    BY <1>2 DEF Promise!SettlementNext, Promise!Approve
  <1>3. ASSUME NEW c \in Charges, Bought[c] # NoInvoice, Purchases[c] = "none",
               Purchases' = [Purchases EXCEPT ![c] = "taken"], Bought' = Bought, Access' = Access
        PROVE  Promise!SettlementNext
    BY <1>3 DEF Promise!SettlementNext, Promise!Take, Promise!Become
  <1>4. ASSUME NEW c \in Charges,
               \A d \in Charges : Purchases[d] \in {"sold", "withdrawn"} => Bought[d] # Bought[c],
               Purchases[c] = "taken", Purchases' = [Purchases EXCEPT ![c] = "sold"],
               Bought' = Bought, Access' = Access
        PROVE  Promise!SettlementNext
    BY <1>4 DEF Promise!SettlementNext, Promise!Sell, Promise!Become, Promise!WasSold
  <1>5. ASSUME NEW c \in Charges, Purchases[c] = "taken",
               Purchases' = [Purchases EXCEPT ![c] = "refused"], Bought' = Bought, Access' = Access
        PROVE  Promise!SettlementNext
    BY <1>5 DEF Promise!SettlementNext, Promise!Refuse, Promise!Become
  <1>6. ASSUME NEW c \in Charges, Purchases[c] = "sold",
               Purchases' = [Purchases EXCEPT ![c] = "withdrawn"], Bought' = Bought,
               Access' = Access
        PROVE  Promise!SettlementNext
    BY <1>6 DEF Promise!SettlementNext, Promise!Withdraw, Promise!Become
  <1>7. ASSUME NEW c \in Charges, Purchases[c] = "sold", Access' = Access \cup {c},
               Purchases' = Purchases, Bought' = Bought
        PROVE  Promise!SettlementNext
    BY <1>7 DEF Promise!SettlementNext, Promise!Grant
  <1>8. ASSUME Purchases' = Purchases, Bought' = Bought, Access' = Access
        PROVE  UNCHANGED Promise!settlementVars
    BY <1>8 DEF Promise!settlementVars
  <1>9. QED
    BY <1>1, <1>2, <1>3, <1>4, <1>5, <1>6, <1>7, <1>8

SettlementStep == Promise!SettlementNext \/ UNCHANGED Promise!settlementVars

Withdrawing == {"refund_pending", "refunded"}

LEMMA OutcomeSame ==
    ASSUME NEW c \in Charges, charge'[c].stage = charge[c].stage,
           \/ order'[c] = order[c]
           \/ order[c] \in Withdrawing /\ order'[c] \in Withdrawing
           \/ /\ order[c] \notin Withdrawing \cup {"absent"}
              /\ order'[c] \notin Withdrawing \cup {"absent"},
           \/ (refund'[c] = "none") <=> (refund[c] = "none")
           \/ order[c] # "absent"
    PROVE  Outcome(c)' = Outcome(c)
  BY DEF Outcome, Withdrawing

LEMMA PurchasesSame ==
    ASSUME \A c \in Charges : Outcome(c)' = Outcome(c)
    PROVE  Purchases' = Purchases
  BY DEF Purchases

LEMMA PurchasesMove ==
    ASSUME NEW c \in Charges, \A d \in Charges \ {c} : Outcome(d)' = Outcome(d)
    PROVE  Purchases' = [Purchases EXCEPT ![c] = Outcome(c)']
  BY DEF Purchases

LEMMA BoughtSame == UNCHANGED charge => Bought' = Bought
  BY DEF Bought

LEMMA AccessSame == UNCHANGED granted => Access' = Access
  BY DEF Access

\* A step that neither sells, withdraws, refuses nor grants is invisible.
LEMMA Unseen ==
    ASSUME UNCHANGED <<charge, refund, granted>>,
           \A c \in Charges :
              \/ order'[c] = order[c]
              \/ /\ order[c] \notin Withdrawing \cup {"absent"}
                 /\ order'[c] \notin Withdrawing \cup {"absent"}
    PROVE  SettlementStep
  <1>1. \A c \in Charges : Outcome(c)' = Outcome(c)
    BY OutcomeSame
  <1>2. Purchases' = Purchases /\ Bought' = Bought /\ Access' = Access
    BY <1>1, PurchasesSame, BoughtSame, AccessSame
  <1>3. QED
    BY <1>2, SettlementSteps DEF SettlementStep

\* The approval binds the charge to its invoice.
LEMMA ApproveKeeps ==
    ASSUME TypeInv, NoneBought, SoldInv, JudgeInv, OneDelivery, ~CloseMayFail,
           NEW c \in Charges, NEW i \in Invoices, Precheckout(c, i)
    PROVE  SettlementStep
  <1> USE DEF orderVars
  <1>0. TypeOK /\ UNCHANGED <<order, refund, granted>>
    BY DEF TypeInv, Precheckout
  <1>1. /\ charge[c].stage = "none" /\ charge[c].inv = NoInvoice
        /\ order[c] = "absent" /\ refund[c] = "none"
    BY DEF Precheckout, NoneBought, SoldInv, JudgeInv
  <1>2. /\ charge'[c] = [stage |-> "approved", inv |-> i]
        /\ \A d \in Charges \ {c} : charge'[d] = charge[d]
    BY <1>0 DEF Precheckout, TypeOK
  <1>3. Outcome(c) = "none" /\ Outcome(c)' = "none"
    BY <1>0, <1>1, <1>2 DEF Outcome
  <1>4. \A d \in Charges \ {c} : Outcome(d)' = Outcome(d)
    BY <1>0, <1>2, OutcomeSame
  <1>5. Purchases' = Purchases /\ Purchases[c] = "none"
    <2>1. \A d \in Charges : Outcome(d)' = Outcome(d)
      BY <1>3, <1>4
    <2>2. QED
      BY <1>3, <2>1, PurchasesSame DEF Purchases
  <1>6. Bought[c] = NoInvoice /\ Bought' = [Bought EXCEPT ![c] = i]
    <2>1. charge'[c].inv = i
      BY <1>2
    <2>2. \A d \in Charges \ {c} : charge'[d].inv = charge[d].inv
      BY <1>2
    <2>3. QED
      BY <1>1, <2>1, <2>2 DEF Bought
  <1>7. QED
    BY <1>0, <1>5, <1>6, AccessSame, SettlementSteps DEF SettlementStep

\* Telegram takes the money of an approved purchase.
LEMMA TakeKeeps ==
    ASSUME TypeInv, SoldInv, JudgeInv, OneDelivery, ~CloseMayFail,
           NEW c \in Charges, TakeMoney(c)
    PROVE  SettlementStep
  <1> USE DEF orderVars
  <1>0. TypeOK /\ UNCHANGED <<order, refund, granted>>
    BY DEF TypeInv, TakeMoney
  <1>1. /\ charge[c].stage = "approved" /\ charge[c].inv # NoInvoice
        /\ order[c] = "absent" /\ refund[c] = "none"
    BY CheckoutAssumption DEF TakeMoney, TypeInv, ChargeInv, SoldInv, JudgeInv
  <1>2. /\ charge'[c].stage = "taken" /\ charge'[c].inv = charge[c].inv
        /\ \A d \in Charges \ {c} : charge'[d] = charge[d]
    BY <1>0 DEF TakeMoney, TypeOK
  <1>3. Outcome(c) = "none" /\ Outcome(c)' = "taken"
    BY <1>0, <1>1, <1>2 DEF Outcome
  <1>4. \A d \in Charges \ {c} : Outcome(d)' = Outcome(d)
    BY <1>0, <1>2, OutcomeSame
  <1>5. Purchases' = [Purchases EXCEPT ![c] = "taken"] /\ Purchases[c] = "none"
    BY <1>3, <1>4, PurchasesMove DEF Purchases
  <1>6. Bought[c] # NoInvoice /\ Bought' = Bought
    BY <1>1, <1>2 DEF Bought
  <1>7. QED
    BY <1>0, <1>5, <1>6, AccessSame, SettlementSteps DEF SettlementStep

\* record_payment sells: no other charge of this invoice was sold, since its row
\* was still pending, and this one was not refused, since that closes the row.
LEMMA DecideKeeps ==
    ASSUME TypeInv, SoldInv, JudgeInv, OneDelivery, ~CloseMayFail,
           NEW t \in Tasks, Decide(t)
    PROVE  SettlementStep
  <1>p. PICK c \in Charges : c = task[t].charge
    BY TaskFacts DEF Decide
  <1>0. /\ TypeOK /\ UNCHANGED <<charge, refund, granted>>
        /\ c \in Charges /\ c \in Orders /\ charge[c].stage = "taken"
    BY <1>p, TaskFacts DEF TypeInv, Decide, worldVars
  <1>1. CASE UNCHANGED order
    BY <1>0, <1>1, Unseen
  <1>2. CASE ~UNCHANGED order
    <2>1. /\ order[c] = "absent" /\ invoice[charge[c].inv].status = "pending"
          /\ order' = [order EXCEPT ![c] = "paid"]
      BY <1>p, <1>2 DEF Decide, Payable, ChargeOf, InvoiceOf
    <2>2. refund[c] = "none"
      BY <1>0, <2>1 DEF JudgeInv, Closed
    <2>3. order'[c] = "paid" /\ \A d \in Charges \ {c} : order'[d] = order[d]
      BY <1>0, <2>1 DEF TypeOK
    <2>4. Outcome(c) = "taken" /\ Outcome(c)' = "sold"
      BY <1>0, <2>1, <2>2, <2>3 DEF Outcome
    <2>5. \A d \in Charges \ {c} : Outcome(d)' = Outcome(d)
      BY <1>0, <2>3, OutcomeSame
    <2>6. Purchases' = [Purchases EXCEPT ![c] = "sold"] /\ Purchases[c] = "taken"
      BY <1>0, <2>4, <2>5, PurchasesMove DEF Purchases
    <2>7. ASSUME NEW d \in Charges, Purchases[d] \in {"sold", "withdrawn"}
          PROVE  Bought[d] # Bought[c]
      <3>1. order[d] # "absent"
        BY <2>7 DEF Purchases, Outcome
      <3>2. invoice[charge[d].inv].status = "paid"
        BY <3>1 DEF SoldInv
      <3>3. QED
        BY <1>0, <2>1, <3>2 DEF Bought
    <2>8. QED
      BY <1>0, <2>6, <2>7, BoughtSame, AccessSame, SettlementSteps DEF SettlementStep
  <1>3. QED
    BY <1>1, <1>2

\* The first obligation of a charge that bought nothing refuses it.
LEMMA RefuseKeeps ==
    ASSUME TypeInv, JudgeInv, OneDelivery, ~CloseMayFail,
           NEW t \in Tasks, Refuse(t) \/ Fallback(t) \/ FallbackFails(t), refund' # refund
    PROVE  SettlementStep
  <1>p. PICK c \in Charges : c = task[t].charge
    BY TaskFacts DEF Refuse, Fallback, FallbackFails
  <1>0. /\ TypeOK /\ UNCHANGED <<charge, order, granted>>
        /\ c \in Charges /\ c \in Orders /\ charge[c].stage = "taken"
    BY <1>p, TaskFacts DEF TypeInv, Refuse, Fallback, FallbackFails, worldVars, orderVars
  <1>1. order[c] = "absent"
    BY <1>p DEF JudgeInv, Judging, Refuse, Fallback, FallbackFails
  <1>2. PICK how \in {"owed", "returned", "reported"} :
           refund' = [refund EXCEPT ![c] = IF @ = "none" THEN how ELSE @]
    BY <1>p DEF Refuse, Fallback, FallbackFails, Owe, ChargeOf
  <1>3. \A d \in Charges \ {c} : Outcome(d)' = Outcome(d)
    <2>1. \A d \in Charges \ {c} : refund'[d] = refund[d]
      BY <1>0, <1>2 DEF TypeOK
    <2>2. QED
      BY <1>0, <2>1, OutcomeSame
  <1>4. CASE refund[c] = "none"
    <2>1. refund'[c] = how
      BY <1>0, <1>2, <1>4 DEF TypeOK
    <2>2. Outcome(c) = "taken" /\ Outcome(c)' = "refused"
      BY <1>0, <1>1, <1>4, <2>1 DEF Outcome
    <2>3. Purchases' = [Purchases EXCEPT ![c] = "refused"] /\ Purchases[c] = "taken"
      BY <1>0, <1>3, <2>2, PurchasesMove DEF Purchases
    <2>4. QED
      BY <1>0, <2>3, BoughtSame, AccessSame, SettlementSteps DEF SettlementStep
  <1>5. CASE refund[c] # "none"
    <2>1. refund' = refund
      BY <1>0, <1>2, <1>5 DEF TypeOK
    <2>2. QED
      BY <1>0, <2>1, Unseen
  <1>6. QED
    BY <1>4, <1>5

\* Access comes from an order that is sold and not withdrawn.
LEMMA GrantKeeps ==
    ASSUME TypeInv, NEW o \in Orders, Eligible(o), granted' = granted \cup {o},
           UNCHANGED <<charge, order, refund>>
    PROVE  SettlementStep
  <1>0. TypeOK
    BY DEF TypeInv
  <1>1. Purchases' = Purchases /\ Bought' = Bought
    <2>1. \A c \in Charges : Outcome(c)' = Outcome(c)
      BY OutcomeSame
    <2>2. QED
      BY <2>1, PurchasesSame, BoughtSame
  <1>2. CASE o \in Charges
    <2>1. order[o] \notin Withdrawing \cup {"absent"}
      BY <1>0 DEF Eligible, TypeOK, PaidStatus, Withdrawing
    <2>2. Purchases[o] = "sold"
      BY <1>2, <2>1 DEF Purchases, Outcome, Withdrawing
    <2>3. Access' = Access \cup {o}
      BY <1>2 DEF Access
    <2>4. QED
      BY <1>1, <1>2, <2>2, <2>3, SettlementSteps DEF SettlementStep
  <1>3. CASE o \notin Charges
    <2>1. Access' = Access
      BY <1>3 DEF Access
    <2>2. QED
      BY <1>1, <2>1, SettlementSteps DEF SettlementStep
  <1>4. QED
    BY <1>2, <1>3

\* What happens to an order after the sale withdraws it for a refund, or leaves
\* it sold.
LEMMA OrderKeeps ==
    ASSUME TypeInv, NEW o \in Orders, OrderStep(o)
    PROVE  SettlementStep
  <1>0. TypeOK /\ UNCHANGED charge
    BY DEF TypeInv, OrderStep, ConfirmPayment, FulfilOrder, SendAccess, CompleteOrder,
         ReportProblem, RefundOrder, SettleRefund, orderStep, worldVars
  <1>1. \A c \in Charges : c \in Orders
    BY DEF Orders
  <1>2. ASSUME NEW from \in SUBSET (OrderStatus \ (Withdrawing \cup {"absent"})),
               NEW to \in OrderStatus \ (Withdrawing \cup {"absent"}), Claim(o, from, to),
               UNCHANGED <<refund, granted>>
        PROVE  SettlementStep
    <2>1. ASSUME NEW c \in Charges
          PROVE  \/ order'[c] = order[c]
                 \/ /\ order[c] \notin Withdrawing \cup {"absent"}
                    /\ order'[c] \notin Withdrawing \cup {"absent"}
      BY <1>0, <1>1, <1>2 DEF Claim, TypeOK
    <2>2. QED
      BY <1>0, <1>2, <2>1, Unseen
  <1>3. CASE FulfilOrder(o)
    <2>1. CASE Eligible(o)
      BY <1>0, <1>3, <2>1, GrantKeeps DEF FulfilOrder, orderStep
    <2>2. CASE ~Eligible(o)
      BY <1>2, <1>3, <2>2 DEF FulfilOrder, orderStep, OrderStatus, Withdrawing
    <2>3. QED
      BY <2>1, <2>2
  <1>4. CASE RefundOrder(o)
    <2>1. /\ order[o] \notin Withdrawing \cup {"absent"}
          /\ order' = [order EXCEPT ![o] = "refund_pending"]
          /\ refund' = [refund EXCEPT ![o] = IF @ = "none" THEN "owed" ELSE @]
          /\ UNCHANGED granted
      BY <1>4 DEF RefundOrder, Claim, Owe, Withdrawing
    <2>2. ASSUME NEW c \in Charges \ {o} PROVE Outcome(c)' = Outcome(c)
      BY <1>0, <1>1, <2>1, OutcomeSame DEF TypeOK
    <2>3. CASE o \in Charges
      <3>1. order'[o] = "refund_pending"
        BY <1>0, <2>1 DEF TypeOK
      <3>2. Outcome(o) = "sold" /\ Outcome(o)' = "withdrawn"
        BY <2>1, <3>1 DEF Outcome, Withdrawing
      <3>3. Purchases' = [Purchases EXCEPT ![o] = "withdrawn"] /\ Purchases[o] = "sold"
        BY <2>2, <2>3, <3>2, PurchasesMove DEF Purchases
      <3>4. QED
        BY <1>0, <2>1, <2>3, <3>3, BoughtSame, AccessSame, SettlementSteps DEF SettlementStep
    <2>4. CASE o \notin Charges
      <3>1. Purchases' = Purchases
        BY <2>2, <2>4, PurchasesSame
      <3>2. QED
        BY <1>0, <2>1, <3>1, BoughtSame, AccessSame, SettlementSteps DEF SettlementStep
    <2>5. QED
      BY <2>3, <2>4
  <1>5. CASE SettleRefund(o)
    <2>1. /\ UNCHANGED granted
          /\ \A c \in Charges : (refund'[c] = "none") <=> (refund[c] = "none")
          /\ \A c \in Charges : order'[c] = order[c]
                                  \/ (order[c] \in Withdrawing /\ order'[c] \in Withdrawing)
      BY <1>0, <1>1, <1>5 DEF SettleRefund, Withdrawing, TypeOK
    <2>2. \A c \in Charges : Outcome(c)' = Outcome(c)
      BY <1>0, <2>1, OutcomeSame
    <2>3. QED
      BY <1>0, <2>1, <2>2, PurchasesSame, BoughtSame, AccessSame, SettlementSteps
         DEF SettlementStep
  <1>6. CASE ConfirmPayment(o) \/ SendAccess(o) \/ CompleteOrder(o) \/ ReportProblem(o)
    BY <1>2, <1>6 DEF ConfirmPayment, SendAccess, CompleteOrder, ReportProblem, orderStep,
         OrderStatus, Withdrawing
  <1>7. QED
    BY <1>3, <1>4, <1>5, <1>6 DEF OrderStep

LEMMA SettlementKeeps ==
    ASSUME IInv, NoneBought, OneDelivery, ~CloseMayFail, Next
    PROVE  SettlementStep
  <1> USE DEF worldVars, orderVars
  <1>0. TypeInv /\ TypeOK /\ SoldInv /\ JudgeInv
    BY DEF IInv, TypeInv
  <1>1. CASE UNCHANGED <<charge, order, granted, refund>>
    BY <1>1, Unseen
  <1>2. ASSUME NEW t \in Tasks, PaymentStep(t) \/ PaymentFault(t) PROVE SettlementStep
    <2>1. CASE Decide(t)
      BY <1>0, <2>1, DecideKeeps
    <2>2. CASE Refuse(t) \/ Fallback(t) \/ FallbackFails(t)
      <3>1. CASE UNCHANGED refund
        BY <1>1, <2>2, <3>1 DEF Refuse, Fallback, FallbackFails
      <3>2. CASE refund' # refund
        BY <1>0, <2>2, <3>2, RefuseKeeps
      <3>3. QED
        BY <3>1, <3>2
    <2>3. CASE Apply(t) /\ Eligible(task[t].charge)
      <3>1. task[t].charge \in Orders
        BY <1>0, <2>3 DEF Eligible, TypeOK
      <3>2. QED
        BY <1>0, <2>3, <3>1, GrantKeeps DEF Apply, ChargeOf
    <2>4. CASE Apply(t) /\ ~Eligible(task[t].charge)
      BY <1>1, <2>4 DEF Apply, ChargeOf
    <2>5. CASE \/ CheckDuplicate(t) \/ ReadInvoice(t) \/ ReadOrders(t)
               \/ ReadFails(t) \/ RefuseFails(t) \/ ApplyFails(t)
               \/ LookupFails(t) \/ GiveUp(t)
      BY <1>1, <2>5 DEF CheckDuplicate, ReadInvoice, ReadOrders, ReadFails, RefuseFails,
           ApplyFails, LookupFails, GiveUp
    <2>6. QED
      BY <1>2, <2>1, <2>2, <2>3, <2>4, <2>5 DEF PaymentStep, PaymentFault
  <1>3. ASSUME NEW o \in Transfers, TransferStep(o) PROVE SettlementStep
    <2>1. UNCHANGED <<charge, refund, granted>>
      BY <1>3 DEF TransferStep, StartTransfer, DetailsSent, DetailsNotSent, CancelOrder,
           CloseStale, ReceiveFile, AttachReceipt, FlagReview, RejectTransfer, CancelUnpaid,
           orderStep
    <2>2. order' = order \/ \E to \in OrderStatus : order' = [order EXCEPT ![o] = to]
      BY <1>3 DEF TransferStep, StartTransfer, DetailsSent, DetailsNotSent, CancelOrder,
           CloseStale, ReceiveFile, AttachReceipt, FlagReview, RejectTransfer, CancelUnpaid,
           orderStep, Claim, OrderStatus
    <2>3. \A c \in Charges : c \in Orders /\ c # o
      BY CheckoutAssumption DEF Orders
    <2>4. \A c \in Charges : order'[c] = order[c]
      BY <1>0, <2>2, <2>3 DEF TypeOK
    <2>5. QED
      BY <2>1, <2>4, Unseen
  <1>4. CASE Erase
    <2>1. /\ UNCHANGED <<charge, refund, granted>>
          /\ \A o \in Orders : \/ order'[o] = order[o]
                               \/ order[o] = "pending_receipt" /\ order'[o] = "cancelled"
      BY <1>0, <1>4 DEF Erase
    <2>2. QED
      BY <2>1, Unseen DEF Orders, Withdrawing
  <1>5. ASSUME \/ \E i \in Invoices :
                    \/ \E v \in Terms : ShowTerms(i, v)
                    \/ ConfirmQuote(i) \/ InvoiceSent(i) \/ InvoiceNotSent(i)
                    \/ TtlEnds(i) \/ GraceEnds(i)
               \/ \E t \in Tasks, c \in Charges : Deliver(t, c)
               \/ \E to \in {"live", "blocked"} : SetBlocked(to)
               \/ \E v \in Terms \cup {NoTerms} : EditProduct(v)
               \/ Restart
        PROVE  UNCHANGED <<charge, order, granted, refund>>
    BY <1>5 DEF ShowTerms, ConfirmQuote, InvoiceSent, InvoiceNotSent, TtlEnds, GraceEnds, Deliver,
         SetBlocked, EditProduct, Restart
  <1>6. QED
    BY <1>0, <1>1, <1>2, <1>3, <1>4, <1>5, ApproveKeeps, TakeKeeps, OrderKeeps DEF Next

\* Through redelivered updates, failed writes, restarts and every edit of the
\* catalog, checkout uses each charge once: it is sold or refused, an invoice is
\* sold to one charge, and access comes from a sale that was not withdrawn.
THEOREM ImplementsSettlement ==
    ASSUME OneDelivery, ~CloseMayFail
    PROVE  Spec => KeepsSettlement
  <1>1. Init => Promise!SettlementInit
    <2> SUFFICES ASSUME Init PROVE Promise!SettlementInit
      OBVIOUS
    <2>1. \A c \in Charges : Outcome(c) = "none"
      BY DEF Init, Outcome, Orders
    <2>2. /\ Purchases = [c \in Charges |-> "none"]
          /\ Bought = [c \in Charges |-> NoInvoice] /\ Access = {}
      BY <2>1 DEF Purchases, Bought, Access, Init
    <2>3. QED
      BY <2>2, SettlementSteps
  <1>2. IInv /\ NoneBought /\ [Next]_vars => [Promise!SettlementNext]_Promise!settlementVars
    <2>1. ASSUME UNCHANGED vars PROVE SettlementStep
      <3>1. UNCHANGED <<charge, order, granted, refund>>
        BY <2>1 DEF vars
      <3>2. QED
        BY <3>1, Unseen
    <2>2. QED
      BY <2>1, SettlementKeeps DEF SettlementStep
  <1>3. QED
    BY <1>1, <1>2, Invariance, NoneBoughtInvariance, PTL
       DEF Spec, KeepsSettlement, Promise!SettlementSpec
=============================================================================
