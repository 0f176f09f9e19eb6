----------------------------- MODULE Settlement -----------------------------
(***************************************************************************)
(* What checkout promises about money: a Stars charge is taken once and    *)
(* used once.  It buys one order, and no other charge of the same invoice  *)
(* buys another, or it is owed back; only staff turn a sale into a refund; *)
(* what went back never buys anything; and access comes from a sale.       *)
(***************************************************************************)
CONSTANTS Charges, Invoices, NoInvoice

VARIABLES
    purchase,   \* purchase[c]: what became of the charge
    bought,     \* bought[c]: the invoice the charge pays
    access      \* charges whose order gave access

settlementVars == <<purchase, bought, access>>

SettlementInit ==
    /\ purchase = [c \in Charges |-> "none"]
    /\ bought = [c \in Charges |-> NoInvoice]
    /\ access = {}

Become(c, from, to) ==
    /\ purchase[c] \in from
    /\ purchase' = [purchase EXCEPT ![c] = to]

Approve(c, i) ==
    /\ purchase[c] = "none" /\ bought[c] = NoInvoice
    /\ bought' = [bought EXCEPT ![c] = i]
    /\ UNCHANGED <<purchase, access>>

Take(c) ==
    /\ bought[c] # NoInvoice
    /\ Become(c, {"none"}, "taken") /\ UNCHANGED <<bought, access>>

WasSold(c) == purchase[c] \in {"sold", "withdrawn"}

Sell(c) ==
    /\ \A d \in Charges : WasSold(d) => bought[d] # bought[c]
    /\ Become(c, {"taken"}, "sold") /\ UNCHANGED <<bought, access>>

\* The charge is refused; how it goes back is left to the refund.
Refuse(c) == Become(c, {"taken"}, "refused") /\ UNCHANGED <<bought, access>>

Withdraw(c) == Become(c, {"sold"}, "withdrawn") /\ UNCHANGED <<bought, access>>

Grant(c) ==
    /\ purchase[c] = "sold"
    /\ access' = access \cup {c} /\ UNCHANGED <<purchase, bought>>

SettlementNext ==
    \E c \in Charges :
        \/ \E i \in Invoices : Approve(c, i)
        \/ Take(c) \/ Sell(c) \/ Refuse(c) \/ Withdraw(c) \/ Grant(c)

SettlementSpec == SettlementInit /\ [][SettlementNext]_settlementVars
=============================================================================
