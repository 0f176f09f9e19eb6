----------------------------- MODULE MCProgress ------------------------------
(* The components that promise an end, for TLC: the start with its
   migrations, the life of a receipt, and the handlers that wait for each
   other at the lifecycle lock.  They share no state; in a behaviour one of
   them takes steps.  Receipts keeps its own variables, at initial values in
   the behaviours of the others; those share variables to keep the states
   short. *)
EXTENDS Receipts, TLC

CONSTANTS
    Profiles,
    Accounts,
    Staff,
    Gifted,
    Tasks,
    Nobody

VARIABLES
    part,       \* the component this behaviour is of
    x1, x2, x3, x4, x5, x6      \* the variables of the others

others == <<x1, x2, x3, x4, x5, x6>>
progressVars == <<vars, part, others>>
Unused == "unused"  \* a variable of a component that takes no steps

-----------------------------------------------------------------------------
(* The files that earlier versions left *)

Rows == INSTANCE Migrations WITH
    Legacy <- {}, MaxCrashes <- 0, MaxErrors <- 0,
    file <- x1, conn <- x2, at <- x3, first <- x4, crashes <- x5, errors <- x6

\* The rows that version v wrote.
OrdersOf(v, gone) ==
    {r \in Rows!OrderRows :
        /\ r.charge \in {<<>>, <<"c">>}
        /\ r.status = "pending_receipt" => r.charge = <<>> /\ ~r.paid
        /\ IF v < 3 THEN ~r.paid ELSE r.status \in Rows!Confirmed => r.paid
        /\ r.reversed <=> v >= 4 /\ r.paid /\ r.status \in {"refunded", "rejected"}
        /\ r.recipient => v >= 9 /\ r.charge # <<>>
        /\ v >= 9 /\ ~gone => (r.recipient <=> r.charge # <<>>)}
SomeOrders(v, gone) ==
    {f \in [Rows!Ids -> OrdersOf(v, gone)] :
        \/ f[2] = Rows!NoRow
        \/ f[2].charge = <<"c">> /\ \A o \in Rows!Ids : f[o].status # "problem"}
RefundsOf(v, gone) ==
    {{}} \cup (IF v < 6 THEN {} ELSE
        {{r} : r \in {q \in Rows!RefundRows :
            /\ ~q.completed => q.telegram
            /\ q.telegram \/ (gone /\ q.completed)
            /\ IF v < 11 THEN ~q.user
               ELSE q.user \/ (gone /\ ~q.order)}})

FileOf(v, gone, orders, subs, invoice, refunds) ==
    [Rows!NoFile EXCEPT
        !.version = v, !.erased = gone,
        !.objects = IF v < 6 THEN Rows!Objects \ {"refunds"}
                    ELSE IF v > Rows!Latest THEN Rows!Objects \ {"index"} ELSE Rows!Objects,
        !.columns = {i \in Rows!Adding : i <= v},
        !.orders = orders, !.subs = subs, !.invoice = invoice, !.refunds = refunds]

\* A part of the data varies at a time.
Versions == 0..(Rows!Latest + 1)
Invoice(v, status) == [status |-> status, terms |-> v >= 5]
Plain(v) == FileOf(v, FALSE, Rows!NoFile.orders, Rows!NoFile.subs, Invoice(v, "paid"), {})
Legacy ==
    UNION {{[Plain(v) EXCEPT !.erased = e, !.orders = orders] :
                orders \in SomeOrders(v, e)} : v \in Versions, e \in BOOLEAN}
    \cup {[Plain(v) EXCEPT !.subs = subs] : v \in Versions, subs \in [Rows!Ids -> Rows!SubRows]}
    \cup UNION {{[Plain(v) EXCEPT !.erased = e, !.refunds = refunds,
                                  !.invoice = Invoice(v, status)] :
                status \in {"pending", "paid"}, refunds \in RefundsOf(v, e)} :
            v \in Versions, e \in BOOLEAN}

-----------------------------------------------------------------------------
(* The components *)

M == INSTANCE Migrations WITH
    Legacy <- Legacy, MaxCrashes <- 2, MaxErrors <- 1, file <- x1, conn <- x2, at <- x3,
    first <- x4, crashes <- x5, errors <- x6
L == INSTANCE Lifecycle WITH
    Profiles <- Profiles, Accounts <- Accounts, Staff <- Staff, Gifted <- Gifted,
    Tasks <- Tasks, Nobody <- Nobody, account <- x1, used <- x2, names <- x3, onDuty <- x4,
    queue <- x5, task <- x6

ASSUME ProgressAssumption ==
    /\ M!MigrationsAssumption
    /\ ReceiptsAssumption
    /\ L!LifecycleAssumption

\* One of the initial values of Receipts, for a behaviour of another component.
OrdersAtRest == \A o \in Orders : order[o].status = "unopened"

ProgressInit ==
    /\ Init
    /\ \/ /\ part = "receipts"
          /\ x1 = Unused /\ x2 = Unused /\ x3 = Unused
          /\ x4 = Unused /\ x5 = Unused /\ x6 = Unused
       \/ part = "migrations" /\ M!Init /\ OrdersAtRest
       \/ part = "lifecycle" /\ L!Init /\ OrdersAtRest

ProgressNext ==
    \/ part = "receipts" /\ Next /\ UNCHANGED <<part, others>>
    \/ part = "migrations" /\ M!Next /\ UNCHANGED <<vars, part>>
    \/ part = "lifecycle" /\ L!Next /\ UNCHANGED <<vars, part>>

ProgressSpec == ProgressInit /\ [][ProgressNext]_progressVars

\* The fairness that each component states for itself.
RemovalGoesOn == part = "receipts" /\ Removal /\ UNCHANGED <<part, others>>
DayPasses(o) == part = "receipts" /\ Age(o) /\ UNCHANGED <<part, others>>
StartGoesOn == part = "migrations" /\ M!Start /\ UNCHANGED <<vars, part>>
TaskGoesOn(t) == part = "lifecycle" /\ L!Step(t) /\ UNCHANGED <<vars, part>>
FairProgressSpec ==
    /\ ProgressSpec
    /\ WF_progressVars(StartGoesOn)
    /\ WF_progressVars(RemovalGoesOn) /\ \A o \in Orders : WF_progressVars(DayPasses(o))
    /\ \A t \in Tasks : WF_progressVars(TaskGoesOn(t))

-----------------------------------------------------------------------------
(* Properties *)

\* The database a bot serves on is of the current schema, and each file of an earlier
\* version came to it by every migration once and in order: no charge, no date of a payment,
\* no recipient of money and no running term was lost on the way, over crashes and errors.
UpgradeIsFaithful ==
    part = "migrations" => M!UpgradeIsFaithful

=============================================================================
