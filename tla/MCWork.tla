------------------------------- MODULE MCWork --------------------------------
(* Handlers that are at work at the same time, for TLC: what staff do with an
   order, transactions on the one connection, the lifecycle lock, the
   reminders.  The components share no state here: in a behaviour one of them
   takes steps.  Fulfilment keeps its own variables, at their initial values
   in the behaviours of the others; those share variables to keep the states
   short. *)
EXTENDS Fulfilment, TLC

CONSTANTS
    People,     \* accounts or administrators
    Seniors,    \* the profiles of staff
    Nobody

VARIABLES
    part,       \* the component this behaviour is of
    x1, x2, x3, x4, x5, x6, x7, x8, x9, x10, x11    \* the variables of the others

others == <<x1, x2, x3, x4, x5, x6, x7, x8, x9, x10, x11>>
workVars == <<vars, part, others>>
Rest == "rest"  \* a variable that the component does not have

Symmetry == Permutations(Tasks) \cup Permutations(People) \cup Permutations(Seniors)

-----------------------------------------------------------------------------
(* The components *)

T == INSTANCE Transactions WITH
    Tasks <- Tasks, NoTask <- Nobody, MaxCalls <- 2, MaxCancels <- 2, MaxRestarts <- 1,
    disk <- x1, conn <- x2, up <- x3, lock <- x4, owner <- x5, at <- x6, seen <- x7,
    acks <- x8, calls <- x9, cancels <- x10, restarts <- x11
L == INSTANCE Lifecycle WITH
    Profiles <- Seniors \cup {"client"}, Accounts <- People, Staff <- Seniors,
    Gifted <- {"client"}, Tasks <- Tasks, Nobody <- Nobody, account <- x1, used <- x2,
    names <- x3, onDuty <- x4, queue <- x5, task <- x6
N == INSTANCE Reminders WITH
    Before <- 3, Periods <- {1, 2}, LastDay <- 5, MaxRenewals <- 2, MaxDoubts <- 1,
    MaxCancels <- 2, MaxKills <- 1, Refunds <- TRUE, sub <- x1, added <- x2, renewals <- x3,
    now <- x4, job <- x5, told <- x6, moved <- x7, doubts <- x8, cancels <- x9, kills <- x10

ASSUME WorkAssumption ==
    /\ T!TransactionsAssumption
    /\ FulfilmentAssumption
    /\ L!LifecycleAssumption /\ "client" \notin Seniors
    /\ N!RemindersAssumption

OthersAtRest ==
    /\ x1 = Rest /\ x2 = Rest /\ x3 = Rest /\ x4 = Rest /\ x5 = Rest /\ x6 = Rest
    /\ x7 = Rest /\ x8 = Rest /\ x9 = Rest /\ x10 = Rest /\ x11 = Rest

WorkInit ==
    /\ Init
    /\ \/ part = "fulfilment" /\ OthersAtRest
       \/ part = "transactions" /\ T!Init
       \/ /\ part = "lifecycle" /\ L!Init
          /\ x7 = Rest /\ x8 = Rest /\ x9 = Rest /\ x10 = Rest /\ x11 = Rest
       \/ part = "reminders" /\ N!Init /\ x11 = Rest

WorkNext ==
    \/ part = "fulfilment" /\ Next /\ UNCHANGED <<part, others>>
    \/ part = "transactions" /\ T!Next /\ UNCHANGED <<vars, part>>
    \/ /\ part = "lifecycle" /\ L!Next
       /\ UNCHANGED <<vars, part, x7, x8, x9, x10, x11>>
    \/ part = "reminders" /\ N!Next /\ UNCHANGED <<vars, part, x11>>

WorkSpec == WorkInit /\ [][WorkNext]_workVars

-----------------------------------------------------------------------------
(* Properties *)

\* All tasks share a connection, and yet a transaction is on the disk as a whole or not at
\* all, no reader sees its middle, what was reported is written, and none is left open.
WholeOrNothing ==
    part = "transactions" => T!WholeOrNothing

\* The lifecycle lock does what it is for: while a message is going out its profile is the
\* live one of the account it goes to, an erased one gets neither name nor role back, staff
\* notices go to staff, and handlers that brief staff while they hold a lock wait in no
\* circle.
LockIsKept ==
    part = "lifecycle" => L!LockIsKept

\* A term has each reminder once and a run sends one message, although flags are claimed
\* before the message and given back after a failure, while renewals and refunds move the
\* date; what may disturb it is named in the parts.
RemindedOnce ==
    part = "reminders" => N!RemindedOnce

\* What a step keeps of what was settled, for the component that takes it.
SettledStaysStep ==
    /\ ReversedStaysStep
    /\ part = "fulfilment" => PromiseStep
    /\ part = "reminders" => N!NearAfterTomorrowStep
    /\ part = "transactions" => T!StoreStep

\* What was settled stays: a refunded, rejected or cancelled order is not walked back by a
\* handler that read it earlier, and each order moves as OrderPromise allows; a client who
\* was told that the end is tomorrow is not told afterwards that it is near; and the shared
\* connection moves as a store would whose calls take effect at one moment each: what was
\* committed is not lost or half undone, and what was read is what was committed.
SettledStays == [][SettledStaysStep]_workVars
=============================================================================
