------------------------------ MODULE Lifecycle ------------------------------
(***************************************************************************)
(* The lifecycle locks of db/users.py, one for each profile, and all who   *)
(* take them: get_or_create, the replies of handlers/common.py, the        *)
(* notices of services/notify.py, the customer's own handlers, the expiry  *)
(* sweep, and staff who give days.                                         *)
(*                                                                         *)
(* A profile is a row of users; a Telegram account that was erased and     *)
(* starts again gets a new one.  Messages go to accounts and are about     *)
(* profiles, and the lock is held until the message is out, so that an     *)
(* erasure comes before the message or after it.  An asyncio.Lock is       *)
(* handed on in the order of asking and is not re-entrant.                 *)
(***************************************************************************)
EXTENDS Sequences, Naturals, FiniteSets

CONSTANTS
    Profiles,       \* rows of users
    Accounts,       \* Telegram accounts
    Staff,          \* profiles that may be given a role
    Gifted,         \* profiles to whose subscriptions staff give days
    Tasks,
    Nobody          \* the account of a row that is not there or was erased

LifecycleAssumption ==
    /\ Nobody \notin Accounts
    /\ Staff \subseteq Profiles
    /\ Gifted \subseteq Profiles

VARIABLES
    account,    \* users.telegram_id
    used,       \* rows that were ever inserted
    names,      \* rows that hold the name of a person
    onDuty,     \* rows with a role of staff that are not blocked
    queue,      \* the lifecycle locks: the holder and those who wait
    task

vars == <<account, used, names, onDuty, queue, task>>
rows == <<account, used, names, onDuty>>

Idle == [at |-> "idle"]
Places == {"register", "meet", "handle", "look", "call", "own", "gift", "broadcast", "brief",
           "write"}
Waits == {"meet", "call", "own", "gift", "brief", "write"}

\* about and from: the profile and the account the handler was called by.
\* row and to: the lock it asks for or holds, and the account it writes to.
\* keeps: a lock it holds besides.  todo: staff yet to be told.
Started(at, p, a) ==
    [at |-> at, about |-> p, from |-> a, row |-> p, to |-> Nobody,
     keeps |-> {}, todo |-> {}, sending |-> FALSE]

Live(p) == account[p] \in Accounts
Goes(t, at) == task' = [task EXCEPT ![t].at = at]

\* async with lifecycle_lock: ask, enter in turn, leave.
Ask(t, p) == queue' = [queue EXCEPT ![p] = Append(@, t)]
Leave(S) == queue' = [p \in Profiles |-> IF p \in S THEN Tail(queue[p]) ELSE queue[p]]
MayEnter(t) ==
    /\ task[t].at \in Waits /\ ~task[t].sending
    /\ task[t].row \notin task[t].keeps
    /\ Head(queue[task[t].row]) = t
Enters(t, at) == task[t].at = at /\ MayEnter(t)

Ends(t, S) == task' = [task EXCEPT ![t] = Idle] /\ Leave(S)
Sends(t, a) ==
    /\ task' = [task EXCEPT ![t].sending = TRUE, ![t].to = a]
    /\ UNCHANGED queue

-----------------------------------------------------------------------------
(* An update arrives: get_or_create *)

\* The first look, by account.
Arrive(t, a) ==
    /\ task[t] = Idle
    /\ \/ \E p \in Profiles :
             /\ account[p] = a
             /\ task' = [task EXCEPT ![t] = Started("meet", p, a)] /\ Ask(t, p)
       \/ /\ \A p \in Profiles : account[p] # a
          /\ \E p \in Profiles \ used : task' = [task EXCEPT ![t] = Started("register", p, a)]
          /\ UNCHANGED queue
    /\ UNCHANGED rows

\* INSERT ... ON CONFLICT DO NOTHING, and the row that is there then.
Register(t) ==
    /\ task[t].at = "register"
    /\ LET a == task[t].from IN
       \/ \E p \in Profiles :
             /\ account[p] = a
             /\ task' = [task EXCEPT ![t] = Started("meet", p, a)] /\ Ask(t, p)
             /\ UNCHANGED <<account, used, names>>
       \/ /\ \A p \in Profiles : account[p] # a
          /\ \E p \in Profiles \ used :
                /\ account' = [account EXCEPT ![p] = a]
                /\ used' = used \cup {p} /\ names' = names \cup {p}
                /\ task' = [task EXCEPT ![t] = Started("meet", p, a)] /\ Ask(t, p)
    /\ UNCHANGED onDuty

\* No row is left for a new profile: the bound on erasures.
NoRowLeft(t) ==
    /\ task[t].at = "register" /\ used = Profiles
    /\ \A p \in Profiles : account[p] # task[t].from
    /\ Ends(t, {}) /\ UNCHANGED rows

\* The second look, under the lock: the row is still of this account.
Meet(t) ==
    /\ Enters(t, "meet")
    /\ LET p == task[t].row IN
       IF account[p] = task[t].from
       THEN /\ names' = names \cup {p}
            /\ Goes(t, "handle") /\ Leave({p})
            /\ UNCHANGED <<account, used, onDuty>>
       ELSE Ends(t, {p}) /\ UNCHANGED rows

-----------------------------------------------------------------------------
(* A message, under the lock of the profile it is about *)

\* A handler answers: reply, edit_or_reply.
Reply(t) ==
    /\ task[t].at = "handle" /\ Goes(t, "look")
    /\ UNCHANGED <<rows, queue>>

\* The scheduler or another's handler has a notice for a customer: to_user with
\* expected_user_id and the account as it was read.
Notice(t, p) ==
    /\ task[t] = Idle /\ Live(p)
    /\ task' = [task EXCEPT ![t] = Started("look", p, account[p])]
    /\ UNCHANGED <<rows, queue>>

\* Mutant: whoever has the account now gets the message.
LookForAnyone(t) ==
    /\ task[t].at = "look"
    /\ \/ \E p \in Profiles :
             /\ account[p] = task[t].from
             /\ task' = [task EXCEPT ![t].at = "call", ![t].row = p] /\ Ask(t, p)
       \/ /\ \A p \in Profiles : account[p] # task[t].from
          /\ Ends(t, task[t].keeps)
    /\ UNCHANGED rows

\* Who has the account now must be the profile that the message is about.
Look(t) ==
    /\ task[t].at = "look"
    /\ LET p == task[t].about IN
       IF account[p] = task[t].from
       THEN task' = [task EXCEPT ![t].at = "call", ![t].row = p] /\ Ask(t, p)
       ELSE Ends(t, task[t].keeps)
    /\ UNCHANGED rows

Call(t) ==
    /\ Enters(t, "call")
    /\ LET p == task[t].row IN
       IF account[p] = task[t].from THEN Sends(t, account[p])
       ELSE Ends(t, {p} \cup task[t].keeps)
    /\ UNCHANGED rows

\* The message is out, or Telegram refused it twice.
Called(t) ==
    /\ task[t].at = "call" /\ task[t].sending
    /\ Ends(t, {task[t].row} \cup task[t].keeps)
    /\ UNCHANGED rows

-----------------------------------------------------------------------------
(* The customer's own lock, and staff told afterwards *)

\* confirm_order, subscription_data, start_transfer and the other handlers that
\* hold the lock of their customer.
OwnLock(t) ==
    /\ task[t].at = "handle"
    /\ Goes(t, "own") /\ Ask(t, task[t].row)
    /\ UNCHANGED rows

\* close_expired comes to a subscription of this profile.
Expire(t, p) ==
    /\ task[t] = Idle /\ p \in used
    /\ task' = [task EXCEPT ![t] = Started("own", p, account[p])] /\ Ask(t, p)
    /\ UNCHANGED rows

Own(t) ==
    /\ Enters(t, "own")
    /\ LET p == task[t].row IN
       IF Live(p) /\ account[p] = task[t].from THEN Sends(t, account[p])
       ELSE Ends(t, {p})
    /\ UNCHANGED rows

\* The lock is left; some of these handlers go on to tell staff.
OwnDone(t) ==
    /\ task[t].at = "own" /\ task[t].sending
    /\ \/ Ends(t, {task[t].row})
       \/ /\ task' = [task EXCEPT ![t].at = "broadcast", ![t].sending = FALSE,
                                  ![t].todo = onDuty]
          /\ Leave({task[t].row})
    /\ UNCHANGED rows

\* to_staff, one lock at a time.  The list of staff is read once.
Broadcast(t) ==
    /\ task[t].at = "broadcast"
    /\ IF task[t].todo = {} THEN Ends(t, task[t].keeps)
       ELSE \E p \in task[t].todo :
               /\ task' = [task EXCEPT ![t].at = "brief", ![t].row = p, ![t].to = account[p],
                                       ![t].todo = @ \ {p}]
               /\ Ask(t, p)
    /\ UNCHANGED rows

\* _to_current_staff.
Brief(t) ==
    /\ Enters(t, "brief")
    /\ LET p == task[t].row IN
       IF Live(p) /\ p \in onDuty THEN Sends(t, account[p])
       ELSE Goes(t, "broadcast") /\ Leave({p})
    /\ UNCHANGED rows

Briefed(t) ==
    /\ task[t].at = "brief" /\ task[t].sending
    /\ task' = [task EXCEPT ![t].at = "broadcast", ![t].sending = FALSE]
    /\ Leave({task[t].row})
    /\ UNCHANGED rows

-----------------------------------------------------------------------------
(* Days given by staff: two locks *)

\* add_subscription_days takes the lock of the customer.
Gift(t, p) ==
    /\ task[t].at = "handle" /\ task[t].about \in onDuty
    /\ p \in Gifted \cap used
    /\ task' = [task EXCEPT ![t].at = "gift", ![t].row = p] /\ Ask(t, p)
    /\ UNCHANGED rows

\* gift_days.  A customer who is gone gets nothing, and staff are told under the
\* lock too.
GiveDays(t) ==
    /\ Enters(t, "gift")
    /\ LET p == task[t].row IN
       IF Live(p) THEN Sends(t, account[p])
       ELSE task' = [task EXCEPT ![t].at = "look", ![t].keeps = {p}] /\ UNCHANGED queue
    /\ UNCHANGED rows

\* The customer has been told; the answer to staff follows under the same lock.
DaysGiven(t) ==
    /\ task[t].at = "gift" /\ task[t].sending
    /\ task' = [task EXCEPT ![t].at = "look", ![t].sending = FALSE, ![t].keeps = {task[t].row}]
    /\ UNCHANGED <<rows, queue>>

-----------------------------------------------------------------------------
(* Writes under the lock of a profile, of one statement or transaction *)

\* erase, set_role or set_blocked asks for the lock.
Change(t, p) ==
    /\ task[t] = Idle /\ p \in used
    /\ task' = [task EXCEPT ![t] = Started("write", p, account[p])] /\ Ask(t, p)
    /\ UNCHANGED rows

\* A profile that is live is erased.
Erase(t) ==
    /\ Enters(t, "write")
    /\ LET p == task[t].row IN
       IF Live(p)
       THEN /\ account' = [account EXCEPT ![p] = Nobody]
            /\ names' = names \ {p} /\ onDuty' = onDuty \ {p}
            /\ UNCHANGED used
       ELSE UNCHANGED rows
    /\ Ends(t, {task[t].row})

\* set_role and set_blocked, by _update_live: of a live profile.
SetDuty(t) ==
    /\ Enters(t, "write") /\ task[t].row \in Staff
    /\ LET p == task[t].row IN
       IF Live(p) THEN onDuty' \in {onDuty \ {p}, onDuty \cup {p}} ELSE UNCHANGED onDuty
    /\ Ends(t, {task[t].row})
    /\ UNCHANGED <<account, used, names>>

-----------------------------------------------------------------------------

Init ==
    /\ account = [p \in Profiles |-> Nobody]
    /\ used = {} /\ names = {} /\ onDuty = {}
    /\ queue = [p \in Profiles |-> <<>>]
    /\ task = [t \in Tasks |-> Idle]

\* What a task that was started does next.
Step(t) ==
    \/ Register(t) \/ NoRowLeft(t) \/ Meet(t)
    \/ Reply(t) \/ OwnLock(t) \/ \E p \in Profiles : Gift(t, p)
    \/ Look(t) \/ Call(t) \/ Called(t)
    \/ Own(t) \/ OwnDone(t) \/ Broadcast(t) \/ Brief(t) \/ Briefed(t)
    \/ GiveDays(t) \/ DaysGiven(t) \/ Erase(t) \/ SetDuty(t)

Begin(t) ==
    \/ \E a \in Accounts : Arrive(t, a)
    \/ \E p \in Profiles : Notice(t, p) \/ Expire(t, p) \/ Change(t, p)

Next == \E t \in Tasks : Begin(t) \/ Step(t)

Spec == Init /\ [][Next]_vars

\* The event loop runs every task that was started.
FairSpec == Spec /\ \A t \in Tasks : WF_vars(Step(t))

-----------------------------------------------------------------------------
(* Properties *)

Record == [at : Places, about : Profiles, from : Accounts \cup {Nobody}, row : Profiles,
           to : Accounts \cup {Nobody}, keeps : SUBSET Profiles, todo : SUBSET Profiles,
           sending : BOOLEAN]

\* Types, and that an account has one profile.
TypeOK ==
    /\ account \in [Profiles -> Accounts \cup {Nobody}]
    /\ used \subseteq Profiles /\ names \subseteq used /\ onDuty \subseteq used
    /\ queue \in [Profiles -> Seq(Tasks)]
    /\ \A t \in Tasks : task[t] = Idle \/ task[t] \in Record
    /\ \A p, q \in Profiles : Live(p) /\ account[p] = account[q] => p = q

Sending(t) == task[t] # Idle /\ task[t].sending

\* "An old handler must not send retained history from the erased row to the newly
\* created row": while a message is going out, its profile is live, it goes to the
\* account of that profile, and an answer goes to who asked.
MessageFindsItsProfile ==
    \A t \in Tasks : Sending(t) =>
        /\ Live(task[t].row) /\ task[t].to = account[task[t].row]
        /\ task[t].at \in {"call", "own"} => task[t].row = task[t].about

\* "This old update must not recreate names on the retained financial row", and no
\* role comes back to it.
ErasedStaysNameless ==
    \A p \in names \cup onDuty : Live(p)

\* What staff are told goes to those who are staff and not blocked when it goes out,
\* however old the list is.
StaffNoticesReachStaff ==
    \A t \in Tasks : Sending(t) /\ task[t].at = "brief" => task[t].row \in onDuty

\* t waits for a lock that a task of S is to leave first.
Stuck(t, S) ==
    /\ task[t] # Idle /\ task[t].at \in Waits /\ ~task[t].sending
    /\ ~MayEnter(t)
    /\ Head(queue[task[t].row]) \in S

\* The comments at services/scheduler.py:172 and handlers/account.py:93: the locks
\* are taken so that no tasks wait for each other, or one for itself, forever.
NoCircularWait ==
    \A S \in (SUBSET Tasks) \ {{}} : \E t \in S : ~Stuck(t, S)

\* Every update and every job that was started comes to its end.
Ended(t) == task[t] = Idle
EveryTaskEnds == \A t \in Tasks : []<>Ended(t)

\* The lifecycle lock does what it is for: while a message is going out its profile is the
\* live one of the account it goes to, an erased one gets neither name nor role back, staff
\* notices go to staff, and handlers that brief staff while they hold a lock wait in no
\* circle.
LockIsKept ==
    /\ TypeOK /\ MessageFindsItsProfile /\ ErasedStaysNameless /\ StaffNoticesReachStaff
    /\ NoCircularWait
=============================================================================
