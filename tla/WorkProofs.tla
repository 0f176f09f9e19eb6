----------------------------- MODULE WorkProofs -----------------------------
(***************************************************************************)
(* What the parts that handlers share and the scheduler's jobs promise,    *)
(* for any tasks, profiles, accounts, periods and bounds: the lifecycle    *)
(* locks, the one connection, the reminders, the jobs, and the start with  *)
(* its migrations.  They share no lemma: each has an invariant of its own. *)
(*                                                                         *)
(* Lifecycle (IInv): whoever sends or keeps a lock is the head of its      *)
(* queue, and a message is addressed to the account of the live profile.   *)
(*                                                                         *)
(* Transactions (ConnectionInv): the lock has one holder, and where the    *)
(* holder stands says how far the connection is ahead of the disk.         *)
(*                                                                         *)
(* Reminders (RemindersInv): a flag that is set was told or is held by the *)
(* run, and a run whose term was renewed holds nothing of the new one.     *)
(*                                                                         *)
(* Jobs (JobsInv): the lock of the checks is held by the run that has      *)
(* begun, a month being reported is later than the one recorded, and the   *)
(* checks have begun since the last slot of their hour.                    *)
(*                                                                         *)
(* Migrations (UpgradeInv): the rows are of the version that the stamp     *)
(* tells, or of the next one while a migration is open, and have what was  *)
(* found.                                                                  *)
(***************************************************************************)
EXTENDS Lifecycle, SequenceTheorems, FiniteSetTheorems, TLAPS

CONSTANTS
    NoTask, MaxCalls, MaxCancels, MaxRestarts,                          \* of Transactions
    Before, Periods, LastDay, MaxRenewals, MaxDoubts, MaxKills, Refunds,
                                                                        \* of Reminders
    Admins, HoursPerDay, DaysPerMonth, ReportDay, MaxClock, MaxStarts, MaxSaves,
    MaxFailures,                                                        \* of Jobs
    Legacy, MaxCrashes, MaxErrors                                       \* of Migrations

VARIABLES
    disk, conn, up, lock, owner, at, seen, acks, calls, cancels, restarts,
                                                                \* of Transactions
    sub, added, renewals, now, job, told, moved, unsure, broken, kills,
                                                                \* of Reminders
    phase, online, clock, hour, trigger, due, run, holder, stamp, saving, starts, saves,
    failures, sent, cut, lastCheck, shifted, skipped,           \* of Jobs
    file, first, crashes, errors                                \* of Migrations

T == INSTANCE Transactions
N == INSTANCE Reminders WITH doubts <- unsure, cancels <- broken
J == INSTANCE Jobs WITH task <- run, moved <- shifted
U == INSTANCE Migrations

-----------------------------------------------------------------------------
(* The lifecycle locks *)

(* The strengthening: whoever sends or keeps a lock is the head of its queue, *)
(* whoever waits is in it, and what a task knows at each of its places.       *)

InQueue(t, q) == \E i \in 1..Len(q) : q[i] = t
Distinct(q) == \A i, j \in 1..Len(q) : q[i] = q[j] => i = j
HeadIs(t, q) == q # <<>> /\ Head(q) = t

\* The locks that a task v holds, and those it holds or has asked for.
Holding(v, p) == v # Idle /\ (p \in v.keeps \/ (v.sending /\ v.row = p))
Asked(v, p) == v # Idle /\ (p \in v.keeps \/ (v.at \in Waits /\ v.row = p))

\* What the fields of a task have to do with each other.
Fits(v) ==
    /\ v.at \in {"register", "meet", "handle", "call", "own"} => v.row = v.about
    /\ v.at \in {"register", "meet", "handle", "look", "call", "gift"} => v.from \in Accounts
    /\ v.keeps # {} => v.at \in {"look", "call"} /\ v.keeps \subseteq Gifted /\ v.about \in Staff
    /\ v.at = "gift" => v.about \in Staff /\ v.row \in Gifted
    /\ v.sending => v.at \in {"call", "own", "brief", "gift"}

\* A message under way goes to the live profile whose lock is held, staff
\* notices to staff.
Addressed(v) ==
    v.sending => /\ Live(v.row) /\ v.to = account[v.row]
                 /\ v.at = "brief" => v.row \in onDuty

RowInv ==
    /\ account \in [Profiles -> Accounts \cup {Nobody}]
    /\ used \subseteq Profiles /\ names \subseteq used /\ onDuty \subseteq used
    /\ \A p, q \in Profiles : Live(p) /\ account[p] = account[q] => p = q
    /\ \A p \in Profiles : Live(p) => p \in used
    /\ onDuty \subseteq Staff
    /\ ErasedStaysNameless

TaskInv(t) ==
    task[t] # Idle => /\ Fits(task[t]) /\ Addressed(task[t])
                      /\ task[t].at \in Waits => InQueue(t, queue[task[t].row])

IInv ==
    /\ RowInv
    /\ queue \in [Profiles -> Seq(Tasks)]
    /\ task \in [Tasks -> {Idle} \cup Record]
    /\ \A t \in Tasks : TaskInv(t)
    /\ \A t \in Tasks, p \in Profiles : Holding(task[t], p) => HeadIs(t, queue[p])

\* Where no gifts go to staff, a queue has each task once, and only those who asked.
QueueInv ==
    \A p \in Profiles :
        /\ Distinct(queue[p])
        /\ \A t \in Tasks : InQueue(t, queue[p]) => Asked(task[t], p)

-----------------------------------------------------------------------------
(* Queues *)

LEMMA Appended ==
    ASSUME NEW q \in Seq(Tasks), NEW t \in Tasks
    PROVE  /\ Append(q, t) \in Seq(Tasks) /\ InQueue(t, Append(q, t))
           /\ \A u \in Tasks : InQueue(u, q) => InQueue(u, Append(q, t))
           /\ \A u \in Tasks \ {t} : InQueue(u, Append(q, t)) => InQueue(u, q)
           /\ \A u \in Tasks : HeadIs(u, q) => HeadIs(u, Append(q, t))
           /\ Distinct(q) /\ ~InQueue(t, q) => Distinct(Append(q, t))
  <1>1. /\ Len(q) \in Nat /\ Len(Append(q, t)) = Len(q) + 1
        /\ Append(q, t) \in Seq(Tasks)
        /\ \A i \in 1..Len(q) : Append(q, t)[i] = q[i]
        /\ Append(q, t)[Len(q) + 1] = t
    OBVIOUS
  <1>2. InQueue(t, Append(q, t))
    BY <1>1 DEF InQueue
  <1>3. \A u \in Tasks : InQueue(u, q) => InQueue(u, Append(q, t))
    BY <1>1 DEF InQueue
  <1>4. \A u \in Tasks \ {t} : InQueue(u, Append(q, t)) => InQueue(u, q)
    BY <1>1 DEF InQueue
  <1>5. \A u \in Tasks : HeadIs(u, q) => HeadIs(u, Append(q, t))
    <2>1. ASSUME q # <<>> PROVE Append(q, t) # <<>> /\ Head(Append(q, t)) = Head(q)
      BY <2>1
    <2>2. QED
      BY <2>1 DEF HeadIs
  <1>6. ASSUME Distinct(q), ~InQueue(t, q) PROVE Distinct(Append(q, t))
    BY <1>1, <1>6 DEF Distinct, InQueue
  <1>7. QED
    BY <1>1, <1>2, <1>3, <1>4, <1>5, <1>6

LEMMA Left ==
    ASSUME NEW q \in Seq(Tasks), NEW t \in Tasks, HeadIs(t, q)
    PROVE  /\ Tail(q) \in Seq(Tasks)
           /\ \A u \in Tasks \ {t} : InQueue(u, q) <=> InQueue(u, Tail(q))
           /\ Distinct(q) => Distinct(Tail(q)) /\ ~InQueue(t, Tail(q))
  <1>1. /\ Len(q) \in Nat /\ Len(q) > 0 /\ Len(Tail(q)) = Len(q) - 1
        /\ Tail(q) \in Seq(Tasks) /\ q[1] = t
        /\ \A i \in 1..Len(q) - 1 : Tail(q)[i] = q[i + 1]
    BY HeadTailProperties, LenProperties DEF HeadIs
  <1>2. ASSUME NEW u \in Tasks \ {t}, InQueue(u, q)
        PROVE  InQueue(u, Tail(q))
    <2>1. PICK i \in 1..Len(q) : q[i] = u
      BY <1>2 DEF InQueue
    <2>2. i - 1 \in 1..Len(Tail(q)) /\ Tail(q)[i - 1] = u
      BY <1>1, <2>1
    <2>3. QED
      BY <2>2 DEF InQueue
  <1>3. ASSUME NEW u \in Tasks, InQueue(u, Tail(q))
        PROVE  \E i \in 2..Len(q) : q[i] = u
    <2>1. PICK i \in 1..Len(Tail(q)) : Tail(q)[i] = u
      BY <1>3 DEF InQueue
    <2>2. i + 1 \in 2..Len(q) /\ q[i + 1] = u
      BY <1>1, <2>1
    <2>3. QED
      BY <2>2
  <1>4. ASSUME Distinct(q) PROVE Distinct(Tail(q)) /\ ~InQueue(t, Tail(q))
    <2>1. ASSUME NEW i \in 1..Len(Tail(q)), NEW j \in 1..Len(Tail(q)), Tail(q)[i] = Tail(q)[j]
          PROVE  i = j
      <3>1. i + 1 \in 1..Len(q) /\ j + 1 \in 1..Len(q) /\ q[i + 1] = q[j + 1]
        BY <1>1, <2>1
      <3>2. i + 1 = j + 1
        BY <1>4, <3>1 DEF Distinct
      <3>3. QED
        BY <3>2
    <2>2. ASSUME InQueue(t, Tail(q)) PROVE FALSE
      <3>1. PICK i \in 2..Len(q) : q[i] = t
        BY <1>3, <2>2
      <3>2. i \in 1..Len(q) /\ 1 \in 1..Len(q) /\ q[i] = q[1] /\ i # 1
        BY <1>1, <3>1
      <3>3. QED
        BY <1>4, <3>2 DEF Distinct
    <2>3. QED
      BY <2>1, <2>2 DEF Distinct
  <1>5. ASSUME NEW u \in Tasks \ {t}, InQueue(u, Tail(q))
        PROVE  InQueue(u, q)
    <2>1. PICK i \in 2..Len(q) : q[i] = u
      BY <1>3, <1>5
    <2>2. i \in 1..Len(q)
      BY <1>1, <2>1
    <2>3. QED
      BY <2>1, <2>2 DEF InQueue
  <1>6. QED
    BY <1>1, <1>2, <1>4, <1>5

-----------------------------------------------------------------------------
(* The shape of a step: task t becomes v *)

Becomes(t, v) ==
    /\ task' \in [Tasks -> {Idle} \cup Record]
    /\ task'[t] = v
    /\ \A u \in Tasks \ {t} : task'[u] = task[u]

\* What the step does to the queue of p.
Turns(t, v, p) ==
    \/ queue'[p] = queue[p] /\ (Asked(task[t], p) => Asked(v, p))
    \/ /\ queue'[p] = Append(queue[p], t) /\ Asked(v, p)
       /\ Gifted \cap Staff = {} => ~Asked(task[t], p)
    \/ queue'[p] = Tail(queue[p]) /\ HeadIs(t, queue[p])

\* The rows of profiles to which others write stay as they are.
Undisturbed(t) ==
    \A u \in Tasks \ {t} : task[u] # Idle /\ task[u].sending =>
        /\ account'[task[u].row] = account[task[u].row]
        /\ task[u].row \in onDuty => task[u].row \in onDuty'

Shape(t, v) ==
    /\ Becomes(t, v)
    /\ RowInv' /\ Undisturbed(t)
    /\ queue' \in [Profiles -> Seq(Tasks)]
    /\ \A p \in Profiles : Turns(t, v, p)
    /\ v # Idle => /\ Fits(v) /\ Addressed(v)'
                   /\ v.at \in Waits => InQueue(t, queue'[v.row])
    /\ \A p \in Profiles : Holding(v, p) => HeadIs(t, queue'[p])

LEMMA ShapeKeeps ==
    ASSUME IInv, NEW t \in Tasks, NEW v, Shape(t, v)
    PROVE  IInv'
  <1>1. /\ Becomes(t, v)
        /\ task \in [Tasks -> {Idle} \cup Record]
        /\ queue \in [Profiles -> Seq(Tasks)]
    BY DEF IInv, Shape
  <1>2. ASSUME NEW u \in Tasks \ {t}, NEW p \in Profiles
        PROVE  /\ InQueue(u, queue[p]) => InQueue(u, queue'[p])
               /\ HeadIs(u, queue[p]) => HeadIs(u, queue'[p])
    <2>1. queue[p] \in Seq(Tasks)
      BY <1>1
    <2>2. CASE queue'[p] = queue[p]
      BY <2>2
    <2>3. CASE queue'[p] = Append(queue[p], t)
      BY <2>1, <2>3, Appended
    <2>4. CASE queue'[p] = Tail(queue[p]) /\ HeadIs(t, queue[p])
      BY <2>1, <2>4, Left DEF HeadIs
    <2>5. QED
      BY <2>2, <2>3, <2>4 DEF Shape, Turns
  <1>3. ASSUME NEW u \in Tasks
        PROVE  TaskInv(u)'
    <2>1. CASE u = t
      BY <1>1, <2>1 DEF Shape, Becomes, TaskInv
    <2>2. CASE u # t
      <3>1. task'[u] = task[u] /\ TaskInv(u)
        BY <1>1, <2>2 DEF Becomes, IInv
      <3>2. ASSUME task[u] # Idle
            PROVE  /\ Fits(task'[u]) /\ Addressed(task[u])'
                   /\ task'[u].at \in Waits => InQueue(u, queue'[task'[u].row])
        <4>1. task[u] \in Record /\ task[u].row \in Profiles
          BY <1>1, <3>2 DEF Record
        <4>2. Addressed(task[u])'
          BY <2>2, <3>1, <3>2 DEF TaskInv, Shape, Undisturbed, Addressed, Live
        <4>3. QED
          BY <1>2, <2>2, <3>1, <3>2, <4>1, <4>2 DEF TaskInv
      <3>3. QED
        BY <3>1, <3>2 DEF TaskInv, Addressed
    <2>3. QED
      BY <2>1, <2>2
  <1>4. ASSUME NEW u \in Tasks, NEW p \in Profiles, Holding(task'[u], p)
        PROVE  HeadIs(u, queue'[p])
    <2>1. CASE u = t
      BY <1>1, <1>4, <2>1 DEF Shape, Becomes
    <2>2. CASE u # t
      BY <1>1, <1>2, <1>4, <2>2 DEF Becomes, IInv
    <2>3. QED
      BY <2>1, <2>2
  <1>5. QED
    BY <1>1, <1>3, <1>4 DEF IInv, Shape, Becomes

LEMMA ShapeQueues ==
    ASSUME Gifted \cap Staff = {}, IInv, QueueInv, NEW t \in Tasks, NEW v, Shape(t, v)
    PROVE  QueueInv'
  <1> SUFFICES ASSUME NEW p \in Profiles
               PROVE  /\ Distinct(queue'[p])
                      /\ \A u \in Tasks : InQueue(u, queue'[p]) => Asked(task'[u], p)
    BY DEF QueueInv
  <1>1. /\ queue[p] \in Seq(Tasks) /\ Distinct(queue[p])
        /\ \A u \in Tasks : InQueue(u, queue[p]) => Asked(task[u], p)
    BY DEF IInv, QueueInv
  <1>2. task'[t] = v /\ \A u \in Tasks \ {t} : task'[u] = task[u]
    BY DEF Shape, Becomes
  <1>3. CASE queue'[p] = queue[p] /\ (Asked(task[t], p) => Asked(v, p))
    BY <1>1, <1>2, <1>3
  <1>4. CASE queue'[p] = Append(queue[p], t) /\ Asked(v, p) /\ ~Asked(task[t], p)
    BY <1>1, <1>2, <1>4, Appended
  <1>5. CASE queue'[p] = Tail(queue[p]) /\ HeadIs(t, queue[p])
    BY <1>1, <1>2, <1>5, Left
  <1>6. QED
    BY <1>3, <1>4, <1>5 DEF Shape, Turns

-----------------------------------------------------------------------------
(* The four ways a step goes on *)

\* The locks that t leaves are at most those that it is the head of.
LEMMA LeaveTypes ==
    ASSUME IInv, NEW t \in Tasks, NEW S, Leave(S),
           \A p \in Profiles : p \in S => HeadIs(t, queue[p])
    PROVE  /\ queue' \in [Profiles -> Seq(Tasks)]
           /\ \A p \in Profiles : queue'[p] = IF p \in S THEN Tail(queue[p]) ELSE queue[p]
  <1>1. \A p \in Profiles : queue[p] \in Seq(Tasks)
    BY DEF IInv
  <1>2. \A p \in Profiles : p \in S => Tail(queue[p]) \in Seq(Tasks)
    BY <1>1, Left
  <1>3. QED
    BY <1>1, <1>2 DEF Leave

LEMMA ShapeEnds ==
    ASSUME IInv, NEW t \in Tasks, NEW S, Ends(t, S), RowInv', Undisturbed(t),
           \A p \in Profiles : p \in S => HeadIs(t, queue[p]),
           \A p \in Profiles : Asked(task[t], p) => p \in S
    PROVE  \E v : Shape(t, v)
  <1>1. Becomes(t, Idle)
    BY DEF IInv, Ends, Becomes
  <1>2. /\ queue' \in [Profiles -> Seq(Tasks)]
        /\ \A p \in Profiles : queue'[p] = IF p \in S THEN Tail(queue[p]) ELSE queue[p]
    BY LeaveTypes DEF Ends
  <1>3. \A p \in Profiles : Turns(t, Idle, p)
    BY <1>2 DEF Turns
  <1>4. \A p \in Profiles : ~Holding(Idle, p)
    BY DEF Holding
  <1>5. Shape(t, Idle)
    BY <1>1, <1>2, <1>3, <1>4 DEF Shape
  <1>6. QED
    BY <1>5

\* t asks for the lock of v.row, and keeps what it had.
LEMMA ShapeAsks ==
    ASSUME IInv, NEW t \in Tasks, NEW v \in Record, Becomes(t, v), Fits(v), Ask(t, v.row),
           v.at \in Waits, ~v.sending, RowInv', Undisturbed(t),
           \A p \in Profiles : Asked(task[t], p) <=> p \in v.keeps,
           \A p \in v.keeps : HeadIs(t, queue[p]),
           v.keeps # {} => v.at = "call"
    PROVE  \E w : Shape(t, w)
  <1>0. /\ v # Idle /\ v.row \in Profiles /\ v.keeps \subseteq Profiles
        /\ queue \in [Profiles -> Seq(Tasks)]
    BY DEF Record, Idle, IInv, Waits
  <1>1. /\ queue' \in [Profiles -> Seq(Tasks)]
        /\ \A p \in Profiles : queue'[p] = IF p = v.row THEN Append(queue[p], t) ELSE queue[p]
    BY <1>0, Appended DEF Ask
  <1>2. ASSUME NEW p \in Profiles
        PROVE  Turns(t, v, p)
    <2>1. CASE p = v.row
      <3>1. Gifted \cap Staff = {} => p \notin v.keeps
        BY <2>1 DEF Fits
      <3>2. Asked(v, p)
        BY <1>0, <2>1 DEF Asked
      <3>3. QED
        BY <1>1, <2>1, <3>1, <3>2 DEF Turns
    <2>2. CASE p # v.row
      BY <1>0, <1>1, <2>2 DEF Turns, Asked
    <2>3. QED
      BY <2>1, <2>2
  <1>a. queue'[v.row] = Append(queue[v.row], t) /\ queue[v.row] \in Seq(Tasks)
    BY <1>0, <1>1
  <1>3. InQueue(t, queue'[v.row])
    BY <1>a, Appended
  <1>4. ASSUME NEW p \in Profiles, Holding(v, p)
        PROVE  HeadIs(t, queue'[p])
    <2>1. HeadIs(t, queue[p]) /\ queue[p] \in Seq(Tasks)
      BY <1>0, <1>4 DEF Holding
    <2>2. CASE p = v.row
      <3>1. queue'[p] = Append(queue[p], t)
        BY <1>a, <2>2
      <3>2. HeadIs(t, Append(queue[p], t))
        BY <2>1, Appended
      <3>3. QED
        BY <3>1, <3>2
    <2>3. QED
      BY <1>1, <2>1, <2>2
  <1>5. Addressed(v)'
    BY DEF Addressed
  <1>6. Shape(t, v)
    BY <1>1, <1>2, <1>3, <1>4, <1>5 DEF Shape
  <1>7. QED
    BY <1>6

\* t goes on without a lock, or with those it was the head of.
LEMMA ShapeGoes ==
    ASSUME IInv, NEW t \in Tasks, NEW v \in Record, Becomes(t, v), Fits(v), NEW S, Leave(S),
           v.at \notin Waits, ~v.sending, RowInv', Undisturbed(t),
           \A p \in Profiles : p \in S => HeadIs(t, queue[p]),
           \A p \in Profiles : Asked(task[t], p) => p \in S \/ p \in v.keeps,
           \A p \in v.keeps : p \notin S /\ HeadIs(t, queue[p])
    PROVE  \E w : Shape(t, w)
  <1>0. v.keeps \subseteq Profiles /\ (v # Idle)
    BY DEF Record, Idle
  <1>1. /\ queue' \in [Profiles -> Seq(Tasks)]
        /\ \A p \in Profiles : queue'[p] = IF p \in S THEN Tail(queue[p]) ELSE queue[p]
    BY LeaveTypes
  <1>2. \A p \in Profiles : Turns(t, v, p)
    BY <1>0, <1>1 DEF Turns, Asked
  <1>3. \A p \in Profiles : Holding(v, p) => HeadIs(t, queue'[p])
    BY <1>0, <1>1 DEF Holding
  <1>4. Addressed(v)'
    BY DEF Addressed
  <1>5. Shape(t, v)
    BY <1>1, <1>2, <1>3, <1>4 DEF Shape
  <1>6. QED
    BY <1>5

\* The lock is entered to send.
LEMMA ShapeSends ==
    ASSUME IInv, NEW t \in Tasks, MayEnter(t), Sends(t, account[task[t].row]),
           task[t].at \in {"call", "own", "brief", "gift"}, Live(task[t].row),
           task[t].at = "brief" => task[t].row \in onDuty, UNCHANGED rows,
           RowInv', Undisturbed(t)
    PROVE  \E v : Shape(t, v)
  <1>1. /\ task[t] \in Record /\ task[t] # Idle /\ TaskInv(t)
        /\ task \in [Tasks -> {Idle} \cup Record]
    BY DEF IInv, Idle
  <1>2. PICK v : v = task'[t]
    OBVIOUS
  <1>3. /\ v \in Record /\ v.sending /\ v.to = account[task[t].row]
        /\ v.at = task[t].at /\ v.row = task[t].row /\ v.keeps = task[t].keeps
        /\ v.about = task[t].about /\ v.from = task[t].from
    <2>1. account[task[t].row] \in Accounts \cup {Nobody}
      BY <1>1 DEF Record, IInv, RowInv
    <2>2. v = [task[t] EXCEPT !.sending = TRUE, !.to = account[task[t].row]]
      BY <1>1, <1>2 DEF Sends
    <2>3. QED
      BY <1>1, <2>1, <2>2 DEF Record
  <1>4. Becomes(t, v)
    BY <1>1, <1>2, <1>3 DEF Sends, Becomes
  <1>5. Fits(v)
    BY <1>1, <1>3 DEF TaskInv, Fits
  <1>6. queue' = queue /\ queue \in [Profiles -> Seq(Tasks)] /\ UNCHANGED <<account, onDuty>>
    BY DEF Sends, rows, IInv
  <1>7. v # Idle /\ v.row \in Profiles
    BY <1>3 DEF Record, Idle
  <1>8. HeadIs(t, queue[v.row]) /\ InQueue(t, queue[v.row])
    <2>1. InQueue(t, queue[v.row]) /\ queue[v.row] \in Seq(Tasks) /\ Head(queue[v.row]) = t
      BY <1>1, <1>3, <1>6, <1>7 DEF TaskInv, MayEnter
    <2>2. queue[v.row] # <<>>
      BY <2>1 DEF InQueue
    <2>3. QED
      BY <2>1, <2>2 DEF HeadIs
  <1>9. \A p \in Profiles : Holding(task[t], p) => HeadIs(t, queue[p])
    BY DEF IInv
  <1>10. \A p \in Profiles : Holding(v, p) => HeadIs(t, queue'[p])
    BY <1>1, <1>3, <1>6, <1>8, <1>9 DEF Holding
  <1>11. Addressed(v)'
    BY <1>3, <1>6 DEF Addressed, Live
  <1>12. \A p \in Profiles : Turns(t, v, p)
    BY <1>1, <1>3, <1>6, <1>7 DEF Turns, Asked
  <1>13. Shape(t, v)
    BY <1>4, <1>5, <1>6, <1>7, <1>8, <1>10, <1>11, <1>12 DEF Shape
  <1>14. QED
    BY <1>13

-----------------------------------------------------------------------------
(* What is known before a step *)

LEMMA RowsSame ==
    ASSUME IInv, NEW t \in Tasks, UNCHANGED rows
    PROVE  RowInv' /\ Undisturbed(t)
  BY DEF IInv, rows, RowInv, Undisturbed, Live, ErasedStaysNameless

\* A task that is at work, and what it holds.
LEMMA AtWork ==
    ASSUME IInv, NEW t \in Tasks, task[t] # Idle
    PROVE  /\ task[t] \in Record /\ TaskInv(t)
           /\ \A p \in task[t].keeps : HeadIs(t, queue[p])
           /\ task[t].sending => HeadIs(t, queue[task[t].row]) /\ task[t].at \in Waits
           /\ \A p \in Profiles : Asked(task[t], p)
                <=> p \in task[t].keeps \/ (task[t].at \in Waits /\ task[t].row = p)
           /\ task[t].at \notin {"look", "call"} => task[t].keeps = {}
  <1>1. task[t] \in Record /\ TaskInv(t)
    BY DEF IInv
  <1>2. task[t].keeps \subseteq Profiles /\ task[t].row \in Profiles
    BY <1>1 DEF Record
  <1>3. \A p \in Profiles : Holding(task[t], p) => HeadIs(t, queue[p])
    BY DEF IInv
  <1>4. \A p \in task[t].keeps : HeadIs(t, queue[p])
    BY <1>2, <1>3 DEF Holding
  <1>5. task[t].sending => HeadIs(t, queue[task[t].row]) /\ task[t].at \in Waits
    BY <1>1, <1>2, <1>3 DEF Holding, TaskInv, Fits, Waits
  <1>6. task[t].at \notin {"look", "call"} => task[t].keeps = {}
    BY <1>1 DEF TaskInv, Fits
  <1>7. QED
    BY <1>1, <1>4, <1>5, <1>6 DEF Asked

LEMMA Entering ==
    ASSUME IInv, NEW t \in Tasks, MayEnter(t)
    PROVE  /\ task[t] # Idle /\ task[t] \in Record /\ ~task[t].sending
           /\ task[t].at \in Waits /\ HeadIs(t, queue[task[t].row])
  <1>1. task[t].at \in Waits /\ ~task[t].sending /\ Head(queue[task[t].row]) = t
    BY DEF MayEnter
  <1>2. task[t] # Idle
    BY <1>1 DEF Idle, Waits
  <1>3. task[t] \in Record /\ InQueue(t, queue[task[t].row])
    BY <1>1, <1>2, AtWork DEF TaskInv
  <1>4. queue[task[t].row] # <<>>
    BY <1>3 DEF InQueue
  <1>5. QED
    BY <1>1, <1>2, <1>3, <1>4 DEF HeadIs

\* Nobody else sends under the lock that t is the head of.
LEMMA Alone ==
    ASSUME IInv, NEW t \in Tasks, NEW p \in Profiles, HeadIs(t, queue[p]),
           NEW u \in Tasks \ {t}, task[u] # Idle, task[u].sending
    PROVE  task[u].row # p
  BY AtWork DEF HeadIs

LEMMA Starts ==
    ASSUME IInv, NEW t \in Tasks, NEW place \in Places, NEW p \in Profiles,
           NEW a \in Accounts \cup {Nobody}, NEW v, v = Started(place, p, a),
           task' = [task EXCEPT ![t] = v]
    PROVE  v \in Record /\ Becomes(t, v)
  <1>1. v \in Record
    BY DEF Started, Record
  <1>2. QED
    BY <1>1 DEF Becomes, IInv

\* A task that had asked for nothing starts, or starts over, and asks for the lock of p.
LEMMA StartsAsking ==
    ASSUME IInv, NEW t \in Tasks, NEW place \in {"meet", "own", "write"}, NEW p \in Profiles,
           NEW a \in Accounts \cup {Nobody}, task' = [task EXCEPT ![t] = Started(place, p, a)],
           Ask(t, p), place = "meet" => a \in Accounts, RowInv', Undisturbed(t),
           task[t] = Idle \/ task[t].at = "register"
    PROVE  \E w : Shape(t, w)
  <1>0. PICK v : v = Started(place, p, a)
    OBVIOUS
  <1>1. /\ v \in Record /\ Becomes(t, v) /\ v.at = place /\ v.row = p /\ v.about = p
        /\ v.from = a /\ v.keeps = {} /\ ~v.sending
    <2>1. place \in Places /\ task' = [task EXCEPT ![t] = v]
      BY <1>0 DEF Places
    <2>2. /\ v.at = place /\ v.row = p /\ v.about = p /\ v.from = a
          /\ v.keeps = {} /\ ~v.sending
      BY <1>0 DEF Started
    <2>3. v \in Record /\ Becomes(t, v)
      BY <1>0, <2>1, Starts
    <2>4. QED
      BY <2>2, <2>3
  <1>2. Fits(v) /\ v.at \in Waits
    BY <1>1 DEF Fits, Waits
  <1>3. \A q \in Profiles : ~Asked(task[t], q)
    BY AtWork DEF Asked, Waits
  <1>4. QED
    BY <1>1, <1>2, <1>3, ShapeAsks

LEMMA LeavesNothing ==
    ASSUME IInv, UNCHANGED queue
    PROVE  Leave({})
  BY DEF IInv, Leave

-----------------------------------------------------------------------------
(* The actions *)

LEMMA BeginShape ==
    ASSUME LifecycleAssumption, IInv, NEW t \in Tasks, Begin(t)
    PROVE  \E w : Shape(t, w)
  <1>1. ASSUME UNCHANGED rows PROVE RowInv' /\ Undisturbed(t)
    BY <1>1, RowsSame
  <1>2. \A p \in Profiles : account[p] \in Accounts \cup {Nobody}
    BY DEF IInv, RowInv
  <1>3. used \subseteq Profiles
    BY DEF IInv, RowInv
  <1>4. ASSUME NEW a \in Accounts, Arrive(t, a)
        PROVE  \E w : Shape(t, w)
    <2>1. task[t] = Idle /\ RowInv' /\ Undisturbed(t)
      BY <1>1, <1>4 DEF Arrive
    <2>2. ASSUME NEW p \in Profiles, task' = [task EXCEPT ![t] = Started("meet", p, a)], Ask(t, p)
          PROVE  \E w : Shape(t, w)
      BY <2>1, <2>2, StartsAsking
    <2>3. ASSUME NEW p \in Profiles, task' = [task EXCEPT ![t] = Started("register", p, a)],
                 UNCHANGED queue
          PROVE  \E w : Shape(t, w)
      <3>0. PICK v : v = Started("register", p, a)
        OBVIOUS
      <3>1. /\ v \in Record /\ Becomes(t, v) /\ v.at = "register" /\ v.row = p /\ v.about = p
            /\ v.from = a /\ v.keeps = {} /\ ~v.sending
        <4>1. "register" \in Places /\ task' = [task EXCEPT ![t] = v]
          BY <2>3, <3>0 DEF Places
        <4>2. /\ v.at = "register" /\ v.row = p /\ v.about = p
              /\ v.from = a /\ v.keeps = {} /\ ~v.sending
          BY <3>0 DEF Started
        <4>3. v \in Record /\ Becomes(t, v)
          BY <3>0, <4>1, Starts
        <4>4. QED
          BY <4>2, <4>3
      <3>2. Fits(v) /\ v.at \notin Waits /\ Leave({})
        BY <2>3, <3>1, LeavesNothing DEF Fits, Waits
      <3>3. QED
        BY <2>1, <3>1, <3>2, ShapeGoes DEF Asked
    <2>4. QED
      BY <1>4, <2>2, <2>3 DEF Arrive
  <1>5. ASSUME NEW p \in Profiles, Notice(t, p)
        PROVE  \E w : Shape(t, w)
    <2>1. task[t] = Idle /\ RowInv' /\ Undisturbed(t)
      BY <1>1, <1>5 DEF Notice
    <2>0. PICK v : v = Started("look", p, account[p])
      OBVIOUS
    <2>2. /\ v \in Record /\ Becomes(t, v) /\ v.at = "look" /\ v.row = p /\ v.about = p
          /\ v.from = account[p] /\ v.keeps = {} /\ ~v.sending
      <3>1. "look" \in Places /\ account[p] \in Accounts \cup {Nobody}
        BY <1>2 DEF Places
      <3>2. task' = [task EXCEPT ![t] = v]
        BY <1>5, <2>0 DEF Notice
      <3>3. /\ v.at = "look" /\ v.row = p /\ v.about = p /\ v.from = account[p]
            /\ v.keeps = {} /\ ~v.sending
        BY <2>0 DEF Started
      <3>4. v \in Record /\ Becomes(t, v)
        BY <2>0, <3>1, <3>2, Starts
      <3>5. QED
        BY <3>3, <3>4
    <2>3. Fits(v) /\ v.at \notin Waits /\ Leave({})
      BY <1>5, <2>2, LeavesNothing DEF Fits, Waits, Notice, Live
    <2>4. QED
      BY <2>1, <2>2, <2>3, ShapeGoes DEF Asked
  <1>6. ASSUME NEW p \in Profiles, Expire(t, p) \/ Change(t, p)
        PROVE  \E w : Shape(t, w)
    <2>1. task[t] = Idle /\ RowInv' /\ Undisturbed(t) /\ Ask(t, p)
      BY <1>1, <1>6 DEF Expire, Change
    <2>2. \/ task' = [task EXCEPT ![t] = Started("own", p, account[p])]
          \/ task' = [task EXCEPT ![t] = Started("write", p, account[p])]
      BY <1>6 DEF Expire, Change
    <2>3. QED
      BY <1>2, <2>1, <2>2, StartsAsking
  <1>7. QED
    BY <1>4, <1>5, <1>6 DEF Begin

\* Register writes to the row of nobody, which no message is sent under.
LEMMA RegisterShape ==
    ASSUME LifecycleAssumption, IInv, NEW t \in Tasks, Register(t) \/ NoRowLeft(t)
    PROVE  \E w : Shape(t, w)
  <1>1. task[t].at = "register" /\ task[t] # Idle
    BY DEF Register, NoRowLeft, Idle
  <1>2. /\ task[t].from \in Accounts
        /\ \A p \in Profiles : ~Asked(task[t], p)
    BY <1>1, AtWork DEF TaskInv, Fits, Waits
  <1>3. CASE UNCHANGED rows
    <2>1. RowInv' /\ Undisturbed(t)
      BY <1>3, RowsSame
    <2>2. ASSUME NEW p \in Profiles, Ask(t, p),
                 task' = [task EXCEPT ![t] = Started("meet", p, task[t].from)]
          PROVE  \E w : Shape(t, w)
      BY <1>1, <1>2, <2>1, <2>2, StartsAsking
    <2>3. CASE Ends(t, {})
      BY <1>2, <2>1, <2>3, ShapeEnds
    <2>4. ASSUME NEW p \in Profiles \ used, used' = used \cup {p} PROVE FALSE
      BY <1>3, <2>4 DEF rows
    <2>5. QED
      BY <2>2, <2>3, <2>4 DEF Register, NoRowLeft
  <1>4. ASSUME NEW p \in Profiles \ used, \A q \in Profiles : account[q] # task[t].from,
               account' = [account EXCEPT ![p] = task[t].from], used' = used \cup {p},
               names' = names \cup {p}, UNCHANGED onDuty, Ask(t, p),
               task' = [task EXCEPT ![t] = Started("meet", p, task[t].from)]
        PROVE  \E w : Shape(t, w)
    <2>1. RowInv /\ ~Live(p)
      BY DEF IInv, RowInv
    <2>2. /\ account' \in [Profiles -> Accounts \cup {Nobody}] /\ account'[p] = task[t].from
          /\ \A q \in Profiles \ {p} : account'[q] = account[q]
      BY <1>2, <1>4, <2>1 DEF RowInv
    <2>3. RowInv'
      <3>1. \A q, r \in Profiles : Live(q)' /\ account'[q] = account'[r] => q = r
        BY <1>4, <2>1, <2>2 DEF RowInv, Live
      <3>2. \A q \in Profiles : Live(q)' => q \in used'
        BY <1>4, <2>1, <2>2 DEF RowInv, Live
      <3>3. \A q \in names' \cup onDuty' : Live(q)'
        BY <1>2, <1>4, <2>1, <2>2 DEF RowInv, Live, ErasedStaysNameless
      <3>4. used' \subseteq Profiles /\ names' \subseteq used' /\ onDuty' \subseteq used'
            /\ onDuty' \subseteq Staff
        BY <1>4, <2>1 DEF RowInv
      <3>5. QED
        BY <2>2, <3>1, <3>2, <3>3, <3>4 DEF RowInv, ErasedStaysNameless
    <2>4. Undisturbed(t)
      <3>1. ASSUME NEW u \in Tasks \ {t}, task[u] # Idle, task[u].sending
            PROVE  task[u].row \in Profiles \ {p}
        BY <2>1, <3>1, AtWork DEF TaskInv, Addressed, Record
      <3>2. QED
        BY <1>4, <2>2, <3>1 DEF Undisturbed
    <2>5. QED
      BY <1>1, <1>2, <1>4, <2>3, <2>4, StartsAsking
  <1>5. QED
    BY <1>3, <1>4 DEF Register, NoRowLeft, rows

\* A task at work becomes v.
LEMMA GoesOn ==
    ASSUME IInv, NEW t \in Tasks, NEW v \in Record, task' = [task EXCEPT ![t] = v]
    PROVE  Becomes(t, v)
  BY DEF Becomes, IInv

\* Only the place of t changes.
LEMMA PlaceOnly ==
    ASSUME IInv, NEW t \in Tasks, task[t] # Idle, NEW place \in Places, Goes(t, place)
    PROVE  \E v \in Record :
              /\ Becomes(t, v) /\ v = [task[t] EXCEPT !.at = place]
  <1>1. task[t] \in Record
    BY AtWork
  <1>2. PICK v : v = [task[t] EXCEPT !.at = place]
    OBVIOUS
  <1>3. v \in Record
    BY <1>1, <1>2 DEF Record
  <1>4. task' = [task EXCEPT ![t] = v]
    BY <1>1, <1>2 DEF Goes
  <1>5. QED
    BY <1>2, <1>3, <1>4, GoesOn

LEMMA MeetShape ==
    ASSUME LifecycleAssumption, IInv, NEW t \in Tasks, Meet(t)
    PROVE  \E w : Shape(t, w)
  <1>1. MayEnter(t) /\ task[t].at = "meet"
    BY DEF Meet, Enters
  <1>2. /\ task[t] # Idle /\ task[t] \in Record /\ ~task[t].sending /\ TaskInv(t)
        /\ HeadIs(t, queue[task[t].row]) /\ task[t].keeps = {}
        /\ \A p \in Profiles : Asked(task[t], p) => p = task[t].row
    BY <1>1, Entering, AtWork
  <1>3. CASE account[task[t].row] = task[t].from
    <2>1. /\ names' = names \cup {task[t].row} /\ UNCHANGED <<account, used, onDuty>>
          /\ Goes(t, "handle") /\ Leave({task[t].row})
      BY <1>3 DEF Meet
    <2>2. task[t].from \in Accounts /\ task[t].row \in Profiles /\ Live(task[t].row)
      BY <1>1, <1>2, <1>3 DEF TaskInv, Fits, Live, Record
    <2>3. RowInv'
      BY <2>1, <2>2 DEF IInv, RowInv, Live, ErasedStaysNameless
    <2>4. Undisturbed(t)
      BY <2>1 DEF Undisturbed
    <2>5. PICK v \in Record : Becomes(t, v) /\ v = [task[t] EXCEPT !.at = "handle"]
      <3>1. "handle" \in Places
        BY DEF Places
      <3>2. QED
        BY <1>2, <2>1, <3>1, PlaceOnly
    <2>6. /\ v.at = "handle" /\ v.row = task[t].row /\ v.about = task[t].about
          /\ v.from = task[t].from /\ v.keeps = {} /\ ~v.sending
      BY <1>2, <2>5 DEF Record
    <2>7. Fits(v) /\ v.at \notin Waits
      BY <1>1, <1>2, <2>2, <2>6 DEF Fits, TaskInv, Waits
    <2>8. QED
      BY <1>2, <2>1, <2>3, <2>4, <2>5, <2>6, <2>7, ShapeGoes
  <1>4. CASE account[task[t].row] # task[t].from
    <2>1. Ends(t, {task[t].row}) /\ UNCHANGED rows
      BY <1>4 DEF Meet
    <2>2. QED
      BY <1>2, <2>1, RowsSame, ShapeEnds
  <1>5. QED
    BY <1>3, <1>4

\* From its handler a task goes to a lock or to an answer.
LEMMA HandlerShape ==
    ASSUME LifecycleAssumption, IInv, NEW t \in Tasks,
           Reply(t) \/ OwnLock(t) \/ \E p \in Profiles : Gift(t, p)
    PROVE  \E w : Shape(t, w)
  <1>1. task[t].at = "handle" /\ UNCHANGED rows /\ task[t] # Idle
    BY DEF Reply, OwnLock, Gift, Idle
  <1>2. /\ task[t] \in Record /\ TaskInv(t) /\ task[t].keeps = {} /\ ~task[t].sending
        /\ \A p \in Profiles : ~Asked(task[t], p)
    BY <1>1, AtWork DEF Waits
  <1>3. RowInv' /\ Undisturbed(t) /\ onDuty \subseteq Staff /\ used \subseteq Profiles
    BY <1>1, RowsSame DEF IInv, RowInv
  <1>4. CASE Reply(t)
    <2>1. PICK v \in Record : Becomes(t, v) /\ v = [task[t] EXCEPT !.at = "look"]
      <3>1. "look" \in Places /\ Goes(t, "look")
        BY <1>4 DEF Places, Reply
      <3>2. QED
        BY <1>1, <3>1, PlaceOnly
    <2>2. v.at = "look" /\ v.from = task[t].from /\ v.keeps = {} /\ ~v.sending
      BY <1>2, <2>1 DEF Record
    <2>3. Fits(v) /\ v.at \notin Waits /\ Leave({})
      BY <1>1, <1>2, <1>4, <2>2, LeavesNothing DEF Fits, TaskInv, Waits, Reply
    <2>4. QED
      BY <1>2, <1>3, <2>1, <2>2, <2>3, ShapeGoes
  <1>5. CASE OwnLock(t)
    <2>1. PICK v \in Record : Becomes(t, v) /\ v = [task[t] EXCEPT !.at = "own"]
      <3>1. "own" \in Places /\ Goes(t, "own")
        BY <1>5 DEF Places, OwnLock
      <3>2. QED
        BY <1>1, <3>1, PlaceOnly
    <2>2. /\ v.at = "own" /\ v.keeps = {} /\ ~v.sending
          /\ v.row = task[t].row /\ v.about = task[t].about
      BY <1>2, <2>1 DEF Record
    <2>3. Fits(v) /\ v.at \in Waits /\ Ask(t, v.row)
      BY <1>1, <1>2, <1>5, <2>2 DEF Fits, TaskInv, Waits, OwnLock
    <2>4. QED
      BY <1>2, <1>3, <2>1, <2>2, <2>3, ShapeAsks
  <1>6. ASSUME NEW p \in Profiles, Gift(t, p)
        PROVE  \E w : Shape(t, w)
    <2>1. /\ task[t].about \in Staff /\ p \in Gifted /\ Ask(t, p)
          /\ task' = [task EXCEPT ![t].at = "gift", ![t].row = p]
      BY <1>3, <1>6 DEF Gift
    <2>2. PICK v : v = [task[t] EXCEPT !.at = "gift", !.row = p]
      OBVIOUS
    <2>3. /\ v \in Record /\ v.at = "gift" /\ v.row = p /\ v.about = task[t].about
          /\ v.from = task[t].from /\ v.keeps = {} /\ ~v.sending
      BY <1>2, <2>2 DEF Record, Places
    <2>4. task' = [task EXCEPT ![t] = v]
      BY <1>2, <2>1, <2>2
    <2>5. Becomes(t, v)
      BY <2>3, <2>4, GoesOn
    <2>6. Fits(v) /\ v.at \in Waits /\ Ask(t, v.row)
      BY <1>1, <1>2, <2>1, <2>3 DEF Fits, TaskInv, Waits
    <2>7. QED
      BY <1>2, <1>3, <2>3, <2>5, <2>6, ShapeAsks
  <1>7. QED
    BY <1>4, <1>5, <1>6

\* Answers and notices; a task that gave days keeps the customer's lock here.
LEMMA CallShape ==
    ASSUME LifecycleAssumption, IInv, NEW t \in Tasks, Look(t) \/ Call(t) \/ Called(t)
    PROVE  \E w : Shape(t, w)
  <1>1. UNCHANGED rows /\ task[t].at \in {"look", "call"} /\ task[t] # Idle
    BY DEF Look, Call, Called, Enters, Idle
  <1>2. RowInv' /\ Undisturbed(t)
    BY <1>1, RowsSame
  <1>3. /\ task[t] \in Record /\ TaskInv(t) /\ task[t].keeps \subseteq Profiles
        /\ \A p \in task[t].keeps : HeadIs(t, queue[p])
        /\ task[t].sending => HeadIs(t, queue[task[t].row])
        /\ \A p \in Profiles : Asked(task[t], p)
             => p \in task[t].keeps \/ (task[t].at \in Waits /\ task[t].row = p)
    BY <1>1, AtWork DEF Record
  <1>4. CASE Look(t)
    <2>1. task[t].at = "look"
      BY <1>4 DEF Look
    <2>2. CASE account[task[t].about] # task[t].from
      <3>1. Ends(t, task[t].keeps)
        BY <1>4, <2>2 DEF Look
      <3>2. \A p \in Profiles : Asked(task[t], p) => p \in task[t].keeps
        BY <1>3, <2>1 DEF Waits
      <3>3. QED
        BY <1>2, <1>3, <3>1, <3>2, ShapeEnds
    <2>3. CASE account[task[t].about] = task[t].from
      <3>1. /\ Ask(t, task[t].about)
            /\ task' = [task EXCEPT ![t].at = "call", ![t].row = task[t].about]
        BY <1>4, <2>3 DEF Look
      <3>2. PICK v : v = [task[t] EXCEPT !.at = "call", !.row = task[t].about]
        OBVIOUS
      <3>3. /\ v \in Record /\ v.at = "call" /\ v.row = task[t].about /\ v.about = task[t].about
            /\ v.from = task[t].from
            /\ v.keeps = task[t].keeps /\ v.sending = task[t].sending
        BY <1>3, <3>2 DEF Record, Places
      <3>4. task' = [task EXCEPT ![t] = v]
        BY <1>3, <3>1, <3>2
      <3>5. Becomes(t, v)
        BY <3>3, <3>4, GoesOn
      <3>6. Fits(task[t])
        BY <1>1, <1>3 DEF TaskInv
      <3>7. Fits(v) /\ ~v.sending
        BY <2>1, <3>3, <3>6 DEF Fits
      <3>8. v.at \in Waits /\ Ask(t, v.row)
        BY <3>1, <3>3 DEF Waits
      <3>9. \A p \in Profiles : Asked(task[t], p) <=> p \in v.keeps
        BY <1>1, <2>1, <3>3 DEF Asked, Waits
      <3>10. QED
        BY <1>2, <1>3, <3>3, <3>5, <3>7, <3>8, <3>9, ShapeAsks
    <2>4. QED
      BY <2>2, <2>3
  <1>5. CASE Call(t)
    <2>1. MayEnter(t) /\ task[t].at = "call"
      BY <1>5 DEF Call, Enters
    <2>2. HeadIs(t, queue[task[t].row]) /\ task[t].row \in Profiles
      BY <1>3, <2>1, Entering DEF Record
    <2>3. CASE account[task[t].row] = task[t].from
      <3>1. Sends(t, account[task[t].row])
        BY <1>5, <2>3 DEF Call
      <3>2. Live(task[t].row)
        BY <1>1, <1>3, <2>1, <2>3 DEF TaskInv, Fits, Live
      <3>3. QED
        BY <1>1, <1>2, <2>1, <3>1, <3>2, ShapeSends
    <2>4. CASE account[task[t].row] # task[t].from
      <3>1. Ends(t, {task[t].row} \cup task[t].keeps)
        BY <1>5, <2>4 DEF Call
      <3>2. QED
        BY <1>2, <1>3, <2>2, <3>1, ShapeEnds
    <2>5. QED
      BY <2>3, <2>4
  <1>6. CASE Called(t)
    <2>1. Ends(t, {task[t].row} \cup task[t].keeps) /\ task[t].sending
      BY <1>6 DEF Called
    <2>2. QED
      BY <1>2, <1>3, <2>1, ShapeEnds
  <1>7. QED
    BY <1>4, <1>5, <1>6

\* The customer's own lock, then staff one by one.
LEMMA OwnShape ==
    ASSUME LifecycleAssumption, IInv, NEW t \in Tasks, Own(t) \/ OwnDone(t)
    PROVE  \E w : Shape(t, w)
  <1>1. UNCHANGED rows /\ task[t].at = "own" /\ task[t] # Idle
    BY DEF Own, OwnDone, Enters, Idle
  <1>2. RowInv' /\ Undisturbed(t)
    BY <1>1, RowsSame
  <1>3. /\ task[t] \in Record /\ task[t].keeps = {}
        /\ task[t].sending => HeadIs(t, queue[task[t].row])
        /\ \A p \in Profiles : Asked(task[t], p) => task[t].row = p
    BY <1>1, AtWork
  <1>4. CASE Own(t)
    <2>1. MayEnter(t)
      BY <1>4 DEF Own, Enters
    <2>2. HeadIs(t, queue[task[t].row])
      BY <2>1, Entering
    <2>3. CASE Sends(t, account[task[t].row]) /\ Live(task[t].row)
      BY <1>1, <1>2, <2>1, <2>3, ShapeSends
    <2>4. CASE Ends(t, {task[t].row})
      BY <1>2, <1>3, <2>2, <2>4, ShapeEnds
    <2>5. QED
      BY <1>4, <2>3, <2>4 DEF Own
  <1>5. CASE OwnDone(t)
    <2>1. HeadIs(t, queue[task[t].row])
      BY <1>3, <1>5 DEF OwnDone
    <2>2. CASE Ends(t, {task[t].row})
      BY <1>2, <1>3, <2>1, <2>2, ShapeEnds
    <2>3. CASE /\ task' = [task EXCEPT ![t].at = "broadcast", ![t].sending = FALSE,
                                       ![t].todo = onDuty]
               /\ Leave({task[t].row})
      <3>1. PICK v : v = [task[t] EXCEPT !.at = "broadcast", !.sending = FALSE, !.todo = onDuty]
        OBVIOUS
      <3>2. onDuty \subseteq Profiles
        BY DEF IInv, RowInv
      <3>3. v \in Record /\ v.at = "broadcast" /\ ~v.sending /\ v.keeps = {}
        BY <1>3, <3>1, <3>2 DEF Record, Places
      <3>4. task' = [task EXCEPT ![t] = v]
        BY <1>3, <2>3, <3>1
      <3>5. Becomes(t, v)
        BY <3>3, <3>4, GoesOn
      <3>6. Fits(v) /\ v.at \notin Waits
        BY <3>3 DEF Fits, Waits
      <3>7. QED
        BY <1>2, <1>3, <2>1, <2>3, <3>3, <3>5, <3>6, ShapeGoes
    <2>4. QED
      BY <1>5, <2>2, <2>3 DEF OwnDone
  <1>6. QED
    BY <1>4, <1>5

LEMMA BroadcastShape ==
    ASSUME LifecycleAssumption, IInv, NEW t \in Tasks, Broadcast(t)
    PROVE  \E w : Shape(t, w)
  <1>0. UNCHANGED rows /\ task[t].at = "broadcast"
    BY DEF Broadcast
  <1>1. UNCHANGED rows /\ task[t].at = "broadcast" /\ task[t] # Idle
    BY <1>0 DEF Idle
  <1>2. RowInv' /\ Undisturbed(t)
    BY <1>1, RowsSame
  <1>3. /\ task[t] \in Record /\ task[t].keeps = {} /\ ~task[t].sending
        /\ \A p \in Profiles : ~Asked(task[t], p)
    BY <1>1, AtWork DEF Waits
  <1>4. CASE Ends(t, task[t].keeps)
    BY <1>2, <1>3, <1>4, ShapeEnds
  <1>5. ASSUME NEW p \in task[t].todo, Ask(t, p),
               task' = [task EXCEPT ![t].at = "brief", ![t].row = p, ![t].to = account[p],
                                    ![t].todo = @ \ {p}]
        PROVE  \E w : Shape(t, w)
    <2>1. p \in Profiles /\ account[p] \in Accounts \cup {Nobody}
      BY <1>3 DEF Record, IInv, RowInv
    <2>2. PICK v : v = [task[t] EXCEPT !.at = "brief", !.row = p, !.to = account[p],
                                       !.todo = @ \ {p}]
      OBVIOUS
    <2>3. v \in Record /\ v.at = "brief" /\ v.row = p /\ ~v.sending /\ v.keeps = {}
      BY <1>3, <2>1, <2>2 DEF Record, Places
    <2>4. task' = [task EXCEPT ![t] = v]
      BY <1>3, <1>5, <2>2
    <2>5. Becomes(t, v)
      BY <2>3, <2>4, GoesOn
    <2>6. Fits(v) /\ v.at \in Waits /\ Ask(t, v.row)
      BY <1>5, <2>3 DEF Fits, Waits
    <2>7. QED
      BY <1>2, <1>3, <2>3, <2>5, <2>6, ShapeAsks
  <1>6. QED
    BY <1>4, <1>5 DEF Broadcast

LEMMA BriefShape ==
    ASSUME LifecycleAssumption, IInv, NEW t \in Tasks, Brief(t) \/ Briefed(t)
    PROVE  \E w : Shape(t, w)
  <1>1. UNCHANGED rows /\ task[t].at = "brief" /\ task[t] # Idle
    BY DEF Brief, Briefed, Enters, Idle
  <1>2. RowInv' /\ Undisturbed(t)
    BY <1>1, RowsSame
  <1>3. /\ task[t] \in Record /\ task[t].keeps = {}
        /\ task[t].sending => HeadIs(t, queue[task[t].row])
        /\ \A p \in Profiles : Asked(task[t], p) => task[t].row = p
    BY <1>1, AtWork
  <1>4. ASSUME NEW v \in Record, Becomes(t, v), v.at = "broadcast", ~v.sending, v.keeps = {},
               Leave({task[t].row}), HeadIs(t, queue[task[t].row])
        PROVE  \E w : Shape(t, w)
    <2>1. Fits(v) /\ v.at \notin Waits
      BY <1>4 DEF Fits, Waits
    <2>2. QED
      BY <1>2, <1>3, <1>4, <2>1, ShapeGoes
  <1>5. CASE Brief(t)
    <2>1. MayEnter(t)
      BY <1>5 DEF Brief, Enters
    <2>2. HeadIs(t, queue[task[t].row]) /\ ~task[t].sending
      BY <2>1, Entering
    <2>3. CASE Sends(t, account[task[t].row]) /\ Live(task[t].row) /\ task[t].row \in onDuty
      BY <1>1, <1>2, <2>1, <2>3, ShapeSends
    <2>4. CASE Goes(t, "broadcast") /\ Leave({task[t].row})
      <3>1. "broadcast" \in Places
        BY DEF Places
      <3>2. PICK v \in Record : Becomes(t, v) /\ v = [task[t] EXCEPT !.at = "broadcast"]
        BY <1>1, <2>4, <3>1, PlaceOnly
      <3>3. v.at = "broadcast" /\ ~v.sending /\ v.keeps = {}
        BY <1>3, <2>2, <3>2 DEF Record
      <3>4. QED
        BY <1>4, <2>2, <2>4, <3>2, <3>3
    <2>5. QED
      BY <1>5, <2>3, <2>4 DEF Brief
  <1>6. CASE Briefed(t)
    <2>1. PICK v : v = [task[t] EXCEPT !.at = "broadcast", !.sending = FALSE]
      OBVIOUS
    <2>2. v \in Record /\ v.at = "broadcast" /\ ~v.sending /\ v.keeps = {}
      BY <1>3, <2>1 DEF Record, Places
    <2>3. task' = [task EXCEPT ![t] = v]
      BY <1>3, <1>6, <2>1 DEF Briefed
    <2>4. Becomes(t, v)
      BY <2>2, <2>3, GoesOn
    <2>5. QED
      BY <1>3, <1>4, <1>6, <2>2, <2>4 DEF Briefed
  <1>7. QED
    BY <1>5, <1>6

\* The customer's lock is kept for the answer to staff.
LEMMA GiftShape ==
    ASSUME LifecycleAssumption, IInv, NEW t \in Tasks, GiveDays(t) \/ DaysGiven(t)
    PROVE  \E w : Shape(t, w)
  <1>1. UNCHANGED rows /\ task[t].at = "gift" /\ task[t] # Idle
    BY DEF GiveDays, DaysGiven, Enters, Idle
  <1>2. RowInv' /\ Undisturbed(t)
    BY <1>1, RowsSame
  <1>3. /\ task[t] \in Record /\ TaskInv(t) /\ task[t].row \in Profiles
        /\ task[t].sending => HeadIs(t, queue[task[t].row])
        /\ \A p \in Profiles : Asked(task[t], p) => task[t].row = p
    BY <1>1, AtWork DEF Record
  <1>4. ASSUME NEW v, UNCHANGED queue, HeadIs(t, queue[task[t].row]),
               task' = [task EXCEPT ![t] = v],
               v = [task[t] EXCEPT !.at = "look", !.sending = FALSE, !.keeps = {task[t].row}]
        PROVE  \E w : Shape(t, w)
    <2>1. /\ v \in Record /\ v.at = "look" /\ ~v.sending /\ v.keeps = {task[t].row}
          /\ v.about = task[t].about /\ v.from = task[t].from
      BY <1>3, <1>4 DEF Record, Places
    <2>2. Becomes(t, v)
      BY <1>4, <2>1, GoesOn
    <2>3. Fits(task[t])
      BY <1>1, <1>3 DEF TaskInv
    <2>4. Fits(v) /\ v.at \notin Waits
      BY <1>1, <2>1, <2>3 DEF Fits, Waits
    <2>5. Leave({})
      BY <1>4, LeavesNothing
    <2>6. QED
      BY <1>2, <1>3, <1>4, <2>1, <2>2, <2>4, <2>5, ShapeGoes
  <1>5. PICK v : v = [task[t] EXCEPT !.at = "look", !.sending = FALSE, !.keeps = {task[t].row}]
    OBVIOUS
  <1>6. CASE GiveDays(t)
    <2>1. MayEnter(t)
      BY <1>6 DEF GiveDays, Enters
    <2>2. HeadIs(t, queue[task[t].row]) /\ ~task[t].sending
      BY <2>1, Entering
    <2>3. CASE Sends(t, account[task[t].row]) /\ Live(task[t].row)
      BY <1>1, <1>2, <2>1, <2>3, ShapeSends
    <2>4. CASE /\ task' = [task EXCEPT ![t].at = "look", ![t].keeps = {task[t].row}]
               /\ UNCHANGED queue
      <3>1. task' = [task EXCEPT ![t] = [task[t] EXCEPT !.at = "look", !.keeps = {task[t].row}]]
        BY <1>3, <2>4
      <3>2. v = [task[t] EXCEPT !.at = "look", !.keeps = {task[t].row}]
        BY <1>3, <1>5, <2>2 DEF Record
      <3>3. QED
        BY <1>4, <1>5, <2>2, <2>4, <3>1, <3>2
    <2>5. QED
      BY <1>6, <2>3, <2>4 DEF GiveDays
  <1>7. CASE DaysGiven(t)
    <2>1. task' = [task EXCEPT ![t] = v] /\ UNCHANGED queue /\ HeadIs(t, queue[task[t].row])
      BY <1>3, <1>5, <1>7 DEF DaysGiven
    <2>2. QED
      BY <1>4, <1>5, <2>1
  <1>8. QED
    BY <1>6, <1>7

\* What is written is the row of the lock's holder.
LEMMA WriteShape ==
    ASSUME LifecycleAssumption, IInv, NEW t \in Tasks, Erase(t) \/ SetDuty(t)
    PROVE  \E w : Shape(t, w)
  <1>1. MayEnter(t) /\ task[t].at = "write" /\ Ends(t, {task[t].row}) /\ task[t] # Idle
    BY DEF Erase, SetDuty, Enters, Idle
  <1>2. PICK p \in Profiles : p = task[t].row
    BY <1>1, Entering DEF Record
  <1>3. /\ HeadIs(t, queue[p])
        /\ \A q \in Profiles : Asked(task[t], q) => q = p
    BY <1>1, <1>2, Entering, AtWork
  <1>4. ASSUME NEW u \in Tasks \ {t}, task[u] # Idle, task[u].sending
        PROVE  task[u].row \in Profiles \ {p}
    BY <1>3, <1>4, Alone, AtWork DEF Record
  <1>5. ASSUME RowInv', Undisturbed(t) PROVE \E w : Shape(t, w)
    BY <1>1, <1>2, <1>3, <1>5, ShapeEnds
  <1>6. CASE UNCHANGED rows
    BY <1>5, <1>6, RowsSame
  <1>7. CASE /\ account' = [account EXCEPT ![p] = Nobody] /\ names' = names \ {p}
             /\ onDuty' = onDuty \ {p} /\ UNCHANGED used
    <2>1. /\ account' \in [Profiles -> Accounts \cup {Nobody}] /\ account'[p] = Nobody
          /\ \A q \in Profiles \ {p} : account'[q] = account[q]
      BY <1>7 DEF IInv, RowInv
    <2>2. RowInv'
      BY <1>7, <2>1 DEF IInv, RowInv, Live, ErasedStaysNameless, LifecycleAssumption
    <2>3. Undisturbed(t)
      BY <1>4, <1>7, <2>1 DEF Undisturbed
    <2>4. QED
      BY <1>5, <2>2, <2>3
  <1>8. CASE /\ Live(p) /\ p \in Staff /\ onDuty' \in {onDuty \ {p}, onDuty \cup {p}}
             /\ UNCHANGED <<account, used, names>>
    <2>1. RowInv'
      BY <1>8 DEF IInv, RowInv, Live, ErasedStaysNameless
    <2>2. Undisturbed(t)
      BY <1>4, <1>8 DEF Undisturbed
    <2>3. QED
      BY <1>5, <2>1, <2>2
  <1>9. QED
    BY <1>2, <1>6, <1>7, <1>8 DEF Erase, SetDuty, rows

LEMMA Shapes ==
    ASSUME LifecycleAssumption, IInv, Next
    PROVE  \E t \in Tasks : \E v : Shape(t, v)
  <1>1. PICK t \in Tasks : Begin(t) \/ Step(t)
    BY DEF Next
  <1>2. \E v : Shape(t, v)
    BY <1>1, BeginShape, RegisterShape, MeetShape, HandlerShape, CallShape, OwnShape,
       BroadcastShape, BriefShape, GiftShape, WriteShape DEF Step
  <1>3. QED
    BY <1>2

-----------------------------------------------------------------------------
(* The theorems *)

\* The strengthened invariant holds, for any profiles, accounts and tasks.
THEOREM Invariance ==
    ASSUME LifecycleAssumption
    PROVE  Spec => []IInv
  <1>1. Init => IInv
    <2> SUFFICES ASSUME Init PROVE IInv
      OBVIOUS
    <2>1. RowInv
      BY DEF Init, RowInv, Live, ErasedStaysNameless, LifecycleAssumption
    <2>2. queue \in [Profiles -> Seq(Tasks)] /\ task \in [Tasks -> {Idle} \cup Record]
      BY DEF Init
    <2>3. \A t \in Tasks : task[t] = Idle
      BY DEF Init
    <2>4. QED
      BY <2>1, <2>2, <2>3 DEF IInv, TaskInv, Holding
  <1>2. IInv /\ [Next]_vars => IInv'
    <2>1. CASE UNCHANGED vars
      BY <2>1 DEF vars, IInv, RowInv, Live, ErasedStaysNameless, TaskInv, Addressed
    <2>2. ASSUME IInv, Next PROVE IInv'
      BY <2>2, Shapes, ShapeKeeps
    <2>3. QED
      BY <2>1, <2>2
  <1>3. QED
    BY <1>1, <1>2, PTL DEF Spec

\* A queue holds those who asked, each once, unless days are given to staff.
THEOREM QueueInvariance ==
    ASSUME LifecycleAssumption, Gifted \cap Staff = {}
    PROVE  Spec => []QueueInv
  <1>1. Init => QueueInv
    BY DEF Init, QueueInv, Distinct, InQueue
  <1>2. IInv /\ QueueInv /\ [Next]_vars => QueueInv'
    <2>1. ASSUME QueueInv, UNCHANGED vars PROVE QueueInv'
      BY <2>1 DEF vars, QueueInv
    <2>2. ASSUME IInv, QueueInv, Next PROVE QueueInv'
      BY <2>2, Shapes, ShapeQueues
    <2>3. QED
      BY <2>1, <2>2
  <1>3. QED
    BY <1>1, <1>2, Invariance, PTL DEF Spec

\* A message that is going out goes to the live profile it is about and an answer to who
\* asked, an erased profile gets neither name nor role back, and staff notices go to staff,
\* also when staff give days to each other.
THEOREM MessagesFindTheirProfiles ==
    ASSUME LifecycleAssumption
    PROVE  Spec => [](TypeOK /\ MessageFindsItsProfile /\ ErasedStaysNameless
                      /\ StaffNoticesReachStaff)
  <1>1. IInv => TypeOK
    BY DEF IInv, RowInv, TypeOK
  <1>2. IInv => MessageFindsItsProfile /\ ErasedStaysNameless /\ StaffNoticesReachStaff
    BY DEF IInv, RowInv, TaskInv, Fits, Addressed, Sending, MessageFindsItsProfile,
           StaffNoticesReachStaff
  <1>3. QED
    BY <1>1, <1>2, Invariance, PTL

\* With gifts to customers who are never staff, no tasks wait for each other in a circle: a
\* circle would need a task that waits for a lock of staff to stand behind another that keeps
\* one, and what is kept are locks of customers.  With it LockIsKept, the whole of what the
\* lifecycle lock is for.
THEOREM LockKept ==
    ASSUME LifecycleAssumption, Gifted \cap Staff = {}
    PROVE  Spec => []LockIsKept
  <1>1. IInv /\ QueueInv => NoCircularWait
    <2> SUFFICES ASSUME IInv, QueueInv, NEW S \in (SUBSET Tasks) \ {{}},
                        \A t \in S : Stuck(t, S)
                 PROVE  FALSE
      BY DEF NoCircularWait
    \* Who is stuck stands behind somebody stuck who keeps the lock of a customer.
    <2>1. ASSUME NEW t \in S
          PROVE  \E u \in S : /\ task[t].row \in task[u].keeps
                              /\ task[u].at = "call" /\ task[u].row \in Staff
      <3>1. task[t] # Idle /\ task[t].at \in Waits /\ Head(queue[task[t].row]) \in S
        BY DEF Stuck
      <3>2. PICK p \in Profiles : p = task[t].row
        BY <3>1, AtWork DEF Record
      <3>3. InQueue(t, queue[p]) /\ queue[p] \in Seq(Tasks)
        BY <3>1, <3>2, AtWork DEF TaskInv, IInv
      <3>4. PICK u \in S : u = Head(queue[p])
        BY <3>1, <3>2
      <3>5. InQueue(u, queue[p])
        <4>1. Len(queue[p]) > 0 /\ Len(queue[p]) \in Nat /\ queue[p][1] = Head(queue[p])
          BY <3>3 DEF InQueue
        <4>2. QED
          BY <3>4, <4>1 DEF InQueue
      <3>6. Asked(task[u], p)
        BY <3>5 DEF QueueInv
      <3>7. /\ task[u] # Idle /\ task[u].at \in Waits /\ ~task[u].sending /\ ~MayEnter(u)
        BY DEF Stuck
      <3>8. p \in task[u].keeps
        BY <3>4, <3>6, <3>7 DEF Asked, MayEnter
      <3>9. Fits(task[u])
        BY <3>7, AtWork DEF TaskInv
      <3>10. task[u].at = "call" /\ task[u].row \in Staff
        BY <3>7, <3>8, <3>9 DEF Fits, Waits
      <3>11. QED
        BY <3>2, <3>8, <3>10
    <2>2. PICK t \in S : task[t].row \in Staff
      BY <2>1
    <2>3. PICK u \in S : task[t].row \in task[u].keeps
      BY <2>1
    <2>4. Fits(task[u])
      BY <2>3, AtWork DEF TaskInv, Stuck
    <2>5. QED
      BY <2>2, <2>3, <2>4 DEF Fits
  <1>2. QED
    BY <1>1, MessagesFindTheirProfiles, Invariance, QueueInvariance, PTL DEF LockIsKept

-----------------------------------------------------------------------------
(* The connection *)

(* The strengthening: the lock has one holder, and where the holder stands    *)
(* says how far the connection is ahead of the disk.                          *)

Stations == {"idle", "first", "second", "commit", "commit_one"} \cup T!Kinds \cup T!Waits
Open == {"first", "second", "commit", "commit_one"}
Inside == Open \cup T!Kinds

LockInv == \A t \in Tasks : lock = t <=> at[t] \in Inside

\* Where the holder of the lock stands.
Place == IF lock = NoTask THEN "idle" ELSE at[lock]

\* From BEGIN to its end the holder's transaction is open on the connection; until a call is
\* cancelled, none is open at another place.
OpenInv ==
    /\ Place \in Open => conn.open
    /\ conn.open /\ cancels = 0 => Place \in Open

AheadInv ==
    /\ conn.rows.pair[1] = disk.pair[1] + IF Place \in {"second", "commit"} THEN 1 ELSE 0
    /\ conn.rows.pair[2] = disk.pair[2] + IF Place = "commit" THEN 1 ELSE 0
    /\ conn.rows.single = disk.single + IF Place = "commit_one" THEN 1 ELSE 0

\* Doubts are numbered, so that each of them counts.
DoubtInv ==
    /\ acks \in [transaction : Nat, execute : Nat,
                 doubtful : SUBSET ({"transaction", "execute", "restart"} \X Nat)]
    /\ calls \in Nat /\ cancels \in Nat /\ restarts \in Nat
    /\ T!IsFiniteSet(acks.doubtful)
    /\ \A d \in acks.doubtful : d[2] < IF d[1] = "restart" THEN restarts ELSE cancels

ConnectionInv ==
    /\ T!TypeOK /\ LockInv /\ OpenInv /\ AheadInv /\ DoubtInv
    /\ T!NothingHalf /\ T!ReadsAreWhole /\ T!ReportedIsWritten

-----------------------------------------------------------------------------
(* Helpers *)

TaskStep(t) ==
    \/ \E kind \in T!Kinds : T!Call(t, kind)
    \/ T!Enter(t) \/ T!Begin(t) \/ T!First(t) \/ T!Second(t) \/ T!Commit(t) \/ T!BodyFails(t)
    \/ T!Execute(t) \/ T!CommitOne(t) \/ T!ExecuteFails(t) \/ T!Fetch(t) \/ T!Cancel(t)
    \/ \E u \in Tasks : T!Spawn(t, u)

\* The two modules count alike.
LEMMA SameSets ==
    /\ \A S : T!Cardinality(S) = Cardinality(S)
    /\ \A S : T!IsFiniteSet(S) <=> IsFiniteSet(S)
  BY DEF T!Cardinality, Cardinality, T!IsFiniteSet, IsFiniteSet

LEMMA Strings ==
    /\ T!Waits = {"transaction_waits", "execute_waits", "fetch_waits"}
    /\ \A kind \in T!Kinds : T!Waiting[kind] \in T!Waits
  <1>1. /\ T!Waiting["transaction"] = "transaction_waits"
        /\ T!Waiting["execute"] = "execute_waits"
        /\ T!Waiting["fetch"] = "fetch_waits"
    BY DEF T!Waiting
  <1>2. QED
    BY <1>1 DEF T!Waits, T!Kinds

LEMMA Moves ==
    ASSUME T!TypeOK, NEW t \in Tasks, NEW place \in Stations, T!Goes(t, place)
    PROVE  /\ at' \in [Tasks -> Stations] /\ at'[t] = place
           /\ \A u \in Tasks \ {t} : at'[u] = at[u]
  BY DEF T!TypeOK, T!Goes, Stations

LEMMA CallEnds ==
    ASSUME T!TransactionsAssumption, T!TypeOK, LockInv, NEW t \in Tasks, T!Over(t)
    PROVE  /\ at' \in [Tasks -> Stations] /\ at'[t] = "idle"
           /\ \A u \in Tasks \ {t} : at'[u] = at[u]
           /\ owner' \in [Tasks -> Tasks \cup {NoTask}] /\ owner'[t] = NoTask
           /\ \A u \in Tasks \ {t} : owner'[u] = owner[u]
           /\ lock' \in Tasks \cup {NoTask} /\ lock' # t
           /\ at[t] \in Inside => lock' = NoTask
           /\ at[t] \notin Inside => lock' = lock
  BY DEF T!TransactionsAssumption, T!TypeOK, LockInv, T!Over, T!Goes, T!Release, Stations

\* The lock, the places and the owners after a step.
LockType ==
    /\ lock' \in Tasks \cup {NoTask}
    /\ owner' \in [Tasks -> Tasks \cup {NoTask}]
    /\ at' \in [Tasks -> Stations]
    /\ \A t \in Tasks : owner'[t] = t <=> at'[t] \in {"first", "second", "commit"}

LEMMA Locks ==
    ASSUME T!TransactionsAssumption, T!TypeOK, LockInv, NEW t \in Tasks, TaskStep(t)
    PROVE  LockType /\ LockInv'
  <1>1. /\ at \in [Tasks -> Stations]
        /\ \A u \in Tasks : owner[u] = u <=> at[u] \in {"first", "second", "commit"}
    BY DEF T!TypeOK, Stations, T!Owns
  <1>2. ASSUME T!Over(t)
        PROVE  LockType /\ LockInv'
    <2>1. \A u \in Tasks : lock' = u <=> at'[u] \in Inside
      <3>1. "idle" \notin Inside /\ \A u \in Tasks : lock = u <=> at[u] \in Inside
        BY DEF Inside, Open, T!Kinds, LockInv
      <3>2. NoTask \notin Tasks
        BY DEF T!TransactionsAssumption
      <3>3. QED
        BY <1>2, <3>1, <3>2, CallEnds
    <2>2. \A u \in Tasks : owner'[u] = u <=> at'[u] \in {"first", "second", "commit"}
      BY <1>1, <1>2, CallEnds DEF T!TransactionsAssumption
    <2>3. QED
      BY <1>2, <2>1, <2>2, CallEnds DEF LockType, LockInv
  <1>3. ASSUME NEW place \in Stations, T!Goes(t, place), UNCHANGED <<lock, owner>>,
               at[t] \in Inside <=> place \in Inside,
               at[t] \in {"first", "second", "commit"} <=> place \in {"first", "second", "commit"}
        PROVE  LockType /\ LockInv'
    <2>1. /\ at' \in [Tasks -> Stations] /\ at'[t] = place
          /\ \A u \in Tasks \ {t} : at'[u] = at[u]
      BY <1>3, Moves
    <2>2. \A u \in Tasks : lock' = u <=> at'[u] \in Inside
      BY <1>3, <2>1 DEF LockInv
    <2>3. \A u \in Tasks : owner'[u] = u <=> at'[u] \in {"first", "second", "commit"}
      BY <1>1, <1>3, <2>1
    <2>4. lock' \in Tasks \cup {NoTask} /\ owner' \in [Tasks -> Tasks \cup {NoTask}]
      BY <1>3 DEF T!TypeOK
    <2>5. QED
      BY <2>1, <2>2, <2>3, <2>4 DEF LockType, LockInv
  <1>4. ASSUME NEW kind \in T!Kinds, T!Call(t, kind)
        PROVE  LockType /\ LockInv'
    <2>1. at[t] = "idle" /\ UNCHANGED <<lock, owner>> /\ ~T!Owns(t) /\ T!Goes(t, T!Waiting[kind])
      BY <1>1, <1>4 DEF T!Call, T!Owns
    <2>2. T!Waiting[kind] \in T!Waits
      BY Strings
    <2>3. QED
      BY <1>3, <2>1, <2>2, Strings DEF Stations, Inside, Open, T!Kinds
  <1>5. CASE T!Enter(t)
    <2>1. lock = NoTask /\ lock' = t /\ UNCHANGED owner
      BY <1>5 DEF T!Enter
    <2>2. PICK kind \in T!Kinds : at[t] = T!Waiting[kind] /\ T!Goes(t, kind)
      BY <1>5 DEF T!Enter
    <2>3. at' \in [Tasks -> Stations] /\ at'[t] = kind /\ \A u \in Tasks \ {t} : at'[u] = at[u]
      BY <2>2, Moves DEF Stations
    <2>4. at[t] \in {"transaction_waits", "execute_waits", "fetch_waits"}
          /\ kind \in {"transaction", "execute", "fetch"}
      BY <2>2, Strings DEF T!Kinds
    <2>5. QED
      BY <1>1, <2>1, <2>3, <2>4
         DEF LockType, LockInv, T!TransactionsAssumption, Inside, Open, T!Kinds, T!TypeOK
  <1>6. CASE T!Begin(t)
    <2>1. CASE T!Goes(t, "first") /\ owner' = [owner EXCEPT ![t] = t] /\ UNCHANGED lock
      <3>1. at[t] = "transaction"
        BY <1>6 DEF T!Begin
      <3>2. at' \in [Tasks -> Stations] /\ at'[t] = "first"
            /\ \A u \in Tasks \ {t} : at'[u] = at[u]
        BY <2>1, Moves DEF Stations
      <3>3. owner' \in [Tasks -> Tasks \cup {NoTask}] /\ owner'[t] = t
            /\ \A u \in Tasks \ {t} : owner'[u] = owner[u]
        BY <2>1 DEF T!TypeOK
      <3>4. QED
        BY <1>1, <2>1, <3>1, <3>2, <3>3 DEF LockType, LockInv, Inside, Open, T!Kinds, T!TypeOK
    <2>2. QED
      BY <1>2, <1>6, <2>1 DEF T!Begin
  <1>7. CASE T!First(t) \/ T!Second(t)
    BY <1>3, <1>7 DEF T!First, T!Second, Inside, Open, Stations
  <1>8. CASE T!Execute(t)
    <2>1. ~T!Owns(t) /\ at[t] = "execute"
      BY <1>1, <1>8 DEF T!Execute, T!Owns
    <2>2. QED
      BY <1>2, <1>3, <1>8, <2>1 DEF T!Execute, Inside, Open, T!Kinds, Stations
  <1>9. ASSUME NEW u \in Tasks, T!Spawn(t, u)
        PROVE  LockType /\ LockInv'
    <2>1. at[u] = "idle" /\ u # t /\ owner' = [owner EXCEPT ![u] = t] /\ UNCHANGED <<lock, at>>
      BY <1>9 DEF T!Spawn
    <2>2. QED
      BY <1>1, <2>1 DEF LockType, LockInv, T!TypeOK
  <1>10. QED
    BY <1>2, <1>4, <1>5, <1>6, <1>7, <1>8, <1>9
       DEF TaskStep, T!BodyFails, T!Commit, T!CommitOne, T!ExecuteFails, T!Fetch, T!Cancel

-----------------------------------------------------------------------------
(* What a step does to the place of the holder *)

LEMMA EndsHolding ==
    ASSUME T!TransactionsAssumption, T!TypeOK, LockInv, NEW t \in Tasks, T!Over(t),
           at[t] \in Inside
    PROVE  Place = at[t] /\ Place' = "idle"
  BY CallEnds DEF Place, LockInv, T!TransactionsAssumption

LEMMA EndsWaiting ==
    ASSUME T!TransactionsAssumption, T!TypeOK, LockInv, NEW t \in Tasks, T!Over(t),
           at[t] \notin Inside
    PROVE  Place' = Place
  <1>1. lock' = lock /\ lock \in (Tasks \ {t}) \cup {NoTask}
    BY CallEnds DEF LockInv, T!TypeOK
  <1>2. QED
    BY <1>1, CallEnds DEF Place

LEMMA HolderMoves ==
    ASSUME T!TransactionsAssumption, T!TypeOK, LockInv, NEW t \in Tasks, NEW place \in Stations,
           T!Goes(t, place), UNCHANGED lock, at[t] \in Inside
    PROVE  Place = at[t] /\ Place' = place
  BY Moves DEF Place, LockInv, T!TransactionsAssumption

-----------------------------------------------------------------------------
(* What a step does to the rows *)

DataType ==
    /\ disk \in T!Rows /\ conn \in [open : BOOLEAN, rows : T!Rows]
    /\ up \in {"up", "closed"} /\ seen \in [Tasks -> T!Rows]

Sound == DataType /\ OpenInv /\ AheadInv /\ T!NothingHalf /\ T!ReadsAreWhole

LEMMA RowsSound ==
    ASSUME Sound, UNCHANGED <<disk, conn, seen, up>>, cancels' = 0 => cancels = 0,
           Place' = Place \/ (Place \notin Open /\ Place' \notin Open)
    PROVE  Sound'
  <1>1. DataType' /\ T!NothingHalf' /\ T!ReadsAreWhole'
    BY DEF Sound, DataType, T!NothingHalf, T!ReadsAreWhole, T!Whole
  <1>2. OpenInv'
    BY DEF Sound, OpenInv
  <1>3. AheadInv'
    BY DEF Sound, AheadInv, Open
  <1>4. QED
    BY <1>1, <1>2, <1>3 DEF Sound

LEMMA Commits ==
    ASSUME Sound, disk' = conn.rows, conn' = [open |-> FALSE, rows |-> disk'],
           Place \in {"commit", "commit_one"}, Place' = "idle",
           UNCHANGED seen, up' \in {"up", "closed"}
    PROVE  /\ Sound'
           /\ disk'.pair[1] = disk.pair[1] + IF Place = "commit" THEN 1 ELSE 0
           /\ disk'.single = disk.single + IF Place = "commit_one" THEN 1 ELSE 0
  <1>1. disk' = conn.rows /\ ~conn'.open /\ conn'.rows = conn.rows /\ DataType'
    BY DEF Sound, DataType
  <1>2. /\ disk'.pair[1] = disk.pair[1] + IF Place = "commit" THEN 1 ELSE 0
        /\ disk'.pair[2] = disk.pair[2] + IF Place = "commit" THEN 1 ELSE 0
        /\ disk'.single = disk.single + IF Place = "commit_one" THEN 1 ELSE 0
    BY <1>1 DEF Sound, AheadInv
  <1>3. T!NothingHalf' /\ T!ReadsAreWhole'
    BY <1>2 DEF Sound, T!NothingHalf, T!ReadsAreWhole, T!Whole
  <1>4. OpenInv'
    BY <1>1 DEF OpenInv, Open
  <1>5. conn'.rows = disk' /\ disk' \in T!Rows
    BY <1>1 DEF DataType
  <1>6. AheadInv'
    <2>1. /\ disk'.pair[1] = disk'.pair[1] + 0 /\ disk'.pair[2] = disk'.pair[2] + 0
          /\ disk'.single = disk'.single + 0
      BY <1>5 DEF T!Rows
    <2>2. Place' \notin {"second", "commit", "commit_one"}
      OBVIOUS
    <2>3. QED
      BY <1>5, <2>1, <2>2 DEF AheadInv
  <1>7. QED
    BY <1>1, <1>2, <1>3, <1>4, <1>6 DEF Sound

LEMMA RollsBack ==
    ASSUME Sound, conn' = [open |-> FALSE, rows |-> disk], UNCHANGED <<disk, seen>>,
           up' \in {"up", "closed"}, Place' = "idle"
    PROVE  Sound'
  <1>1. DataType' /\ T!NothingHalf' /\ T!ReadsAreWhole'
    BY DEF Sound, DataType, T!NothingHalf, T!ReadsAreWhole, T!Whole
  <1>2. OpenInv'
    BY DEF OpenInv, Open
  <1>3. conn'.rows = disk' /\ disk' \in T!Rows
    BY <1>1 DEF DataType
  <1>4. AheadInv'
    BY <1>3 DEF AheadInv, T!Rows
  <1>5. QED
    BY <1>1, <1>2, <1>4 DEF Sound

LEMMA Writes ==
    ASSUME Sound, NEW written \in T!Rows, T!Written(written), UNCHANGED <<seen, up>>,
           written.pair[1] = disk.pair[1] + IF Place' \in {"second", "commit"} THEN 1 ELSE 0,
           written.pair[2] = disk.pair[2] + IF Place' = "commit" THEN 1 ELSE 0,
           written.single = disk.single + IF Place' = "commit_one" THEN 1 ELSE 0,
           Place' \in Open
    PROVE  Sound'
  <1>1. conn'.open /\ conn'.rows = written /\ UNCHANGED disk
    BY DEF T!Written
  <1>2. DataType' /\ T!NothingHalf' /\ T!ReadsAreWhole'
    BY DEF T!Written, Sound, DataType, T!NothingHalf, T!ReadsAreWhole, T!Whole
  <1>3. OpenInv'
    BY <1>1 DEF OpenInv
  <1>4. AheadInv'
    BY <1>1 DEF AheadInv
  <1>5. QED
    BY <1>2, <1>3, <1>4 DEF Sound

LEMMA AddsFirst ==
    ASSUME NEW written \in T!Rows, NEW next, next = [written EXCEPT !.pair[1] = @ + 1]
    PROVE  /\ next \in T!Rows /\ next.single = written.single
           /\ next.pair[1] = written.pair[1] + 1 /\ next.pair[2] = written.pair[2]
  BY DEF T!Rows

LEMMA AddsSecond ==
    ASSUME NEW written \in T!Rows, NEW next, next = [written EXCEPT !.pair[2] = @ + 1]
    PROVE  /\ next \in T!Rows /\ next.single = written.single
           /\ next.pair[2] = written.pair[2] + 1 /\ next.pair[1] = written.pair[1]
  BY DEF T!Rows

LEMMA AddsSingle ==
    ASSUME NEW written \in T!Rows, NEW next, next = [written EXCEPT !.single = @ + 1]
    PROVE  next \in T!Rows /\ next.single = written.single + 1 /\ next.pair = written.pair
  BY DEF T!Rows

LEMMA DataStep ==
    ASSUME T!TransactionsAssumption, T!TypeOK, LockInv, Sound, cancels \in Nat,
           NEW t \in Tasks, TaskStep(t)
    PROVE  Sound'
  <1>1. ASSUME NEW kind \in T!Kinds, T!Call(t, kind)
        PROVE  Sound'
    <2>1. at[t] = "idle" /\ UNCHANGED <<disk, conn, seen, up, lock, cancels>>
          /\ \E place : T!Goes(t, place)
      BY <1>1 DEF T!Call
    <2>2. lock # t
      BY <2>1 DEF LockInv, Inside, Open, T!Kinds
    <2>3. Place' = Place
      BY <2>1, <2>2 DEF Place, T!Goes, T!TypeOK
    <2>4. QED
      BY <2>1, <2>3, RowsSound
  <1>2. CASE T!Enter(t)
    <2>1. lock = NoTask /\ lock' = t /\ UNCHANGED <<disk, conn, seen, up, cancels>>
      BY <1>2 DEF T!Enter, T!bounds
    <2>2. at'[t] \in T!Kinds
      BY <1>2 DEF T!Enter, T!Goes, T!TypeOK
    <2>3. Place = "idle" /\ Place' \in T!Kinds
      BY <2>1, <2>2 DEF Place, T!TransactionsAssumption
    <2>4. QED
      BY <2>1, <2>3, RowsSound DEF Open, T!Kinds
  <1>3. CASE T!Begin(t)
    <2>1. at[t] = "transaction" /\ at[t] \in Inside /\ UNCHANGED <<disk, seen, up, cancels>>
      BY <1>3 DEF T!Begin, Inside, T!Kinds, T!bounds
    <2>2. CASE /\ conn' = [conn EXCEPT !.open = TRUE]
               /\ T!Goes(t, "first") /\ UNCHANGED lock
      <3>1. Place = "transaction" /\ Place' = "first"
        <4>1. "first" \in Stations /\ T!Goes(t, "first") /\ UNCHANGED lock /\ at[t] \in Inside
          BY <2>1, <2>2 DEF Stations
        <4>2. QED
          BY <2>1, <4>1, HolderMoves
      <3>2. conn'.open /\ conn'.rows = conn.rows /\ DataType'
        BY <2>1, <2>2 DEF Sound, DataType
      <3>3. OpenInv' /\ AheadInv'
        BY <2>1, <3>1, <3>2 DEF Sound, OpenInv, AheadInv, Open
      <3>4. QED
        BY <2>1, <3>2, <3>3 DEF Sound, T!NothingHalf, T!ReadsAreWhole
    <2>3. CASE T!Over(t) /\ UNCHANGED conn
      BY <2>1, <2>3, EndsHolding, RowsSound DEF Open
    <2>4. QED
      BY <1>3, <2>2, <2>3 DEF T!Begin
  <1>4. CASE T!First(t)
    <2>1. /\ at[t] = "first" /\ at[t] \in Inside
          /\ T!Goes(t, "second") /\ UNCHANGED lock /\ "second" \in Stations
      BY <1>4 DEF T!First, Inside, Open, Stations
    <2>2. Place = "first" /\ Place' = "second"
      BY <2>1, HolderMoves
    <2>3. PICK written : written = [conn.rows EXCEPT !.pair[1] = @ + 1]
      OBVIOUS
    <2>4. T!Written(written) /\ UNCHANGED <<seen, up>>
      BY <1>4, <2>3 DEF T!First
    <2>5. /\ written \in T!Rows /\ written.single = conn.rows.single
          /\ written.pair[1] = conn.rows.pair[1] + 1 /\ written.pair[2] = conn.rows.pair[2]
      BY <2>3, AddsFirst DEF Sound, DataType
    <2>6. /\ conn.rows.pair[1] = disk.pair[1] + 0
          /\ conn.rows.pair[2] = disk.pair[2] /\ conn.rows.single = disk.single
      BY <2>2 DEF Sound, AheadInv, DataType, T!Rows
    <2>7. /\ written.pair[1] = disk.pair[1] + 1
          /\ written.pair[2] = disk.pair[2] + 0
          /\ written.single = disk.single + 0
      BY <2>5, <2>6 DEF Sound, DataType, T!Rows
    <2>8. QED
      BY <2>2, <2>4, <2>5, <2>7, Writes DEF Open
  <1>5. CASE T!Second(t)
    <2>1. /\ at[t] = "second" /\ at[t] \in Inside
          /\ T!Goes(t, "commit") /\ UNCHANGED lock /\ "commit" \in Stations
      BY <1>5 DEF T!Second, Inside, Open, Stations
    <2>2. Place = "second" /\ Place' = "commit"
      BY <2>1, HolderMoves
    <2>3. PICK written : written = [conn.rows EXCEPT !.pair[2] = @ + 1]
      OBVIOUS
    <2>4. T!Written(written) /\ UNCHANGED <<seen, up>>
      BY <1>5, <2>3 DEF T!Second
    <2>5. /\ written \in T!Rows /\ written.single = conn.rows.single
          /\ written.pair[2] = conn.rows.pair[2] + 1 /\ written.pair[1] = conn.rows.pair[1]
      BY <2>3, AddsSecond DEF Sound, DataType
    <2>6. /\ conn.rows.pair[1] = disk.pair[1] + 1
          /\ conn.rows.pair[2] = disk.pair[2] /\ conn.rows.single = disk.single
      BY <2>2 DEF Sound, AheadInv, DataType, T!Rows
    <2>7. /\ written.pair[1] = disk.pair[1] + 1
          /\ written.pair[2] = disk.pair[2] + 1
          /\ written.single = disk.single + 0
      BY <2>5, <2>6 DEF Sound, DataType, T!Rows
    <2>8. QED
      BY <2>2, <2>4, <2>5, <2>7, Writes DEF Open
  <1>6. CASE T!Execute(t)
    <2>1. at[t] = "execute" /\ at[t] \in Inside /\ UNCHANGED <<seen, up>> /\ ~T!Owns(t)
      BY <1>6 DEF T!Execute, Inside, T!Kinds, T!TypeOK
    <2>2. CASE T!RolledBack /\ T!Over(t)
      BY <2>1, <2>2, EndsHolding, RollsBack DEF T!RolledBack, Sound, DataType
    <2>3. CASE /\ T!Written([conn.rows EXCEPT !.single = @ + 1])
               /\ T!Goes(t, "commit_one") /\ UNCHANGED lock
      <3>1. Place = "execute" /\ Place' = "commit_one"
        <4>1. /\ "commit_one" \in Stations /\ T!Goes(t, "commit_one") /\ UNCHANGED lock
              /\ at[t] = "execute" /\ at[t] \in Inside
          BY <2>1, <2>3 DEF Stations
        <4>2. QED
          BY <4>1, HolderMoves
      <3>2. PICK written : written = [conn.rows EXCEPT !.single = @ + 1]
        OBVIOUS
      <3>3. T!Written(written)
        BY <2>3, <3>2
      <3>4. /\ written \in T!Rows /\ written.single = conn.rows.single + 1
            /\ written.pair = conn.rows.pair
        BY <3>2, AddsSingle DEF Sound, DataType
      <3>5. /\ written.pair[1] = disk.pair[1] + 0
            /\ written.pair[2] = disk.pair[2] + 0
            /\ written.single = disk.single + 1
        BY <3>1, <3>4 DEF Sound, AheadInv, DataType, T!Rows
      <3>6. QED
        BY <2>1, <3>1, <3>3, <3>4, <3>5, Writes DEF Open
    <2>4. QED
      BY <1>6, <2>1, <2>2, <2>3 DEF T!Execute
  <1>7. CASE T!Commit(t) \/ T!CommitOne(t)
    <2>1. at[t] \in {"commit", "commit_one"} /\ T!Committed /\ T!Over(t) /\ UNCHANGED <<seen, up>>
      BY <1>7 DEF T!Commit, T!CommitOne
    <2>2. Place = at[t] /\ Place' = "idle"
      BY <2>1, EndsHolding DEF Inside, Open
    <2>3. QED
      BY <2>1, <2>2, Commits DEF T!Committed, Sound, DataType
  <1>8. CASE T!BodyFails(t) \/ T!ExecuteFails(t)
    <2>1. at[t] \in Inside /\ T!RolledBack /\ T!Over(t) /\ UNCHANGED <<seen, up>>
      BY <1>8 DEF T!BodyFails, T!ExecuteFails, Inside, Open, T!Kinds
    <2>2. QED
      BY <2>1, EndsHolding, RollsBack DEF T!RolledBack, Sound, DataType
  <1>9. CASE T!Fetch(t)
    <2>1. /\ at[t] = "fetch" /\ at[t] \in Inside /\ T!Over(t)
          /\ UNCHANGED <<disk, conn, up, cancels>>
          /\ seen' = seen \/ seen' = [seen EXCEPT ![t] = conn.rows]
      BY <1>9 DEF T!Fetch, Inside, T!Kinds, T!bounds
    <2>2. Place = "fetch" /\ Place' = "idle"
      BY <2>1, EndsHolding
    <2>3. T!Whole(conn.rows) /\ conn.rows \in T!Rows
      BY <2>2 DEF Sound, AheadInv, T!NothingHalf, T!Whole, DataType, T!Rows
    <2>4. seen' \in [Tasks -> T!Rows] /\ \A u \in Tasks : T!Whole(seen'[u])
      BY <2>1, <2>3 DEF Sound, DataType, T!ReadsAreWhole
    <2>5. OpenInv' /\ AheadInv'
      BY <2>1, <2>2 DEF Sound, OpenInv, AheadInv, Open
    <2>6. QED
      BY <2>1, <2>4, <2>5 DEF Sound, DataType, T!NothingHalf, T!ReadsAreWhole
  <1>10. CASE T!Cancel(t)
    <2>1. T!Over(t) /\ UNCHANGED <<seen, up>> /\ cancels' # 0
      <3>1. cancels' = cancels + 1
        BY <1>10 DEF T!Cancel
      <3>2. T!Over(t) /\ UNCHANGED <<seen, up>>
        BY <1>10 DEF T!Cancel
      <3>3. QED
        BY <3>1, <3>2
    <2>2. CASE at[t] \in T!Waits \cup {"fetch"} /\ UNCHANGED <<disk, conn>>
      <3>1. at[t] \in T!Waits => at[t] \notin Inside
        BY Strings DEF Inside, Open, T!Kinds
      <3>2. Place' = Place \/ (Place = "fetch" /\ Place' = "idle")
        BY <2>1, <2>2, <3>1, EndsHolding, EndsWaiting DEF Inside, T!Kinds
      <3>3. QED
        BY <2>1, <2>2, <3>2, RowsSound DEF Open
    <2>3. CASE /\ at[t] = "transaction" /\ UNCHANGED disk
               /\ conn' \in {conn, [conn EXCEPT !.open = TRUE]}
      <3>1. Place = "transaction" /\ Place' = "idle"
        BY <2>1, <2>3, EndsHolding DEF Inside, T!Kinds
      <3>2. conn'.rows = conn.rows /\ DataType'
        BY <2>1, <2>3 DEF Sound, DataType
      <3>3. OpenInv' /\ AheadInv'
        BY <2>1, <2>3, <3>1, <3>2 DEF Sound, OpenInv, AheadInv, Open
      <3>4. QED
        BY <2>1, <2>3, <3>2, <3>3 DEF Sound, T!NothingHalf, T!ReadsAreWhole
    <2>4. CASE at[t] \in {"first", "second", "commit", "execute", "commit_one"} /\ T!RolledBack
      BY <2>1, <2>4, EndsHolding, RollsBack
         DEF T!RolledBack, Sound, DataType, Inside, Open, T!Kinds
    <2>5. CASE at[t] \in {"commit", "commit_one"} /\ T!Committed
      <3>1. Place = at[t] /\ Place' = "idle"
        BY <2>1, <2>5, EndsHolding DEF Inside, Open
      <3>2. QED
        BY <2>1, <2>5, <3>1, Commits DEF T!Committed, Sound, DataType
    <2>6. QED
      BY <1>10, <2>2, <2>3, <2>4, <2>5 DEF T!Cancel
  <1>11. ASSUME NEW u \in Tasks, T!Spawn(t, u)
         PROVE  Sound'
    BY <1>11, RowsSound DEF T!Spawn, Place, T!bounds
  <1>12. QED
    BY <1>1, <1>2, <1>3, <1>4, <1>5, <1>6, <1>7, <1>8, <1>9, <1>10, <1>11 DEF TaskStep

-----------------------------------------------------------------------------
(* What was reported, and what is in doubt *)

About(kind, doubts) == {d \in doubts : d[1] \in {kind, "restart"}}
Doubts(kind) == T!Cardinality(About(kind, acks.doubtful))

LEMMA ReportedForm ==
    T!ReportedIsWritten <=>
        /\ acks.transaction <= disk.pair[1]
        /\ disk.pair[1] <= acks.transaction + Doubts("transaction")
        /\ acks.execute <= disk.single
        /\ disk.single <= acks.execute + Doubts("execute")
  BY DEF T!ReportedIsWritten, Doubts, About

LEMMA NewDoubt ==
    ASSUME NEW doubts, T!IsFiniteSet(doubts), NEW d, NEW kind
    PROVE  /\ T!IsFiniteSet(doubts \cup {d})
           /\ T!Cardinality(About(kind, doubts)) \in Nat
           /\ T!Cardinality(About(kind, doubts \cup {d})) \in Nat
           /\ T!Cardinality(About(kind, doubts)) <= T!Cardinality(About(kind, doubts \cup {d}))
           /\ d \notin doubts /\ d[1] \in {kind, "restart"}
                => T!Cardinality(About(kind, doubts \cup {d}))
                     = T!Cardinality(About(kind, doubts)) + 1
  <1>1. T!IsFiniteSet(About(kind, doubts)) /\ T!Cardinality(About(kind, doubts)) \in Nat
    <2>1. About(kind, doubts) \in SUBSET doubts
      BY DEF About
    <2>2. QED
      BY <2>1, FS_Subset, SameSets, FS_CardinalityType
  <1>2. CASE d[1] \in {kind, "restart"}
    <2>1. About(kind, doubts \cup {d}) = About(kind, doubts) \cup {d}
      BY <1>2 DEF About
    <2>2. T!Cardinality(About(kind, doubts) \cup {d})
            = IF d \in About(kind, doubts) THEN T!Cardinality(About(kind, doubts))
              ELSE T!Cardinality(About(kind, doubts)) + 1
      BY <1>1, SameSets, FS_AddElement
    <2>3. d \notin doubts => d \notin About(kind, doubts)
      BY DEF About
    <2>4. T!IsFiniteSet(doubts \cup {d})
      BY SameSets, FS_AddElement
    <2>5. T!Cardinality(About(kind, doubts \cup {d}))
            \in {T!Cardinality(About(kind, doubts)), T!Cardinality(About(kind, doubts)) + 1}
      BY <2>1, <2>2
    <2>6. d \notin doubts => T!Cardinality(About(kind, doubts \cup {d}))
                                = T!Cardinality(About(kind, doubts)) + 1
      BY <2>1, <2>2, <2>3
    <2>7. QED
      BY <1>1, <2>4, <2>5, <2>6
  <1>3. CASE d[1] \notin {kind, "restart"}
    <2>1. About(kind, doubts \cup {d}) = About(kind, doubts)
      BY <1>3 DEF About
    <2>2. T!IsFiniteSet(doubts \cup {d})
      BY SameSets, FS_AddElement
    <2>3. QED
      BY <1>1, <1>3, <2>1, <2>2
  <1>4. QED
    BY <1>2, <1>3

LEMMA ReportedNext ==
    T!ReportedIsWritten' <=>
        /\ acks'.transaction <= disk'.pair[1]
        /\ disk'.pair[1] <= acks'.transaction + Doubts("transaction")'
        /\ acks'.execute <= disk'.single
        /\ disk'.single <= acks'.execute + Doubts("execute")'
  BY DEF T!ReportedIsWritten, Doubts, About

Reported == DoubtInv /\ T!ReportedIsWritten

\* Nothing was committed and nothing reported.
LEMMA Silent ==
    ASSUME Reported, UNCHANGED <<disk, acks, restarts>>, calls' \in Nat,
           cancels' \in Nat, cancels <= cancels'
    PROVE  Reported'
  <1>1. DoubtInv'
    BY DEF Reported, DoubtInv
  <1>2. T!ReportedIsWritten'
    BY DEF Reported, T!ReportedIsWritten
  <1>3. QED
    BY <1>1, <1>2 DEF Reported

LEMMA ReportStep ==
    ASSUME T!TransactionsAssumption, T!TypeOK, LockInv, Sound, Reported, NEW t \in Tasks,
           TaskStep(t)
    PROVE  Reported'
  <1>0. calls \in Nat /\ cancels \in Nat /\ restarts \in Nat
    BY DEF Reported, DoubtInv
  <1>1. CASE UNCHANGED <<disk, acks, cancels, restarts>> /\ calls' \in Nat
    BY <1>0, <1>1, Silent
  <1>2. ASSUME NEW kind \in T!Kinds, T!Call(t, kind)
        PROVE  Reported'
    <2>1. calls' \in {calls, calls + 1} /\ UNCHANGED <<disk, acks, cancels, restarts>>
      BY <1>2 DEF T!Call
    <2>2. QED
      BY <1>0, <1>1, <2>1
  <1>3. CASE \/ T!Enter(t) \/ T!Begin(t) \/ T!First(t) \/ T!Second(t) \/ T!BodyFails(t)
             \/ T!Execute(t) \/ T!ExecuteFails(t) \/ T!Fetch(t) \/ \E u \in Tasks : T!Spawn(t, u)
    <2>1. UNCHANGED <<acks, cancels, restarts>> /\ calls' \in Nat
      BY <1>0, <1>3 DEF T!Enter, T!Begin, T!First, T!Second, T!BodyFails, T!Execute,
          T!ExecuteFails, T!Fetch, T!Spawn, T!bounds
    <2>2. UNCHANGED disk
      BY <1>3 DEF T!Enter, T!Begin, T!First, T!Second, T!BodyFails, T!Execute, T!ExecuteFails,
          T!Fetch, T!Spawn, T!Written, T!RolledBack
    <2>3. QED
      BY <1>1, <2>1, <2>2
  <1>4. ASSUME at[t] \in {"commit", "commit_one"}, T!Committed, T!Over(t), UNCHANGED <<seen, up>>
        PROVE  /\ disk'.pair[1] = disk.pair[1] + IF at[t] = "commit" THEN 1 ELSE 0
               /\ disk'.single = disk.single + IF at[t] = "commit_one" THEN 1 ELSE 0
    <2>1. Place = at[t] /\ Place' = "idle"
      BY <1>4, EndsHolding DEF Inside, Open
    <2>2. QED
      BY <1>4, <2>1, Commits DEF T!Committed, Sound, DataType
  <1>5. disk.pair[1] \in Nat /\ disk.single \in Nat
    BY DEF Sound, DataType, T!Rows
  <1>6. CASE T!Commit(t)
    <2>1. /\ at[t] = "commit" /\ T!Committed /\ T!Over(t)
          /\ UNCHANGED <<seen, up, calls, cancels, restarts>>
      BY <1>6 DEF T!Commit, T!bounds
    <2>2. /\ acks'.transaction = acks.transaction + 1 /\ acks'.execute = acks.execute
          /\ acks'.doubtful = acks.doubtful
          /\ acks' \in [transaction : Nat, execute : Nat,
                        doubtful : SUBSET ({"transaction", "execute", "restart"} \X Nat)]
      BY <1>6 DEF T!Commit, Reported, DoubtInv
    <2>3. DoubtInv'
      BY <2>1, <2>2 DEF Reported, DoubtInv
    <2>4. disk'.pair[1] = disk.pair[1] + 1 /\ disk'.single = disk.single
      BY <1>4, <1>5, <2>1
    <2>5. Doubts("transaction") \in Nat /\ Doubts("execute") \in Nat
          /\ Doubts("transaction")' = Doubts("transaction")
          /\ Doubts("execute")' = Doubts("execute")
      BY <2>2, NewDoubt DEF Doubts, Reported, DoubtInv
    <2>6. T!ReportedIsWritten'
      BY <1>5, <2>2, <2>4, <2>5, ReportedForm, ReportedNext DEF Reported, DoubtInv
    <2>7. QED
      BY <2>3, <2>6 DEF Reported
  <1>7. CASE T!CommitOne(t)
    <2>1. /\ at[t] = "commit_one" /\ T!Committed /\ T!Over(t)
          /\ UNCHANGED <<seen, up, calls, cancels, restarts>>
      BY <1>7 DEF T!CommitOne, T!bounds
    <2>2. /\ acks'.transaction = acks.transaction /\ acks'.execute = acks.execute + 1
          /\ acks'.doubtful = acks.doubtful
          /\ acks' \in [transaction : Nat, execute : Nat,
                        doubtful : SUBSET ({"transaction", "execute", "restart"} \X Nat)]
      BY <1>7 DEF T!CommitOne, Reported, DoubtInv
    <2>3. DoubtInv'
      BY <2>1, <2>2 DEF Reported, DoubtInv
    <2>4. disk'.pair[1] = disk.pair[1] /\ disk'.single = disk.single + 1
      BY <1>4, <1>5, <2>1
    <2>5. Doubts("transaction") \in Nat /\ Doubts("execute") \in Nat
          /\ Doubts("transaction")' = Doubts("transaction")
          /\ Doubts("execute")' = Doubts("execute")
      BY <2>2, NewDoubt DEF Doubts, Reported, DoubtInv
    <2>6. T!ReportedIsWritten'
      BY <1>5, <2>2, <2>4, <2>5, ReportedForm, ReportedNext DEF Reported, DoubtInv
    <2>7. QED
      BY <2>3, <2>6 DEF Reported
  <1>8. CASE T!Cancel(t)
    <2>1. cancels' = cancels + 1 /\ T!Over(t) /\ UNCHANGED <<seen, up, calls, restarts>>
      BY <1>8 DEF T!Cancel
    <2>2. CASE UNCHANGED <<disk, acks>>
      BY <1>0, <2>1, <2>2, Silent
    <2>3. ASSUME NEW kind \in {"transaction", "execute"}, T!Committed,
                 at[t] = IF kind = "transaction" THEN "commit" ELSE "commit_one",
                 acks' = [acks EXCEPT !.doubtful = @ \cup {<<kind, cancels>>}]
          PROVE  Reported'
      <3>0. PICK d : d = <<kind, cancels>>
        OBVIOUS
      <3>1. d = <<kind, cancels>> /\ d[1] = kind /\ d[2] = cancels
        BY <3>0
      <3>2. d \notin acks.doubtful
        BY <1>0, <3>1 DEF Reported, DoubtInv
      <3>3. /\ acks'.transaction = acks.transaction /\ acks'.execute = acks.execute
            /\ acks'.doubtful = acks.doubtful \cup {d}
            /\ acks' \in [transaction : Nat, execute : Nat,
                          doubtful : SUBSET ({"transaction", "execute", "restart"} \X Nat)]
        BY <1>0, <2>3, <3>1 DEF Reported, DoubtInv
      <3>4. DoubtInv'
        <4>1. T!IsFiniteSet(acks'.doubtful)
          BY <3>3, SameSets, FS_AddElement DEF Reported, DoubtInv
        <4>2. \A e \in acks'.doubtful : e[2] < IF e[1] = "restart" THEN restarts' ELSE cancels'
          <5>1. ASSUME NEW e \in acks.doubtful
                PROVE  e[2] < IF e[1] = "restart" THEN restarts' ELSE cancels'
            <6>1. e[2] \in Nat /\ e[2] < IF e[1] = "restart" THEN restarts ELSE cancels
              BY DEF Reported, DoubtInv
            <6>2. QED
              BY <1>0, <2>1, <6>1
          <5>2. d[2] < cancels' /\ d[1] # "restart"
            BY <1>0, <2>1, <3>1
          <5>3. QED
            BY <3>3, <5>1, <5>2
        <4>3. QED
          BY <1>0, <2>1, <3>3, <4>1, <4>2 DEF DoubtInv
      <3>5. /\ Doubts("transaction") \in Nat /\ Doubts("execute") \in Nat
            /\ Doubts("transaction")' \in Nat /\ Doubts("execute")' \in Nat
            /\ Doubts("transaction") <= Doubts("transaction")'
            /\ Doubts("execute") <= Doubts("execute")'
        BY <3>3, NewDoubt DEF Doubts, Reported, DoubtInv
      <3>6. Doubts(kind)' = Doubts(kind) + 1
        <4>1. PICK doubts : doubts = acks.doubtful
          OBVIOUS
        <4>2. T!IsFiniteSet(doubts) /\ d \notin doubts /\ d[1] = kind
          BY <3>1, <3>2, <4>1 DEF Reported, DoubtInv
        <4>3. T!Cardinality(About(kind, doubts \cup {d})) = T!Cardinality(About(kind, doubts)) + 1
          BY <4>2, NewDoubt
        <4>4. QED
          BY <3>3, <4>1, <4>3 DEF Doubts
      <3>7. /\ disk'.pair[1] = disk.pair[1] + IF kind = "transaction" THEN 1 ELSE 0
            /\ disk'.single = disk.single + IF kind = "execute" THEN 1 ELSE 0
        BY <1>4, <2>1, <2>3
      <3>8. T!ReportedIsWritten'
        <4>1. CASE kind = "transaction"
          BY <1>5, <3>3, <3>5, <3>6, <3>7, <4>1, ReportedForm, ReportedNext DEF Reported,
              DoubtInv
        <4>2. CASE kind = "execute"
          BY <1>5, <3>3, <3>5, <3>6, <3>7, <4>2, ReportedForm, ReportedNext DEF Reported,
              DoubtInv
        <4>3. QED
          BY <4>1, <4>2
      <3>9. QED
        BY <3>4, <3>8 DEF Reported
    <2>4. QED
      BY <1>8, <2>2, <2>3 DEF T!Cancel, T!RolledBack
  <1>9. QED
    BY <1>2, <1>3, <1>6, <1>7, <1>8 DEF TaskStep

-----------------------------------------------------------------------------
(* The connection is closed, or the process ends *)

LEMMA Closes ==
    ASSUME T!TransactionsAssumption, ConnectionInv, T!Disconnect
    PROVE  LockType /\ LockInv' /\ Sound' /\ Reported'
  <1>1. /\ UNCHANGED <<disk, lock, owner, at, seen, acks, calls, cancels, restarts>>
        /\ conn' = [open |-> FALSE, rows |-> disk] /\ up' = "closed" /\ lock = NoTask
    BY DEF T!Disconnect, T!bounds
  <1>2. Sound /\ Reported
    BY DEF ConnectionInv, T!TypeOK, Sound, DataType, Reported
  <1>3. LockType /\ LockInv'
    BY <1>1 DEF ConnectionInv, T!TypeOK, LockInv, LockType, Stations, T!Owns
  <1>4. Sound'
    BY <1>1, <1>2, RollsBack DEF Place
  <1>5. Reported'
    BY <1>1, <1>2, Silent DEF Reported, DoubtInv
  <1>6. QED
    BY <1>3, <1>4, <1>5

\* Whoever commits holds the lock.
LEMMA HolderCommits ==
    ASSUME T!TransactionsAssumption, ConnectionInv, NEW t \in Tasks,
           at[t] \in {"commit", "commit_one"}
    PROVE  Place = at[t]
  BY DEF ConnectionInv, LockInv, Place, Inside, Open, T!TransactionsAssumption

LEMMA Restarts ==
    ASSUME T!TransactionsAssumption, ConnectionInv, T!Restart
    PROVE  LockType /\ LockInv' /\ Sound' /\ Reported'
  <1>1. /\ UNCHANGED <<seen, calls, cancels>> /\ restarts' = restarts + 1
        /\ conn' = [open |-> FALSE, rows |-> disk'] /\ up' = "up" /\ lock' = NoTask
        /\ owner' = [t \in Tasks |-> NoTask] /\ at' = [t \in Tasks |-> "idle"]
        /\ acks' = [acks EXCEPT !.doubtful = @ \cup {<<"restart", restarts>>}]
    BY DEF T!Restart
  <1>2. Sound /\ Reported
    BY DEF ConnectionInv, T!TypeOK, Sound, DataType, Reported
  <1>3. LockType /\ LockInv'
    BY <1>1 DEF LockInv, LockType, Stations, Inside, Open, T!Kinds, T!TransactionsAssumption
  <1>4. /\ Sound'
        /\ disk'.pair[1] \in {disk.pair[1], disk.pair[1] + 1}
        /\ disk'.single \in {disk.single, disk.single + 1}
    <2>1. CASE UNCHANGED disk
      BY <1>1, <1>2, <2>1, RollsBack DEF Place
    <2>2. CASE disk' = conn.rows /\ \E t \in Tasks : at[t] \in {"commit", "commit_one"}
      <3>1. Place \in {"commit", "commit_one"}
        BY <2>2, HolderCommits
      <3>2. Place' = "idle"
        BY <1>1 DEF Place
      <3>3. disk.pair[1] \in Nat /\ disk.single \in Nat
        BY <1>2 DEF Sound, DataType, T!Rows
      <3>4. QED
        BY <1>1, <1>2, <2>2, <3>1, <3>2, <3>3, Commits
    <2>3. QED
      BY <2>1, <2>2 DEF T!Restart
  <1>5. Reported'
    <2>0. PICK d : d = <<"restart", restarts>>
      OBVIOUS
    <2>1. d = <<"restart", restarts>> /\ d[1] = "restart" /\ d[2] = restarts
      BY <2>0
    <2>2. /\ acks'.transaction = acks.transaction /\ acks'.execute = acks.execute
          /\ acks'.doubtful = acks.doubtful \cup {d}
          /\ acks' \in [transaction : Nat, execute : Nat,
                        doubtful : SUBSET ({"transaction", "execute", "restart"} \X Nat)]
      BY <1>1, <1>2, <2>1 DEF Reported, DoubtInv
    <2>3. DoubtInv'
      <3>1. T!IsFiniteSet(acks'.doubtful)
        BY <1>2, <2>2, SameSets, FS_AddElement DEF Reported, DoubtInv
      <3>2. calls \in Nat /\ cancels \in Nat /\ restarts \in Nat
        BY <1>2 DEF Reported, DoubtInv
      <3>3. ASSUME NEW e \in acks.doubtful
            PROVE  e[2] < IF e[1] = "restart" THEN restarts' ELSE cancels'
        <4>1. e[2] \in Nat /\ e[2] < IF e[1] = "restart" THEN restarts ELSE cancels
          BY <1>2 DEF Reported, DoubtInv
        <4>2. QED
          BY <1>1, <3>2, <4>1
      <3>4. d[2] < restarts' /\ d[1] = "restart"
        BY <1>1, <2>1, <3>2
      <3>5. QED
        BY <1>1, <2>2, <3>1, <3>2, <3>3, <3>4 DEF DoubtInv
    <2>4. /\ Doubts("transaction") \in Nat /\ Doubts("execute") \in Nat
          /\ Doubts("transaction")' = Doubts("transaction") + 1
          /\ Doubts("execute")' = Doubts("execute") + 1
      <3>1. PICK doubts : doubts = acks.doubtful
        OBVIOUS
      <3>2. T!IsFiniteSet(doubts) /\ d \notin doubts
        BY <1>2, <2>1, <3>1 DEF Reported, DoubtInv
      <3>3. ASSUME NEW kind
            PROVE  /\ T!Cardinality(About(kind, doubts)) \in Nat
                   /\ T!Cardinality(About(kind, doubts \cup {d}))
                        = T!Cardinality(About(kind, doubts)) + 1
        BY <2>1, <3>2, NewDoubt
      <3>4. QED
        BY <2>2, <3>1, <3>3 DEF Doubts
    <2>5. disk.pair[1] \in Nat /\ disk.single \in Nat
      BY <1>2 DEF Sound, DataType, T!Rows
    <2>6. T!ReportedIsWritten'
      BY <1>2, <1>4, <2>2, <2>4, <2>5, ReportedForm, ReportedNext DEF Reported, DoubtInv
    <2>7. QED
      BY <2>3, <2>6 DEF Reported
  <1>6. QED
    BY <1>3, <1>4, <1>5

-----------------------------------------------------------------------------
(* The theorems *)

\* The strengthened invariant holds, for any tasks, calls, cancellations and restarts.
THEOREM ConnectionInvariance ==
    ASSUME T!TransactionsAssumption
    PROVE  T!Spec => []ConnectionInv
  <1>1. T!Init => ConnectionInv
    <2> SUFFICES ASSUME T!Init
                 PROVE  ConnectionInv
      OBVIOUS
    <2>1. T!Empty \in T!Rows /\ T!Empty.pair[1] = 0 /\ T!Empty.pair[2] = 0 /\ T!Empty.single = 0
      BY DEF T!Empty, T!Rows
    <2>2. T!TypeOK
      BY <2>1 DEF T!Init, T!TypeOK, T!Owns, T!TransactionsAssumption
    <2>3. LockInv /\ Place = "idle"
      BY DEF T!Init, LockInv, Place, Inside, Open, T!Kinds, T!TransactionsAssumption
    <2>4. OpenInv
      BY <2>3 DEF T!Init, OpenInv, Open
    <2>5. AheadInv /\ T!NothingHalf /\ T!ReadsAreWhole
      BY <2>1, <2>3 DEF T!Init, AheadInv, T!NothingHalf, T!ReadsAreWhole, T!Whole
    <2>6. DoubtInv
      BY SameSets, FS_EmptySet DEF T!Init, DoubtInv
    <2>7. T!ReportedIsWritten
      <3>1. Doubts("transaction") = 0 /\ Doubts("execute") = 0
        BY SameSets, FS_EmptySet DEF T!Init, Doubts, About
      <3>2. QED
        BY <2>1, <3>1, ReportedForm DEF T!Init
    <2>8. QED
      BY <2>2, <2>3, <2>4, <2>5, <2>6, <2>7 DEF ConnectionInv
  <1>2. ConnectionInv /\ [T!Next]_T!vars => ConnectionInv'
    <2> SUFFICES ASSUME ConnectionInv, [T!Next]_T!vars
                 PROVE  ConnectionInv'
      OBVIOUS
    <2>1. Sound /\ Reported /\ T!TypeOK /\ LockInv /\ cancels \in Nat
      BY DEF ConnectionInv, T!TypeOK, Sound, DataType, Reported, DoubtInv
    <2>2. CASE LockType /\ LockInv' /\ Sound' /\ Reported'
      BY <2>2 DEF ConnectionInv, T!TypeOK, Sound, DataType, Reported, LockType, Stations,
          T!Owns
    <2>3. ASSUME NEW t \in Tasks, TaskStep(t)
          PROVE  ConnectionInv'
      BY <2>1, <2>2, <2>3, Locks, DataStep, ReportStep
    <2>4. CASE T!Disconnect \/ T!Restart
      BY <2>2, <2>4, Closes, Restarts
    <2>5. CASE UNCHANGED T!vars
      BY <2>5 DEF T!vars, ConnectionInv, T!TypeOK, T!Owns, LockInv, OpenInv, Place, AheadInv,
          DoubtInv, T!NothingHalf, T!ReadsAreWhole, T!ReportedIsWritten
    <2>6. QED
      BY <2>3, <2>4, <2>5 DEF T!Next, TaskStep
  <1>3. QED
    BY <1>1, <1>2, PTL DEF T!Spec

\* A transaction is on the disk as a whole or not at all, readers see no middle, what was
\* reported is written, and an open transaction has an owner: transaction(), execute() and
\* the reads, whatever fails, is cancelled, disconnected or killed.
THEOREM AllOrNothing ==
    ASSUME T!TransactionsAssumption
    PROVE  T!Spec => []T!WholeOrNothing
  <1>1. ConnectionInv => T!WholeOrNothing
    <2> SUFFICES ASSUME ConnectionInv
                 PROVE  T!WholeOrNothing
      OBVIOUS
    <2>1. T!OpenIsOwned
      <3>1. ASSUME conn.open, cancels = 0
            PROVE  \E t \in Tasks : lock = t /\ at[t] \in Open
        <4>1. Place \in Open
          BY <3>1 DEF ConnectionInv, OpenInv
        <4>2. lock # NoTask
          BY <4>1 DEF Place, Open
        <4>3. QED
          BY <4>1, <4>2 DEF Place, ConnectionInv, T!TypeOK
      <3>2. QED
        BY <3>1 DEF T!OpenIsOwned, Open
    <2>2. QED
      BY <2>1 DEF ConnectionInv, T!WholeOrNothing
  <1>2. QED
    BY <1>1, ConnectionInvariance, PTL

-----------------------------------------------------------------------------
(* The connection implements a store *)

Asks == [t \in Tasks |-> T!Asking(at[t])]

LEMMA CallsByName ==
    /\ T!Waiting.transaction = "transaction_waits" /\ T!Waiting.execute = "execute_waits"
    /\ T!Waiting.fetch = "fetch_waits"
    /\ T!Asking("idle") = "nothing"
    /\ \A place \in {"transaction_waits", "transaction", "first", "second", "commit"} :
          T!Asking(place) = "transaction"
    /\ \A place \in {"execute_waits", "execute", "commit_one"} : T!Asking(place) = "execute"
    /\ \A place \in {"fetch_waits", "fetch"} : T!Asking(place) = "fetch"
  <1>1. /\ T!Waiting.transaction = "transaction_waits" /\ T!Waiting.execute = "execute_waits"
        /\ T!Waiting.fetch = "fetch_waits"
    BY DEF T!Waiting
  <1>2. QED
    BY <1>1 DEF T!Asking

\* Every place but "idle" is in one call.
LEMMA EveryPlace ==
    ASSUME NEW place \in Stations
    PROVE  /\ place = "idle" \/ T!Asking(place) \in T!S!Calls
           /\ T!Asking(place) = "transaction" <=>
                place \in {"transaction_waits", "transaction", "first", "second", "commit"}
           /\ T!Asking(place) = "execute" <=> place \in {"execute_waits", "execute", "commit_one"}
           /\ T!Asking(place) = "fetch" <=> place \in {"fetch_waits", "fetch"}
  BY CallsByName, Strings DEF Stations, T!Kinds, T!S!Calls

LEMMA AskingMoves ==
    ASSUME T!TypeOK, NEW t \in Tasks, NEW place \in Stations, T!Goes(t, place)
    PROVE  /\ Asks' = [Asks EXCEPT ![t] = T!Asking(place)] /\ Asks[t] = T!Asking(at[t])
           /\ T!Asking(place) = T!Asking(at[t]) => UNCHANGED Asks
  <1>1. \A u \in Tasks : Asks'[u] = IF u = t THEN T!Asking(place) ELSE Asks[u]
    BY Moves DEF Asks
  <1>2. QED
    BY <1>1 DEF Asks

\* A call that ends without a trace.
LEMMA CallFails ==
    ASSUME T!TypeOK, NEW t \in Tasks, at[t] # "idle", T!Over(t), UNCHANGED <<disk, seen, acks>>
    PROVE  T!S!Fail(t)
  <1>1. "idle" \in Stations /\ T!Goes(t, "idle") /\ at[t] \in Stations
    BY DEF Stations, T!Over, T!TypeOK
  <1>2. T!Asking(at[t]) \in T!S!Calls /\ Asks[t] = T!Asking(at[t])
    BY <1>1, EveryPlace, AskingMoves
  <1>3. Asks' = [Asks EXCEPT ![t] = "nothing"]
    BY <1>1, AskingMoves, CallsByName
  <1>4. Asks[t] # "nothing"
    BY <1>2 DEF T!S!Calls
  <1>5. QED
    BY <1>3, <1>4 DEF T!S!Fail, T!S!Ends, Asks

\* What the holder of the lock has written is what the store has after the call.
LEMMA CommitTakesEffect ==
    ASSUME T!TransactionsAssumption, ConnectionInv, NEW t \in Tasks, disk' = conn.rows
    PROVE  /\ at[t] = "commit" => Asks[t] = "transaction" /\ T!S!Both
           /\ at[t] = "commit_one" => Asks[t] = "execute" /\ T!S!One
  <1>1. at[t] \in {"commit", "commit_one"} => Place = at[t]
    BY HolderCommits
  <1>2. disk' = conn.rows /\ conn.rows \in T!Rows /\ disk \in T!Rows
    BY DEF ConnectionInv, T!TypeOK
  <1>3. Asks[t] = T!Asking(at[t])
    BY DEF Asks
  <1>4. ASSUME at[t] = "commit"
        PROVE  disk' = [disk EXCEPT !.pair[1] = @ + 1, !.pair[2] = @ + 1]
    <2>1. /\ conn.rows.pair[1] = disk.pair[1] + 1 /\ conn.rows.pair[2] = disk.pair[2] + 1
          /\ conn.rows.single = disk.single
      BY <1>1, <1>2, <1>4 DEF ConnectionInv, AheadInv, T!Rows
    <2>2. conn.rows.pair = [disk.pair EXCEPT ![1] = @ + 1, ![2] = @ + 1]
      BY <1>2, <2>1 DEF T!Rows
    <2>3. QED
      BY <1>2, <2>1, <2>2 DEF T!Rows
  <1>5. ASSUME at[t] = "commit_one"
        PROVE  disk' = [disk EXCEPT !.single = @ + 1]
    <2>1. /\ conn.rows.pair[1] = disk.pair[1] /\ conn.rows.pair[2] = disk.pair[2]
          /\ conn.rows.single = disk.single + 1
      BY <1>1, <1>2, <1>5 DEF ConnectionInv, AheadInv, T!Rows
    <2>2. QED
      BY <1>2, <2>1 DEF T!Rows
  <1>6. QED
    BY <1>3, <1>4, <1>5, CallsByName DEF T!S!Both, T!S!One

\* So a commit is the end of the call.
LEMMA CommitEnds ==
    ASSUME T!TransactionsAssumption, ConnectionInv, NEW t \in Tasks, T!Over(t), T!Committed
    PROVE  /\ at[t] = "commit" => T!S!Ends(t, "transaction") /\ T!S!Both
           /\ at[t] = "commit_one" => T!S!Ends(t, "execute") /\ T!S!One
  <1>1. "idle" \in Stations /\ T!Goes(t, "idle") /\ T!TypeOK /\ disk' = conn.rows
    BY DEF Stations, T!Over, T!Committed, ConnectionInv
  <1>2. Asks' = [Asks EXCEPT ![t] = "nothing"]
    BY <1>1, AskingMoves, CallsByName
  <1>3. QED
    BY <1>1, <1>2, CommitTakesEffect DEF T!S!Ends, Asks

\* A doubt was not there before.
LEMMA DoubtIsNew ==
    ASSUME DoubtInv, NEW kind, NEW n,
           n = IF kind = "restart" THEN restarts ELSE cancels,
           acks' = [acks EXCEPT !.doubtful = @ \cup {<<kind, n>>}]
    PROVE  T!S!InDoubt
  <1>1. PICK d : d = <<kind, n>>
    OBVIOUS
  <1>2. d[1] = kind /\ d[2] = n
    BY <1>1
  <1>3. d \notin acks.doubtful
    <2>1. n \in Nat
      BY DEF DoubtInv
    <2>2. d \in acks.doubtful => d[2] < n
      BY <1>2 DEF DoubtInv
    <2>3. QED
      BY <1>2, <2>1, <2>2
  <1>4. acks'.doubtful = acks.doubtful \cup {d}
    BY <1>1 DEF DoubtInv
  <1>5. acks' = [acks EXCEPT !.doubtful = acks'.doubtful]
    BY <1>4, <1>1
  <1>6. QED
    BY <1>3, <1>4, <1>5 DEF T!S!InDoubt

\* Outside open transactions the connection shows what was committed.
LEMMA ReadsTheDisk ==
    ASSUME T!TransactionsAssumption, ConnectionInv, NEW t \in Tasks, at[t] = "fetch"
    PROVE  conn.rows = disk
  <1>1. Place = "fetch"
    BY DEF ConnectionInv, LockInv, Place, Inside, T!Kinds, T!TransactionsAssumption
  <1>2. conn.rows \in T!Rows /\ disk \in T!Rows
    BY DEF ConnectionInv, T!TypeOK
  <1>3. /\ conn.rows.pair[1] = disk.pair[1] /\ conn.rows.pair[2] = disk.pair[2]
        /\ conn.rows.single = disk.single
    BY <1>1, <1>2 DEF ConnectionInv, AheadInv, T!Rows
  <1>4. QED
    BY <1>2, <1>3 DEF T!Rows

\* Each step of a task is a step of the store or none.
LEMMA StoreMoves ==
    ASSUME T!TransactionsAssumption, ConnectionInv, NEW t \in Tasks, TaskStep(t)
    PROVE  \/ UNCHANGED <<disk, Asks, seen, acks>>
           \/ T!S!Ask(t) \/ T!S!Transact(t) \/ T!S!Write(t) \/ T!S!Read(t) \/ T!S!Fail(t)
  <1>0. T!TypeOK /\ at[t] \in Stations /\ DoubtInv
    BY DEF ConnectionInv, T!TypeOK, Stations
  <1>1. ASSUME NEW kind \in T!Kinds, T!Call(t, kind)
        PROVE  T!S!Ask(t)
    <2>1. /\ at[t] = "idle" /\ (T!Goes(t, kind) \/ T!Goes(t, T!Waiting[kind]))
          /\ UNCHANGED <<disk, seen, acks>>
      BY <1>1 DEF T!Call
    <2>2. /\ kind \in Stations /\ T!Waiting[kind] \in Stations /\ kind \in T!S!Calls
          /\ T!Asking(kind) = kind /\ T!Asking(T!Waiting[kind]) = kind
      <3>1. kind \in {"transaction", "execute", "fetch"}
        BY DEF T!Kinds
      <3>2. T!Waiting[kind] \in T!Waits
        BY Strings
      <3>3. QED
        BY <3>1, <3>2, CallsByName DEF Stations, T!Kinds, T!S!Calls
    <2>3. Asks[t] = "nothing" /\ Asks' = [Asks EXCEPT ![t] = kind]
      BY <1>0, <2>1, <2>2, AskingMoves, CallsByName
    <2>4. QED
      BY <2>1, <2>2, <2>3 DEF T!S!Ask, Asks
  <1>2. ASSUME NEW place \in Stations, T!Goes(t, place), T!Asking(place) = T!Asking(at[t]),
               UNCHANGED <<disk, seen, acks>>
        PROVE  UNCHANGED <<disk, Asks, seen, acks>>
    BY <1>0, <1>2, AskingMoves
  <1>3. ASSUME T!Enter(t)
        PROVE  UNCHANGED <<disk, Asks, seen, acks>>
    <2>1. PICK kind \in T!Kinds : at[t] = T!Waiting[kind] /\ T!Goes(t, kind)
      BY <1>3 DEF T!Enter
    <2>2. kind \in Stations /\ T!Asking(kind) = kind /\ T!Asking(T!Waiting[kind]) = kind
      BY CallsByName DEF Stations, T!Kinds
    <2>3. UNCHANGED <<disk, seen, acks>>
      BY <1>3 DEF T!Enter
    <2>4. QED
      BY <1>2, <2>1, <2>2, <2>3
  <1>4. ASSUME T!Begin(t)
        PROVE  UNCHANGED <<disk, Asks, seen, acks>> \/ T!S!Fail(t)
    <2>1. at[t] = "transaction" /\ UNCHANGED <<disk, seen, acks>>
          /\ (T!Goes(t, "first") \/ T!Over(t))
      BY <1>4 DEF T!Begin
    <2>2. "first" \in Stations /\ T!Asking("first") = T!Asking("transaction")
      BY CallsByName DEF Stations
    <2>3. QED
      BY <1>0, <1>2, <2>1, <2>2, CallFails
  <1>5. ASSUME T!First(t) \/ T!Second(t)
        PROVE  UNCHANGED <<disk, Asks, seen, acks>>
    <2>1. /\ UNCHANGED <<disk, seen, acks>>
          /\ \/ at[t] = "first" /\ T!Goes(t, "second")
             \/ at[t] = "second" /\ T!Goes(t, "commit")
      BY <1>5 DEF T!First, T!Second, T!Written
    <2>2. /\ {"second", "commit"} \subseteq Stations
          /\ T!Asking("first") = T!Asking("second") /\ T!Asking("second") = T!Asking("commit")
      BY CallsByName DEF Stations
    <2>3. QED
      BY <1>2, <2>1, <2>2
  <1>6. ASSUME T!BodyFails(t) \/ T!ExecuteFails(t)
        PROVE  T!S!Fail(t)
    <2>1. at[t] # "idle" /\ T!Over(t) /\ UNCHANGED <<disk, seen, acks>>
      BY <1>6 DEF T!BodyFails, T!ExecuteFails, T!RolledBack
    <2>2. QED
      BY <1>0, <2>1, CallFails
  <1>7. ASSUME T!Commit(t)
        PROVE  T!S!Transact(t)
    <2>1. /\ at[t] = "commit" /\ T!Over(t) /\ T!Committed /\ UNCHANGED seen
          /\ acks' = [acks EXCEPT !.transaction = @ + 1]
      BY <1>7 DEF T!Commit
    <2>2. QED
      BY <2>1, CommitEnds DEF T!S!Transact
  <1>8. ASSUME T!CommitOne(t)
        PROVE  T!S!Write(t)
    <2>1. /\ at[t] = "commit_one" /\ T!Over(t) /\ T!Committed /\ UNCHANGED seen
          /\ acks' = [acks EXCEPT !.execute = @ + 1]
      BY <1>8 DEF T!CommitOne
    <2>2. QED
      BY <2>1, CommitEnds DEF T!S!Write
  <1>9. ASSUME T!Execute(t)
        PROVE  UNCHANGED <<disk, Asks, seen, acks>> \/ T!S!Fail(t)
    <2>1. /\ at[t] = "execute" /\ UNCHANGED <<disk, seen, acks>>
          /\ (T!Goes(t, "commit_one") \/ T!Over(t))
      <3>1. ~T!Owns(t)
        BY <1>9, <1>0 DEF T!Execute, T!TypeOK
      <3>2. QED
        BY <1>9, <3>1 DEF T!Execute, T!Written, T!RolledBack
    <2>2. "commit_one" \in Stations /\ T!Asking("commit_one") = T!Asking("execute")
      BY CallsByName DEF Stations
    <2>3. QED
      BY <1>0, <1>2, <2>1, <2>2, CallFails
  <1>10. ASSUME T!Fetch(t)
         PROVE  T!S!Read(t) \/ T!S!Fail(t)
    <2>1. /\ at[t] = "fetch" /\ T!Over(t) /\ UNCHANGED <<disk, acks>>
          /\ seen' = [seen EXCEPT ![t] = conn.rows] \/ UNCHANGED seen
      BY <1>10 DEF T!Fetch
    <2>2. CASE UNCHANGED seen
      BY <1>0, <2>1, <2>2, CallFails
    <2>3. CASE seen' = [seen EXCEPT ![t] = conn.rows]
      <3>1. seen' = [seen EXCEPT ![t] = disk]
        BY <2>1, <2>3, ReadsTheDisk
      <3>2. "idle" \in Stations /\ T!Goes(t, "idle")
        BY <2>1 DEF Stations, T!Over
      <3>3. Asks[t] = "fetch" /\ Asks' = [Asks EXCEPT ![t] = "nothing"]
        BY <1>0, <2>1, <3>2, AskingMoves, CallsByName
      <3>4. QED
        BY <2>1, <3>1, <3>3 DEF T!S!Read, T!S!Ends, Asks
    <2>4. QED
      BY <2>1, <2>2, <2>3
  <1>11. ASSUME T!Cancel(t)
         PROVE  T!S!Transact(t) \/ T!S!Write(t) \/ T!S!Fail(t)
    <2>1. at[t] # "idle" /\ T!Over(t) /\ UNCHANGED seen
      BY <1>11 DEF T!Cancel
    <2>2. \/ UNCHANGED <<disk, acks>>
          \/ /\ at[t] = "commit" /\ T!Committed
             /\ acks' = [acks EXCEPT !.doubtful = @ \cup {<<"transaction", cancels>>}]
          \/ /\ at[t] = "commit_one" /\ T!Committed
             /\ acks' = [acks EXCEPT !.doubtful = @ \cup {<<"execute", cancels>>}]
      BY <1>11 DEF T!Cancel, T!RolledBack
    <2>3. CASE UNCHANGED <<disk, acks>>
      BY <1>0, <2>1, <2>3, CallFails
    <2>4. CASE /\ at[t] = "commit" /\ T!Committed
               /\ acks' = [acks EXCEPT !.doubtful = @ \cup {<<"transaction", cancels>>}]
      <3>1. T!S!InDoubt
        BY <1>0, <2>4, DoubtIsNew
      <3>2. QED
        BY <2>1, <2>4, <3>1, CommitEnds DEF T!S!Transact
    <2>5. CASE /\ at[t] = "commit_one" /\ T!Committed
               /\ acks' = [acks EXCEPT !.doubtful = @ \cup {<<"execute", cancels>>}]
      <3>1. T!S!InDoubt
        BY <1>0, <2>5, DoubtIsNew
      <3>2. QED
        BY <2>1, <2>5, <3>1, CommitEnds DEF T!S!Write
    <2>6. QED
      BY <2>2, <2>3, <2>4, <2>5
  <1>12. ASSUME NEW u \in Tasks, T!Spawn(t, u)
         PROVE  UNCHANGED <<disk, Asks, seen, acks>>
    BY <1>12 DEF T!Spawn, Asks
  <1>13. QED
    BY <1>1, <1>3, <1>4, <1>5, <1>6, <1>7, <1>8, <1>9, <1>10, <1>11, <1>12 DEF TaskStep

\* The calls of all tasks through the one connection, its lock and its open transactions are
\* those of a store: each takes effect at one moment between call and end, a transaction
\* with both its writes, or not at all; a read answers with what was committed at its
\* moment; and a restart, a disconnect or a rollback takes back nothing of it.
THEOREM ImplementsStore ==
    ASSUME T!TransactionsAssumption
    PROVE  T!Spec => T!S!StoreSpec
  <1>1. T!Init => T!S!StoreInit
    <2> SUFFICES ASSUME T!Init PROVE T!S!StoreInit
      OBVIOUS
    <2>1. Asks = [t \in Tasks |-> "nothing"]
      BY CallsByName DEF T!Init, Asks
    <2>2. T!Empty = T!S!NoRows
      BY DEF T!Empty, T!S!NoRows
    <2>3. QED
      BY <2>1, <2>2 DEF T!Init, T!S!StoreInit, Asks
  <1>2. ConnectionInv /\ [T!Next]_T!vars => [T!S!StoreNext]_(T!S!storeVars)
    <2> SUFFICES ASSUME ConnectionInv, [T!Next]_T!vars
                 PROVE  [T!S!StoreNext]_(T!S!storeVars)
      OBVIOUS
    <2>1. CASE UNCHANGED <<disk, Asks, seen, acks>>
      BY <2>1 DEF T!S!storeVars, Asks
    <2>2. ASSUME NEW t \in Tasks, TaskStep(t)
          PROVE  T!S!StoreNext \/ UNCHANGED <<disk, Asks, seen, acks>>
      BY <2>2, StoreMoves DEF T!S!StoreNext
    <2>3. CASE T!Disconnect \/ UNCHANGED T!vars
      <3>1. UNCHANGED <<disk, at, seen, acks>>
        BY <2>3 DEF T!Disconnect, T!vars
      <3>2. QED
        BY <2>1, <3>1 DEF Asks
    <2>4. CASE T!Restart
      <3>1. /\ UNCHANGED seen /\ at' = [t \in Tasks |-> "idle"]
            /\ acks' = [acks EXCEPT !.doubtful = @ \cup {<<"restart", restarts>>}]
        BY <2>4 DEF T!Restart
      <3>2. T!S!InDoubt
        BY <3>1, DoubtIsNew DEF ConnectionInv
      <3>3. Asks' = [t \in Tasks |-> "nothing"]
        BY <3>1, CallsByName DEF Asks
      <3>4. \/ UNCHANGED disk
            \/ (\E t \in Tasks : Asks[t] = "transaction") /\ T!S!Both
            \/ (\E t \in Tasks : Asks[t] = "execute") /\ T!S!One
        <4>1. CASE disk' = conn.rows /\ \E t \in Tasks : at[t] \in {"commit", "commit_one"}
          BY <4>1, CommitTakesEffect
        <4>2. QED
          BY <2>4, <4>1 DEF T!Restart
      <3>5. QED
        BY <3>1, <3>2, <3>3, <3>4 DEF T!S!StoreNext, T!S!Stop, Asks
    <2>5. QED
      BY <2>1, <2>2, <2>3, <2>4 DEF T!Next, TaskStep
  <1>3. QED
    BY <1>1, <1>2, ConnectionInvariance, PTL DEF T!Spec, T!S!StoreSpec

-----------------------------------------------------------------------------
(* The reminders *)

Row == [active : BOOLEAN, until : 0..LastDay, flags : SUBSET N!Passes]
Runs == [at : {"read", "claim", "other", "send", "release"}, pass : N!Passes, tried : BOOLEAN,
         saw : 0..LastDay, claimed : SUBSET N!Passes, fresh : BOOLEAN, sent : Nat]

ReminderTypes ==
    /\ sub \in Row /\ now \in 0..LastDay /\ renewals \in 0..MaxRenewals
    /\ added \subseteq Nat \X Periods
    /\ job \in {N!Idle} \cup Runs
    /\ told \in [N!Passes -> Nat] /\ moved \in BOOLEAN
    /\ unsure \in 0..MaxDoubts /\ broken \in 0..MaxCancels /\ kills \in 0..MaxKills

\* The flags a run holds, and the one message it sends.
Claims ==
    job # N!Idle =>
      /\ job.claimed \subseteq N!Flags(job.pass)
      /\ job.at \in {"read", "claim"} => job.claimed = {}
      /\ job.at \in {"other", "send", "release"} => job.pass \in job.claimed /\ job.tried
      /\ job.at = "other" => job.pass = "1d"
      /\ job.at = "claim" => ~job.tried
      /\ job.at \in {"claim", "other", "send"} \/ ~job.tried => job.sent = 0
      /\ job.sent <= 1

\* A run that has read a date.
Looked == job # N!Idle /\ job.at # "read"

\* The term: a flag that is not set, or held by the run, was told only in doubt; a run whose
\* term was renewed holds nothing of the new one.
Counted ==
    /\ \A p \in N!Passes : told[p] <= 1 + unsure
    /\ sub.active => \A p \in N!Passes : p \notin sub.flags => told[p] <= unsure
    /\ told["1d"] > 0 => sub.until <= now + 1

Followed ==
    /\ job.saw <= sub.until /\ (job.fresh <=> job.saw = sub.until)
    /\ ~job.fresh => told = N!NoneTold /\ sub.flags = {}
    /\ job.at = "claim" => job.pass \notin sub.flags
    /\ job.pass = "1d" => job.saw <= now + 1
    /\ \A f \in job.claimed : told[f] <= unsure
    /\ job.fresh /\ sub.active => job.claimed \subseteq sub.flags

Term == ~moved => Counted /\ (Looked => Followed)

\* The customer was told what flag f records.
Told(f) == told["1d"] > 0 \/ (f = "3d" /\ told["3d"] > 0)

Quiet == broken = 0 /\ kills = 0 /\ ~moved

\* Undisturbed, a flag is a delivery or held by the run, and the one day reminder closes the
\* earlier one.
Recorded ==
    /\ sub.active => \A f \in sub.flags : Told(f) \/ (Looked /\ f \in job.claimed)
    /\ sub.active /\ "1d" \in sub.flags =>
         "3d" \in sub.flags \/ (job # N!Idle /\ job.at = "other")
    /\ job # N!Idle /\ job.pass = "3d" =>
         /\ job.at = "read" /\ ~job.tried /\ sub.active /\ told["1d"] > 0 =>
              "3d" \in sub.flags \/ sub.until <= now
         /\ job.at \in {"claim", "send"} => told["1d"] = 0
         /\ job.at \in {"send", "release"} /\ sub.active => "1d" \notin sub.flags

Records == Quiet => Recorded

RemindersInv == ReminderTypes /\ Claims /\ Term /\ Records

\* A run as it begins or goes to its next pass.
LEMMA Runnings ==
    ASSUME N!RemindersAssumption, NEW place \in {"read", "claim", "other", "send", "release"},
           NEW pass \in N!Passes, NEW tried \in BOOLEAN, NEW number \in Nat,
           NEW v, v = [at |-> place, pass |-> pass, tried |-> tried, saw |-> 0, claimed |-> {},
                       fresh |-> TRUE, sent |-> number]
    PROVE  /\ v \in Runs /\ v # N!Idle
           /\ v.at = place /\ v.pass = pass /\ v.tried = tried /\ v.claimed = {}
           /\ v.sent = number
  <1>1. LastDay \in Nat
    BY DEF N!RemindersAssumption
  <1>2. v \in Runs
    BY <1>1 DEF Runs
  <1>3. v.at = place /\ v.pass = pass /\ v.tried = tried /\ v.claimed = {} /\ v.sent = number
    OBVIOUS
  <1>4. v # N!Idle
    BY <1>2 DEF Runs, N!Idle
  <1>5. QED
    BY <1>2, <1>3, <1>4

\* A run is not idle.
LEMMA Apart == \A v \in Runs : v # N!Idle
  BY DEF Runs, N!Idle

\* The next pass of a run, or its end.
LEMMA NextRun ==
    ASSUME N!RemindersAssumption, RemindersInv, job # N!Idle, N!NextPass
    PROVE  \/ job' = N!Idle
           \/ /\ job' \in Runs /\ job' # N!Idle /\ job.pass = "1d"
              /\ job'.at = "read" /\ job'.pass = "3d" /\ job'.tried = job.tried
              /\ job'.claimed = {} /\ job'.sent = job.sent
  <1>1. job.tried \in BOOLEAN /\ job.sent \in Nat
    BY DEF RemindersInv, ReminderTypes, Runs
  <1>2. PICK v : v = [N!Run("read", "3d", job.tried) EXCEPT !.sent = job.sent]
    OBVIOUS
  <1>3. v = [at |-> "read", pass |-> "3d", tried |-> job.tried, saw |-> 0, claimed |-> {},
             fresh |-> TRUE, sent |-> job.sent]
    BY <1>2 DEF N!Run
  <1>4. /\ v \in Runs /\ v.at = "read" /\ v.pass = "3d" /\ v.tried = job.tried
        /\ v.claimed = {} /\ v.sent = job.sent /\ v # N!Idle
    <2>1. "read" \in {"read", "claim", "other", "send", "release"} /\ "3d" \in N!Passes
      BY DEF N!Passes
    <2>2. QED
      BY ONLY N!RemindersAssumption, <1>1, <1>3, <2>1, Runnings
  <1>5. job' = (IF job.pass = "1d" /\ Before > 1 THEN v ELSE N!Idle)
    BY <1>2 DEF N!NextPass
  <1>6. CASE job' = v /\ job.pass = "1d"
    BY <1>4, <1>6
  <1>7. QED
    BY <1>5, <1>6

\* A run that goes on to its next pass, or ends, without having claimed anything there.
LEMMA GivesUpKeeps ==
    ASSUME N!RemindersAssumption, RemindersInv, job # N!Idle,
           job.at \in {"read", "claim"}, N!NextPass,
           UNCHANGED <<sub, added, renewals, now, told, moved, N!faults>>,
           job.at = "read" => ~N!Due \/ job.tried,
           job.at = "claim" => ~N!Claimable(job.pass)
    PROVE  RemindersInv'
  <1>1. \/ job' = N!Idle
        \/ /\ job' \in Runs /\ job' # N!Idle /\ job.pass = "1d"
           /\ job'.at = "read" /\ job'.pass = "3d" /\ job'.tried = job.tried
           /\ job'.claimed = {} /\ job'.sent = job.sent
    BY NextRun
  <1>2. ReminderTypes'
    BY <1>1 DEF RemindersInv, ReminderTypes, N!faults
  <1>3. Claims'
    BY <1>1 DEF RemindersInv, Claims
  <1>4. Term'
    BY <1>1 DEF RemindersInv, Term, Counted, Followed, Looked, N!faults
  <1>5. Records'
    <2> SUFFICES ASSUME Quiet' PROVE Recorded'
      BY DEF Records
    <2>0. Quiet /\ job.claimed = {} /\ Recorded
      BY DEF Quiet, N!faults, RemindersInv, Claims, Records
    <2>1. (sub.active => \A f \in sub.flags : Told(f) \/ (Looked /\ f \in job.claimed))'
      BY <2>0, <1>1 DEF Told, Recorded, Looked
    <2>2. (sub.active /\ "1d" \in sub.flags =>
             "3d" \in sub.flags \/ (job # N!Idle /\ job.at = "other"))'
      BY <2>0 DEF Recorded
    <2>3. ASSUME job' # N!Idle, ~job'.tried, sub.active, told["1d"] > 0
          PROVE  "3d" \in sub.flags \/ sub.until <= now
      <3>1. ~job.tried /\ job.pass = "1d"
        BY <1>1, <2>3
      <3>2. sub.until \in Nat /\ now \in Nat /\ sub.until <= now + 1
        BY <2>0, <2>3 DEF RemindersInv, ReminderTypes, Row, Term, Counted, Followed, Quiet
      <3>3. CASE "1d" \in sub.flags
        BY <2>0, <2>3, <3>3 DEF Recorded
      <3>4. CASE job.at = "read" /\ "1d" \notin sub.flags
        BY <2>3, <3>1, <3>2, <3>4 DEF N!Due, N!Days
      <3>5. CASE job.at = "claim" /\ "1d" \notin sub.flags
        <4>1. sub.until # job.saw
          BY <2>3, <3>1, <3>5 DEF N!Claimable
        <4>2. told = N!NoneTold
          BY <2>0, <3>5, <4>1 DEF RemindersInv, Term, Counted, Followed, Looked, Quiet
        <4>3. QED
          BY <2>3, <4>2 DEF N!NoneTold, N!Passes
      <3>6. QED
        BY <3>3, <3>4, <3>5
    <2>4. (job # N!Idle /\ job.pass = "3d" =>
           /\ job.at = "read" /\ ~job.tried /\ sub.active /\ told["1d"] > 0 =>
                "3d" \in sub.flags \/ sub.until <= now
           /\ job.at \in {"claim", "send"} => told["1d"] = 0
           /\ job.at \in {"send", "release"} /\ sub.active => "1d" \notin sub.flags)'
      BY <1>1, <2>3
    <2>5. QED
      BY <2>1, <2>2, <2>4 DEF Recorded
  <1>6. QED
    BY <1>2, <1>3, <1>4, <1>5 DEF RemindersInv

\* What the list of a pass holds is due: its flag is not set, and the date lies ahead.
LEMMA DueKeeps ==
    ASSUME N!RemindersAssumption, RemindersInv, job # N!Idle, job.at = "read",
           N!Due, ~job.tried, N!ReadDue
    PROVE  RemindersInv'
  <1>1. /\ job \in Runs /\ job.claimed = {} /\ job.sent = 0 /\ sub \in Row
        /\ job.pass \in N!Passes
    BY DEF RemindersInv, ReminderTypes, Claims, Runs
  <1>2. job' = [job EXCEPT !.at = "claim", !.saw = sub.until, !.fresh = TRUE]
        /\ UNCHANGED <<sub, added, renewals, now, told, moved, N!faults>>
    BY DEF N!ReadDue
  <1>3. /\ job' \in Runs /\ job' # N!Idle
        /\ job'.at = "claim" /\ job'.pass = job.pass /\ job'.tried = FALSE
        /\ job'.saw = sub.until /\ job'.claimed = {} /\ job'.fresh = TRUE /\ job'.sent = 0
    <2>1. sub.until \in 0..LastDay
      BY <1>1 DEF Row
    <2>2. QED
      BY <1>1, <1>2, <2>1 DEF Runs, N!Idle
  <1>4. /\ job.pass \notin sub.flags /\ sub.active /\ sub.until \in Nat /\ now \in Nat
        /\ sub.until > now /\ (job.pass = "1d" => sub.until <= now + 1)
    BY <1>1 DEF N!Due, N!Days, RemindersInv, ReminderTypes, Row
  <1>5. ReminderTypes'
    BY <1>2, <1>3 DEF RemindersInv, ReminderTypes, N!faults
  <1>6. Claims'
    BY <1>3 DEF Claims
  <1>7. Term'
    BY <1>2, <1>3, <1>4 DEF RemindersInv, Term, Counted, Followed, Looked, N!faults
  <1>8. Records'
    <2> SUFFICES ASSUME Quiet' PROVE Recorded'
      BY DEF Records
    <2>1. Recorded
      BY <1>2 DEF RemindersInv, Records, Quiet, N!faults
    <2>2. told' = told /\ sub' = sub /\ now' = now /\ told["1d"] \in Nat
      BY <1>2 DEF RemindersInv, ReminderTypes, N!Passes
    <2>3. (sub.active => \A f \in sub.flags : Told(f) \/ (Looked /\ f \in job.claimed))'
      BY <1>1, <2>1, <2>2 DEF Recorded, Told
    <2>4. "1d" \in sub.flags => "3d" \in sub.flags
      BY <1>4, <2>1 DEF Recorded
    <2>5. job.pass = "3d" => told["1d"] = 0
      BY <1>4, <2>1, <2>2 DEF Recorded
    <2>6. QED
      BY <1>3, <2>2, <2>3, <2>4, <2>5 DEF Recorded
  <1>9. QED
    BY <1>5, <1>6, <1>7, <1>8 DEF RemindersInv

\* A claim that changes the row sets the flag of this pass, before the message.
LEMMA ClaimKeeps ==
    ASSUME N!RemindersAssumption, RemindersInv, job # N!Idle, N!Claimable(job.pass), N!Claim
    PROVE  RemindersInv'
  <1>1. /\ job \in Runs /\ job.claimed = {} /\ job.sent = 0 /\ sub \in Row
        /\ job.pass \in N!Passes /\ job.at = "claim"
    BY DEF RemindersInv, ReminderTypes, Claims, Runs, N!Claim
  <1>2. /\ sub' = [sub EXCEPT !.flags = @ \cup {job.pass}]
        /\ job' = [job EXCEPT !.at = IF job.pass = "1d" THEN "other" ELSE "send",
                              !.claimed = {job.pass}, !.tried = TRUE, !.fresh = TRUE]
        /\ UNCHANGED <<added, renewals, now, told, moved, N!faults>>
    BY DEF N!Claim
  <1>3. /\ job' \in Runs /\ job' # N!Idle
        /\ job'.at = (IF job.pass = "1d" THEN "other" ELSE "send")
        /\ job'.pass = job.pass /\ job'.tried = TRUE /\ job'.saw = job.saw
        /\ job'.claimed = {job.pass} /\ job'.fresh = TRUE /\ job'.sent = 0
    BY <1>1, <1>2 DEF Runs, N!Idle
  <1>4. /\ sub' \in Row /\ sub'.flags = sub.flags \cup {job.pass}
        /\ sub'.active = sub.active /\ sub'.until = sub.until
    BY <1>1, <1>2 DEF Row
  <1>5. sub.active /\ sub.until = job.saw /\ job.pass \notin sub.flags
    BY DEF N!Claimable
  <1>6. ReminderTypes'
    BY <1>2, <1>3, <1>4 DEF RemindersInv, ReminderTypes, N!faults
  <1>7. Claims'
    BY <1>1, <1>3 DEF Claims, N!Passes, N!Flags
  <1>8. Term'
    <2> SUFFICES ASSUME ~moved PROVE Term'
      BY <1>2 DEF Term, Counted, Followed
    <2>1. told' = told /\ unsure' = unsure /\ now' = now /\ moved' = moved
      BY <1>2 DEF N!faults
    <2>2. job.saw = sub.until /\ (job.pass = "1d" => job.saw <= now + 1)
          /\ told[job.pass] <= unsure
      BY <1>1, <1>5 DEF RemindersInv, Term, Counted, Followed, Looked
    <2>3. Term
      BY DEF RemindersInv
    <2>4. /\ \A p \in N!Passes : told[p] <= 1 + unsure
          /\ sub.active => \A p \in N!Passes : p \notin sub.flags => told[p] <= unsure
          /\ told["1d"] > 0 => sub.until <= now + 1
      BY <2>3 DEF Term, Counted, Followed
    <2>5. (/\ \A p \in N!Passes : told[p] <= 1 + unsure
           /\ sub.active => \A p \in N!Passes : p \notin sub.flags => told[p] <= unsure
           /\ told["1d"] > 0 => sub.until <= now + 1)'
      BY <1>4, <2>1, <2>4
    <2>6. (\A f \in job.claimed : told[f] <= unsure)'
      BY <1>3, <2>1, <2>2
    <2>7. (/\ job.saw <= sub.until /\ (job.fresh <=> job.saw = sub.until) /\ job.fresh
           /\ job.pass = "1d" => job.saw <= now + 1
           /\ job.at # "claim"
           /\ job.fresh /\ sub.active => job.claimed \subseteq sub.flags)'
      <3>1. sub.until \in Nat
        BY <1>1 DEF Row
      <3>2. QED
        BY <1>3, <1>4, <2>1, <2>2, <3>1
    <2>8. QED
      BY <2>5, <2>6, <2>7 DEF Term, Counted, Followed
  <1>9. Records'
    <2> SUFFICES ASSUME Quiet' PROVE Recorded'
      BY DEF Records
    <2>1. Recorded
      BY <1>2 DEF RemindersInv, Records, Quiet, N!faults
    <2>2. told' = told /\ now' = now /\ told["1d"] \in Nat
      BY <1>2 DEF RemindersInv, ReminderTypes, N!Passes
    <2>3. \A f \in sub.flags : Told(f)
      BY <1>1, <1>5, <2>1 DEF Recorded
    <2>4. (sub.active => \A f \in sub.flags : Told(f) \/ (Looked /\ f \in job.claimed))'
      BY <1>3, <1>4, <2>2, <2>3 DEF Told, Looked
    <2>5. job.pass = "3d" => told["1d"] = 0 /\ "1d" \notin sub.flags
      BY <1>1, <2>1, <2>2, <2>3 DEF Recorded, Told
    <2>6. ("1d" \in sub.flags => "3d" \in sub.flags \/ (job # N!Idle /\ job.at = "other"))'
      BY <1>1, <1>3, <1>4, <2>5 DEF N!Passes
    <2>7. QED
      BY <1>3, <1>4, <2>2, <2>4, <2>5, <2>6 DEF Recorded
  <1>10. QED
    BY <1>6, <1>7, <1>8, <1>9 DEF RemindersInv

\* The one day pass takes the other flag too, if the date is still the one it read.
LEMMA ClaimOtherKeeps ==
    ASSUME N!RemindersAssumption, RemindersInv, job # N!Idle, N!ClaimOther
    PROVE  RemindersInv'
  <1> DEFINE more == {f \in N!Flags(job.pass) : N!Claimable(f)}
  <1>1. /\ job \in Runs /\ job.at = "other" /\ job.pass = "1d" /\ job.tried = TRUE
        /\ job.sent = 0 /\ sub \in Row /\ "1d" \in job.claimed
        /\ job.claimed \subseteq N!Flags("1d")
    BY DEF RemindersInv, ReminderTypes, Claims, Runs, N!ClaimOther
  <1>2. /\ sub' = [sub EXCEPT !.flags = @ \cup more]
        /\ job' = [job EXCEPT !.at = "send", !.claimed = @ \cup more]
        /\ UNCHANGED <<added, renewals, now, told, moved, N!faults>>
    BY DEF N!ClaimOther
  <1>3. /\ more \subseteq N!Passes
        /\ \A f \in more : sub.active /\ sub.until = job.saw /\ f \notin sub.flags
        /\ sub.active /\ sub.until = job.saw => \A f \in N!Passes : f \in sub.flags \cup more
    BY <1>1 DEF N!Claimable, N!Flags, N!Passes
  <1> HIDE DEF more
  <1>4. /\ job' \in Runs /\ job' # N!Idle /\ job'.at = "send"
        /\ job'.pass = "1d" /\ job'.tried = TRUE /\ job'.saw = job.saw
        /\ job'.claimed = job.claimed \cup more /\ job'.fresh = job.fresh /\ job'.sent = 0
    BY <1>1, <1>2, <1>3 DEF Runs, N!Idle
  <1>5. /\ sub' \in Row /\ sub'.flags = sub.flags \cup more
        /\ sub'.active = sub.active /\ sub'.until = sub.until
    BY <1>1, <1>2, <1>3 DEF Row
  <1>6. ReminderTypes'
    BY <1>2, <1>4, <1>5 DEF RemindersInv, ReminderTypes, N!faults
  <1>7. Claims'
    <2>1. N!Flags("1d") = N!Passes
      BY DEF N!Flags, N!Passes
    <2>2. job'.claimed \subseteq N!Flags(job'.pass) /\ job'.pass \in job'.claimed
      BY <1>1, <1>3, <1>4, <2>1
    <2>3. QED
      BY <1>4, <2>2 DEF Claims
  <1>8. Term'
    <2> SUFFICES ASSUME ~moved PROVE Term'
      BY <1>2 DEF Term, Counted, Followed
    <2>1. told' = told /\ unsure' = unsure /\ now' = now /\ moved' = moved
      BY <1>2 DEF N!faults
    <2>2. Term /\ Looked
      BY <1>1 DEF RemindersInv, Looked
    <2>3. \A f \in more : told[f] <= unsure
      BY <1>3, <2>2 DEF Term, Counted, Followed
    <2>4. \A f \in job'.claimed : told[f] <= unsure
      BY <1>4, <2>2, <2>3 DEF Term, Counted, Followed
    <2>5. ~job.fresh => told = N!NoneTold /\ sub'.flags = {}
      BY <1>3, <1>5, <2>2 DEF Term, Counted, Followed
    <2>6. /\ \A p \in N!Passes : told[p] <= 1 + unsure
          /\ sub.active => \A p \in N!Passes : p \notin sub.flags => told[p] <= unsure
          /\ told["1d"] > 0 => sub.until <= now + 1
          /\ job.saw <= sub.until /\ (job.fresh <=> job.saw = sub.until)
          /\ job.saw <= now + 1
          /\ job.fresh /\ sub.active => job.claimed \subseteq sub.flags
      BY <1>1, <2>2 DEF Term, Counted, Followed
    <2>7. (/\ \A p \in N!Passes : told[p] <= 1 + unsure
           /\ sub.active => \A p \in N!Passes : p \notin sub.flags => told[p] <= unsure
           /\ told["1d"] > 0 => sub.until <= now + 1)'
      BY <1>5, <2>1, <2>6
    <2>8. (/\ job.saw <= sub.until /\ (job.fresh <=> job.saw = sub.until)
           /\ job.saw <= now + 1
           /\ job.fresh /\ sub.active => job.claimed \subseteq sub.flags
           /\ ~job.fresh => told = N!NoneTold /\ sub.flags = {})'
      BY <1>4, <1>5, <2>1, <2>5, <2>6
    <2>9. QED
      BY <1>4, <2>1, <2>4, <2>7, <2>8 DEF Term, Counted, Followed
  <1>9. Records'
    <2> SUFFICES ASSUME Quiet' PROVE Recorded'
      BY DEF Records
    <2>1. Recorded /\ Term /\ Looked /\ ~moved
      BY <1>1, <1>2 DEF RemindersInv, Records, Quiet, N!faults, Looked
    <2>2. told' = told
      BY <1>2
    <2>3. (sub.active => \A f \in sub.flags : Told(f) \/ (Looked /\ f \in job.claimed))'
      BY <1>4, <1>5, <2>1, <2>2 DEF Recorded, Told, Looked
    <2>4. (sub.active /\ "1d" \in sub.flags => "3d" \in sub.flags)'
      <3>1. CASE sub.until = job.saw
        BY <1>3, <1>5, <3>1 DEF N!Passes
      <3>2. CASE sub.until # job.saw
        BY <1>3, <1>5, <2>1, <3>2 DEF Term, Counted, Followed
      <3>3. QED
        BY <3>1, <3>2
    <2>5. QED
      BY <1>4, <2>3, <2>4 DEF Recorded
  <1>10. QED
    BY <1>6, <1>7, <1>8, <1>9 DEF RemindersInv

\* A message that arrives counts for the term it is about.
LEMMA Arriving ==
    ASSUME RemindersInv, job # N!Idle, job.at = "send", ~moved, N!Arrives
    PROVE  /\ told' \in [N!Passes -> Nat]
           /\ \A p \in N!Passes : told[p] <= told'[p] /\ told'[p] <= told[p] + 1
           /\ \A p \in N!Passes : p # job.pass => told'[p] = told[p]
           /\ ~job.fresh => told' = told
           /\ job.fresh => told'[job.pass] = told[job.pass] + 1
  <1>1. job.pass \in N!Passes /\ told \in [N!Passes -> Nat] /\ (job.fresh <=> job.saw = sub.until)
    BY DEF RemindersInv, ReminderTypes, Runs, Term, Followed, Looked
  <1>2. CASE job.fresh
    BY <1>1, <1>2 DEF N!Arrives
  <1>3. CASE ~job.fresh
    BY <1>1, <1>3 DEF N!Arrives
  <1>4. QED
    BY <1>2, <1>3

\* What a run knows when its message goes out.
LEMMA SendingKnows ==
    ASSUME N!RemindersAssumption, RemindersInv, job # N!Idle, job.at = "send"
    PROVE  /\ job \in Runs /\ job.pass \in N!Passes /\ job.pass \in job.claimed
           /\ job.claimed \subseteq N!Flags(job.pass) /\ job.tried = TRUE /\ job.sent = 0
           /\ sub \in Row /\ sub.until \in Nat /\ now \in Nat /\ unsure \in Nat
           /\ ~moved => Counted /\ Followed
  BY DEF RemindersInv, ReminderTypes, Runs, Claims, Row, Term, Looked, N!RemindersAssumption

\* A delivered message counts for the term it is about, and its flags stay.
LEMMA DeliveredKeeps ==
    ASSUME N!RemindersAssumption, RemindersInv, job # N!Idle, N!Delivered
    PROVE  RemindersInv'
  <1>1. /\ job.at = "send" /\ N!Arrives
        /\ UNCHANGED <<sub, added, renewals, now, moved, N!faults>>
    BY DEF N!Delivered
  <1>2. /\ job \in Runs /\ job.pass \in N!Passes /\ job.pass \in job.claimed
        /\ job.claimed \subseteq N!Flags(job.pass) /\ job.tried = TRUE /\ job.sent = 0
        /\ sub \in Row /\ sub.until \in Nat /\ now \in Nat /\ unsure \in Nat
        /\ ~moved => Counted /\ Followed
    BY <1>1, SendingKnows
  <1>3. \/ job' = N!Idle
        \/ /\ job' \in Runs /\ job' # N!Idle /\ job'.at = "read" /\ job'.pass = "3d"
           /\ job'.tried = TRUE /\ job'.claimed = {} /\ job'.sent = 1
    <2>1. PICK v : v = [N!Run("read", "3d", TRUE) EXCEPT !.sent = job.sent + 1]
      OBVIOUS
    <2>2. v = [at |-> "read", pass |-> "3d", tried |-> TRUE, saw |-> 0, claimed |-> {},
               fresh |-> TRUE, sent |-> job.sent + 1]
      BY <2>1 DEF N!Run
    <2>3. /\ v \in Runs /\ v.at = "read" /\ v.pass = "3d" /\ v.tried = TRUE
          /\ v.claimed = {} /\ v.sent = 1 /\ v # N!Idle
      <3>1. LastDay \in Nat /\ job.sent + 1 = 1
        BY <1>2 DEF N!RemindersAssumption
      <3>2. v \in Runs
        BY ONLY <2>2, <3>1 DEF Runs, N!Passes
      <3>3. v # N!Idle
        BY <3>2, Apart
      <3>4. QED
        BY <2>2, <3>1, <3>2, <3>3
    <2>4. job' = v \/ job' = N!Idle
      BY <2>1 DEF N!Delivered
    <2>5. QED
      BY <2>3, <2>4
  <1>4. ReminderTypes'
    <2>1. told' \in [N!Passes -> Nat]
      BY <1>1, <1>2 DEF N!Arrives, RemindersInv, ReminderTypes
    <2>2. QED
      BY <1>1, <1>3, <2>1 DEF RemindersInv, ReminderTypes, N!faults
  <1>5. Claims'
    BY <1>3 DEF Claims
  <1>6. ASSUME ~moved
        PROVE  /\ told' \in [N!Passes -> Nat]
               /\ \A p \in N!Passes : told[p] <= told'[p] /\ told'[p] <= told[p] + 1
               /\ \A p \in N!Passes : p # job.pass => told'[p] = told[p]
               /\ ~job.fresh => told' = told
               /\ job.fresh => told'[job.pass] = told[job.pass] + 1
    BY <1>1, <1>6, Arriving
  <1>7. Term'
    <2> SUFFICES ASSUME ~moved PROVE Counted'
      BY <1>1, <1>3 DEF Term, Looked
    <2>0. sub' = sub /\ unsure' = unsure /\ now' = now /\ Counted /\ Followed
      BY <1>1, <1>2 DEF N!faults
    <2>t. told \in [N!Passes -> Nat]
      BY DEF RemindersInv, ReminderTypes
    <2>1. \A p \in N!Passes : told'[p] <= 1 + unsure
      <3> TAKE p \in N!Passes
      <3>1. CASE p # job.pass
        BY <1>6, <2>0, <3>1 DEF Counted
      <3>2. CASE p = job.pass
        <4>1. told[p] <= unsure
          BY <1>2, <2>0, <3>2 DEF Followed
        <4>2. QED
          BY <1>2, <1>6, <2>t, <4>1
      <3>3. QED
        BY <3>1, <3>2
    <2>2. ASSUME sub.active, NEW p \in N!Passes, p \notin sub.flags PROVE told'[p] <= unsure
      <3>1. told[p] <= unsure
        BY <2>0, <2>2 DEF Counted
      <3>2. CASE p # job.pass
        BY <1>6, <3>1, <3>2
      <3>3. CASE p = job.pass
        <4>1. ~job.fresh
          BY <1>2, <2>0, <2>2, <3>3 DEF Followed
        <4>2. QED
          BY <1>6, <3>1, <4>1
      <3>4. QED
        BY <3>2, <3>3
    <2>3. ASSUME told'["1d"] > 0 PROVE sub.until <= now + 1
      <3>1. CASE told["1d"] > 0
        BY <2>0, <3>1 DEF Counted
      <3>2. CASE ~(told["1d"] > 0)
        <4>1. told'["1d"] # told["1d"]
          BY <2>3, <3>2
        <4>2. job.pass = "1d" /\ job.fresh
          BY <1>6, <4>1 DEF N!Passes
        <4>3. QED
          BY <2>0, <4>2 DEF Followed
      <3>3. QED
        BY <3>1, <3>2
    <2>4. QED
      BY <2>0, <2>1, <2>2, <2>3 DEF Counted
  <1>8. Records'
    <2> SUFFICES ASSUME Quiet' PROVE Recorded'
      BY DEF Records
    <2>1. Recorded /\ ~moved /\ Followed /\ sub' = sub
      BY <1>1, <1>2 DEF RemindersInv, Records, Quiet, N!faults
    <2>2. ASSUME sub.active, NEW f \in sub.flags PROVE Told(f)'
      <3>1. CASE Told(f)
        BY <1>6, <2>1, <3>1 DEF Told, N!Passes, RemindersInv, ReminderTypes
      <3>2. CASE f \in job.claimed
        <4>1. job.fresh
          BY <2>1, <2>2 DEF Followed
        <4>2. told'[job.pass] > 0
          BY <1>2, <1>6, <2>1, <4>1 DEF RemindersInv, ReminderTypes
        <4>3. CASE job.pass = "1d"
          BY <4>2, <4>3 DEF Told
        <4>4. CASE job.pass = "3d"
          BY <1>2, <3>2, <4>2, <4>4 DEF Told, N!Flags
        <4>5. QED
          BY <1>2, <4>3, <4>4 DEF N!Passes
      <3>3. QED
        BY <2>1, <2>2, <3>1, <3>2 DEF Recorded
    <2>3. sub.active /\ "1d" \in sub.flags => "3d" \in sub.flags
      BY <1>1, <2>1 DEF Recorded
    <2>4. QED
      BY <1>3, <2>1, <2>2, <2>3 DEF Recorded
  <1>9. QED
    BY <1>4, <1>5, <1>7, <1>8 DEF RemindersInv

\* A message more, and a doubt more about it, leaves the counts as they should be.
LEMMA DoubtCounts ==
    ASSUME N!RemindersAssumption, RemindersInv, job # N!Idle, job.at = "send", ~moved, N!Arrives,
           unsure' = unsure + 1
    PROVE  /\ \A p \in N!Passes : told'[p] <= 1 + unsure'
           /\ \A p \in N!Passes : p \notin sub.flags \/ p \in job.claimed =>
                (sub.active \/ p \in job.claimed => told'[p] <= unsure')
           /\ told'["1d"] > 0 => sub.until <= now + 1
           /\ ~job.fresh => told' = told
           /\ told' \in [N!Passes -> Nat]
  <1>1. Counted /\ Followed /\ unsure \in Nat /\ told \in [N!Passes -> Nat]
    BY SendingKnows DEF RemindersInv, ReminderTypes
  <1>2. /\ told' \in [N!Passes -> Nat]
        /\ \A p \in N!Passes : told[p] <= told'[p] /\ told'[p] <= told[p] + 1
        /\ \A p \in N!Passes : p # job.pass => told'[p] = told[p]
        /\ ~job.fresh => told' = told
    BY Arriving
  <1>3. \A p \in N!Passes : told'[p] <= 1 + unsure'
    BY <1>1, <1>2 DEF Counted
  <1>4. ASSUME NEW p \in N!Passes, p \notin sub.flags \/ p \in job.claimed,
               sub.active \/ p \in job.claimed
        PROVE  told'[p] <= unsure'
    <2>1. told[p] <= unsure
      BY <1>1, <1>4 DEF Counted, Followed
    <2>2. QED
      BY <1>1, <1>2, <2>1
  <1>5. ASSUME told'["1d"] > 0 PROVE sub.until <= now + 1
    <2>1. CASE told["1d"] > 0
      BY <1>1, <2>1 DEF Counted
    <2>2. CASE ~(told["1d"] > 0)
      <3>1. job.pass = "1d" /\ job.fresh
        BY <1>2, <1>5, <2>2 DEF N!Passes
      <3>2. QED
        BY <1>1, <3>1 DEF Followed
    <2>3. QED
      BY <2>1, <2>2
  <1>6. QED
    BY <1>2, <1>3, <1>4, <1>5

\* A message that failed, or only seemed to, leaves the run about to give its flags back.
LEMMA NotDeliveredKeeps ==
    ASSUME N!RemindersAssumption, RemindersInv, job # N!Idle, N!NotDelivered
    PROVE  RemindersInv'
  <1>1. /\ job.at = "send" /\ UNCHANGED <<sub, added, renewals, now, moved, broken, kills>>
        /\ job' = [job EXCEPT !.at = "release", !.sent = @ + 1]
        /\ \/ UNCHANGED <<told, unsure>>
           \/ unsure < MaxDoubts /\ unsure' = unsure + 1 /\ N!Arrives
    BY DEF N!NotDelivered
  <1>2. /\ job \in Runs /\ job.pass \in N!Passes /\ job.pass \in job.claimed
        /\ job.claimed \subseteq N!Flags(job.pass) /\ job.tried = TRUE /\ job.sent = 0
        /\ sub \in Row /\ sub.until \in Nat /\ now \in Nat /\ unsure \in Nat
        /\ ~moved => Counted /\ Followed
    BY <1>1, SendingKnows
  <1>3. /\ job' \in Runs /\ job' # N!Idle /\ job'.at = "release" /\ job'.pass = job.pass
        /\ job'.tried = TRUE /\ job'.saw = job.saw /\ job'.claimed = job.claimed
        /\ job'.fresh = job.fresh /\ job'.sent = 1
    <2>1. PICK v : v = [job EXCEPT !.at = "release", !.sent = @ + 1]
      OBVIOUS
    <2>a. PICK n : n = job.sent + 1
      OBVIOUS
    <2>b. n \in Nat /\ n = 1
      BY <1>2, <2>a
    <2>c. v = [job EXCEPT !.at = "release", !.sent = n]
      BY <2>1, <2>a
    <2>2. /\ v \in Runs /\ v.at = "release" /\ v.pass = job.pass
          /\ v.tried = job.tried /\ v.saw = job.saw /\ v.claimed = job.claimed
          /\ v.fresh = job.fresh /\ v.sent = n
      BY ONLY <1>2, <2>b, <2>c DEF Runs
    <2>3. v # N!Idle
      BY <2>2, Apart
    <2>4. QED
      BY <1>1, <1>2, <2>1, <2>b, <2>2, <2>3
  <1>4. ReminderTypes'
    <2>1. told' \in [N!Passes -> Nat]
      BY <1>1, <1>2 DEF N!Arrives, RemindersInv, ReminderTypes
    <2>2. unsure' \in 0..MaxDoubts
      BY <1>1, <1>2 DEF RemindersInv, ReminderTypes, N!RemindersAssumption
    <2>3. QED
      BY <1>1, <1>3, <2>1, <2>2 DEF RemindersInv, ReminderTypes
  <1>5. Claims'
    BY <1>2, <1>3 DEF Claims
  <1>6. Term'
    <2> SUFFICES ASSUME ~moved PROVE Counted' /\ Followed'
      BY <1>1 DEF Term
    <2>1. Counted /\ Followed
      BY <1>2
    <2>2. CASE UNCHANGED <<told, unsure>>
      BY <1>1, <1>3, <2>1, <2>2 DEF Counted, Followed
    <2>3. CASE unsure' = unsure + 1 /\ N!Arrives
      <3>1. /\ \A p \in N!Passes : told'[p] <= 1 + unsure'
            /\ \A p \in N!Passes : p \notin sub.flags \/ p \in job.claimed =>
                 (sub.active \/ p \in job.claimed => told'[p] <= unsure')
            /\ told'["1d"] > 0 => sub.until <= now + 1
            /\ ~job.fresh => told' = told
        BY <1>1, <2>3, DoubtCounts
      <3>2. Counted'
        BY <1>1, <3>1 DEF Counted
      <3>3. \A f \in job'.claimed : told'[f] <= unsure'
        BY <1>2, <1>3, <3>1 DEF Runs
      <3>4. QED
        BY <1>1, <1>3, <2>1, <3>1, <3>2, <3>3 DEF Followed
    <2>4. QED
      BY <1>1, <2>2, <2>3
  <1>7. Records'
    <2> SUFFICES ASSUME Quiet' PROVE Recorded'
      BY DEF Records
    <2>1. Recorded /\ ~moved /\ sub' = sub
      BY <1>1 DEF RemindersInv, Records, Quiet
    <2>2. ASSUME NEW f, Told(f) PROVE Told(f)'
      <3>1. told["1d"] <= told'["1d"] /\ told["3d"] <= told'["3d"] /\ told \in [N!Passes -> Nat]
            /\ told' \in [N!Passes -> Nat]
        BY <1>1, <1>4, <2>1, Arriving DEF N!Passes, RemindersInv, ReminderTypes
      <3>2. QED
        BY <2>2, <3>1 DEF Told, N!Passes
    <2>3. (sub.active => \A f \in sub.flags : Told(f) \/ (Looked /\ f \in job.claimed))'
      BY <1>3, <2>1, <2>2 DEF Recorded, Looked
    <2>4. sub.active /\ "1d" \in sub.flags => "3d" \in sub.flags
      BY <1>1, <2>1 DEF Recorded
    <2>5. job.pass = "3d" /\ sub.active => "1d" \notin sub.flags
      BY <1>1, <2>1 DEF Recorded
    <2>6. QED
      BY <1>3, <2>1, <2>3, <2>4, <2>5 DEF Recorded
  <1>8. QED
    BY <1>4, <1>5, <1>6, <1>7 DEF RemindersInv

\* What giving the flags back does to the row.
LEMMA GivingBack ==
    ASSUME RemindersInv, job # N!Idle, N!Given
    PROVE  /\ sub' \in Row /\ sub'.active = sub.active /\ sub'.until = sub.until
           /\ sub.active /\ sub.until = job.saw => sub'.flags = sub.flags \ job.claimed
           /\ ~ (sub.active /\ sub.until = job.saw) => sub'.flags = sub.flags
  <1>1. sub \in Row
    BY DEF RemindersInv, ReminderTypes
  <1>2. CASE sub.active /\ sub.until = job.saw
    BY <1>1, <1>2 DEF N!Given, Row
  <1>3. CASE ~ (sub.active /\ sub.until = job.saw)
    BY <1>1, <1>3 DEF N!Given
  <1>4. QED
    BY <1>2, <1>3

\* The flags are given back and the run goes on.
LEMMA ReleaseKeeps ==
    ASSUME N!RemindersAssumption, RemindersInv, job # N!Idle, N!Release
    PROVE  RemindersInv'
  <1>1. /\ job.at = "release" /\ N!Given /\ N!NextPass
        /\ UNCHANGED <<added, renewals, now, told, moved, N!faults>>
    BY DEF N!Release
  <1>2. /\ job.tried = TRUE /\ job.sent <= 1 /\ job.pass \in job.claimed
        /\ job.pass \in N!Passes /\ job.claimed \subseteq N!Flags(job.pass) /\ Looked
    BY <1>1 DEF RemindersInv, ReminderTypes, Claims, Runs, Looked
  <1>3. \/ job' = N!Idle
        \/ /\ job' \in Runs /\ job' # N!Idle /\ job.pass = "1d"
           /\ job'.at = "read" /\ job'.pass = "3d" /\ job'.tried = job.tried
           /\ job'.claimed = {} /\ job'.sent = job.sent
    BY <1>1, NextRun
  <1>4. /\ sub' \in Row /\ sub'.active = sub.active /\ sub'.until = sub.until
        /\ sub.active /\ sub.until = job.saw => sub'.flags = sub.flags \ job.claimed
        /\ ~ (sub.active /\ sub.until = job.saw) => sub'.flags = sub.flags
    BY <1>1, GivingBack
  <1>5. ReminderTypes'
    BY <1>1, <1>3, <1>4 DEF RemindersInv, ReminderTypes, N!faults
  <1>6. Claims'
    BY <1>2, <1>3 DEF Claims
  <1>7. Term'
    <2> SUFFICES ASSUME ~moved PROVE Counted'
      BY <1>1, <1>3 DEF Term, Looked
    <2>1. Counted /\ Followed /\ told' = told /\ unsure' = unsure /\ now' = now
      BY <1>1, <1>2 DEF RemindersInv, Term, N!faults
    <2>2. ASSUME sub.active, NEW p \in N!Passes, p \notin sub'.flags PROVE told[p] <= unsure
      <3>1. p \notin sub.flags \/ p \in job.claimed
        BY <1>4, <2>2
      <3>2. QED
        BY <2>1, <2>2, <3>1 DEF Counted, Followed
    <2>3. QED
      BY <1>4, <2>1, <2>2 DEF Counted
  <1>8. Records'
    <2> SUFFICES ASSUME Quiet' PROVE Recorded'
      BY DEF Records
    <2>1. Recorded /\ Followed /\ told' = told
      BY <1>1, <1>2 DEF RemindersInv, Records, Quiet, Term, N!faults
    <2>2. ASSUME sub.active, NEW f \in sub'.flags PROVE Told(f)'
      <3>1. CASE sub.until = job.saw
        BY <1>4, <2>1, <2>2, <3>1 DEF Recorded, Told
      <3>2. CASE sub.until # job.saw
        BY <1>4, <2>1, <2>2, <3>2 DEF Followed
      <3>3. QED
        BY <3>1, <3>2
    <2>3. ASSUME sub.active, "1d" \in sub'.flags PROVE "3d" \in sub'.flags
      <3>1. "1d" \in sub.flags /\ "3d" \in sub.flags
        BY <1>1, <1>4, <2>1, <2>3 DEF Recorded
      <3>2. job.pass = "1d"
        BY <1>1, <1>2, <2>1, <2>3, <3>1 DEF Recorded, N!Passes
      <3>3. sub'.flags = sub.flags
        BY <1>2, <1>4, <2>3, <3>2
      <3>4. QED
        BY <3>1, <3>3
    <2>4. QED
      BY <1>2, <1>3, <1>4, <2>2, <2>3 DEF Recorded
  <1>9. QED
    BY <1>5, <1>6, <1>7, <1>8 DEF RemindersInv

\* A shutdown breaks the run off, at any of its places.
LEMMA CancelKeeps ==
    ASSUME N!RemindersAssumption, RemindersInv, N!Cancel
    PROVE  RemindersInv'
  <1>1. /\ job # N!Idle /\ broken < MaxCancels /\ broken' = broken + 1 /\ job' = N!Idle
        /\ UNCHANGED <<added, renewals, now, moved, kills>>
    BY DEF N!Cancel
  <1>2. sub \in Row /\ broken \in Nat /\ job \in Runs /\ unsure \in Nat
        /\ told \in [N!Passes -> Nat]
    BY <1>1 DEF RemindersInv, ReminderTypes, N!RemindersAssumption
  <1>3. Claims' /\ Records'
    BY <1>1, <1>2 DEF Claims, Records, Quiet
  <1>4. \/ sub' = sub /\ UNCHANGED <<told, unsure>>
        \/ /\ job.at = "claim" /\ N!Claimable(job.pass)
           /\ sub' = [sub EXCEPT !.flags = @ \cup {job.pass}] /\ UNCHANGED <<told, unsure>>
        \/ job.at \in {"send", "release"} /\ N!Given /\ UNCHANGED <<told, unsure>>
        \/ job.at = "send" /\ N!Given /\ N!Arrives /\ unsure < MaxDoubts
               /\ unsure' = unsure + 1
    BY DEF N!Cancel
  <1>5. ReminderTypes' /\ (~moved => Counted')
    <2>0. broken' \in 0..MaxCancels
      BY <1>1, <1>2 DEF RemindersInv, ReminderTypes, N!RemindersAssumption
    <2>1. CASE sub' = sub /\ UNCHANGED <<told, unsure>>
      BY <1>1, <2>0, <2>1 DEF RemindersInv, ReminderTypes, Term, Counted
    <2>2. CASE /\ sub' = [sub EXCEPT !.flags = @ \cup {job.pass}] /\ UNCHANGED <<told, unsure>>
      <3>1. /\ sub' \in Row /\ sub'.active = sub.active /\ sub'.until = sub.until
            /\ sub.flags \subseteq sub'.flags
        BY <1>2, <2>2 DEF Row, Runs
      <3>2. QED
        BY <1>1, <2>0, <2>2, <3>1 DEF RemindersInv, ReminderTypes, Term, Counted
    <2>3. CASE job.at \in {"send", "release"} /\ N!Given /\ UNCHANGED <<told, unsure>>
      <3>1. /\ sub' \in Row /\ sub'.active = sub.active /\ sub'.until = sub.until
            /\ \A p \in N!Passes : p \notin sub'.flags => p \notin sub.flags \/ p \in job.claimed
        BY <1>1, <2>3, GivingBack
      <3>2. ~moved => Counted /\ Followed
        BY <1>1, <2>3 DEF RemindersInv, Term, Looked
      <3>3. ASSUME ~moved, sub.active, NEW p \in N!Passes, p \notin sub'.flags
            PROVE  told[p] <= unsure
        BY <3>1, <3>2, <3>3 DEF Counted, Followed
      <3>4. ~moved => Counted'
        BY <1>1, <2>3, <3>1, <3>2, <3>3 DEF Counted
      <3>5. QED
        BY <1>1, <2>0, <2>3, <3>1, <3>4 DEF RemindersInv, ReminderTypes
    <2>4. CASE job.at = "send" /\ N!Given /\ N!Arrives /\ unsure < MaxDoubts
               /\ unsure' = unsure + 1
      <3>1. /\ sub' \in Row /\ sub'.active = sub.active /\ sub'.until = sub.until
            /\ \A p \in N!Passes : p \notin sub'.flags => p \notin sub.flags \/ p \in job.claimed
        BY <1>1, <2>4, GivingBack
      <3>2. ASSUME ~moved
            PROVE  /\ \A p \in N!Passes : told'[p] <= 1 + unsure'
                   /\ \A p \in N!Passes : p \notin sub.flags \/ p \in job.claimed =>
                        (sub.active \/ p \in job.claimed => told'[p] <= unsure')
                   /\ told'["1d"] > 0 => sub.until <= now + 1
        BY <1>1, <2>4, <3>2, DoubtCounts
      <3>3. ~moved => Counted'
        BY <1>1, <3>1, <3>2 DEF Counted
      <3>4. told' \in [N!Passes -> Nat]
        BY <1>2, <2>4 DEF N!Arrives, Runs
      <3>5. unsure' \in 0..MaxDoubts
        BY <1>2, <2>4 DEF N!RemindersAssumption
      <3>6. QED
        BY <1>1, <2>0, <3>1, <3>3, <3>4, <3>5 DEF RemindersInv, ReminderTypes
    <2>5. QED
      BY <1>4, <2>1, <2>2, <2>3, <2>4
  <1>6. Term'
    BY <1>1, <1>5 DEF Term, Looked
  <1>7. QED
    BY <1>3, <1>5, <1>6 DEF RemindersInv

\* The process ends and the claimed flags stay.
LEMMA KillKeeps ==
    ASSUME N!RemindersAssumption, RemindersInv, N!Kill
    PROVE  RemindersInv'
  <1>1. /\ kills < MaxKills /\ kills' = kills + 1 /\ job' = N!Idle
        /\ UNCHANGED <<sub, added, renewals, now, told, moved, unsure, broken>>
        /\ kills \in Nat /\ MaxKills \in Nat
    BY DEF N!Kill, RemindersInv, ReminderTypes, N!RemindersAssumption
  <1>2. Claims' /\ Records'
    BY <1>1 DEF Claims, Records, Quiet
  <1>3. ReminderTypes'
    BY <1>1 DEF RemindersInv, ReminderTypes
  <1>4. Term'
    BY <1>1 DEF RemindersInv, Term, Counted, Looked
  <1>5. QED
    BY <1>2, <1>3, <1>4 DEF RemindersInv

\* A new term has no flags, and a run of the old one holds nothing of it.
LEMMA ExtendKeeps ==
    ASSUME N!RemindersAssumption, RemindersInv, NEW days \in Periods, N!Extend(days)
    PROVE  RemindersInv'
  <1> DEFINE from == IF sub.until > now THEN sub.until ELSE now
  <1>1. /\ sub.active /\ renewals < MaxRenewals /\ from + days <= LastDay
        /\ sub' = [sub EXCEPT !.until = from + days, !.flags = {}]
        /\ added' = added \cup {<<renewals, days>>} /\ renewals' = renewals + 1
        /\ told' = N!NoneTold
        /\ job' = (IF job = N!Idle THEN N!Idle ELSE [job EXCEPT !.fresh = FALSE])
        /\ UNCHANGED <<now, moved, N!faults>>
    BY DEF N!Extend
  <1>2. /\ sub \in Row /\ sub.until \in 0..LastDay /\ now \in 0..LastDay /\ days \in 1..LastDay
        /\ LastDay \in Nat /\ renewals \in Nat /\ MaxRenewals \in Nat
        /\ job \in {N!Idle} \cup Runs /\ added \subseteq Nat \X Periods
    BY DEF RemindersInv, ReminderTypes, Row, N!RemindersAssumption
  <1>3. from + days \in 0..LastDay /\ from + days > sub.until
    BY <1>1, <1>2
  <1> HIDE DEF from
  <1>4. /\ sub' \in Row /\ sub'.active = TRUE /\ sub'.until = from + days /\ sub'.flags = {}
    BY <1>1, <1>2, <1>3 DEF Row
  <1>5. ASSUME job # N!Idle
        PROVE  /\ job' \in Runs /\ job' # N!Idle /\ job'.at = job.at /\ job'.pass = job.pass
               /\ job'.tried = job.tried /\ job'.saw = job.saw /\ job'.claimed = job.claimed
               /\ job'.fresh = FALSE /\ job'.sent = job.sent
    BY <1>1, <1>2, <1>5 DEF Runs, N!Idle
  <1>6. told' \in [N!Passes -> Nat] /\ \A p \in N!Passes : told'[p] = 0
    BY <1>1 DEF N!NoneTold
  <1>7. ReminderTypes'
    <2>1. added' \subseteq Nat \X Periods /\ renewals' \in 0..MaxRenewals
      BY <1>1, <1>2
    <2>2. job' \in {N!Idle} \cup Runs
      BY <1>1, <1>5
    <2>3. QED
      BY <1>1, <1>4, <1>6, <2>1, <2>2 DEF RemindersInv, ReminderTypes, N!faults
  <1>8. Claims'
    BY <1>1, <1>5 DEF RemindersInv, Claims
  <1>9. Term'
    <2> SUFFICES ASSUME ~moved PROVE Counted' /\ (Looked' => Followed')
      BY <1>1 DEF Term
    <2>0. unsure \in Nat /\ unsure' = unsure /\ now' = now
      BY <1>1 DEF RemindersInv, ReminderTypes, N!RemindersAssumption, N!faults
    <2>1. Counted'
      BY <1>4, <1>6, <2>0 DEF Counted, N!Passes
    <2>2. ASSUME Looked' PROVE Followed'
      <3>1. job # N!Idle /\ Looked /\ job.saw \in Nat /\ job.claimed \subseteq N!Passes
        BY <1>1, <1>2, <1>5, <2>2 DEF Looked, Runs
      <3>2. job.saw <= sub.until /\ (job.pass = "1d" => job.saw <= now + 1)
        BY <3>1 DEF RemindersInv, Term, Followed
      <3>3. (/\ job.saw <= sub.until /\ (job.fresh <=> job.saw = sub.until))'
        <4>1. job'.saw = job.saw /\ job'.fresh = FALSE /\ sub'.until = from + days
          BY <1>4, <1>5, <3>1
        <4>2. PICK n : n = from + days
          OBVIOUS
        <4>3. n \in Nat /\ n > sub.until /\ sub.until \in Nat
          BY <1>2, <1>3, <4>2
        <4>4. QED
          BY <3>1, <3>2, <4>1, <4>2, <4>3
      <3>4. (\A f \in job.claimed : told[f] <= unsure)'
        BY <1>5, <1>6, <2>0, <3>1
      <3>5. QED
        BY <1>1, <1>4, <1>5, <2>0, <3>1, <3>2, <3>3, <3>4 DEF Followed
    <2>3. QED
      BY <2>1, <2>2
  <1>10. Records'
    <2>1. told'["1d"] = 0
      BY <1>6 DEF N!Passes
    <2>2. QED
      BY <1>4, <2>1 DEF Records, Recorded
  <1>11. QED
    BY <1>7, <1>8, <1>9, <1>10 DEF RemindersInv

\* A refund moves the date towards now.
LEMMA TakeBackKeeps ==
    ASSUME N!RemindersAssumption, RemindersInv, N!TakeBack
    PROVE  RemindersInv'
  <1>1. PICK one \in added :
          /\ added' = added \ {one}
          /\ IF sub.active /\ sub.until <= now + one[2]
             THEN sub' = [sub EXCEPT !.active = FALSE]
             ELSE sub' = [sub EXCEPT !.until = IF @ > one[2] THEN @ - one[2] ELSE 0]
    BY DEF N!TakeBack
  <1>2. /\ moved' = (moved \/ job # N!Idle)
        /\ UNCHANGED <<renewals, now, job, told, N!faults>>
    BY DEF N!TakeBack
  <1>3. /\ sub \in Row /\ sub.until \in 0..LastDay /\ now \in 0..LastDay /\ LastDay \in Nat
        /\ one[2] \in Nat /\ moved \in BOOLEAN
    <2>1. one \in Nat \X Periods /\ Periods \subseteq Nat
      BY DEF RemindersInv, ReminderTypes, N!RemindersAssumption
    <2>2. one[2] \in Nat
      BY ONLY <2>1
    <2>3. QED
      BY <2>2 DEF RemindersInv, ReminderTypes, Row, N!RemindersAssumption
  <1>4. /\ sub' \in Row /\ sub'.until <= sub.until /\ sub'.flags = sub.flags
        /\ sub'.active => sub.active
    <2>1. CASE sub' = [sub EXCEPT !.active = FALSE]
      <3>1. /\ sub' \in Row /\ sub'.until = sub.until /\ sub'.flags = sub.flags
            /\ sub'.active = FALSE
        BY <1>3, <2>1 DEF Row
      <3>2. QED
        BY <1>3, <3>1
    <2>2. CASE sub' = [sub EXCEPT !.until = IF @ > one[2] THEN @ - one[2] ELSE 0]
      <3>1. PICK d : d = IF sub.until > one[2] THEN sub.until - one[2] ELSE 0
        OBVIOUS
      <3>2. d \in 0..LastDay /\ d <= sub.until
        BY <1>3, <3>1
      <3>3. sub' = [sub EXCEPT !.until = d]
        BY <2>2, <3>1
      <3>4. QED
        BY <1>3, <3>2, <3>3 DEF Row
    <2>3. QED
      BY <1>1, <2>1, <2>2
  <1>5. ReminderTypes'
    BY <1>1, <1>2, <1>3, <1>4 DEF RemindersInv, ReminderTypes, N!faults
  <1>6. Claims'
    BY <1>2 DEF RemindersInv, Claims
  <1>7. Term'
    <2> SUFFICES ASSUME ~moved, job = N!Idle PROVE Counted'
      BY <1>2 DEF Term, Looked
    <2>1. Counted /\ told' = told /\ unsure' = unsure /\ now' = now
      BY <1>2 DEF RemindersInv, Term, N!faults
    <2>2. told["1d"] > 0 => sub'.until <= now + 1
      <3>1. sub.until \in Nat /\ sub'.until \in Nat /\ now \in Nat
        BY <1>3, <1>4 DEF Row
      <3>2. QED
        BY <1>4, <2>1, <3>1 DEF Counted
    <2>3. QED
      BY <1>4, <2>1, <2>2 DEF Counted
  <1>8. Records'
    <2> SUFFICES ASSUME Quiet' PROVE Recorded'
      BY DEF Records
    <2>1. Recorded /\ job = N!Idle /\ job' = job /\ told' = told
      BY <1>2, <1>3 DEF RemindersInv, Records, Quiet, N!faults
    <2>2. QED
      BY <1>4, <2>1 DEF Recorded, Looked, Told
  <1>9. QED
    BY <1>5, <1>6, <1>7, <1>8 DEF RemindersInv

\* The row ends.
LEMMA EndKeeps ==
    ASSUME N!RemindersAssumption, RemindersInv, N!End
    PROVE  RemindersInv'
  <1>1. /\ sub' = [sub EXCEPT !.active = FALSE]
        /\ UNCHANGED <<added, renewals, now, job, told, moved, N!faults>>
    BY DEF N!End
  <1>2. /\ sub' \in Row /\ sub'.active = FALSE /\ sub'.until = sub.until
        /\ sub'.flags = sub.flags
    BY <1>1 DEF RemindersInv, ReminderTypes, Row
  <1>3. ReminderTypes'
    BY <1>1, <1>2 DEF RemindersInv, ReminderTypes, N!faults
  <1>4. Claims'
    BY <1>1 DEF RemindersInv, Claims
  <1>5. Term'
    BY <1>1, <1>2 DEF RemindersInv, Term, Counted, Followed, Looked, N!faults
  <1>6. Records'
    BY <1>1, <1>2 DEF RemindersInv, Records, Recorded, Quiet, N!faults
  <1>7. QED
    BY <1>3, <1>4, <1>5, <1>6 DEF RemindersInv

\* A day passes, which brings the end nearer.
LEMMA TickKeeps ==
    ASSUME N!RemindersAssumption, RemindersInv, N!Tick
    PROVE  RemindersInv'
  <1>1. /\ now < LastDay /\ now' = now + 1
        /\ UNCHANGED <<sub, added, renewals, job, told, moved, N!faults>>
        /\ now \in 0..LastDay /\ LastDay \in Nat /\ sub.until \in Nat
    BY DEF N!Tick, RemindersInv, ReminderTypes, N!RemindersAssumption, Row
  <1>2. ReminderTypes'
    BY <1>1 DEF RemindersInv, ReminderTypes, N!faults
  <1>3. Claims'
    BY <1>1 DEF RemindersInv, Claims
  <1>4. Term'
    <2> SUFFICES ASSUME ~moved PROVE Counted' /\ (Looked' => Followed')
      BY <1>1 DEF Term
    <2>1. Counted /\ UNCHANGED <<sub, job, told, unsure>>
      BY <1>1 DEF RemindersInv, Term, N!faults
    <2>2. Counted'
      BY <1>1, <2>1 DEF Counted
    <2>3. ASSUME Looked PROVE Followed'
      <3>1. Followed /\ job.saw \in Nat
        BY <2>3 DEF RemindersInv, ReminderTypes, Runs, Looked, Term
      <3>2. job.pass = "1d" => job.saw <= now'  + 1
        BY <1>1, <3>1 DEF Followed
      <3>3. QED
        BY <2>1, <3>1, <3>2 DEF Followed
    <2>4. QED
      BY <2>1, <2>2, <2>3 DEF Looked
  <1>5. Records'
    <2> SUFFICES ASSUME Quiet' PROVE Recorded'
      BY DEF Records
    <2>1. Recorded /\ UNCHANGED <<sub, job, told>>
      BY <1>1 DEF RemindersInv, Records, Quiet, N!faults
    <2>2. sub.until <= now => sub.until <= now'
      BY <1>1
    <2>3. QED
      BY <2>1, <2>2 DEF Recorded, Told, Looked
  <1>6. QED
    BY <1>2, <1>3, <1>4, <1>5 DEF RemindersInv

\* A run begins and holds nothing.
LEMMA BeginKeeps ==
    ASSUME N!RemindersAssumption, RemindersInv, N!Begin
    PROVE  RemindersInv'
  <1>1. /\ job = N!Idle /\ job' = N!Run("read", "1d", FALSE)
        /\ UNCHANGED <<sub, added, renewals, now, told, moved, N!faults>>
    BY DEF N!Begin
  <1>2. /\ job' \in Runs /\ job' # N!Idle /\ job'.at = "read" /\ job'.pass = "1d"
        /\ job'.tried = FALSE /\ job'.claimed = {} /\ job'.sent = 0
    <2>1. job' = [at |-> "read", pass |-> "1d", tried |-> FALSE, saw |-> 0, claimed |-> {},
                  fresh |-> TRUE, sent |-> 0]
      BY <1>1 DEF N!Run
    <2>2. LastDay \in Nat
      BY DEF N!RemindersAssumption
    <2>3. job' \in Runs
      BY ONLY <2>1, <2>2 DEF Runs, N!Passes
    <2>4. job' # N!Idle
      BY <2>3, Apart
    <2>5. QED
      BY <2>1, <2>3, <2>4
  <1>3. ReminderTypes'
    BY <1>1, <1>2 DEF RemindersInv, ReminderTypes, N!faults
  <1>4. Claims'
    BY <1>2 DEF Claims
  <1>5. Term'
    BY <1>1, <1>2 DEF RemindersInv, Term, Counted, Looked, N!faults
  <1>6. Records'
    BY <1>1, <1>2 DEF RemindersInv, Records, Recorded, Quiet, Looked, Told, N!faults
  <1>7. QED
    BY <1>3, <1>4, <1>5, <1>6 DEF RemindersInv

\* At the start a first period was bought and nothing was told.
LEMMA RemindersInit == ASSUME N!RemindersAssumption, N!Init PROVE RemindersInv
  <1>1. PICK days \in Periods :
          /\ sub = [active |-> TRUE, until |-> days, flags |-> {}]
          /\ added = {<<0, days>>}
    BY DEF N!Init
  <1>2. /\ days \in 1..LastDay /\ LastDay \in Nat /\ now = 0 /\ renewals = 1 /\ job = N!Idle
        /\ told = N!NoneTold /\ moved = FALSE /\ unsure = 0 /\ broken = 0 /\ kills = 0
        /\ MaxRenewals \in Nat \ {0} /\ MaxDoubts \in Nat /\ MaxCancels \in Nat
        /\ MaxKills \in Nat
    BY DEF N!Init, N!RemindersAssumption
  <1>3. sub \in Row /\ sub.active = TRUE /\ sub.until = days /\ sub.flags = {}
    BY <1>1, <1>2 DEF Row
  <1>4. told \in [N!Passes -> Nat] /\ \A p \in N!Passes : told[p] = 0
    BY <1>2 DEF N!NoneTold
  <1>5. ReminderTypes
    <2>1. added \subseteq Nat \X Periods
      BY <1>1
    <2>2. /\ now \in 0..LastDay /\ renewals \in 0..MaxRenewals /\ unsure \in 0..MaxDoubts
          /\ broken \in 0..MaxCancels /\ kills \in 0..MaxKills
      BY <1>2
    <2>3. job \in {N!Idle} \cup Runs /\ moved \in BOOLEAN
      BY <1>2
    <2>4. QED
      BY ONLY <1>3, <1>4, <2>1, <2>2, <2>3 DEF ReminderTypes
  <1>6. Claims
    BY <1>2 DEF Claims
  <1>7. Term
    BY <1>2, <1>3, <1>4 DEF Term, Counted, Looked, N!Passes
  <1>8. Records
    BY <1>2, <1>3 DEF Records, Recorded
  <1>9. QED
    BY <1>5, <1>6, <1>7, <1>8 DEF RemindersInv

\* The actions that Next names are a run's only while there is one.
LEMMA RemindersNext == ASSUME N!RemindersAssumption, RemindersInv, N!Next PROVE RemindersInv'
  <1>1. CASE N!Begin \/ N!TakeBack \/ N!End \/ N!Tick \/ N!Cancel \/ N!Kill
    BY <1>1, BeginKeeps, TakeBackKeeps, EndKeeps, TickKeeps, CancelKeeps, KillKeeps
  <1>2. CASE \E days \in Periods : N!Extend(days)
    BY <1>2, ExtendKeeps
  <1>3. CASE N!ReadDue
    <2>1. job # N!Idle /\ job.at = "read"
      BY <1>3 DEF N!ReadDue, N!Idle
    <2>2. CASE N!Due /\ ~job.tried
      BY <1>3, <2>1, <2>2, DueKeeps
    <2>3. CASE ~(N!Due /\ ~job.tried)
      <3>1. N!NextPass /\ UNCHANGED <<sub, added, renewals, now, told, moved, N!faults>>
        BY <1>3, <2>3 DEF N!ReadDue
      <3>2. ~N!Due \/ job.tried
        BY <2>3
      <3>3. QED
        BY <2>1, <3>1, <3>2, GivesUpKeeps
    <2>4. QED
      BY <2>2, <2>3
  <1>4. CASE N!Claim
    <2>1. job # N!Idle /\ job.at = "claim"
      BY <1>4 DEF N!Claim, N!Idle
    <2>2. CASE N!Claimable(job.pass)
      BY <1>4, <2>1, <2>2, ClaimKeeps
    <2>3. CASE ~N!Claimable(job.pass)
      <3>1. N!NextPass /\ UNCHANGED <<sub, added, renewals, now, told, moved, N!faults>>
        BY <1>4, <2>3 DEF N!Claim, N!faults
      <3>2. QED
        BY <2>1, <2>3, <3>1, GivesUpKeeps
    <2>4. QED
      BY <2>2, <2>3
  <1>5. CASE N!ClaimOther \/ N!Delivered \/ N!NotDelivered \/ N!Release
    <2>a. job.at \in {"other", "send", "release"}
      BY <1>5 DEF N!ClaimOther, N!Delivered, N!NotDelivered, N!Release
    <2>1. job # N!Idle
      BY <2>a DEF N!Idle
    <2>2. QED
      BY <1>5, <2>1, ClaimOtherKeeps, DeliveredKeeps, NotDeliveredKeeps, ReleaseKeeps
  <1>6. QED
    BY <1>1, <1>2, <1>3, <1>4, <1>5 DEF N!Next

\* The flags, the run and what the customer was told are always as the invariant says.
LEMMA Reminding ==
    ASSUME N!RemindersAssumption
    PROVE  N!Spec => []RemindersInv
  <1>1. N!Init => RemindersInv
    BY RemindersInit
  <1>2. RemindersInv /\ [N!Next]_N!vars => RemindersInv'
    <2>1. ASSUME RemindersInv, N!Next PROVE RemindersInv'
      BY <2>1, RemindersNext
    <2>2. ASSUME RemindersInv, UNCHANGED N!vars PROVE RemindersInv'
      BY <2>2 DEF N!vars, RemindersInv, ReminderTypes, Claims, Term, Counted, Followed,
          Looked, Records, Recorded, Quiet, Told
    <2>3. QED
      BY <2>1, <2>2
  <1>3. QED
    BY <1>1, <1>2, PTL DEF N!Spec

\* A term has each of its reminders once and a run sends one message, whatever moves the date
\* in between, but for doubts; and undisturbed, a flag that is set is a message that was
\* delivered.
THEOREM RemindsOnce ==
    ASSUME N!RemindersAssumption
    PROVE  N!Spec => []N!RemindedOnce
  <1>1. RemindersInv => N!RemindedOnce
    <2> SUFFICES ASSUME RemindersInv PROVE N!RemindedOnce
      OBVIOUS
    <2>1. N!TypeOK
      BY DEF RemindersInv, ReminderTypes, Row, Runs, Claims, N!TypeOK
    <2>2. ASSUME Quiet PROVE N!FlagsAreDeliveries
      <3>1. sub.active /\ job = N!Idle => \A f \in sub.flags : Told(f)
        BY <2>2 DEF RemindersInv, Records, Recorded, Looked
      <3>2. told["1d"] \in Nat /\ told["3d"] \in Nat
        BY DEF RemindersInv, ReminderTypes, N!Passes
      <3>3. QED
        BY <3>1, <3>2 DEF N!FlagsAreDeliveries, Told
    <2>3. N!OncePerTerm
      BY DEF RemindersInv, Term, Counted, N!OncePerTerm
    <2>4. N!OnePerRun
      BY DEF RemindersInv, Claims, N!OnePerRun
    <2>5. QED
      BY <2>1, <2>2, <2>3, <2>4 DEF N!RemindedOnce, N!FlagsHoldUndisturbed, Quiet
  <1>2. QED
    BY <1>1, Reminding, PTL

\* Who was told that the end is tomorrow is not told afterwards that it is near.
THEOREM NoneAfterTomorrow ==
    ASSUME N!RemindersAssumption
    PROVE  N!Spec => N!NearAfterTomorrow
  <1>1. RemindersInv /\ [N!Next]_N!vars => [N!NearAfterTomorrowStep]_N!vars
    <2> SUFFICES ASSUME RemindersInv, N!Next, broken' = 0, kills' = 0, ~moved', told["1d"] > 0
                 PROVE  told'["3d"] <= told["3d"]
      BY DEF N!NearAfterTomorrowStep
    <2>0. told["3d"] \in Nat /\ told \in [N!Passes -> Nat] /\ "1d" \in N!Passes
          /\ "3d" \in N!Passes
      BY DEF RemindersInv, ReminderTypes, N!Passes
    <2>1. CASE told' = told
      BY <2>0, <2>1
    <2>2. CASE told' = N!NoneTold
      BY <2>0, <2>2 DEF N!NoneTold
    <2>3. CASE job.at = "send" /\ N!Arrives /\ UNCHANGED <<moved, broken, kills>>
      <3>1. job # N!Idle
        BY <2>3 DEF N!Idle
      <3>2. job.pass # "3d"
        BY <2>3, <3>1 DEF RemindersInv, Records, Recorded, Quiet
      <3>3. ~moved
        BY <2>3
      <3>4. told'["3d"] = told["3d"]
        BY <2>0, <2>3, <3>1, <3>2, <3>3, Arriving
      <3>5. QED
        BY <2>0, <3>4
    <2>4. CASE N!Cancel
      <3>1. broken' = broken + 1 /\ broken \in Nat
        BY <2>4 DEF N!Cancel, RemindersInv, ReminderTypes
      <3>2. QED
        BY <3>1
    <2>5. CASE \E days \in Periods : N!Extend(days)
      BY <2>2, <2>5 DEF N!Extend
    <2>6. CASE N!Delivered \/ N!NotDelivered
      BY <2>1, <2>3, <2>6 DEF N!Delivered, N!NotDelivered, N!faults
    <2>7. CASE N!Begin \/ N!ReadDue \/ N!Claim \/ N!ClaimOther \/ N!Release \/ N!Kill
               \/ N!TakeBack \/ N!End \/ N!Tick
      BY <2>1, <2>7 DEF N!Begin, N!ReadDue, N!Claim, N!ClaimOther, N!Release, N!Kill,
          N!TakeBack, N!End, N!Tick
    <2>8. QED
      BY <2>4, <2>5, <2>6, <2>7 DEF N!Next
  <1>2. QED
    BY <1>1, Reminding, PTL DEF N!Spec, N!NearAfterTomorrow

-----------------------------------------------------------------------------
(* The jobs: hours and months *)

LEMMA DivMod ==
    ASSUME NEW k \in Nat \ {0}, NEW t \in Nat
    PROVE  t % k \in 0..(k-1) /\ t \div k \in Nat /\ t = k * (t \div k) + (t % k)
  OBVIOUS

LEMMA DivModUnique ==
    ASSUME NEW k \in Nat \ {0}, NEW q \in Int, NEW r \in 0..(k-1),
           NEW p \in Int, NEW s \in 0..(k-1), k * q + r = k * p + s
    PROVE  q = p /\ r = s
<1>1. q = p
  OBVIOUS
<1>2. QED
  BY <1>1

\* The hour after hour k-1 is 0.
LEMMA NextHour ==
    ASSUME NEW k \in Nat \ {0}, NEW t \in Nat
    PROVE  (t + 1) % k = IF (t % k) + 1 = k THEN 0 ELSE (t % k) + 1
<1>1. PICK q \in Nat, r \in 0..(k-1) : q = t \div k /\ r = t % k /\ t = k * q + r
  BY DivMod
<1>2. PICK p \in Nat, s \in 0..(k-1) : s = (t + 1) % k /\ t + 1 = k * p + s
  BY DivMod, t + 1 \in Nat
<1>3. PICK v \in Int, u \in 0..(k-1) : /\ u = IF r + 1 = k THEN 0 ELSE r + 1
                                       /\ t + 1 = k * v + u
  <2>1. CASE r + 1 = k
    <3>1. t + 1 = k * (q + 1) + 0 /\ q + 1 \in Int /\ 0 \in 0..(k-1)
      BY <1>1, <2>1
    <3>2. QED
      BY <2>1, <3>1
  <2>2. CASE r + 1 # k
    <3>1. t + 1 = k * q + (r + 1) /\ r + 1 \in 0..(k-1)
      BY <1>1, <2>2
    <3>2. QED
      BY <2>2, <3>1
  <2>3. QED
    BY <2>1, <2>2
<1>4. u = s
  <2>1. k * v + u = k * p + s /\ v \in Int /\ p \in Int
    BY <1>2, <1>3
  <2> HIDE <1>2, <1>3
  <2>2. QED
    BY <2>1, DivModUnique
<1>5. QED
  BY <1>1, <1>2, <1>3, <1>4

LEMMA MonthsGrow ==
    ASSUME J!JobsAssumption, NEW t \in Nat, NEW u \in Nat, t <= u
    PROVE  J!Month(t) \in Nat /\ J!Month(t) <= J!Month(u) /\ J!Month(t) >= 1
<1>1. PICK k \in Nat \ {0} : k = HoursPerDay * DaysPerMonth
  BY DEF J!JobsAssumption
<1>2. t \div k \in Nat /\ u \div k \in Nat /\ t \div k <= u \div k
  OBVIOUS
<1>3. J!Month(t) = t \div k + 1 /\ J!Month(u) = u \div k + 1
  BY <1>1 DEF J!Month
<1>4. QED
  BY <1>2, <1>3

-----------------------------------------------------------------------------
(* The invariant *)

\* What a run is at: only the checks wait and report, and what they report is of a month.
RunOk(t, v) ==
    /\ v = [step |-> v.step, month |-> v.month]
    /\ v.step \in {"none", "wait", "work", "due", "send", "stamp"}
    /\ IF v.step \in {"send", "stamp"} THEN v.month \in J!Months ELSE v.month = 0
    /\ t \notin J!Checks => v.step \in {"none", "work"}

JobTypes ==
    /\ phase \in {"down", "starting", "up", "stopping", "cancelling", "closed"}
    /\ online \in BOOLEAN /\ due \in BOOLEAN /\ shifted \in BOOLEAN /\ skipped \in BOOLEAN
    /\ clock \in 0..MaxClock /\ lastCheck \in 0..clock
    /\ hour \in 0..(HoursPerDay - 1) /\ trigger \in 0..(HoursPerDay - 1)
    /\ stamp \in 0..J!Month(clock)
    /\ saving \in [Admins -> 0..(HoursPerDay - 1) \cup {J!NotSaving}]
    /\ starts \in Nat /\ saves \in Nat /\ failures \in Nat
    /\ sent \in [J!Months -> Nat] /\ cut \in [J!Months -> Nat]

\* Runs: the lock is held by the run of the checks that has begun; the checks of a start go
\* on as long as the start; and nothing runs while the process is down or closed.
RunsInv ==
    /\ run = [t \in J!Runs |-> run[t]] /\ \A t \in J!Runs : RunOk(t, run[t])
    /\ holder \in J!Checks \cup {"none"}
    /\ \A t \in J!Checks : holder = t <=> run[t].step \notin {"none", "wait"}
    /\ run["startup"].step # "none" => phase = "starting"
    /\ phase \in {"down", "closed"} => \A t \in J!Runs : run[t].step = "none"

\* A month that is being reported is later than the one recorded.
Reporting(t) == run[t].step \in {"send", "stamp"}
Stamping(m) == \E t \in J!Checks : run[t].step = "stamp" /\ run[t].month = m
ReportInv ==
    /\ \A t \in J!Checks : Reporting(t) => stamp < run[t].month /\ run[t].month <= J!Month(clock)
    /\ \A m \in J!Months : sent[m] <= cut[m] + (IF Stamping(m) THEN 1 ELSE 0)
                                            + (IF m <= stamp THEN 1 ELSE 0)

\* The hours since the slot of the daily jobs last came.
Since == IF J!HourOf(clock) >= trigger THEN J!HourOf(clock) - trigger
         ELSE J!HourOf(clock) - trigger + HoursPerDay

\* Unless a run waits, the checks have begun since the last slot.
CheckInv ==
    J!Running /\ ~shifted =>
       /\ ~due /\ run["daily"].step # "wait" /\ run["startup"].step # "wait"
             => clock - lastCheck <= Since
       /\ due /\ run["daily"].step # "none" => lastCheck = clock

JobsInv == JobTypes /\ RunsInv /\ ReportInv /\ J!TriggerFollowsSettings /\ CheckInv

-----------------------------------------------------------------------------

LEMMA HourIs ==
    ASSUME J!JobsAssumption, JobTypes
    PROVE  /\ J!HourOf(clock) \in 0..(HoursPerDay - 1)
           /\ J!HourOf(clock + 1) = IF J!HourOf(clock) + 1 = HoursPerDay THEN 0
                                    ELSE J!HourOf(clock) + 1
           /\ Since \in 0..(HoursPerDay - 1)
           /\ HoursPerDay \in Nat \ {0}
<1>1. clock \in Nat /\ HoursPerDay \in Nat \ {0} /\ trigger \in 0..(HoursPerDay - 1)
  BY DEF JobTypes, J!JobsAssumption
<1>2. J!HourOf(clock) \in 0..(HoursPerDay - 1)
  BY <1>1, DivMod DEF J!HourOf
<1>3. J!HourOf(clock + 1) = IF J!HourOf(clock) + 1 = HoursPerDay THEN 0
                            ELSE J!HourOf(clock) + 1
  BY <1>1, NextHour DEF J!HourOf
<1>4. QED
  BY <1>1, <1>2, <1>3 DEF Since

LEMMA MonthIs ==
    ASSUME J!JobsAssumption, JobTypes
    PROVE  /\ J!Month(clock) \in J!Months /\ J!Months \subseteq Nat
           /\ \A m \in J!Months : m >= 1
           /\ clock' \in clock..MaxClock => J!Month(clock) <= J!Month(clock')
                                            /\ J!Month(clock') \in Nat
<1>1. clock \in Nat /\ MaxClock \in Nat /\ clock <= MaxClock
  BY DEF JobTypes, J!JobsAssumption
<1>2. J!Month(clock) \in Nat /\ J!Month(clock) >= 1 /\ J!Month(clock) <= J!Month(MaxClock)
      /\ J!Month(MaxClock) \in Nat
  BY <1>1, MonthsGrow
<1>3. ASSUME clock' \in clock..MaxClock
      PROVE  J!Month(clock) <= J!Month(clock') /\ J!Month(clock') \in Nat
  <2>1. clock' \in Nat /\ clock <= clock'
    BY <1>1, <1>3
  <2>2. QED
    BY <1>1, <2>1, MonthsGrow
<1> HIDE DEF J!Month
<1>4. QED
  BY <1>2, <1>3 DEF J!Months

\* Runs that stay as they are, with the records of what they reported.
LEMMA RunsAlone ==
    ASSUME J!JobsAssumption, JobsInv, UNCHANGED <<run, holder, stamp, sent, cut>>,
           clock' \in clock..MaxClock,
           phase' \in {"down", "closed"} => \A t \in J!Runs : run[t].step = "none",
           phase = "starting" => phase' = "starting"
    PROVE  RunsInv' /\ ReportInv'
<1>1. RunsInv'
  BY DEF JobsInv, RunsInv
<1>2. \A t \in J!Checks : Reporting(t)' => stamp' < run'[t].month
                                           /\ run'[t].month <= J!Month(clock')
  <2>1. J!Month(clock) <= J!Month(clock') /\ J!Month(clock) \in Nat /\ J!Month(clock') \in Nat
    BY MonthIs DEF JobsInv
  <2>2. ASSUME NEW t \in J!Checks, Reporting(t) PROVE run[t].month \in Nat
    <3>1. J!Months \subseteq Nat
      BY MonthIs DEF JobsInv
    <3>2. RunOk(t, run[t])
      BY DEF JobsInv, RunsInv, J!Runs, J!Checks, J!Scheduled
    <3>3. QED
      BY <2>2, <3>1, <3>2 DEF RunOk, Reporting
  <2>3. QED
    BY <2>1, <2>2 DEF JobsInv, ReportInv, Reporting
<1>3. ReportInv'
  BY <1>2 DEF JobsInv, ReportInv, Stamping, J!Months
<1>4. QED
  BY <1>1, <1>3

LEMMA TickJobs == ASSUME J!JobsAssumption, JobsInv, J!Tick PROVE JobsInv'
<1>0. /\ clock' = clock + 1 /\ clock' \in 0..MaxClock /\ clock \in Nat
      /\ J!HourOf(clock') = IF J!HourOf(clock) + 1 = HoursPerDay THEN 0
                            ELSE J!HourOf(clock) + 1
      /\ J!HourOf(clock) \in 0..(HoursPerDay - 1) /\ HoursPerDay \in Nat \ {0}
  BY HourIs DEF JobsInv, JobTypes, J!Tick, J!JobsAssumption
<1>1. JobTypes'
  <2>1. J!Month(clock) \in Nat /\ J!Month(clock') \in Nat /\ J!Month(clock) <= J!Month(clock')
    BY <1>0, MonthIs DEF JobsInv, JobTypes, J!JobsAssumption
  <2>2. stamp \in 0..J!Month(clock')
    BY <2>1 DEF JobsInv, JobTypes
  <2>3. lastCheck \in 0..clock'
    BY <1>0 DEF JobsInv, JobTypes
  <2>4. due' \in BOOLEAN
    BY DEF J!Tick, J!Running
  <2>5. QED
    BY <1>0, <2>2, <2>3, <2>4 DEF JobsInv, JobTypes, J!Tick, J!changed, J!Months
<1>2. RunsInv' /\ ReportInv'
  BY <1>0, RunsAlone DEF JobsInv, JobTypes, RunsInv, J!Tick, J!changed
<1>3. J!TriggerFollowsSettings'
  BY DEF JobsInv, J!Tick, J!TriggerFollowsSettings, J!Running, J!changed
<1>4. CheckInv'
  <2>1. /\ phase' = phase /\ shifted' = shifted /\ ~due /\ run' = run /\ trigger' = trigger
        /\ lastCheck' = lastCheck
        /\ run["daily"] # J!NoRun => J!HourOf(clock') # trigger
        /\ due' = (J!Running /\ J!HourOf(clock') = trigger)
    BY DEF J!Tick, J!changed
  <2>2. lastCheck \in 0..clock /\ trigger \in 0..(HoursPerDay - 1)
    BY DEF JobsInv, JobTypes
  <2>3. run["daily"] # J!NoRun \/ run["daily"].step = "none"
    BY DEF J!NoRun
  <2>4. J!HourOf(clock') # trigger => Since' = Since + 1
    BY <1>0, <2>1, <2>2 DEF Since
  <2>5. CASE J!HourOf(clock') = trigger
    BY <2>1, <2>3, <2>5 DEF CheckInv, J!Running
  <2>6. CASE J!HourOf(clock') # trigger
    <3>1. J!Running /\ ~shifted /\ run["daily"].step # "wait" /\ run["startup"].step # "wait"
             => clock - lastCheck <= Since
      BY <2>1 DEF JobsInv, CheckInv
    <3>2. Since \in Nat
      BY HourIs DEF JobsInv
    <3>3. ~due'
      BY <2>1, <2>6
    <3>4. QED
      BY <1>0, <2>1, <2>2, <2>4, <2>6, <3>1, <3>2, <3>3 DEF CheckInv, J!Running
  <2>7. QED
    BY <2>5, <2>6
<1>5. QED
  BY <1>1, <1>2, <1>3, <1>4 DEF JobsInv

\* The properties that a step leaves alone.
LEMMA TriggerKept ==
    ASSUME JobsInv, UNCHANGED <<saving, trigger, hour, skipped>>, J!Running' => J!Running
    PROVE  J!TriggerFollowsSettings'
  BY DEF JobsInv, J!TriggerFollowsSettings, J!Running

LEMMA CheckKept ==
    ASSUME JobsInv, UNCHANGED <<clock, lastCheck, trigger, due, shifted>>,
           J!Running' => J!Running,
           \A t \in {"daily", "startup"} : run[t].step = "wait" => run'[t].step = "wait",
           run["daily"].step = "none" => run'["daily"].step = "none"
    PROVE  CheckInv'
<1>1. Since' = Since /\ clock' = clock /\ lastCheck' = lastCheck /\ due' = due
      /\ shifted' = shifted
  BY DEF Since, J!HourOf
<1>2. QED
  BY <1>1 DEF JobsInv, CheckInv

\* One run moves, and takes or leaves the lock.
LEMMA OneRunMoves ==
    ASSUME JobsInv, NEW t \in J!Runs, NEW v, RunOk(t, v), run' = [run EXCEPT ![t] = v],
           holder' \in J!Checks \cup {"none"},
           t \in J!Checks => (holder' = t <=> v.step \notin {"none", "wait"}),
           \A u \in J!Checks : u # t => (holder' = u <=> holder = u),
           t = "startup" /\ v.step # "none" => phase' = "starting",
           t # "startup" /\ phase = "starting" => phase' = "starting",
           phase' \notin {"down", "closed"}
    PROVE  RunsInv'
<1>1. /\ run'[t] = v /\ \A u \in J!Runs : u # t => run'[u] = run[u]
      /\ run' = [u \in J!Runs |-> run'[u]]
  BY DEF JobsInv, RunsInv
<1>2. \A u \in J!Runs : RunOk(u, run[u])
  BY DEF JobsInv, RunsInv
<1>3. \A u \in J!Runs : RunOk(u, run[u])'
  <2>1. ASSUME NEW u \in J!Runs PROVE RunOk(u, run'[u])
    BY <1>1, <1>2
  <2>2. QED
    BY <2>1 DEF RunOk, J!Months, J!Checks
<1>4. \A u \in J!Checks : u \in J!Runs
  BY DEF J!Runs, J!Checks, J!Scheduled
<1>5. \A u \in J!Checks : holder' = u <=> run'[u].step \notin {"none", "wait"}
  BY <1>1, <1>4 DEF JobsInv, RunsInv
<1>6. run'["startup"].step # "none" => phase' = "starting"
  BY <1>1 DEF JobsInv, RunsInv, J!Runs
<1>7. QED
  BY <1>1, <1>3, <1>5, <1>6 DEF RunsInv, J!Runs, J!Checks, J!Scheduled

\* Of the checks only the one that holds the lock reports.
LEMMA OneReports ==
    ASSUME JobsInv, NEW t \in J!Checks, run[t].step \notin {"none", "wait"}
    PROVE  /\ holder = t
           /\ \A u \in J!Checks : u # t => ~Reporting(u)
           /\ \A m : Stamping(m) <=> run[t].step = "stamp" /\ run[t].month = m
<1>1. \A u \in J!Checks : holder = u <=> run[u].step \notin {"none", "wait"}
  BY DEF JobsInv, RunsInv
<1>2. holder = t /\ \A u \in J!Checks : u # t => run[u].step \in {"none", "wait"}
  BY <1>1
<1>3. QED
  BY <1>2 DEF Reporting, Stamping

LEMMA ProcessKeeps ==
    ASSUME J!JobsAssumption, JobsInv, J!Sigterm \/ J!StopBegins \/ J!GraceEnds \/ J!Closes
    PROVE  JobsInv'
<1>1. JobTypes'
  BY DEF JobsInv, JobTypes, J!Sigterm, J!StopBegins, J!GraceEnds, J!Closes, J!time, J!schedule,
         J!changed, J!report, J!Months, J!NotSaving
<1>2. RunsInv' /\ ReportInv'
  <2>1. UNCHANGED <<run, holder, stamp, sent, cut>> /\ clock' = clock
    BY DEF J!Sigterm, J!StopBegins, J!GraceEnds, J!Closes, J!time, J!report
  <2>2. clock' \in clock..MaxClock
    BY <2>1 DEF JobsInv, JobTypes, J!JobsAssumption
  <2>3. phase' \in {"down", "closed"} => \A t \in J!Runs : run[t].step = "none"
    <3>1. CASE J!Sigterm \/ J!StopBegins \/ J!GraceEnds
      BY <3>1 DEF J!Sigterm, J!StopBegins, J!GraceEnds, JobsInv, RunsInv, J!Running
    <3>2. CASE J!Closes
      BY <3>2 DEF J!Closes, JobsInv, RunsInv, J!NoRun, J!Runs
    <3>3. QED
      BY <3>1, <3>2
  <2>4. phase = "starting" => phase' = "starting"
    BY DEF J!Sigterm, J!StopBegins, J!GraceEnds, J!Closes
  <2>5. QED
    BY <2>1, <2>2, <2>3, <2>4, RunsAlone
<1>3. J!TriggerFollowsSettings'
  <2>1. CASE J!Sigterm
    BY <2>1, TriggerKept DEF J!Sigterm, J!schedule, J!Running, J!changed
  <2>2. CASE ~J!Sigterm
    BY <2>2 DEF J!TriggerFollowsSettings, J!Running, J!StopBegins, J!GraceEnds, J!Closes
  <2>3. QED
    BY <2>1, <2>2
<1>4. CheckInv'
  <2>1. CASE J!Sigterm
    BY <2>1, CheckKept DEF J!Sigterm, J!schedule, J!Running, J!time, J!changed
  <2>2. CASE ~J!Sigterm
    BY <2>2 DEF CheckInv, J!Running, J!StopBegins, J!GraceEnds, J!Closes
  <2>3. QED
    BY <2>1, <2>2
<1>5. QED
  BY <1>1, <1>2, <1>3, <1>4 DEF JobsInv

LEMMA HourKeeps ==
    ASSUME J!JobsAssumption, JobsInv, NEW a \in Admins,
           \/ \E h \in 0..HoursPerDay-1 : J!Save(a, h)
           \/ J!Reschedule(a) \/ J!JournalFails(a)
    PROVE  JobsInv'
<1>1. JobTypes'
  <2>1. ASSUME NEW h \in 0..HoursPerDay-1, J!Save(a, h) PROVE JobTypes'
    BY <2>1 DEF JobsInv, JobTypes, J!Save, J!time, J!changed, J!report, J!Months
  <2>2. CASE J!Reschedule(a)
    BY <2>2 DEF JobsInv, JobTypes, J!Reschedule, J!Rescheduled, J!time, J!report, J!Months
  <2>3. CASE J!JournalFails(a)
    BY <2>3 DEF JobsInv, JobTypes, J!JournalFails, J!time, J!report, J!Months, J!changed
  <2>4. QED
    BY <2>1, <2>2, <2>3
<1>2. RunsInv' /\ ReportInv'
  <2>1. UNCHANGED <<run, holder, stamp, sent, cut, phase>> /\ clock' = clock
    BY DEF J!Save, J!Reschedule, J!JournalFails, J!time, J!report
  <2>2. clock' \in clock..MaxClock
    BY <2>1 DEF JobsInv, JobTypes, J!JobsAssumption
  <2>3. phase' \in {"down", "closed"} => \A t \in J!Runs : run[t].step = "none"
    BY <2>1 DEF JobsInv, RunsInv
  <2>4. QED
    BY <2>1, <2>2, <2>3, RunsAlone
<1>3. J!TriggerFollowsSettings'
  <2>1. CASE J!Reschedule(a) \/ J!JournalFails(a)
    BY <2>1 DEF J!Reschedule, J!JournalFails, J!Rescheduled, J!TriggerFollowsSettings
  <2>2. ASSUME NEW h \in 0..HoursPerDay-1, J!Save(a, h) PROVE saving'[a] # J!NotSaving
    BY <2>2 DEF J!Save, JobsInv, JobTypes, J!NotSaving
  <2>3. QED
    BY <2>1, <2>2 DEF J!TriggerFollowsSettings
<1>4. CheckInv'
  <2>1. CASE J!Reschedule(a)
    BY <2>1 DEF CheckInv, J!Reschedule
  <2>2. CASE ~J!Reschedule(a)
    BY <2>2, CheckKept DEF J!Save, J!JournalFails, J!Running, J!time, J!changed
  <2>3. QED
    BY <2>1, <2>2
<1>5. QED
  BY <1>1, <1>2, <1>3, <1>4 DEF JobsInv

\* Nothing is reported or recorded, and no report is forgotten.
LEMMA ReportKept ==
    ASSUME JobsInv, UNCHANGED <<stamp, sent, cut, clock>>,
           \A t \in J!Checks : run'[t].step \in {"send", "stamp"} => run'[t] = run[t],
           \A t \in J!Checks : run[t].step = "stamp" => run'[t] = run[t]
    PROVE  ReportInv'
<1>1. \A t \in J!Checks : Reporting(t)' => stamp' < run'[t].month
                                           /\ run'[t].month <= J!Month(clock')
  BY DEF JobsInv, ReportInv, Reporting
<1>2. \A m : Stamping(m) <=> Stamping(m)'
  BY DEF Stamping
<1>3. QED
  BY <1>1, <1>2 DEF JobsInv, ReportInv, J!Months

\* A run that has no month at hand moves on or ends.
LEMMA PlainMove ==
    ASSUME J!JobsAssumption, JobsInv, NEW t \in J!Runs, run[t].step \in {"work", "due", "send"},
           NEW v, v \in {J!NoRun, J!At("due")}, v = J!At("due") => t \in J!Checks,
           run' = [run EXCEPT ![t] = v],
           IF v = J!NoRun
           THEN /\ holder' = IF holder = t THEN "none" ELSE holder
                /\ phase' = IF t = "startup" THEN "up" ELSE phase
           ELSE UNCHANGED <<holder, phase>>,
           UNCHANGED <<clock, lastCheck, trigger, due, shifted, stamp, sent, cut, online, hour,
                       skipped, saving, starts, saves, failures>>
    PROVE  JobsInv'
<1>1. v = J!At(v.step) /\ RunOk(t, v) /\ v.step \in {"none", "due"}
      /\ (v = J!NoRun <=> v.step = "none")
  BY DEF J!At, J!NoRun, RunOk
<1>2. /\ run'[t] = v /\ \A u \in J!Runs : u # t => run'[u] = run[u]
  BY DEF JobsInv, RunsInv
<1>3. phase \notin {"down", "closed"} /\ (t = "startup" => phase = "starting")
      /\ (t # "startup" => phase' = phase) /\ (t = "startup" => phase' \in {"starting", "up"})
  BY DEF JobsInv, RunsInv
<1>4. RunsInv'
  <2>1. holder \in J!Checks \cup {"none"}
        /\ (t \in J!Checks => holder = t)
    BY DEF JobsInv, RunsInv
  <2>2. "none" \notin J!Checks
    BY DEF J!Checks
  <2>3. /\ holder' \in J!Checks \cup {"none"}
        /\ t \in J!Checks => (holder' = t <=> v.step \notin {"none", "wait"})
        /\ \A u \in J!Checks : u # t => (holder' = u <=> holder = u)
    BY <1>1, <2>1, <2>2
  <2>4. t = "startup" /\ v.step # "none" => phase' = "starting"
    BY <1>1, <1>3
  <2>5. phase' \notin {"down", "closed"}
    BY <1>3
  <2>6. t # "startup" /\ phase = "starting" => phase' = "starting"
    BY <1>3
  <2>7. QED
    BY <1>1, <2>3, <2>4, <2>5, <2>6, OneRunMoves
<1>5. ReportInv'
  <2>1. \A u \in J!Checks : u \in J!Runs
    BY DEF J!Runs, J!Checks, J!Scheduled
  <2>2. QED
    BY <1>1, <1>2, <2>1, ReportKept
<1>6. J!TriggerFollowsSettings' /\ CheckInv'
  <2>1. J!Running' => J!Running
    BY <1>3 DEF J!Running
  <2>2. /\ \A u \in {"daily", "startup"} : run[u].step = "wait" => run'[u].step = "wait"
        /\ run["daily"].step = "none" => run'["daily"].step = "none"
    BY <1>2 DEF J!Runs, J!Scheduled
  <2>3. QED
    BY <2>1, <2>2, TriggerKept, CheckKept
<1>7. JobTypes'
  BY <1>3 DEF JobsInv, JobTypes, J!Months
<1>8. QED
  BY <1>4, <1>5, <1>6, <1>7 DEF JobsInv

LEMMA AcquireJobs ==
    ASSUME J!JobsAssumption, JobsInv, NEW t \in J!Runs, J!Acquire(t)
    PROVE  JobsInv'
<1>1. /\ t \in J!Checks /\ run[t].step = "wait" /\ holder = "none" /\ holder' = t
      /\ run' = [run EXCEPT ![t] = J!At("work")] /\ lastCheck' = clock /\ shifted' = FALSE
      /\ UNCHANGED <<phase, online, clock, starts, hour, trigger, due, saving, saves, failures,
                     stamp, sent, cut, skipped>>
  BY DEF J!Acquire, J!time, J!report
<1>2. J!At("work").step = "work" /\ RunOk(t, J!At("work"))
  BY DEF J!At, RunOk
<1>3. /\ run'[t] = J!At("work") /\ \A u \in J!Runs : u # t => run'[u] = run[u]
  BY <1>1 DEF JobsInv, RunsInv
<1>4. RunsInv'
  <2>1. "none" \notin J!Checks
    BY DEF J!Checks
  <2>2. phase \notin {"down", "closed"} /\ (t = "startup" => phase = "starting")
    BY <1>1 DEF JobsInv, RunsInv
  <2> HIDE DEF J!At
  <2>3. QED
    BY <1>1, <1>2, <2>1, <2>2, OneRunMoves
<1>5. ReportInv'
  <2>1. \A u \in J!Checks : u \in J!Runs
    BY DEF J!Runs, J!Checks, J!Scheduled
  <2>2. QED
    BY <1>1, <1>2, <1>3, <2>1, ReportKept
<1>6. J!TriggerFollowsSettings'
  BY <1>1, TriggerKept DEF J!Running
<1>7. CheckInv'
  <2>1. Since' = Since /\ Since \in 0..(HoursPerDay - 1) /\ HoursPerDay \in Nat
    BY <1>1, HourIs DEF Since, J!HourOf, JobsInv
  <2>2. clock' - lastCheck' = 0 /\ lastCheck' = clock'
    BY <1>1 DEF JobsInv, JobTypes
  <2>3. QED
    BY <2>1, <2>2 DEF CheckInv
<1>8. JobTypes'
  <2>1. clock \in Nat /\ lastCheck' \in 0..clock' /\ stamp' \in 0..J!Month(clock')
    BY <1>1 DEF JobsInv, JobTypes
  <2>2. QED
    BY <1>1, <2>1 DEF JobsInv, JobTypes, J!Months
<1>9. QED
  BY <1>4, <1>5, <1>6, <1>7, <1>8 DEF JobsInv

LEMMA WorkJobs ==
    ASSUME J!JobsAssumption, JobsInv, NEW t \in J!Runs, J!Work(t)
    PROVE  JobsInv'
<1>1. run[t].step = "work" /\ UNCHANGED <<clock, lastCheck, trigger, due, shifted, stamp, sent,
             cut, online, hour, skipped, saving, starts, saves, failures>>
  BY DEF J!Work, J!time, J!schedule, J!report, J!changed
<1>2. CASE t \in J!Checks
  <2>1. J!At("due") # J!NoRun
    BY DEF J!At, J!NoRun
  <2>2. run' = [run EXCEPT ![t] = J!At("due")] /\ UNCHANGED <<holder, phase>>
    BY <1>2 DEF J!Work
  <2> HIDE DEF J!At, J!NoRun
  <2>3. QED
    BY <1>1, <1>2, <2>1, <2>2, PlainMove
<1>3. CASE t \notin J!Checks
  <2>1. J!Ends(t)
    BY <1>3 DEF J!Work
  <2>2. J!NoRun # J!At("due")
    BY DEF J!At, J!NoRun
  <2>3. QED
    BY <1>1, <2>1, <2>2, PlainMove DEF J!Ends
<1>4. QED
  BY <1>2, <1>3

\* The run that holds the lock moves within its report, or ends.
LEMMA ReportMove ==
    ASSUME J!JobsAssumption, JobsInv, NEW t \in J!Checks,
           run[t].step \in {"due", "send", "stamp"},
           NEW v, RunOk(t, v), v.step \in {"none", "send", "stamp"},
           run' = [run EXCEPT ![t] = v], phase' \notin {"down", "closed"},
           v.step = "none" => holder' = (IF holder = t THEN "none" ELSE holder),
           v.step = "none" => phase' = (IF t = "startup" THEN "up" ELSE phase),
           v.step # "none" => UNCHANGED <<holder, phase>>,
           UNCHANGED <<clock, lastCheck, trigger, due, shifted, hour, skipped, saving>>
    PROVE  /\ RunsInv' /\ J!TriggerFollowsSettings' /\ CheckInv'
           /\ \A u \in J!Checks : Reporting(u)' => u = t /\ v.step # "none"
           /\ \A m : Stamping(m)' <=> v.step = "stamp" /\ v.month = m
<1>0. t \in J!Runs
  BY DEF J!Runs, J!Checks, J!Scheduled
<1>1. /\ run'[t] = v /\ \A u \in J!Runs : u # t => run'[u] = run[u]
  BY <1>0 DEF JobsInv, RunsInv
<1>2. (t = "startup" => phase = "starting")
  BY DEF JobsInv, RunsInv
<1>3. holder = t /\ \A u \in J!Checks : u # t => ~Reporting(u)
  BY OneReports
<1>4. RunsInv'
  <2>1. "none" \notin J!Checks
    BY DEF J!Checks
  <2>2. /\ holder' \in J!Checks \cup {"none"}
        /\ t \in J!Checks => (holder' = t <=> v.step \notin {"none", "wait"})
        /\ \A u \in J!Checks : u # t => (holder' = u <=> holder = u)
    BY <1>3, <2>1
  <2>3. /\ t = "startup" /\ v.step # "none" => phase' = "starting"
        /\ t # "startup" /\ phase = "starting" => phase' = "starting"
    BY <1>2
  <2>4. QED
    BY <1>0, <2>2, <2>3, OneRunMoves
<1>5. J!TriggerFollowsSettings' /\ CheckInv'
  <2>1. J!Running' => J!Running
    BY <1>2 DEF J!Running
  <2>2. /\ \A u \in {"daily", "startup"} : run[u].step = "wait" => run'[u].step = "wait"
        /\ run["daily"].step = "none" => run'["daily"].step = "none"
    BY <1>1 DEF J!Runs, J!Scheduled
  <2>3. QED
    BY <2>1, <2>2, TriggerKept, CheckKept
<1>6. \A u \in J!Checks : u # t => ~Reporting(u)'
  <2>1. \A u \in J!Checks : u \in J!Runs
    BY DEF J!Runs, J!Checks, J!Scheduled
  <2>2. QED
    BY <1>1, <1>3, <2>1 DEF Reporting
<1>7. QED
  BY <1>1, <1>4, <1>5, <1>6 DEF Reporting, Stamping

LEMMA DueJobs ==
    ASSUME J!JobsAssumption, JobsInv, NEW t \in J!Runs, J!Due(t)
    PROVE  JobsInv'
<1>1. run[t].step = "due" /\ UNCHANGED <<clock, lastCheck, trigger, due, shifted, stamp, sent,
             cut, online, hour, skipped, saving, starts, saves, failures>>
  BY DEF J!Due, J!time, J!schedule, J!report, J!changed
<1>2. t \in J!Checks /\ RunOk(t, run[t])
  BY <1>1 DEF JobsInv, RunsInv, RunOk
<1>3. CASE J!Ends(t)
  <2>1. J!NoRun # J!At("due")
    BY DEF J!At, J!NoRun
  <2>2. QED
    BY <1>1, <1>3, <2>1, PlainMove DEF J!Ends
<1>4. CASE ~J!Ends(t)
  <2>1. PICK v : v = [step |-> "send", month |-> J!Month(clock)]
    OBVIOUS
  <2>2. run' = [run EXCEPT ![t] = v] /\ UNCHANGED <<holder, phase>> /\ stamp # J!Month(clock)
    BY <1>4, <2>1 DEF J!Due
  <2>3. v.step = "send" /\ v.month = J!Month(clock) /\ v.month \in J!Months /\ RunOk(t, v)
    BY <1>2, <2>1, MonthIs DEF RunOk, JobsInv
  <2>4. phase' \notin {"down", "closed"}
    BY <1>1, <2>2 DEF JobsInv, RunsInv
  <2>5. /\ RunsInv' /\ J!TriggerFollowsSettings' /\ CheckInv'
        /\ \A u \in J!Checks : Reporting(u)' => u = t
        /\ \A m : ~Stamping(m)'
    BY <1>1, <1>2, <2>2, <2>3, <2>4, ReportMove
  <2>6. run'[t] = v
    BY <2>2 DEF JobsInv, RunsInv
  <2>7. stamp < J!Month(clock) /\ J!Month(clock) \in Nat
    BY <2>2, MonthIs DEF JobsInv, JobTypes
  <2>8. \A m : ~Stamping(m)
    BY <1>1, <1>2, OneReports
  <2>9. ReportInv'
    BY <1>1, <2>3, <2>5, <2>6, <2>7, <2>8 DEF JobsInv, ReportInv, J!Months
  <2>10. JobTypes'
    BY <1>1, <2>2 DEF JobsInv, JobTypes, J!Months
  <2>11. QED
    BY <2>5, <2>9, <2>10 DEF JobsInv
<1>5. QED
  BY <1>3, <1>4

LEMMA SendJobs ==
    ASSUME J!JobsAssumption, JobsInv, NEW t \in J!Runs, J!Send(t)
    PROVE  JobsInv'
<1>1. run[t].step = "send" /\ UNCHANGED <<clock, lastCheck, trigger, due, shifted, stamp,
             cut, online, hour, skipped, saving, starts, saves, failures>>
  BY DEF J!Send, J!time, J!schedule, J!changed
<1>2. t \in J!Checks /\ RunOk(t, run[t])
  BY <1>1 DEF JobsInv, RunsInv, RunOk
<1>3. CASE J!Ends(t) /\ UNCHANGED sent
  <2>1. J!NoRun # J!At("due")
    BY DEF J!At, J!NoRun
  <2>2. QED
    BY <1>1, <1>3, <2>1, PlainMove DEF J!Ends
<1>4. CASE ~(J!Ends(t) /\ UNCHANGED sent)
  <2>1. PICK m \in J!Months : m = run[t].month
    BY <1>1, <1>2 DEF RunOk
  <2>2. PICK v : v = [step |-> "stamp", month |-> m]
    OBVIOUS
  <2>3. sent' = [sent EXCEPT ![m] = @ + 1] /\ UNCHANGED <<holder, phase>>
    BY <1>4, <2>1 DEF J!Send
  <2>4. run' = [run EXCEPT ![t] = v]
    <3>1. [run[t] EXCEPT !.step = "stamp"] = v
      BY <1>2, <2>1, <2>2 DEF RunOk
    <3>2. run' = [run EXCEPT ![t] = [run[t] EXCEPT !.step = "stamp"]]
      BY <1>4 DEF J!Send
    <3>3. QED
      BY <3>1, <3>2
  <2>5. v.step = "stamp" /\ v.month = m /\ RunOk(t, v)
    BY <1>2, <2>2 DEF RunOk
  <2>6. phase' \notin {"down", "closed"}
    BY <1>1, <2>3 DEF JobsInv, RunsInv
  <2>7. /\ RunsInv' /\ J!TriggerFollowsSettings' /\ CheckInv'
        /\ \A u \in J!Checks : Reporting(u)' => u = t
        /\ \A n : Stamping(n)' <=> n = m
    BY <1>1, <1>2, <2>3, <2>4, <2>5, <2>6, ReportMove
  <2>8. run'[t] = v
    BY <2>4 DEF JobsInv, RunsInv
  <2>9. stamp < m /\ m <= J!Month(clock)
    BY <1>1, <1>2, <2>1 DEF JobsInv, ReportInv, Reporting
  <2>10. \A n : ~Stamping(n)
    BY <1>1, <1>2, OneReports
  <2>11. ReportInv'
    <3>1. \A u \in J!Checks : Reporting(u)' => stamp' < run'[u].month
                                               /\ run'[u].month <= J!Month(clock')
      BY <1>1, <2>5, <2>7, <2>8, <2>9
    <3>2. sent \in [J!Months -> Nat] /\ cut \in [J!Months -> Nat] /\ stamp \in Int
      BY DEF JobsInv, JobTypes
    <3>3. ASSUME NEW n \in J!Months
          PROVE  sent'[n] <= cut'[n]
                              + (IF Stamping(n)' THEN 1 ELSE 0) + (IF n <= stamp' THEN 1 ELSE 0)
      <4>1. sent[n] <= cut[n] + (IF n <= stamp THEN 1 ELSE 0)
        BY <2>10, <3>2 DEF JobsInv, ReportInv
      <4>2. QED
        BY <1>1, <2>3, <2>7, <3>2, <4>1
    <3>4. QED
      BY <3>1, <3>3 DEF ReportInv, J!Months
  <2>12. JobTypes'
    BY <1>1, <2>3 DEF JobsInv, JobTypes, J!Months
  <2>13. QED
    BY <2>7, <2>11, <2>12 DEF JobsInv
<1>5. QED
  BY <1>3, <1>4

\* A delivered report is recorded, or the record is prevented: the month is not sent again,
\* or once more is allowed.
LEMMA Settles ==
    ASSUME J!JobsAssumption, JobsInv, NEW t \in J!Checks, run[t].step = "stamp",
           UNCHANGED <<sent, clock>>, \A u \in J!Checks : ~Reporting(u)',
           \/ stamp' = run[t].month /\ UNCHANGED cut
           \/ cut' = [cut EXCEPT ![run[t].month] = @ + 1] /\ UNCHANGED stamp
    PROVE  /\ ReportInv' /\ stamp' \in 0..J!Month(clock')
           /\ cut' \in [J!Months -> Nat]
<1>1. PICK m \in J!Months : m = run[t].month
  BY DEF JobsInv, RunsInv, RunOk, J!Runs, J!Checks, J!Scheduled
<1>2. stamp < m /\ m <= J!Month(clock) /\ J!Month(clock) \in Nat /\ m \in Nat
  BY <1>1, MonthIs DEF JobsInv, ReportInv, Reporting
<1>3. /\ sent \in [J!Months -> Nat] /\ cut \in [J!Months -> Nat] /\ stamp \in Nat
      /\ J!Months \subseteq Nat
  BY MonthIs DEF JobsInv, JobTypes
<1>4. \A n : Stamping(n) <=> n = m
  BY <1>1, OneReports
<1>5. \A n : ~Stamping(n)'
  BY DEF Stamping, Reporting
<1>6. ASSUME NEW n \in J!Months
      PROVE  sent'[n] <= cut'[n]
                          + (IF Stamping(n)' THEN 1 ELSE 0) + (IF n <= stamp' THEN 1 ELSE 0)
  <2>1. sent[n] <= cut[n] + (IF n = m THEN 1 ELSE 0) + (IF n <= stamp THEN 1 ELSE 0)
    BY <1>4 DEF JobsInv, ReportInv
  <2>2. sent[n] \in Nat /\ cut[n] \in Nat /\ n \in Nat
    BY <1>3
  <2>3. CASE stamp' = m /\ UNCHANGED cut
    BY <1>2, <1>3, <1>5, <2>1, <2>2, <2>3
  <2>4. CASE cut' = [cut EXCEPT ![m] = @ + 1] /\ UNCHANGED stamp
    <3>1. cut'[n] = IF n = m THEN cut[n] + 1 ELSE cut[n]
      BY <1>3, <2>4
    <3>2. QED
      BY <1>2, <1>3, <1>5, <2>1, <2>2, <2>4, <3>1
  <2>5. QED
    BY <1>1, <2>3, <2>4
<1>7. ReportInv'
  BY <1>6 DEF ReportInv, J!Months
<1>8. stamp' \in 0..J!Month(clock')
  BY <1>1, <1>2, <1>3
<1>9. cut' \in [J!Months -> Nat]
  BY <1>1, <1>3
<1>10. QED
  BY <1>7, <1>8, <1>9

LEMMA StampJobs ==
    ASSUME J!JobsAssumption, JobsInv, NEW t \in J!Runs, J!Stamp(t)
    PROVE  JobsInv'
<1>1. run[t].step = "stamp" /\ J!Ends(t)
      /\ UNCHANGED <<clock, lastCheck, trigger, due, shifted, sent,
                     online, hour, skipped, saving, starts, saves>>
  BY DEF J!Stamp, J!time, J!schedule, J!changed
<1>2. t \in J!Checks
  BY <1>1 DEF JobsInv, RunsInv, RunOk
<1>3. RunOk(t, J!NoRun) /\ J!NoRun.step = "none"
  BY DEF RunOk, J!NoRun
<1>4. /\ run' = [run EXCEPT ![t] = J!NoRun]
      /\ holder' = (IF holder = t THEN "none" ELSE holder)
      /\ phase' = (IF t = "startup" THEN "up" ELSE phase)
  BY <1>1 DEF J!Ends
<1>5. phase' \notin {"down", "closed"} /\ phase' \in {"starting", "up", "stopping", "cancelling"}
  BY <1>1, <1>4 DEF JobsInv, RunsInv, JobTypes
<1> HIDE DEF J!NoRun
<1>6. /\ RunsInv' /\ J!TriggerFollowsSettings' /\ CheckInv'
      /\ \A u \in J!Checks : ~Reporting(u)'
  BY <1>1, <1>2, <1>3, <1>4, <1>5, ReportMove
<1>7. ReportInv' /\ stamp' \in 0..J!Month(clock') /\ cut' \in [J!Months -> Nat]
  BY <1>1, <1>2, <1>6, Settles DEF J!Stamp
<1>8. failures' \in Nat
  BY DEF J!Stamp, JobsInv, JobTypes
<1>9. JobTypes'
  BY <1>1, <1>5, <1>7, <1>8 DEF JobsInv, JobTypes, J!Months
<1>10. QED
  BY <1>6, <1>7, <1>9 DEF JobsInv

LEMMA CancelledJobs ==
    ASSUME J!JobsAssumption, JobsInv, NEW t \in J!Runs, J!Cancelled(t)
    PROVE  JobsInv'
<1>1. /\ phase = "cancelling" /\ t \in J!Scheduled /\ run' = [run EXCEPT ![t] = J!NoRun]
      /\ holder' = IF holder = t THEN "none" ELSE holder
      /\ UNCHANGED <<clock, lastCheck, trigger, due, shifted, sent, phase,
                     online, hour, skipped, saving, starts, saves, failures>>
  BY DEF J!Cancelled, J!time, J!schedule, J!changed, J!report
<1>2. RunOk(t, J!NoRun) /\ J!NoRun.step = "none" /\ t # "startup"
  BY <1>1 DEF RunOk, J!NoRun, J!Scheduled
<1>3. /\ run'[t] = J!NoRun /\ \A u \in J!Runs : u # t => run'[u] = run[u]
  BY <1>1 DEF JobsInv, RunsInv
<1>4. RunsInv'
  <2>1. "none" \notin J!Checks /\ holder \in J!Checks \cup {"none"}
    BY DEF J!Checks, JobsInv, RunsInv
  <2> HIDE DEF J!NoRun
  <2>2. QED
    BY <1>1, <1>2, <2>1, OneRunMoves
<1>5. J!TriggerFollowsSettings' /\ CheckInv'
  BY <1>1 DEF J!TriggerFollowsSettings, CheckInv, J!Running
<1>6. \A u \in J!Checks : u \in J!Runs
  BY DEF J!Runs, J!Checks, J!Scheduled
<1>7. ReportInv' /\ stamp' \in 0..J!Month(clock') /\ cut' \in [J!Months -> Nat]
  <2>1. CASE run[t].step # "stamp"
    <3>1. UNCHANGED <<stamp, cut>>
      BY <2>1 DEF J!Cancelled, J!report
    <3>2. ReportInv'
      BY <1>1, <1>2, <1>3, <1>6, <2>1, <3>1, ReportKept
    <3>3. QED
      BY <1>1, <3>1, <3>2 DEF JobsInv, JobTypes
  <2>2. CASE run[t].step = "stamp"
    <3>1. t \in J!Checks
      BY <2>2 DEF JobsInv, RunsInv, RunOk
    <3>2. \A u \in J!Checks : ~Reporting(u)'
      BY <1>2, <1>3, <1>6, <2>2, <3>1, OneReports DEF Reporting
    <3>3. QED
      BY <1>1, <2>2, <3>1, <3>2, Settles DEF J!Cancelled
  <2>3. QED
    BY <2>1, <2>2
<1>8. JobTypes'
  BY <1>1, <1>7 DEF JobsInv, JobTypes, J!Months
<1>9. QED
  BY <1>4, <1>5, <1>7, <1>8 DEF JobsInv

LEMMA FireHourlyJobs ==
    ASSUME J!JobsAssumption, JobsInv, J!FireHourly
    PROVE  JobsInv'
<1>1. /\ J!Running /\ run["hourly"] = J!NoRun /\ run' = [run EXCEPT !["hourly"] = J!At("work")]
      /\ UNCHANGED <<phase, online, clock, starts, hour, trigger, due, saving, saves, shifted,
                     skipped, holder, stamp, sent, cut, failures, lastCheck>>
  BY DEF J!FireHourly, J!time, J!schedule, J!changed, J!report
<1>2. RunOk("hourly", J!At("work")) /\ "hourly" \in J!Runs /\ "hourly" \notin J!Checks
  BY DEF RunOk, J!At, J!Runs, J!Checks, J!Scheduled
<1>3. \A u \in J!Runs : u # "hourly" => run'[u] = run[u]
  BY <1>1 DEF JobsInv, RunsInv
<1>4. RunsInv'
  <2>1. holder' \in J!Checks \cup {"none"} /\ phase' \notin {"down", "closed"}
    BY <1>1 DEF JobsInv, RunsInv, J!Running
  <2> HIDE DEF J!At
  <2>2. QED
    BY <1>1, <1>2, <2>1, OneRunMoves
<1>5. ReportInv'
  <2>1. \A u \in J!Checks : u \in J!Runs /\ u # "hourly"
    BY DEF J!Runs, J!Checks, J!Scheduled
  <2>2. QED
    BY <1>1, <1>3, <2>1, ReportKept
<1>6. J!TriggerFollowsSettings' /\ CheckInv'
  BY <1>1, <1>3, TriggerKept, CheckKept DEF J!Running, J!Runs, J!Scheduled
<1>7. JobTypes'
  BY <1>1 DEF JobsInv, JobTypes, J!Months
<1>8. QED
  BY <1>4, <1>5, <1>6, <1>7 DEF JobsInv

LEMMA FireDailyJobs ==
    ASSUME J!JobsAssumption, JobsInv, J!FireDaily
    PROVE  JobsInv'
<1>1. /\ J!Running /\ due /\ due' = FALSE
      /\ UNCHANGED <<phase, online, clock, starts, hour, trigger, saving, saves, shifted,
                     skipped, holder, stamp, sent, cut, failures, lastCheck>>
  BY DEF J!FireDaily, J!time, J!changed, J!report
<1>2. PICK d, m : /\ d = IF run["daily"] = J!NoRun THEN J!At("wait") ELSE run["daily"]
                  /\ m = IF run["maintenance"] = J!NoRun THEN J!At("work")
                         ELSE run["maintenance"]
  OBVIOUS
<1>3. /\ run'["daily"] = d /\ run'["maintenance"] = m
      /\ run'["hourly"] = run["hourly"] /\ run'["startup"] = run["startup"]
      /\ run' = [u \in J!Runs |-> run'[u]]
  <2>1. run' = [run EXCEPT !["daily"] = d, !["maintenance"] = m]
    BY <1>2 DEF J!FireDaily
  <2>2. run = [u \in J!Runs |-> run[u]]
    BY DEF JobsInv, RunsInv
  <2>3. QED
    BY <2>1, <2>2 DEF J!Runs, J!Scheduled
<1>4. \A u \in J!Runs : RunOk(u, run[u])
  BY DEF JobsInv, RunsInv
<1>5. J!Runs = {"daily", "maintenance", "hourly", "startup"} /\ J!Checks = {"daily", "startup"}
  BY DEF J!Runs, J!Scheduled, J!Checks
<1>6. RunOk("daily", J!At("wait")) /\ RunOk("maintenance", J!At("work"))
  BY DEF RunOk, J!At, J!Checks
<1>7. /\ J!At("wait").step = "wait" /\ J!NoRun.step = "none"
      /\ run["daily"].step = "none" => run["daily"] = J!NoRun
  BY <1>4, <1>5 DEF J!At, J!NoRun, RunOk
<1> HIDE DEF J!At, J!NoRun
<1>8. RunOk("daily", d) /\ RunOk("maintenance", m)
  BY <1>2, <1>4, <1>5, <1>6
<1>9. RunsInv'
  <2>1. \A u \in J!Runs : RunOk(u, run'[u])
    BY <1>3, <1>4, <1>5, <1>8
  <2>2. \A u \in J!Runs : RunOk(u, run[u])'
    BY <2>1 DEF RunOk, J!Months, J!Checks
  <2>3. d.step \notin {"none", "wait"} <=> run["daily"].step \notin {"none", "wait"}
    BY <1>2, <1>7
  <2>4. QED
    BY <1>1, <1>3, <1>5, <2>2, <2>3 DEF JobsInv, RunsInv, J!Running
<1>10. ReportInv'
  <2>1. /\ run'["daily"] = d /\ run'["startup"] = run["startup"]
        /\ d = run["daily"] \/ (d.step = "wait" /\ run["daily"].step = "none")
    BY <1>2, <1>3, <1>5, <1>7
  <2>2. ASSUME NEW u \in J!Checks
        PROVE  run'[u] = run[u] \/ (run'[u].step = "wait" /\ run[u].step = "none")
    <3>1. u = "daily" \/ u = "startup"
      BY <1>5
    <3>2. QED
      BY <2>1, <3>1
  <2>3. QED
    BY <1>1, <2>2, ReportKept
<1>11. J!TriggerFollowsSettings'
  BY <1>1, TriggerKept DEF J!Running
<1>12. CheckInv'
  <2>1. Since' = Since /\ Since \in 0..(HoursPerDay - 1) /\ HoursPerDay \in Nat
    BY <1>1, HourIs DEF Since, J!HourOf, JobsInv
  <2>2. ASSUME ~shifted, run'["daily"].step # "wait" PROVE clock - lastCheck <= Since
    <3>1. run["daily"].step # "none"
      BY <1>2, <1>3, <1>7, <2>2
    <3>2. lastCheck = clock
      BY <1>1, <2>2, <3>1 DEF JobsInv, CheckInv
    <3>3. QED
      BY <2>1, <3>2 DEF JobsInv, JobTypes
  <2>3. QED
    BY <1>1, <2>1, <2>2 DEF CheckInv
<1>13. JobTypes'
  BY <1>1 DEF JobsInv, JobTypes, J!Months
<1>14. QED
  BY <1>9, <1>10, <1>11, <1>12, <1>13 DEF JobsInv

LEMMA NoneRuns ==
    ASSUME NEW t \in J!Runs
    PROVE  J!AllDone[t] = J!NoRun /\ J!NoRun.step = "none" /\ RunOk(t, J!NoRun)
           /\ J!AllDone = [u \in J!Runs |-> J!AllDone[u]]
  BY DEF J!AllDone, J!NoRun, RunOk

LEMMA BootJobs ==
    ASSUME J!JobsAssumption, JobsInv, J!Boot
    PROVE  JobsInv'
<1>1. /\ phase = "down" /\ phase' = "starting" /\ online' = TRUE /\ starts' = starts + 1
      /\ trigger' = hour /\ due' \in BOOLEAN /\ skipped' = FALSE
      /\ run' = [J!AllDone EXCEPT !["startup"] = J!At("wait")]
      /\ UNCHANGED <<clock, hour, saving, saves, shifted, holder, stamp, sent, cut, failures,
                     lastCheck>>
  BY DEF J!Boot, J!report
<1>2. J!Runs = {"daily", "maintenance", "hourly", "startup"} /\ J!Checks = {"daily", "startup"}
  BY DEF J!Runs, J!Scheduled, J!Checks
<1>3. /\ run' = [u \in J!Runs |-> run'[u]] /\ run'["startup"] = J!At("wait")
      /\ \A u \in J!Runs : u # "startup" => run'[u] = J!NoRun
  BY <1>1, <1>2 DEF J!AllDone
<1>4. RunOk("startup", J!At("wait")) /\ J!At("wait").step = "wait"
  BY <1>2 DEF RunOk, J!At
<1>5. \A t \in J!Runs : RunOk(t, J!NoRun) /\ J!NoRun.step = "none"
  BY NoneRuns
<1>6. \A t \in J!Runs : run[t].step = "none"
  BY <1>1 DEF JobsInv, RunsInv
<1> HIDE DEF J!At, J!NoRun
<1>7. RunsInv'
  <2>1. \A u \in J!Runs : RunOk(u, run'[u])
    BY <1>2, <1>3, <1>4, <1>5
  <2>2. \A u \in J!Runs : RunOk(u, run[u])'
    BY <2>1 DEF RunOk, J!Months, J!Checks
  <2>3. holder = "none"
    BY <1>2, <1>6 DEF JobsInv, RunsInv
  <2>4. QED
    BY <1>1, <1>2, <1>3, <1>4, <1>5, <2>2, <2>3 DEF RunsInv
<1>8. ReportInv'
  <2>1. \A u \in J!Checks : run'[u].step \in {"none", "wait"} /\ run[u].step = "none"
    BY <1>2, <1>3, <1>4, <1>5, <1>6
  <2>2. QED
    BY <1>1, <2>1, ReportKept
<1>9. J!TriggerFollowsSettings'
  BY <1>1 DEF J!TriggerFollowsSettings
<1>10. CheckInv'
  BY <1>2, <1>3, <1>4, <1>5 DEF CheckInv
<1>11. JobTypes'
  <2>1. JobTypes
    BY DEF JobsInv
  <2>2. starts' \in Nat /\ saves' \in Nat /\ failures' \in Nat
    BY <1>1, <2>1 DEF JobTypes
  <2>3. phase' \in {"down", "starting", "up", "stopping", "cancelling", "closed"}
    BY <1>1
  <2>4. /\ online' \in BOOLEAN /\ due' \in BOOLEAN /\ shifted' \in BOOLEAN /\ skipped' \in BOOLEAN
        /\ hour' \in 0..(HoursPerDay - 1) /\ trigger' \in 0..(HoursPerDay - 1)
        /\ saving' \in [Admins -> 0..(HoursPerDay - 1) \cup {J!NotSaving}]
    BY <1>1, <2>1 DEF JobTypes
  <2>5. clock' \in 0..MaxClock /\ lastCheck' \in 0..clock'
    BY <1>1, <2>1 DEF JobTypes
  <2>6. /\ stamp' \in 0..J!Month(clock')
        /\ sent' \in [J!Months -> Nat] /\ cut' \in [J!Months -> Nat]
    BY <1>1, <2>1 DEF JobTypes
  <2>7. QED
    BY <2>2, <2>3, <2>4, <2>5, <2>6 DEF JobTypes, J!Months
<1>12. QED
  BY <1>7, <1>8, <1>9, <1>10, <1>11 DEF JobsInv

LEMMA EndsJobs ==
    ASSUME J!JobsAssumption, JobsInv, J!ProcessEnds
    PROVE  JobsInv'
<1>1. /\ phase' = "down" /\ run' = J!AllDone /\ holder' = "none" /\ due' = FALSE
      /\ saving' = [a \in Admins |-> J!NotSaving]
      /\ UNCHANGED <<online, clock, starts, hour, trigger, saves, shifted, skipped, stamp, sent,
                     failures, lastCheck>>
      /\ cut' = [m \in J!Months |->
                   IF \E t \in J!Runs : run[t] = [step |-> "stamp", month |-> m]
                   THEN cut[m] + 1 ELSE cut[m]]
  BY DEF J!ProcessEnds, J!time, J!changed
<1>2. J!Runs = {"daily", "maintenance", "hourly", "startup"} /\ J!Checks = {"daily", "startup"}
  BY DEF J!Runs, J!Scheduled, J!Checks
<1>3. \A t \in J!Runs : RunOk(t, run[t])
  BY DEF JobsInv, RunsInv
<1>4. RunsInv'
  <2>1. \A u \in J!Runs : RunOk(u, run'[u]) /\ run'[u].step = "none"
    BY <1>1, NoneRuns
  <2>2. \A u \in J!Runs : RunOk(u, run[u])'
    BY <2>1 DEF RunOk, J!Months, J!Checks
  <2>3. run' = [u \in J!Runs |-> run'[u]]
    BY <1>1, <1>2, NoneRuns
  <2>4. "none" \notin J!Checks
    BY <1>2
  <2>5. QED
    BY <1>1, <1>2, <2>1, <2>2, <2>3, <2>4 DEF RunsInv
<1>5. ReportInv'
  <2>1. \A u \in J!Checks : ~Reporting(u)'
    BY <1>1, <1>2, NoneRuns DEF Reporting
  <2>2. \A m : ~Stamping(m)'
    BY <2>1 DEF Stamping, Reporting
  <2>3. sent \in [J!Months -> Nat] /\ cut \in [J!Months -> Nat]
    BY DEF JobsInv, JobTypes
  <2>4. ASSUME NEW m \in J!Months
        PROVE  sent'[m] <= cut'[m]
                            + (IF Stamping(m)' THEN 1 ELSE 0) + (IF m <= stamp' THEN 1 ELSE 0)
    <3>1. sent[m] <= cut[m] + (IF Stamping(m) THEN 1 ELSE 0) + (IF m <= stamp THEN 1 ELSE 0)
      BY DEF JobsInv, ReportInv
    <3>2. CASE Stamping(m)
      <4>1. \E t \in J!Runs : run[t] = [step |-> "stamp", month |-> m]
        BY <1>2, <1>3, <3>2 DEF Stamping, RunOk
      <4>2. cut'[m] = cut[m] + 1
        BY <1>1, <4>1
      <4>3. QED
        BY <1>1, <2>2, <2>3, <3>1, <3>2, <4>2
    <3>3. CASE ~Stamping(m)
      <4>1. cut'[m] \in {cut[m], cut[m] + 1}
        BY <1>1
      <4>2. QED
        BY <1>1, <2>2, <2>3, <3>1, <3>3, <4>1
    <3>4. QED
      BY <3>2, <3>3
  <2>5. QED
    BY <2>1, <2>4 DEF ReportInv, J!Months
<1>6. J!TriggerFollowsSettings' /\ CheckInv'
  BY <1>1 DEF J!TriggerFollowsSettings, CheckInv, J!Running
<1>7. JobTypes'
  <2>1. cut' \in [J!Months -> Nat]
    BY <1>1 DEF JobsInv, JobTypes
  <2>2. saving' \in [Admins -> 0..(HoursPerDay - 1) \cup {J!NotSaving}]
    BY <1>1
  <2>3. QED
    BY <1>1, <2>1, <2>2 DEF JobsInv, JobTypes, J!Months
<1>8. QED
  BY <1>4, <1>5, <1>6, <1>7 DEF JobsInv

-----------------------------------------------------------------------------

LEMMA JobsStart == ASSUME J!JobsAssumption, J!Init PROVE JobsInv
<1>1. HoursPerDay \in Nat \ {0} /\ MaxClock \in Nat
  BY DEF J!JobsAssumption
<1>2. J!Month(0) \in Nat /\ J!Month(0) >= 1
  BY MonthsGrow, 0 \in Nat
<1>3. JobTypes
  <2>1. /\ phase = "down" /\ online = FALSE /\ clock = 0 /\ hour \in 0..(HoursPerDay - 1)
        /\ trigger = hour /\ due = FALSE /\ stamp = 0 /\ starts = 0 /\ saves = 0 /\ failures = 0
        /\ lastCheck = 0 /\ shifted = FALSE /\ skipped = FALSE
    BY DEF J!Init
  <2>2. sent \in [J!Months -> Nat] /\ cut \in [J!Months -> Nat]
    BY DEF J!Init
  <2>3. saving \in [Admins -> 0..(HoursPerDay - 1) \cup {J!NotSaving}]
    BY DEF J!Init
  <2>4. stamp \in 0..J!Month(clock)
    BY <1>2, <2>1
  <2>5. /\ phase \in {"down", "starting", "up", "stopping", "cancelling", "closed"}
        /\ online \in BOOLEAN /\ due \in BOOLEAN /\ shifted \in BOOLEAN /\ skipped \in BOOLEAN
    BY <2>1
  <2>6. /\ clock \in 0..MaxClock /\ lastCheck \in 0..clock /\ trigger \in 0..(HoursPerDay - 1)
        /\ starts \in Nat /\ saves \in Nat /\ failures \in Nat
    BY <1>1, <2>1
  <2>7. QED
    BY <2>1, <2>2, <2>3, <2>4, <2>5, <2>6 DEF JobTypes
<1>4. J!Checks \subseteq J!Runs /\ "none" \notin J!Checks /\ "startup" \in J!Runs
  BY DEF J!Runs, J!Checks, J!Scheduled
<1>5. \A t \in J!Runs : run[t] = J!NoRun /\ run[t].step = "none" /\ RunOk(t, run[t])
  BY NoneRuns DEF J!Init
<1>6. RunsInv
  <2>1. run = [t \in J!Runs |-> run[t]] /\ holder = "none" /\ phase = "down"
    BY <1>4, NoneRuns DEF J!Init
  <2>2. QED
    BY <1>4, <1>5, <2>1 DEF RunsInv
<1>7. ReportInv
  <2>1. \A m \in J!Months : sent[m] = 0 /\ cut[m] = 0 /\ m \in Nat /\ m >= 1
    BY <1>3, MonthIs DEF J!Init
  <2>2. \A t \in J!Checks : ~Reporting(t)
    BY <1>4, <1>5 DEF Reporting
  <2>3. QED
    BY <1>1, <2>1, <2>2 DEF ReportInv, J!Init
<1>8. J!TriggerFollowsSettings /\ CheckInv
  BY DEF J!Init, J!TriggerFollowsSettings, CheckInv, J!Running
<1>9. QED
  BY <1>3, <1>6, <1>7, <1>8 DEF JobsInv

LEMMA JobsStep == ASSUME J!JobsAssumption, JobsInv, [J!Next]_(J!vars) PROVE JobsInv'
<1>1. CASE UNCHANGED J!vars
  <2>1. UNCHANGED <<run, holder, stamp, sent, cut, phase, clock, online, hour, trigger, due,
                    saving, starts, saves, failures, lastCheck, shifted, skipped>>
    BY <1>1 DEF J!vars
  <2>2. JobTypes' /\ CheckInv' /\ J!TriggerFollowsSettings'
    BY <2>1 DEF JobsInv, JobTypes, CheckInv, J!TriggerFollowsSettings, Since, J!HourOf,
                J!Running, J!Months
  <2>3. clock' \in clock..MaxClock
    BY <2>1 DEF JobsInv, JobTypes, J!JobsAssumption
  <2>4. phase' \in {"down", "closed"} => \A t \in J!Runs : run[t].step = "none"
    BY <2>1 DEF JobsInv, RunsInv
  <2>5. QED
    BY <2>1, <2>2, <2>3, <2>4, RunsAlone DEF JobsInv
<1>2. CASE J!Next
  BY <1>2, TickJobs, ProcessKeeps, HourKeeps, AcquireJobs, WorkJobs, DueJobs, SendJobs,
     StampJobs, CancelledJobs, FireHourlyJobs, FireDailyJobs, BootJobs, EndsJobs
     DEF J!Next, J!TaskStep
<1>3. QED
  BY <1>1, <1>2

LEMMA JobsFollow == ASSUME J!JobsAssumption, JobsInv PROVE J!JobsKeepTheirDays
<1>1. \A t \in J!Runs : RunOk(t, run[t])
  BY DEF JobsInv, RunsInv
<1>2. J!Runs = {"daily", "maintenance", "hourly", "startup"} /\ J!Checks = {"daily", "startup"}
  BY DEF J!Runs, J!Scheduled, J!Checks
<1>3. J!TypeOK
  <2>1. stamp \in J!Months \cup {0}
    <3>1. J!Month(clock) \in J!Months
      BY MonthIs DEF JobsInv
    <3>2. stamp \in 0..J!Month(clock)
      BY DEF JobsInv, JobTypes
    <3>3. MaxClock \in Nat /\ 0 \in Nat /\ 0 <= MaxClock
      BY DEF J!JobsAssumption
    <3>4. J!Month(MaxClock) \in Nat
      BY <3>3, MonthsGrow
    <3>5. \A i \in 0..J!Month(clock) : i = 0 \/ i \in 1..J!Month(MaxClock)
      <4> HIDE DEF J!Month
      <4>1. J!Month(clock) \in 1..J!Month(MaxClock)
        BY <3>1 DEF J!Months
      <4>2. QED
        BY <3>4, <4>1
    <3>6. QED
      BY <3>2, <3>5 DEF J!Months
  <2>2. \A t \in J!Runs : /\ run[t].step \in {"none", "wait", "work", "due", "send", "stamp"}
                          /\ run[t].month \in J!Months \cup {0}
    BY <1>1 DEF RunOk
  <2>3. /\ holder \in J!Checks \cup {"none"}
        /\ holder # "none" => run[holder].step \notin {"none", "wait"}
    BY DEF JobsInv, RunsInv
  <2>4. run["startup"] # J!NoRun => phase = "starting"
    BY <1>1, <1>2 DEF JobsInv, RunsInv, RunOk, J!NoRun
  <2>5. QED
    BY <2>1, <2>2, <2>3, <2>4 DEF JobsInv, JobTypes, J!TypeOK
<1>4. J!ReportedOnce
  <2>1. ASSUME NEW m \in J!Months PROVE sent[m] <= 1 + cut[m]
    <3>1. sent[m] <= cut[m] + (IF Stamping(m) THEN 1 ELSE 0) + (IF m <= stamp THEN 1 ELSE 0)
          /\ sent[m] \in Nat /\ cut[m] \in Nat /\ stamp \in Nat
      BY DEF JobsInv, ReportInv, JobTypes
    <3>2. Stamping(m) => stamp < m
      BY DEF JobsInv, ReportInv, Stamping, Reporting
    <3>3. m \in Nat
      BY MonthIs DEF JobsInv
    <3>4. QED
      BY <3>1, <3>2, <3>3
  <2>2. QED
    BY <2>1 DEF J!ReportedOnce
<1>5. J!NothingAfterClose
  BY <1>1 DEF JobsInv, RunsInv, RunOk, J!NothingAfterClose, J!NoRun
<1>6. J!CheckedEveryDay
  <2>1. Since \in 0..(HoursPerDay - 1) /\ HoursPerDay \in Nat
    BY HourIs DEF JobsInv
  <2>2. clock \in Nat /\ lastCheck \in Nat
    BY DEF JobsInv, JobTypes
  <2>3. J!NoRun.step = "none"
    BY DEF J!NoRun
  <2>4. phase = "up" => run["startup"].step # "wait"
    BY <1>1, <1>2 DEF JobsInv, RunsInv
  <2>5. QED
    BY <2>1, <2>2, <2>3, <2>4 DEF JobsInv, CheckInv, J!CheckedEveryDay, J!Running
<1>7. QED
  BY <1>3, <1>4, <1>5, <1>6 DEF JobsInv, J!JobsKeepTheirDays

\* A month is reported once, but for deliveries whose record was prevented; the scheduler
\* has the hour of the settings; no job outlives the database; and a bot that is up was
\* checked within the day (run_checks, monthly_report_if_due, reschedule, stop).
THEOREM DaysAreKept == ASSUME J!JobsAssumption PROVE J!Spec => []J!JobsKeepTheirDays
<1>1. J!Init => JobsInv
  BY JobsStart
<1>2. JobsInv /\ [J!Next]_(J!vars) => JobsInv'
  BY JobsStep
<1>3. JobsInv => J!JobsKeepTheirDays
  BY JobsFollow
<1>4. QED
  BY <1>1, <1>2, <1>3, PTL DEF J!Spec

-----------------------------------------------------------------------------
(* The start: what a database has from the file that was found *)

\* The charges that an order may have of its own.
OwnCharges(o) == {<<>>, <<"c">>, <<"c", o>>}

\* The migrations from version f to version v, in order.
UpTo(f, v) == [i \in 1..(v - f) |-> f + i]

\* The version v of the rows follows from what was found and applied.
Stamped(db, v) ==
    \/ db.applied = <<>> /\ (v = first.version \/ (v = U!Latest /\ first.version = 0))
    \/ v > first.version /\ db.applied = UpTo(first.version, v)

\* The charge of an order once duplicates are tagged.
Tag(o) ==
    LET was == first.orders[o].charge IN
    IF \E p \in U!Ids : p < o /\ first.orders[p].charge = was /\ was # <<>>
    THEN Append(was, o) ELSE was

ChargesOf(db) ==
    \/ \A o \in U!Ids : db.orders[o].charge = first.orders[o].charge
    \/ \A o \in U!Ids : db.orders[o].charge = Tag(o)

TermsOf(db) ==
    \A s \in U!Ids : first.subs[s].active =>
        \E t \in U!Ids : db.subs[t].active /\ first.subs[s].ends <= db.subs[t].ends

InvoiceOf(db) == db.invoice.terms /\ ~first.invoice.terms => db.invoice.status # "pending"

IndexesHold(db) == \A i \in db.indexes : U!Unique(db, i)

\* What the rows are like from version v on, as Migrations!RowsOf has it.
DataOf(db, v) ==
    /\ v >= 5 => db.invoice.terms
    /\ \A o \in U!Ids :
          /\ v >= 3 /\ db.orders[o].status \in U!Confirmed => db.orders[o].paid
          /\ v >= 4 /\ db.orders[o].paid /\ db.orders[o].status \in {"refunded", "rejected"}
                => db.orders[o].reversed
          /\ v >= 9 /\ ~db.erased /\ db.orders[o].charge # <<>> => db.orders[o].recipient
    /\ v >= 11 /\ ~db.erased => \A r \in db.refunds : r.telegram => r.user

\* What rows of version v have from the file that was found.
Rows(db, v) ==
    DataOf(db, v) /\ ChargesOf(db) /\ TermsOf(db) /\ InvoiceOf(db) /\ IndexesHold(db)

Inherits(db, v) ==
    Stamped(db, v) /\ {i \in U!Adding : i <= v} \subseteq db.columns /\ Rows(db, v)

Found == first \in U!Files /\ \A o \in U!Ids : first.orders[o].charge \in OwnCharges(o)

-----------------------------------------------------------------------------
(* What the statements leave *)

SameSchema(db, new) ==
    /\ new.version = db.version /\ new.objects = db.objects /\ new.columns = db.columns
    /\ new.indexes = db.indexes /\ new.applied = db.applied /\ new.erased = db.erased

\* A file with other orders, other subscriptions, another invoice or other refunds.
LEMMA OrdersSet ==
    ASSUME NEW db \in U!Files, NEW data \in [U!Ids -> U!OrderRows]
    PROVE  LET new == [db EXCEPT !.orders = data] IN
           /\ new \in U!Files /\ SameSchema(db, new) /\ new.orders = data
           /\ new.subs = db.subs /\ new.invoice = db.invoice /\ new.refunds = db.refunds
  BY DEF U!Files, SameSchema

LEMMA SubsSet ==
    ASSUME NEW db \in U!Files, NEW data \in [U!Ids -> U!SubRows]
    PROVE  LET new == [db EXCEPT !.subs = data] IN
           /\ new \in U!Files /\ SameSchema(db, new) /\ new.subs = data
           /\ new.orders = db.orders /\ new.invoice = db.invoice /\ new.refunds = db.refunds
  BY DEF U!Files, SameSchema

LEMMA InvoiceSet ==
    ASSUME NEW db \in U!Files, NEW row \in U!InvoiceRows
    PROVE  LET new == [db EXCEPT !.invoice = row] IN
           /\ new \in U!Files /\ SameSchema(db, new) /\ new.invoice = row
           /\ new.orders = db.orders /\ new.subs = db.subs /\ new.refunds = db.refunds
  BY DEF U!Files, SameSchema

LEMMA RefundsSet ==
    ASSUME NEW db \in U!Files, NEW data \in SUBSET U!RefundRows
    PROVE  LET new == [db EXCEPT !.refunds = data] IN
           /\ new \in U!Files /\ SameSchema(db, new) /\ new.refunds = data
           /\ new.orders = db.orders /\ new.subs = db.subs /\ new.invoice = db.invoice
  BY DEF U!Files, SameSchema

\* The fields of a file.
LEMMA FileFields ==
    ASSUME NEW db \in U!Files
    PROVE  /\ db.version \in 0..12 /\ db.objects \subseteq U!Objects
           /\ db.columns \subseteq U!Adding /\ db.indexes \subseteq U!Indexes
           /\ db.orders \in [U!Ids -> U!OrderRows] /\ db.subs \in [U!Ids -> U!SubRows]
           /\ db.invoice \in U!InvoiceRows /\ db.refunds \subseteq U!RefundRows
           /\ db.erased \in BOOLEAN /\ db.applied \in Seq(1..11)
  BY DEF U!Files, U!Latest

\* An order with one of its fields set.
LEMMA OrderSet ==
    ASSUME NEW r \in U!OrderRows
    PROVE  /\ \A c \in U!Charges : LET new == [r EXCEPT !.charge = c] IN
                /\ new \in U!OrderRows /\ new.charge = c /\ new.status = r.status
                /\ new.paid = r.paid /\ new.reversed = r.reversed /\ new.recipient = r.recipient
           /\ \A b \in BOOLEAN : LET new == [r EXCEPT !.paid = b] IN
                /\ new \in U!OrderRows /\ new.charge = r.charge /\ new.status = r.status
                /\ new.paid = b /\ new.reversed = r.reversed /\ new.recipient = r.recipient
           /\ \A b \in BOOLEAN : LET new == [r EXCEPT !.reversed = b] IN
                /\ new \in U!OrderRows /\ new.charge = r.charge /\ new.status = r.status
                /\ new.paid = r.paid /\ new.reversed = b /\ new.recipient = r.recipient
           /\ \A b \in BOOLEAN : LET new == [r EXCEPT !.recipient = b] IN
                /\ new \in U!OrderRows /\ new.charge = r.charge /\ new.status = r.status
                /\ new.paid = r.paid /\ new.reversed = r.reversed /\ new.recipient = b
  BY DEF U!OrderRows

LEMMA OrderFields ==
    ASSUME NEW r \in U!OrderRows
    PROVE  /\ r.charge \in U!Charges /\ r.paid \in BOOLEAN /\ r.reversed \in BOOLEAN
           /\ r.recipient \in BOOLEAN /\ r.status \in U!Statuses
  BY DEF U!OrderRows

LEMMA AppendTag == Append(<<"c">>, 2) = <<"c", 2>>
<1> DEFINE S == {"c", 2}
<1>1. <<"c">> \in Seq(S) /\ <<"c", 2>> \in Seq(S) /\ 2 \in S
  OBVIOUS
<1>2. /\ Len(<<"c">>) = 1 /\ <<"c">>[1] = "c" /\ Len(<<"c", 2>>) = 2
      /\ <<"c", 2>>[1] = "c" /\ <<"c", 2>>[2] = 2
  OBVIOUS
<1> HIDE DEF S
<1>3. PICK t : t = Append(<<"c">>, 2)
  OBVIOUS
<1>4. t \in Seq(S) /\ Len(t) = Len(<<"c">>) + 1 /\ t[Len(<<"c">>) + 1] = 2
      /\ \A i \in 1..Len(<<"c">>) : t[i] = <<"c">>[i]
  BY <1>1, <1>3, AppendProperties
<1>5. Len(t) = 2 /\ t[1] = "c" /\ t[2] = 2
  BY <1>2, <1>4
<1>6. \A i \in 1..Len(t) : t[i] = <<"c", 2>>[i]
  BY <1>2, <1>5
<1>7. t = <<"c", 2>>
  BY <1>1, <1>2, <1>4, <1>5, <1>6, SeqEqual
<1>8. QED
  BY <1>3, <1>7

\* Duplicates are tagged once: again, there is nothing to tag.
LEMMA Tagging ==
    ASSUME NEW db \in U!Files, Found, ChargesOf(db)
    PROVE  LET new == U!TaggedDuplicates(db) IN
           /\ new \in U!Files /\ SameSchema(db, new)
           /\ new.subs = db.subs /\ new.invoice = db.invoice /\ new.refunds = db.refunds
           /\ \A o \in U!Ids : LET row == db.orders[o] IN
                 /\ new.orders[o].charge = Tag(o)
                 /\ new.orders[o].charge = <<>> <=> row.charge = <<>>
                 /\ new.orders[o].status = row.status /\ new.orders[o].paid = row.paid
                 /\ new.orders[o].reversed = row.reversed
                 /\ new.orders[o].recipient = row.recipient
           /\ U!Unique(new, "charge")
<1> DEFINE later(o) == /\ db.orders[o].charge # <<>>
                       /\ \E p \in U!Ids : p < o /\ db.orders[p].charge = db.orders[o].charge
           tagged(o) == IF later(o) THEN [db.orders[o] EXCEPT !.charge = Append(@, o)]
                        ELSE db.orders[o]
<1>1. U!TaggedDuplicates(db) = [db EXCEPT !.orders = [o \in U!Ids |-> tagged(o)]]
  BY DEF U!TaggedDuplicates
<1>2. db.orders \in [U!Ids -> U!OrderRows]
  BY FileFields
<1>3. /\ <<"c">> # <<>> /\ <<"c", 2>> # <<>> /\ <<"c", 1>> # <<>> /\ <<"c">> # <<"c", 2>>
      /\ <<"c">> # <<"c", 1>> /\ <<"c", 1>> # <<"c", 2>> /\ Append(<<"c">>, 2) = <<"c", 2>>
  BY AppendTag
<1>4. /\ first.orders[1].charge \in {<<>>, <<"c">>, <<"c", 1>>}
      /\ first.orders[2].charge \in {<<>>, <<"c">>, <<"c", 2>>}
  BY DEF Found, OwnCharges, U!Ids
<1>5. /\ Tag(1) = first.orders[1].charge
      /\ Tag(2) = IF first.orders[1].charge = <<"c">> /\ first.orders[2].charge = <<"c">>
                  THEN <<"c", 2>> ELSE first.orders[2].charge
  <2>1. \A p \in U!Ids : ~(p < 1) /\ (p < 2 <=> p = 1)
    BY DEF U!Ids
  <2>2. Tag(1) = first.orders[1].charge
    BY <2>1 DEF Tag
  <2>3. Tag(2) = IF first.orders[1].charge = first.orders[2].charge
                    /\ first.orders[2].charge # <<>>
                 THEN Append(first.orders[2].charge, 2) ELSE first.orders[2].charge
    BY <2>1 DEF Tag, U!Ids
  <2>4. QED
    BY <1>3, <1>4, <2>2, <2>3
<1>6. ~later(1) /\ (later(2) <=> /\ first.orders[1].charge = <<"c">>
                                 /\ first.orders[2].charge = <<"c">>
                                 /\ db.orders[2].charge = <<"c">>)
  BY <1>3, <1>4, <1>5 DEF ChargesOf, U!Ids
<1>7. ASSUME NEW o \in U!Ids
      PROVE  LET row == db.orders[o] IN
             /\ tagged(o) \in U!OrderRows
             /\ tagged(o).charge = Tag(o)
             /\ tagged(o).charge = <<>> <=> row.charge = <<>>
             /\ tagged(o).status = row.status /\ tagged(o).paid = row.paid
             /\ tagged(o).reversed = row.reversed /\ tagged(o).recipient = row.recipient
  <2>1. CASE later(o)
    <3>1. o = 2 /\ db.orders[o].charge = <<"c">> /\ Tag(o) = <<"c", 2>>
      BY <1>5, <1>6, <2>1 DEF U!Ids
    <3>2. tagged(o) = [db.orders[o] EXCEPT !.charge = <<"c", 2>>]
      BY <1>3, <2>1, <3>1
    <3>3. db.orders[o] \in U!OrderRows /\ <<"c", 2>> \in U!Charges
      BY <1>2 DEF U!Charges
    <3>4. PICK new : new = [db.orders[o] EXCEPT !.charge = <<"c", 2>>]
      OBVIOUS
    <3>5. /\ new \in U!OrderRows /\ new.charge = <<"c", 2>>
          /\ new.status = db.orders[o].status /\ new.paid = db.orders[o].paid
          /\ new.reversed = db.orders[o].reversed /\ new.recipient = db.orders[o].recipient
      BY <3>3, <3>4, OrderSet
    <3>6. tagged(o) = new
      BY <3>2, <3>4
    <3> HIDE DEF tagged
    <3>7. QED
      BY <1>3, <3>1, <3>5, <3>6
  <2>2. CASE ~later(o)
    <3>1. db.orders[o].charge = Tag(o)
      BY <1>4, <1>5, <1>6, <2>2 DEF ChargesOf, U!Ids
    <3>2. QED
      BY <1>2, <2>2, <3>1
  <2>3. QED
    BY <2>1, <2>2
<1>8. Tag(1) # Tag(2) \/ Tag(2) = <<>>
  BY <1>3, <1>4, <1>5
<1> HIDE DEF tagged
<1>9. [o \in U!Ids |-> tagged(o)] \in [U!Ids -> U!OrderRows]
  BY <1>7
<1>10. PICK new, data : /\ new = U!TaggedDuplicates(db)
                        /\ data = [o \in U!Ids |-> tagged(o)]
  OBVIOUS
<1>11. /\ new \in U!Files /\ SameSchema(db, new) /\ new.orders = data
       /\ new.subs = db.subs /\ new.invoice = db.invoice /\ new.refunds = db.refunds
  BY <1>1, <1>9, <1>10, OrdersSet
<1>12. \A o \in U!Ids : new.orders[o] = tagged(o)
  BY <1>10, <1>11
<1>13. U!Unique(new, "charge")
  BY <1>7, <1>8, <1>12 DEF U!Unique, U!Ids
<1>14. QED
  BY <1>7, <1>10, <1>11, <1>12, <1>13

\* The fields of a subscription.
LEMMA SubFields ==
    ASSUME NEW r \in U!SubRows
    PROVE  /\ r.active \in BOOLEAN /\ r.ends \in 1..2
           /\ \A b \in BOOLEAN :
                 /\ [r EXCEPT !.active = b] \in U!SubRows
                 /\ [r EXCEPT !.active = b].active = b /\ [r EXCEPT !.active = b].ends = r.ends
  BY DEF U!SubRows

\* At most one of two rows is active.
LEMMA OneActive ==
    ASSUME NEW subs, NEW kept, \A s \in U!Ids : subs[s].active => s = kept
    PROVE  Cardinality({s \in U!Ids : subs[s].active}) <= 1
<1>1. {s \in U!Ids : subs[s].active} \subseteq {kept}
  OBVIOUS
<1>2. IsFiniteSet({kept}) /\ Cardinality({kept}) = 1
  BY FS_Singleton
<1>3. Cardinality({s \in U!Ids : subs[s].active}) <= Cardinality({kept})
  BY <1>1, <1>2, FS_Subset
<1>4. QED
  BY <1>2, <1>3

\* The one that runs longest stays, and it runs as long as what was found.
LEMMA Keeping ==
    ASSUME NEW db \in U!Files, Found, TermsOf(db)
    PROVE  LET new == U!KeptLongest(db) IN
           /\ new \in U!Files /\ SameSchema(db, new)
           /\ new.orders = db.orders /\ new.invoice = db.invoice /\ new.refunds = db.refunds
           /\ TermsOf(new) /\ U!Unique(new, "active")
<1> DEFINE active == {s \in U!Ids : db.subs[s].active}
           longest == {s \in active : \A k \in active : db.subs[k].ends <= db.subs[s].ends}
<1>1. PICK kept, data, new :
         /\ kept = CHOOSE s \in longest : TRUE
         /\ data = [s \in U!Ids |-> [db.subs[s] EXCEPT !.active = @ /\ s = kept]]
         /\ new = [db EXCEPT !.subs = data]
  OBVIOUS
<1>2. U!KeptLongest(db) = new
  BY <1>1 DEF U!KeptLongest
<1>3. db.subs \in [U!Ids -> U!SubRows] /\ first.subs \in [U!Ids -> U!SubRows]
  BY FileFields DEF Found
<1>4. \A s \in U!Ids : /\ db.subs[s] \in U!SubRows /\ db.subs[s].active \in BOOLEAN
                       /\ db.subs[s].ends \in 1..2 /\ first.subs[s].ends \in 1..2
  BY <1>3, SubFields
<1>5. active # {} => kept \in longest
  <2>1. active # {} => longest # {}
    <3>1. active \subseteq {1, 2}
      BY DEF U!Ids
    <3>2. \A s \in active : db.subs[s].ends \in 1..2
      BY <1>4
    <3>3. ASSUME active # {}, NEW s \in active,
                 \A k \in active : db.subs[k].ends <= db.subs[s].ends
          PROVE  longest # {}
      BY <3>3
    <3>4. ASSUME active # {}
          PROVE  \E s \in active : \A k \in active : db.subs[k].ends <= db.subs[s].ends
      <4>1. CASE active = {1}
        BY <3>2, <4>1
      <4>2. CASE active = {2}
        BY <3>2, <4>2
      <4>3. CASE active = {1, 2}
        BY <3>2, <4>3
      <4>4. QED
        BY <3>1, <3>4, <4>1, <4>2, <4>3
    <3>5. QED
      BY <3>3, <3>4
  <2>2. QED
    BY <1>1, <2>1
<1> HIDE DEF longest
<1>6. \A s \in U!Ids : /\ data[s] \in U!SubRows /\ data[s].ends = db.subs[s].ends
                       /\ data[s].active <=> db.subs[s].active /\ s = kept
  <2> SUFFICES ASSUME NEW s \in U!Ids
               PROVE  /\ data[s] \in U!SubRows /\ data[s].ends = db.subs[s].ends
                      /\ data[s].active <=> db.subs[s].active /\ s = kept
    OBVIOUS
  <2>1. PICK b \in BOOLEAN : b = (db.subs[s].active /\ s = kept)
    BY <1>4
  <2>2. data[s] = [db.subs[s] EXCEPT !.active = b]
    BY <1>1, <2>1
  <2>3. db.subs[s] \in U!SubRows
    BY <1>4
  <2>4. PICK row : row = [db.subs[s] EXCEPT !.active = b]
    OBVIOUS
  <2>5. row \in U!SubRows /\ row.active = b /\ row.ends = db.subs[s].ends
    BY <2>3, <2>4, SubFields
  <2>6. QED
    BY <2>1, <2>2, <2>4, <2>5
<1>7. data \in [U!Ids -> U!SubRows]
  BY <1>1, <1>6
<1>8. /\ new \in U!Files /\ SameSchema(db, new) /\ new.subs = data
      /\ new.orders = db.orders /\ new.invoice = db.invoice /\ new.refunds = db.refunds
  BY <1>1, <1>7, SubsSet
<1>9. TermsOf(new)
  <2> SUFFICES ASSUME NEW s \in U!Ids, first.subs[s].active
               PROVE  \E t \in U!Ids : /\ new.subs[t].active
                                       /\ first.subs[s].ends <= new.subs[t].ends
    BY DEF TermsOf
  <2>1. PICK t \in U!Ids : db.subs[t].active /\ first.subs[s].ends <= db.subs[t].ends
    BY DEF TermsOf
  <2>2. t \in active /\ kept \in longest
    BY <1>5, <2>1
  <2>3. kept \in U!Ids /\ db.subs[kept].active /\ db.subs[t].ends <= db.subs[kept].ends
    BY <2>2 DEF longest
  <2>4. first.subs[s].ends <= db.subs[kept].ends
    BY <1>4, <2>1, <2>3
  <2>5. QED
    BY <1>6, <1>8, <2>3, <2>4
<1>10. U!Unique(new, "active")
  <2>1. \A s \in U!Ids : new.subs[s].active => s = kept
    BY <1>6, <1>8
  <2>2. Cardinality({s \in U!Ids : new.subs[s].active}) <= 1
    BY <2>1, OneActive
  <2>3. U!Unique(new, "active") = (U!Cardinality({s \in U!Ids : new.subs[s].active}) <= 1)
    BY DEF U!Unique
  <2>4. QED
    BY <2>2, <2>3 DEF U!Cardinality, Cardinality
<1>11. QED
  BY <1>2, <1>8, <1>9, <1>10

\* The same schema has the same indexes.
LEMMA SchemaIsThere ==
    ASSUME NEW db \in U!Files, NEW new, SameSchema(db, new)
    PROVE  /\ new.indexes = db.indexes /\ new.indexes \subseteq {"charge", "active"}
           /\ new.erased = db.erased
  BY FileFields DEF SameSchema, U!Indexes

\* Repaired data satisfies both indexes, and is what was found in all else.
LEMMA Repairing ==
    ASSUME NEW db \in U!Files, NEW v \in 0..11, Found, Rows(db, v)
    PROVE  LET new == U!Repaired(db) IN
           new \in U!Files /\ SameSchema(db, new) /\ Rows(new, v)
<1>1. PICK mid : mid = U!TaggedDuplicates(db)
  OBVIOUS
<1>2. PICK new : new = U!KeptLongest(mid)
  OBVIOUS
<1>3. /\ mid \in U!Files /\ SameSchema(db, mid)
      /\ mid.subs = db.subs /\ mid.invoice = db.invoice /\ mid.refunds = db.refunds
      /\ \A o \in U!Ids :
            /\ mid.orders[o].charge = Tag(o)
            /\ mid.orders[o].charge = <<>> <=> db.orders[o].charge = <<>>
            /\ mid.orders[o].status = db.orders[o].status
            /\ mid.orders[o].paid = db.orders[o].paid
            /\ mid.orders[o].reversed = db.orders[o].reversed
            /\ mid.orders[o].recipient = db.orders[o].recipient
      /\ U!Unique(mid, "charge")
  BY <1>1, Tagging DEF Rows
<1>4. TermsOf(mid)
  BY <1>3 DEF Rows, TermsOf
<1>5. /\ new \in U!Files /\ SameSchema(mid, new)
      /\ new.orders = mid.orders /\ new.invoice = mid.invoice /\ new.refunds = mid.refunds
      /\ TermsOf(new) /\ U!Unique(new, "active")
  BY <1>2, <1>3, <1>4, Keeping
<1>6. SameSchema(db, new) /\ new.erased = db.erased
  BY <1>3, <1>5 DEF SameSchema
<1>7. DataOf(new, v)
  BY <1>3, <1>5, <1>6 DEF Rows, DataOf
<1>8. ChargesOf(new)
  BY <1>3, <1>5 DEF ChargesOf
<1>9. InvoiceOf(new)
  BY <1>3, <1>5 DEF Rows, InvoiceOf
<1>10. IndexesHold(new)
  <2>1. U!Unique(new, "charge")
    BY <1>3, <1>5 DEF U!Unique
  <2>2. new.indexes \subseteq {"charge", "active"}
    BY <1>5, <1>6, SchemaIsThere
  <2>3. QED
    BY <1>5, <2>1, <2>2 DEF IndexesHold
<1>11. new = U!Repaired(db)
  BY <1>1, <1>2 DEF U!Repaired
<1>12. QED
  BY <1>5, <1>6, <1>7, <1>8, <1>9, <1>10, <1>11 DEF Rows

\* What a change of one table leaves of the others.
LEMMA ElseKept ==
    ASSUME NEW db \in U!Files, NEW new, SameSchema(db, new)
    PROVE  /\ new.orders = db.orders /\ ChargesOf(db) => ChargesOf(new)
           /\ new.subs = db.subs /\ TermsOf(db) => TermsOf(new)
           /\ new.invoice = db.invoice /\ InvoiceOf(db) => InvoiceOf(new)
           /\ (\A o \in U!Ids : new.orders[o].charge = db.orders[o].charge) /\ ChargesOf(db)
                => ChargesOf(new)
           /\ /\ \A o \in U!Ids : new.orders[o].charge = db.orders[o].charge
              /\ new.subs = db.subs
              /\ IndexesHold(db)
              => IndexesHold(new)
<1>1. new.indexes = db.indexes
  BY DEF SameSchema
<1>2. ASSUME \A o \in U!Ids : new.orders[o].charge = db.orders[o].charge, new.subs = db.subs,
             IndexesHold(db)
      PROVE  IndexesHold(new)
  <2>1. \A i \in {"charge", "active"} : U!Unique(db, i) => U!Unique(new, i)
    <3> SUFFICES ASSUME NEW i \in {"charge", "active"}, U!Unique(db, i) PROVE U!Unique(new, i)
      OBVIOUS
    <3>1. CASE i = "charge"
      BY <1>2, <3>1 DEF U!Unique
    <3>2. CASE i = "active"
      BY <1>2, <3>2 DEF U!Unique
    <3>3. QED
      BY <3>1, <3>2
  <2>2. QED
    BY <1>1, <1>2, <2>1, SchemaIsThere DEF IndexesHold
<1>3. ASSUME \A o \in U!Ids : new.orders[o].charge = db.orders[o].charge, ChargesOf(db)
      PROVE  ChargesOf(new)
  BY <1>3 DEF ChargesOf
<1>4. new.subs = db.subs /\ TermsOf(db) => TermsOf(new)
  BY DEF TermsOf
<1>5. new.invoice = db.invoice /\ InvoiceOf(db) => InvoiceOf(new)
  BY DEF InvoiceOf
<1>6. QED
  BY <1>2, <1>3, <1>4, <1>5

\* A migration that fills a column of the orders.
LEMMA OrdersFilled ==
    ASSUME NEW db \in U!Files, NEW v, Rows(db, v), NEW data, data = [o \in U!Ids |-> data[o]],
           \A o \in U!Ids : data[o] \in U!OrderRows /\ data[o].charge = db.orders[o].charge,
           NEW new, new = [db EXCEPT !.orders = data]
    PROVE  /\ new \in U!Files /\ SameSchema(db, new) /\ new.erased = db.erased
           /\ new.orders = data /\ new.invoice = db.invoice /\ new.refunds = db.refunds
           /\ ChargesOf(new) /\ TermsOf(new) /\ InvoiceOf(new) /\ IndexesHold(new)
<1>1. data \in [U!Ids -> U!OrderRows]
  OBVIOUS
<1>2. /\ new \in U!Files /\ SameSchema(db, new) /\ new.orders = data
      /\ new.subs = db.subs /\ new.invoice = db.invoice /\ new.refunds = db.refunds
  BY <1>1, OrdersSet
<1>3. \A o \in U!Ids : new.orders[o].charge = db.orders[o].charge
  BY <1>2
<1>4. QED
  BY <1>2, <1>3, ElseKept, SchemaIsThere DEF Rows

\* Migration 3 dates what was confirmed.
LEMMA PaymentsFilled ==
    ASSUME NEW db \in U!Files, Rows(db, 2)
    PROVE  LET new == U!WithPayments(db) IN
           new \in U!Files /\ SameSchema(db, new) /\ Rows(new, 3)
<1> DEFINE fill(o) == [db.orders[o] EXCEPT
                          !.paid = @ \/ db.orders[o].status \in U!Confirmed]
<1>1. PICK data, new : data = [o \in U!Ids |-> fill(o)] /\ new = [db EXCEPT !.orders = data]
  OBVIOUS
<1>2. new = U!WithPayments(db)
  BY <1>1 DEF U!WithPayments
<1>3. ASSUME NEW o \in U!Ids
      PROVE  /\ data[o] \in U!OrderRows /\ data[o].charge = db.orders[o].charge
             /\ data[o].status \in U!Confirmed => data[o].paid
  <2>1. db.orders[o] \in U!OrderRows
    BY FileFields
  <2>2. PICK b \in BOOLEAN : b = (db.orders[o].paid \/ db.orders[o].status \in U!Confirmed)
    BY <2>1, OrderFields
  <2>3. PICK row : row = [db.orders[o] EXCEPT !.paid = b]
    OBVIOUS
  <2>4. /\ row \in U!OrderRows /\ row.charge = db.orders[o].charge
        /\ row.status = db.orders[o].status /\ row.paid = b
    BY <2>1, <2>3, OrderSet
  <2>5. data[o] = row
    BY <1>1, <2>2, <2>3
  <2>6. QED
    BY <2>2, <2>4, <2>5
<1>4. data = [o \in U!Ids |-> data[o]]
  BY <1>1
<1>5. /\ new \in U!Files /\ SameSchema(db, new) /\ new.orders = data
      /\ ChargesOf(new) /\ TermsOf(new) /\ InvoiceOf(new) /\ IndexesHold(new)
  BY <1>1, <1>3, <1>4, OrdersFilled
<1>6. DataOf(new, 3)
  BY <1>3, <1>5 DEF DataOf
<1>7. QED
  BY <1>2, <1>5, <1>6 DEF Rows

\* Migration 4 dates what was taken back after payment.
LEMMA ReversalsFilled ==
    ASSUME NEW db \in U!Files, Rows(db, 3)
    PROVE  LET new == U!WithReversals(db) IN
           new \in U!Files /\ SameSchema(db, new) /\ Rows(new, 4)
<1> DEFINE fill(o) == [db.orders[o] EXCEPT
                          !.reversed = @ \/ /\ db.orders[o].status \in {"refunded", "rejected"}
                                            /\ db.orders[o].paid]
<1>1. PICK data, new : data = [o \in U!Ids |-> fill(o)] /\ new = [db EXCEPT !.orders = data]
  OBVIOUS
<1>2. new = U!WithReversals(db)
  BY <1>1 DEF U!WithReversals
<1>3. ASSUME NEW o \in U!Ids
      PROVE  /\ data[o] \in U!OrderRows /\ data[o].charge = db.orders[o].charge
             /\ data[o].status \in U!Confirmed => data[o].paid
             /\ data[o].paid /\ data[o].status \in {"refunded", "rejected"}
                  => data[o].reversed
  <2>1. db.orders[o] \in U!OrderRows
    BY FileFields
  <2>2. PICK b \in BOOLEAN :
           b = (db.orders[o].reversed \/ /\ db.orders[o].status \in {"refunded", "rejected"}
                                         /\ db.orders[o].paid)
    BY <2>1, OrderFields
  <2>3. PICK row : row = [db.orders[o] EXCEPT !.reversed = b]
    OBVIOUS
  <2>4. /\ row \in U!OrderRows /\ row.charge = db.orders[o].charge
        /\ row.status = db.orders[o].status /\ row.paid = db.orders[o].paid
        /\ row.reversed = b
    BY <2>1, <2>3, OrderSet
  <2>5. data[o] = row
    BY <1>1, <2>2, <2>3
  <2>6. row.status \in U!Confirmed => row.paid
    BY <2>4 DEF Rows, DataOf
  <2>7. QED
    BY <2>2, <2>4, <2>5, <2>6
<1>4. data = [o \in U!Ids |-> data[o]]
  BY <1>1
<1>5. /\ new \in U!Files /\ SameSchema(db, new) /\ new.orders = data
      /\ ChargesOf(new) /\ TermsOf(new) /\ InvoiceOf(new) /\ IndexesHold(new)
  BY <1>1, <1>3, <1>4, OrdersFilled
<1>6. DataOf(new, 4)
  BY <1>3, <1>5 DEF DataOf
<1>7. QED
  BY <1>2, <1>5, <1>6 DEF Rows

\* Migration 9 records whom the money of a charge goes back to.
LEMMA RecipientsFilled ==
    ASSUME NEW db \in U!Files, Rows(db, 8)
    PROVE  LET new == U!WithRecipients(db) IN
           new \in U!Files /\ SameSchema(db, new) /\ Rows(new, 9)
<1> DEFINE fill(o) == [db.orders[o] EXCEPT
                          !.recipient = @ \/ (db.orders[o].charge # <<>> /\ ~db.erased)]
<1>1. PICK data, new : data = [o \in U!Ids |-> fill(o)] /\ new = [db EXCEPT !.orders = data]
  OBVIOUS
<1>2. new = U!WithRecipients(db)
  BY <1>1 DEF U!WithRecipients
<1>3. ASSUME NEW o \in U!Ids
      PROVE  /\ data[o] \in U!OrderRows /\ data[o].charge = db.orders[o].charge
             /\ data[o].status = db.orders[o].status /\ data[o].paid = db.orders[o].paid
             /\ data[o].reversed = db.orders[o].reversed
             /\ ~db.erased /\ data[o].charge # <<>> => data[o].recipient
  <2>1. db.orders[o] \in U!OrderRows /\ db.erased \in BOOLEAN
    BY FileFields
  <2>2. PICK b \in BOOLEAN :
           b = (db.orders[o].recipient \/ (db.orders[o].charge # <<>> /\ ~db.erased))
    BY <2>1, OrderFields
  <2>3. PICK row : row = [db.orders[o] EXCEPT !.recipient = b]
    OBVIOUS
  <2>4. /\ row \in U!OrderRows /\ row.charge = db.orders[o].charge
        /\ row.status = db.orders[o].status /\ row.paid = db.orders[o].paid
        /\ row.reversed = db.orders[o].reversed /\ row.recipient = b
    BY <2>1, <2>3, OrderSet
  <2>5. data[o] = row
    BY <1>1, <2>2, <2>3
  <2>6. QED
    BY <2>2, <2>4, <2>5
<1>4. data = [o \in U!Ids |-> data[o]]
  BY <1>1
<1>5. /\ new \in U!Files /\ SameSchema(db, new) /\ new.orders = data
      /\ new.erased = db.erased /\ new.invoice = db.invoice
      /\ ChargesOf(new) /\ TermsOf(new) /\ InvoiceOf(new) /\ IndexesHold(new)
  BY <1>1, <1>3, <1>4, OrdersFilled
<1>6. DataOf(new, 9)
  BY <1>3, <1>5 DEF Rows, DataOf
<1>7. QED
  BY <1>2, <1>5, <1>6 DEF Rows

\* An old invoice is closed as it gets its terms.
LEMMA TermsFilled ==
    ASSUME NEW db \in U!Files, Rows(db, 4)
    PROVE  LET new == U!WithTerms(db) IN
           new \in U!Files /\ SameSchema(db, new) /\ Rows(new, 5)
<1>1. PICK row, new :
        /\ row = [status |-> IF db.invoice.status = "pending" THEN "cancelled"
                             ELSE db.invoice.status, terms |-> TRUE]
        /\ new = [db EXCEPT !.invoice = row]
  OBVIOUS
<1>2. new = U!WithTerms(db)
  BY <1>1 DEF U!WithTerms
<1>3. row \in U!InvoiceRows /\ row.terms /\ row.status # "pending"
  BY <1>1, FileFields DEF U!InvoiceRows
<1>4. /\ new \in U!Files /\ SameSchema(db, new) /\ new.invoice = row
      /\ new.orders = db.orders /\ new.subs = db.subs /\ new.refunds = db.refunds
  BY <1>1, <1>3, InvoiceSet
<1>5. ChargesOf(new) /\ TermsOf(new) /\ IndexesHold(new)
  BY <1>4, ElseKept DEF Rows
<1>6. InvoiceOf(new)
  BY <1>3, <1>4 DEF InvoiceOf
<1>7. DataOf(new, 5)
  BY <1>3, <1>4 DEF Rows, DataOf
<1>8. QED
  BY <1>2, <1>4, <1>5, <1>6, <1>7 DEF Rows

\* A refund with one of its fields set.
LEMMA RefundRow ==
    ASSUME NEW r \in U!RefundRows, NEW b \in BOOLEAN
    PROVE  /\ r.telegram \in BOOLEAN /\ r.user \in BOOLEAN /\ r.order \in BOOLEAN
           /\ r.completed \in BOOLEAN
           /\ [r EXCEPT !.telegram = b] \in U!RefundRows /\ [r EXCEPT !.user = b] \in U!RefundRows
           /\ [r EXCEPT !.user = b].user = b /\ [r EXCEPT !.user = b].telegram = r.telegram
  BY DEF U!RefundRows

\* A migration of the refunds.
LEMMA RefundsFilled ==
    ASSUME NEW db \in U!Files, NEW v, Rows(db, v), NEW data \in SUBSET U!RefundRows,
           NEW new, new = [db EXCEPT !.refunds = data]
    PROVE  /\ new \in U!Files /\ SameSchema(db, new) /\ new.erased = db.erased
           /\ new.orders = db.orders /\ new.invoice = db.invoice /\ new.refunds = data
           /\ ChargesOf(new) /\ TermsOf(new) /\ InvoiceOf(new) /\ IndexesHold(new)
<1>1. /\ new \in U!Files /\ SameSchema(db, new) /\ new.refunds = data
      /\ new.orders = db.orders /\ new.subs = db.subs /\ new.invoice = db.invoice
  BY RefundsSet
<1>2. QED
  BY <1>1, ElseKept, SchemaIsThere DEF Rows

\* Migration 7 loses no more than Telegram ids.
LEMMA IdsForgotten ==
    ASSUME NEW db \in U!Files, Rows(db, 6)
    PROVE  LET new == U!WithoutIds(db) IN
           new \in U!Files /\ SameSchema(db, new) /\ Rows(new, 7)
<1>1. PICK data, new :
        /\ data = {[r EXCEPT !.telegram = @ /\ ~(r.completed /\ db.erased)] : r \in db.refunds}
        /\ new = [db EXCEPT !.refunds = data]
  OBVIOUS
<1>2. new = U!WithoutIds(db)
  BY <1>1 DEF U!WithoutIds
<1>3. ASSUME NEW r \in db.refunds
      PROVE  [r EXCEPT !.telegram = @ /\ ~(r.completed /\ db.erased)] \in U!RefundRows
  <2>1. r \in U!RefundRows /\ db.erased \in BOOLEAN
    BY FileFields
  <2>2. PICK b \in BOOLEAN : b = (r.telegram /\ ~(r.completed /\ db.erased))
    BY <2>1, RefundRow
  <2>3. QED
    BY <2>1, <2>2, RefundRow
<1>4. data \in SUBSET U!RefundRows
  BY <1>1, <1>3
<1>5. /\ new \in U!Files /\ SameSchema(db, new) /\ new.erased = db.erased
      /\ new.orders = db.orders /\ new.invoice = db.invoice
      /\ ChargesOf(new) /\ TermsOf(new) /\ InvoiceOf(new) /\ IndexesHold(new)
  BY <1>1, <1>4, RefundsFilled
<1>6. DataOf(new, 7)
  BY <1>5 DEF Rows, DataOf
<1>7. QED
  BY <1>2, <1>5, <1>6 DEF Rows

\* Migration 11 records the customer of a refund.
LEMMA UsersFilled ==
    ASSUME NEW db \in U!Files, Rows(db, 10)
    PROVE  LET new == U!WithUsers(db) IN
           new \in U!Files /\ SameSchema(db, new) /\ Rows(new, 11)
<1> DEFINE fill(r) == [r EXCEPT !.user = @ \/ r.order \/ (r.telegram /\ ~db.erased)]
<1>1. PICK data, new :
        data = {fill(r) : r \in db.refunds} /\ new = [db EXCEPT !.refunds = data]
  OBVIOUS
<1>2. new = U!WithUsers(db)
  BY <1>1 DEF U!WithUsers
<1>3. ASSUME NEW r \in db.refunds
      PROVE  /\ fill(r) \in U!RefundRows
             /\ ~db.erased /\ fill(r).telegram => fill(r).user
  <2>1. r \in U!RefundRows /\ db.erased \in BOOLEAN
    BY FileFields
  <2>2. PICK b \in BOOLEAN : b = (r.user \/ r.order \/ (r.telegram /\ ~db.erased))
    BY <2>1, RefundRow
  <2>3. PICK row : row = [r EXCEPT !.user = b]
    OBVIOUS
  <2>4. row \in U!RefundRows /\ row.user = b /\ row.telegram = r.telegram
    <3>1. r \in U!RefundRows /\ b \in BOOLEAN
      BY <2>1, <2>2
    <3>2. /\ [r EXCEPT !.user = b] \in U!RefundRows
          /\ [r EXCEPT !.user = b].user = b /\ [r EXCEPT !.user = b].telegram = r.telegram
      BY ONLY <3>1 DEF U!RefundRows
    <3>3. QED
      BY ONLY <2>3, <3>2
  <2>5. fill(r) = row
    BY <2>2, <2>3
  <2> HIDE DEF fill
  <2>6. QED
    BY <2>2, <2>4, <2>5
<1> HIDE DEF fill
<1>4. data \in SUBSET U!RefundRows
  BY <1>1, <1>3
<1>5. /\ new \in U!Files /\ SameSchema(db, new) /\ new.erased = db.erased
      /\ new.orders = db.orders /\ new.invoice = db.invoice /\ new.refunds = data
      /\ ChargesOf(new) /\ TermsOf(new) /\ InvoiceOf(new) /\ IndexesHold(new)
  BY <1>1, <1>4, RefundsFilled
<1>6. DataOf(new, 11)
  BY <1>1, <1>3, <1>5 DEF Rows, DataOf
<1>7. QED
  BY <1>2, <1>5, <1>6 DEF Rows

Applied(s, f, v) == (s = <<>> /\ v = f) \/ (v > f /\ s = UpTo(f, v))

\* The list of migrations grows by the next one.
LEMMA ToldOneMore ==
    ASSUME NEW s, NEW v \in Nat, NEW f \in Nat, Applied(s, f, v)
    PROVE  Append(s, v + 1) = UpTo(f, v + 1)
<1>1. PICK n \in Nat : n = v - f
  BY DEF Applied
<1>2. PICK t, u : t = [i \in 1..(n + 1) |-> f + i] /\ u = Append(s, v + 1)
  OBVIOUS
<1>3. t \in Seq(Nat) /\ Len(t) = n + 1
  <2>1. t \in [1..(n + 1) -> Nat]
    BY <1>2
  <2>2. QED
    BY <2>1, <1>1, SeqDef, LenProperties
<1>4. s \in Seq(Nat) /\ Len(s) = n /\ \A i \in 1..n : s[i] = f + i
  <2>1. CASE s = <<>> /\ v = f
    BY <1>1, <2>1, EmptySeq
  <2>2. CASE v > f /\ s = UpTo(f, v)
    <3>1. s \in [1..n -> Nat] /\ \A i \in 1..n : s[i] = f + i
      BY <1>1, <2>2 DEF UpTo
    <3>2. QED
      BY <3>1, SeqDef, LenProperties
  <2>3. QED
    BY <2>1, <2>2 DEF Applied
<1>5. /\ u \in Seq(Nat) /\ Len(u) = n + 1 /\ u[n + 1] = v + 1
      /\ \A i \in 1..n : u[i] = s[i]
  <2>1. v + 1 \in Nat
    OBVIOUS
  <2>2. QED
    BY <1>2, <1>4, <2>1, AppendProperties
<1>6. \A i \in 1..(n + 1) : u[i] = t[i]
  <2> SUFFICES ASSUME NEW i \in 1..(n + 1) PROVE u[i] = t[i]
    OBVIOUS
  <2>1. t[i] = f + i
    BY <1>2
  <2>2. CASE i = n + 1
    BY <1>1, <1>5, <2>1, <2>2
  <2>3. CASE i \in 1..n
    BY <1>4, <1>5, <2>1, <2>3
  <2>4. QED
    BY <2>2, <2>3
<1>7. u = t
  BY <1>3, <1>5, <1>6, SeqEqual
<1>8. n + 1 = v + 1 - f
  BY <1>1
<1>9. QED
  BY <1>2, <1>7, <1>8 DEF UpTo

\* Every migration makes rows of its version from rows of the version before.
LEMMA Migrating ==
    ASSUME NEW db \in U!Files, Found, NEW i \in 1..11, Rows(db, i - 1)
    PROVE  LET new == U!Changed(db, i) IN
           new \in U!Files /\ SameSchema(db, new) /\ Rows(new, i)
<1>1. PICK new : new = U!Changed(db, i)
  OBVIOUS
<1>2. CASE i = 2
  <2>1. Rows(db, 1) /\ new = U!Repaired(db)
    BY <1>1, <1>2 DEF U!Changed
  <2>2. new \in U!Files /\ SameSchema(db, new) /\ Rows(new, 1)
    BY <2>1, Repairing
  <2>3. DataOf(new, 1) => DataOf(new, 2)
    BY DEF DataOf
  <2>4. QED
    BY <1>1, <1>2, <2>2, <2>3 DEF Rows
<1>3. CASE i = 3
  <2>1. Rows(db, 2) /\ new = U!WithPayments(db)
    BY <1>1, <1>3 DEF U!Changed
  <2>2. QED
    BY <1>1, <1>3, <2>1, PaymentsFilled
<1>4. CASE i = 4
  <2>1. Rows(db, 3) /\ new = U!WithReversals(db)
    BY <1>1, <1>4 DEF U!Changed
  <2>2. QED
    BY <1>1, <1>4, <2>1, ReversalsFilled
<1>5. CASE i = 5
  <2>1. Rows(db, 4) /\ new = U!WithTerms(db)
    BY <1>1, <1>5 DEF U!Changed
  <2>2. QED
    BY <1>1, <1>5, <2>1, TermsFilled
<1>6. CASE i = 7
  <2>1. Rows(db, 6) /\ new = U!WithoutIds(db)
    BY <1>1, <1>6 DEF U!Changed
  <2>2. QED
    BY <1>1, <1>6, <2>1, IdsForgotten
<1>7. CASE i = 9
  <2>1. Rows(db, 8) /\ new = U!WithRecipients(db)
    BY <1>1, <1>7 DEF U!Changed
  <2>2. QED
    BY <1>1, <1>7, <2>1, RecipientsFilled
<1>8. CASE i = 11
  <2>1. Rows(db, 10) /\ new = U!WithUsers(db)
    BY <1>1, <1>8 DEF U!Changed
  <2>2. QED
    BY <1>1, <1>8, <2>1, UsersFilled
<1>9. CASE i \in {1, 6, 8, 10}
  <2>1. new = db /\ SameSchema(db, db)
    BY <1>1, <1>9 DEF U!Changed, SameSchema
  <2>2. DataOf(db, i)
    BY <1>9 DEF Rows, DataOf
  <2>3. QED
    BY <1>1, <2>1, <2>2 DEF Rows
<1>10. QED
  BY <1>2, <1>3, <1>4, <1>5, <1>6, <1>7, <1>8, <1>9

\* A migration brings what was inherited to the next version.
LEMMA MigratedInherits ==
    ASSUME NEW db \in U!Files, Found, db.version < 11, Inherits(db, db.version)
    PROVE  LET new == U!Migrated(db, db.version + 1) IN
           /\ new \in U!Files /\ new.version = db.version /\ Inherits(new, db.version + 1)
           /\ db.objects = U!Objects => new.objects = U!Objects
<1>1. PICK v \in 0..10 : v = db.version
  BY FileFields
<1>2. PICK data, new : data = U!Changed(db, v + 1) /\ new = U!Migrated(db, v + 1)
  OBVIOUS
<1>0. data \in U!Files /\ SameSchema(db, data) /\ Rows(data, v + 1)
  <2>1. v + 1 \in 1..11 /\ Rows(db, (v + 1) - 1)
    BY <1>1 DEF Inherits
  <2>2. QED
    BY <1>2, <2>1, Migrating
<1>3. PICK columns, objects, applied :
        /\ columns = data.columns \cup ({v + 1} \cap U!Adding)
        /\ objects = IF v + 1 = 6 THEN data.objects \cup {"refunds"} ELSE data.objects
        /\ applied = Append(data.applied, v + 1)
  OBVIOUS
<1>4. columns \subseteq U!Adding /\ objects \subseteq U!Objects /\ applied \in Seq(1..11)
  <2>1. applied \in Seq(1..11)
    BY <1>0, <1>1, <1>3, FileFields, AppendProperties
  <2>2. QED
    BY <1>0, <1>3, <2>1, FileFields DEF U!Objects
<1>5. new = [data EXCEPT !.columns = columns, !.objects = objects, !.applied = applied]
  BY <1>2, <1>3 DEF U!Migrated
<1>6. /\ new \in U!Files /\ new.version = data.version /\ new.columns = columns
      /\ new.objects = objects /\ new.applied = applied /\ new.indexes = data.indexes
      /\ new.orders = data.orders /\ new.subs = data.subs /\ new.invoice = data.invoice
      /\ new.refunds = data.refunds /\ new.erased = data.erased
  BY <1>0, <1>4, <1>5 DEF U!Files, U!Latest
<1>7. Rows(new, v + 1)
  <2>1. DataOf(new, v + 1)
    BY <1>0, <1>6 DEF Rows, DataOf
  <2>2. ChargesOf(new) /\ TermsOf(new) /\ InvoiceOf(new)
    BY <1>0, <1>6 DEF Rows, ChargesOf, TermsOf, InvoiceOf
  <2>3. IndexesHold(new)
    <3>1. ASSUME NEW i \in {"charge", "active"}, U!Unique(data, i)
          PROVE  U!Unique(new, i)
      <4>1. CASE i = "charge"
        BY <1>6, <3>1, <4>1 DEF U!Unique
      <4>2. CASE i = "active"
        BY <1>6, <3>1, <4>2 DEF U!Unique
      <4>3. QED
        BY <4>1, <4>2
    <3>2. data.indexes \subseteq {"charge", "active"}
      BY <1>0, SchemaIsThere
    <3>3. QED
      BY <1>0, <1>6, <3>1, <3>2 DEF Rows, IndexesHold
  <2>4. QED
    BY <2>1, <2>2, <2>3 DEF Rows
<1>8. {i \in U!Adding : i <= v + 1} \subseteq new.columns
  <2>1. {i \in U!Adding : i <= v} \subseteq data.columns
    BY <1>0, <1>1 DEF Inherits, SameSchema
  <2>2. ASSUME NEW i \in U!Adding, i <= v + 1
        PROVE  i <= v \/ i = v + 1
    BY <1>1, <2>2 DEF U!Adding
  <2>3. QED
    BY <1>3, <1>6, <2>1, <2>2
<1>9. Stamped(new, v + 1)
  <2>1. first.version \in Nat /\ data.applied = db.applied
    BY <1>0, FileFields DEF Found, SameSchema
  <2>2. Applied(data.applied, first.version, v)
    BY <1>1, <2>1 DEF Inherits, Stamped, Applied, U!Latest
  <2>3. applied = UpTo(first.version, v + 1)
    <3>1. v \in Nat
      BY <1>1
    <3>2. Append(data.applied, v + 1) = UpTo(first.version, v + 1)
      BY <2>1, <2>2, <3>1, ToldOneMore, Zenon
    <3>3. QED
      BY <1>3, <3>2, Zenon
  <2>4. v + 1 > first.version
    BY <1>1, <2>1, <2>2 DEF Applied
  <2>5. QED
    BY <1>6, <2>3, <2>4 DEF Stamped
<1>10. db.objects = U!Objects => new.objects = U!Objects
  BY <1>0, <1>3, <1>6 DEF SameSchema, U!Objects
<1>11. new.version = db.version
  BY <1>0, <1>6 DEF SameSchema
<1>12. QED
  BY <1>1, <1>2, <1>6, <1>7, <1>8, <1>9, <1>10, <1>11 DEF Inherits

-----------------------------------------------------------------------------
\* A file that this start makes: it has no rows yet.
Fresh(db) ==
    /\ first.version = 0 /\ db.version = 0 /\ db.applied = <<>>
    /\ "tables" \in db.objects => db.columns = U!Adding
    /\ db.invoice = U!NoFile.invoice /\ db.orders = U!NoFile.orders /\ db.refunds = {}

\* What the start has made certain where it stands.
Standing ==
    /\ ("users" \notin file.objects \/ at \in {"fresh schema", "stamp"}) => Fresh(file)
    /\ at = "schema" => "users" \in file.objects
    /\ at \notin {"down", "schema", "fresh schema", "needs human"} => file.objects = U!Objects
    /\ at \in {"migrate", "commit"} => file.version < 11
    /\ at \in {"constraints", "repair", "last constraints", "serving"} => file.version = 11
    /\ at = "serving" => file.indexes = U!Indexes

\* The open transaction is one migration ahead of its stamp.
Ahead ==
    at = "commit" =>
        /\ conn.version = file.version /\ conn.objects = U!Objects
        /\ Inherits(conn, file.version + 1)

UpgradeInv == U!TypeOK /\ Found /\ Inherits(file, file.version) /\ Standing /\ Ahead

SameRows(db, new) ==
    /\ new.orders = db.orders /\ new.subs = db.subs /\ new.invoice = db.invoice
    /\ new.refunds = db.refunds /\ new.erased = db.erased /\ new.applied = db.applied
    /\ db.columns \subseteq new.columns

\* A unique index is about the rows only.
LEMMA UniqueByRows ==
    ASSUME NEW db, NEW new, SameRows(db, new), NEW i \in {"charge", "active"}
    PROVE  U!Unique(db, i) => U!Unique(new, i)
<1>1. CASE i = "charge"
  BY <1>1 DEF SameRows, U!Unique
<1>2. CASE i = "active"
  BY <1>2 DEF SameRows, U!Unique
<1>3. QED
  BY <1>1, <1>2

\* The same rows inherit alike.
LEMMA SameInherits ==
    ASSUME NEW db, NEW v, Inherits(db, v), NEW new, SameRows(db, new), IndexesHold(new)
    PROVE  Inherits(new, v)
<1>1. Stamped(new, v) /\ {i \in U!Adding : i <= v} \subseteq new.columns
  BY DEF Inherits, SameRows, Stamped
<1>2. DataOf(new, v)
  BY DEF Inherits, Rows, SameRows, DataOf
<1>3. ChargesOf(new) /\ TermsOf(new) /\ InvoiceOf(new)
  BY DEF Inherits, Rows, SameRows, ChargesOf, TermsOf, InvoiceOf
<1>4. QED
  BY <1>1, <1>2, <1>3 DEF Inherits, Rows

\* A table or an index that is created leaves the rows as they were.
LEMMA CreatedKeeps ==
    ASSUME NEW db \in U!Files, NEW object \in U!Objects
    PROVE  LET new == U!Created(db, object) IN
           /\ new \in U!Files /\ SameRows(db, new) /\ new.version = db.version
           /\ new.objects = db.objects \cup {object} /\ new.indexes = db.indexes
           /\ object = "tables" /\ object \notin db.objects => new.columns = U!Adding
<1>1. PICK objects, columns, new :
        /\ objects = db.objects \cup {object}
        /\ columns = db.columns \cup (CASE object \in db.objects -> {}
                                        [] object = "tables" -> U!Adding
                                        [] object = "refunds" -> {11}
                                        [] OTHER -> {})
        /\ new = [db EXCEPT !.objects = objects, !.columns = columns]
  OBVIOUS
<1>2. new = U!Created(db, object)
  BY <1>1 DEF U!Created
<1>3. objects \in SUBSET U!Objects
  BY <1>1, FileFields
<1>4. /\ columns \in SUBSET U!Adding /\ db.columns \subseteq columns
      /\ object = "tables" /\ object \notin db.objects => columns = U!Adding
  <2>1. db.columns \subseteq U!Adding /\ 11 \in U!Adding
    BY FileFields DEF U!Adding
  <2>2. CASE object \in db.objects
    BY <1>1, <2>1, <2>2
  <2>3. CASE object \notin db.objects /\ object = "tables"
    BY <1>1, <2>1, <2>3
  <2>4. CASE object \notin db.objects /\ object = "refunds"
    BY <1>1, <2>1, <2>4
  <2>5. CASE object \notin db.objects /\ object \notin {"tables", "refunds"}
    BY <1>1, <2>1, <2>5
  <2>6. QED
    BY <2>2, <2>3, <2>4, <2>5
<1>5. /\ new \in U!Files /\ new.version = db.version /\ new.objects = objects
      /\ new.columns = columns /\ new.indexes = db.indexes /\ new.orders = db.orders
      /\ new.subs = db.subs /\ new.invoice = db.invoice /\ new.refunds = db.refunds
      /\ new.erased = db.erased /\ new.applied = db.applied
  BY <1>1, <1>3, <1>4 DEF U!Files
<1>6. QED
  BY <1>1, <1>2, <1>4, <1>5 DEF SameRows

LEMMA VersionSet ==
    ASSUME NEW db \in U!Files, NEW v \in 0..11, NEW new, new = [db EXCEPT !.version = v]
    PROVE  /\ new \in U!Files /\ SameRows(db, new) /\ new.version = v
           /\ new.objects = db.objects /\ new.indexes = db.indexes /\ new.columns = db.columns
  BY DEF U!Files, SameRows, U!Latest

LEMMA IndexSet ==
    ASSUME NEW db \in U!Files, NEW indexes \in SUBSET U!Indexes
    PROVE  LET new == [db EXCEPT !.indexes = indexes] IN
           /\ new \in U!Files /\ SameRows(db, new) /\ new.version = db.version
           /\ new.objects = db.objects /\ new.indexes = indexes
  BY DEF U!Files, SameRows, U!Latest

\* What the unique indexes exclude stays out while the rows are the same.
LEMMA IndexesStay ==
    ASSUME NEW db \in U!Files, IndexesHold(db), NEW new, SameRows(db, new),
           new.indexes = db.indexes
    PROVE  IndexesHold(new)
<1>1. db.indexes \subseteq {"charge", "active"}
  BY FileFields DEF U!Indexes
<1>2. QED
  BY <1>1, UniqueByRows DEF IndexesHold

\* A file without rows is of every version.
LEMMA FreshIsLatest ==
    ASSUME NEW db \in U!Files, Fresh(db), Inherits(db, 0), db.columns = U!Adding
    PROVE  Inherits(db, 11)
<1>1. /\ db.invoice = [status |-> "cancelled", terms |-> TRUE]
      /\ db.orders = [o \in U!Ids |-> U!NoRow] /\ db.refunds = {}
  BY DEF Fresh, U!NoFile
<1>2. \A o \in U!Ids : /\ db.orders[o].status = "pending_receipt" /\ db.orders[o].paid = FALSE
                       /\ db.orders[o].charge = <<>>
  BY <1>1 DEF U!NoRow
<1>3. DataOf(db, 11)
  BY <1>1, <1>2 DEF DataOf, U!Confirmed
<1>4. Stamped(db, 11)
  BY DEF Fresh, Stamped, U!Latest
<1>5. QED
  BY <1>3, <1>4 DEF Inherits, Rows

-----------------------------------------------------------------------------
(* The steps *)

\* What was inherited is measured by the file that was found, which stays the same.
LEMMA InheritsNext ==
    ASSUME UNCHANGED first
    PROVE  /\ Inherits(file', file'.version) => Inherits(file, file.version)'
           /\ Inherits(conn', file'.version + 1) => Inherits(conn, file.version + 1)'
<1>1. \A o \in U!Ids : Tag(o)' = Tag(o)
  BY DEF Tag
<1>2. /\ Stamped(file', file'.version) <=> Stamped(file, file.version)'
      /\ Stamped(conn', file'.version + 1) <=> Stamped(conn, file.version + 1)'
  BY DEF Stamped
<1>3. /\ DataOf(file', file'.version) <=> DataOf(file, file.version)'
      /\ DataOf(conn', file'.version + 1) <=> DataOf(conn, file.version + 1)'
  BY DEF DataOf
<1>4. (ChargesOf(file') <=> ChargesOf(file)') /\ (ChargesOf(conn') <=> ChargesOf(conn)')
  BY <1>1 DEF ChargesOf
<1>5. (TermsOf(file') <=> TermsOf(file)') /\ (TermsOf(conn') <=> TermsOf(conn)')
  BY DEF TermsOf
<1>6. (InvoiceOf(file') <=> InvoiceOf(file)') /\ (InvoiceOf(conn') <=> InvoiceOf(conn)')
  BY DEF InvoiceOf
<1>7. (IndexesHold(file') <=> IndexesHold(file)') /\ (IndexesHold(conn') <=> IndexesHold(conn)')
  BY DEF IndexesHold
<1>8. QED
  BY <1>2, <1>3, <1>4, <1>5, <1>6, <1>7 DEF Inherits, Rows

\* Fresh speaks of the file and of what was found first.
LEMMA FreshNext ==
    ASSUME UNCHANGED first, Fresh(file')
    PROVE  Fresh(file)'
  BY DEF Fresh

\* A step after which no transaction is open.
LEMMA Settled ==
    ASSUME Found, UNCHANGED first, conn' = file', at' # "commit",
           file' \in U!Files, Inherits(file', file'.version), Standing',
           at' \in {"down", "schema", "fresh schema", "stamp", "version", "migrate",
                    "constraints", "repair", "last constraints", "serving", "needs human"}
    PROVE  UpgradeInv'
<1>1. Found'
  BY DEF Found
<1>2. Inherits(file, file.version)'
  BY InheritsNext
<1>3. U!TypeOK' /\ Ahead'
  BY <1>1 DEF Found, U!TypeOK, Ahead
<1>4. QED
  BY <1>1, <1>2, <1>3 DEF UpgradeInv

\* Each step of the start keeps UpgradeInv; first the process that opens the file.
LEMMA OpenKeeps ==
    ASSUME UpgradeInv, U!Open
    PROVE  UpgradeInv'
<1>1. /\ at = "down" /\ conn' = file /\ file' = file /\ first' = first
      /\ at' = IF "users" \in file.objects THEN "schema" ELSE "fresh schema"
  BY DEF U!Open, U!Goes
<1>2. Fresh(file') => Fresh(file)'
  BY <1>1, FreshNext
<1>3. Standing'
  BY <1>1, <1>2 DEF UpgradeInv, Standing
<1>4. file' \in U!Files /\ Inherits(file', file'.version) /\ Found
  BY <1>1 DEF UpgradeInv, U!TypeOK
<1>5. QED
  BY <1>1, <1>3, <1>4, Settled

LEMMA SchemaKeeps ==
    ASSUME UpgradeInv, U!Schema
    PROVE  UpgradeInv'
<1>1. /\ at \in {"schema", "fresh schema"} /\ conn = file /\ first' = first
      /\ file \in U!Files /\ Found /\ Inherits(file, file.version) /\ Standing
  BY DEF UpgradeInv, U!TypeOK, U!Schema
<1>2. ASSUME NEW object \in U!Objects \ file.objects,
             object # "users" => "users" \in file.objects,
             file' = U!Created(file, object), conn' = file', at' = at
      PROVE  UpgradeInv'
  <2>1. /\ file' \in U!Files /\ SameRows(file, file') /\ file'.version = file.version
        /\ file'.objects = file.objects \cup {object} /\ file'.indexes = file.indexes
        /\ object = "tables" => file'.columns = U!Adding
    BY <1>1, <1>2, CreatedKeeps
  <2>2. Inherits(file', file'.version)
    BY <1>1, <2>1, SameInherits, IndexesStay DEF Inherits, Rows
  <2>3. Fresh(file) => Fresh(file')
    <3>1. file.columns \subseteq U!Adding /\ file'.columns \subseteq U!Adding
      BY <1>1, <2>1, FileFields
    <3>2. QED
      BY <2>1, <3>1 DEF Fresh, SameRows
  <2>4. Standing'
    <3>1. at = "fresh schema" => Fresh(file)'
      BY <1>1, <2>3, FreshNext DEF Standing
    <3>2. "users" \in file'.objects
      BY <1>2, <2>1
    <3>3. QED
      BY <1>1, <1>2, <2>1, <3>1, <3>2 DEF Standing
  <2>5. QED
    BY <1>1, <1>2, <2>1, <2>2, <2>4, Settled
<1>3. ASSUME file.objects = U!Objects, file' = file, conn' = conn,
             at' = IF at = "schema" THEN "version" ELSE "stamp"
      PROVE  UpgradeInv'
  <2>1. Fresh(file') => Fresh(file)'
    BY <1>1, FreshNext
  <2>2. Standing'
    BY <1>1, <1>3, <2>1 DEF Standing, U!Objects
  <2>3. file' \in U!Files /\ Inherits(file', file'.version) /\ conn' = file'
    BY <1>1, <1>3
  <2>4. QED
    BY <1>1, <1>3, <2>2, <2>3, Settled
<1>4. QED
  BY <1>1, <1>2, <1>3 DEF U!Schema, U!Writes, U!Goes

LEMMA StampKeeps ==
    ASSUME UpgradeInv, U!Stamp
    PROVE  UpgradeInv'
<1>1. /\ at = "stamp" /\ conn = file /\ first' = first /\ at' = "constraints"
      /\ file' = [file EXCEPT !.version = 11] /\ conn' = file'
      /\ file \in U!Files /\ Found /\ Inherits(file, file.version) /\ Standing
  BY DEF UpgradeInv, U!TypeOK, U!Stamp, U!Writes, U!Goes, U!Latest
<1>2. Fresh(file) /\ file.objects = U!Objects
  BY <1>1 DEF Standing
<1>3. Inherits(file, 11)
  <2>1. file.version = 0 /\ file.columns = U!Adding
    BY <1>2 DEF Fresh, U!Objects
  <2>2. QED
    BY <1>1, <1>2, <2>1, FreshIsLatest
<1>4. /\ file' \in U!Files /\ SameRows(file, file') /\ file'.version = 11
      /\ file'.objects = file.objects /\ file'.indexes = file.indexes
  <2>0. PICK v \in 0..11 : v = 11
    OBVIOUS
  <2>1. PICK new : new = [file EXCEPT !.version = v]
    OBVIOUS
  <2>2. /\ new \in U!Files /\ SameRows(file, new) /\ new.version = v
        /\ new.objects = file.objects /\ new.indexes = file.indexes
    BY <1>1, <2>1, VersionSet
  <2>3. QED
    BY <1>1, <2>0, <2>1, <2>2
<1>5. Inherits(file', file'.version)
  BY <1>1, <1>3, <1>4, SameInherits, IndexesStay DEF Inherits, Rows
<1>6. Standing'
  BY <1>1, <1>2, <1>4 DEF Standing, U!Objects
<1>7. QED
  BY <1>1, <1>4, <1>5, <1>6, Settled

LEMMA ReadVersionKeeps ==
    ASSUME UpgradeInv, U!ReadVersion
    PROVE  UpgradeInv'
<1>1. /\ at = "version" /\ conn = file /\ first' = first /\ file' = file /\ conn' = file'
      /\ file \in U!Files /\ Found /\ Inherits(file, file.version) /\ Standing
      /\ at' = CASE file.version > 11 -> "needs human"
                 [] file.version = 11 -> "constraints"
                 [] OTHER -> "migrate"
  BY DEF UpgradeInv, U!TypeOK, U!ReadVersion, U!Goes, U!Latest
<1>2. file.version \in 0..12 /\ file.objects = U!Objects
  BY <1>1, FileFields DEF Standing
<1>3. PICK v \in 0..12 : v = file.version
  BY <1>2
<1>4. /\ at' \in {"needs human", "constraints", "migrate"}
      /\ at' = "constraints" => v = 11
      /\ at' = "migrate" => v < 11
  <2>1. at' = CASE v > 11 -> "needs human" [] v = 11 -> "constraints" [] OTHER -> "migrate"
    BY <1>1, <1>3
  <2>2. v \in Nat
    BY <1>3
  <2>3. CASE v > 11
    <3>1. v # 11
      BY <2>2, <2>3
    <3>2. at' = "needs human"
      BY <2>1, <2>3, <3>1
    <3>3. QED
      BY <3>2
  <2>4. CASE v = 11
    <3>1. ~(v > 11)
      BY <2>4
    <3>2. at' = "constraints"
      BY <2>1, <2>4, <3>1
    <3>3. QED
      BY <2>4, <3>2
  <2>5. CASE v < 11
    <3>1. ~(v > 11) /\ v # 11
      BY <2>2, <2>5
    <3>2. at' = "migrate"
      BY <2>1, <3>1
    <3>3. QED
      BY <2>5, <3>2
  <2>6. v > 11 \/ v = 11 \/ v < 11
    BY <2>2
  <2>7. QED
    BY <2>3, <2>4, <2>5, <2>6, Zenon
<1>5. Standing'
  BY <1>1, <1>2, <1>3, <1>4 DEF Standing, U!Objects
<1>6. file' \in U!Files /\ Inherits(file', file'.version)
  BY <1>1
<1>7. QED
  BY <1>1, <1>4, <1>5, <1>6, Settled

LEMMA MigrateKeeps ==
    ASSUME UpgradeInv, U!Migrate
    PROVE  UpgradeInv'
<1>1. /\ at = "migrate" /\ conn = file /\ first' = first /\ file' = file /\ at' = "commit"
      /\ conn' = U!Migrated(file, file.version + 1)
      /\ file \in U!Files /\ Found /\ Inherits(file, file.version) /\ Standing
  BY DEF UpgradeInv, U!TypeOK, U!Migrate, U!InTransaction, U!Goes
<1>2. file.version < 11 /\ file.objects = U!Objects
  BY <1>1 DEF Standing
<1>3. /\ conn' \in U!Files /\ conn'.version = file.version
      /\ Inherits(conn', file.version + 1) /\ conn'.objects = U!Objects
  BY <1>1, <1>2, MigratedInherits
<1>4. Inherits(file, file.version)' /\ Inherits(conn, file.version + 1)'
  <2>1. Inherits(file', file'.version) /\ Inherits(conn', file'.version + 1)
    BY <1>1, <1>3
  <2>2. QED
    BY <1>1, <2>1, InheritsNext
<1>5. Found'
  BY <1>1 DEF Found
<1>6. Standing'
  BY <1>1, <1>2 DEF Standing, U!Objects
<1>7. U!TypeOK' /\ Ahead'
  BY <1>1, <1>3, <1>4, <1>5 DEF U!TypeOK, Found, Ahead
<1>8. QED
  BY <1>4, <1>5, <1>6, <1>7 DEF UpgradeInv

LEMMA CommitKeeps ==
    ASSUME UpgradeInv, U!CommitMigration
    PROVE  UpgradeInv'
<1>1. /\ at = "commit" /\ first' = first /\ conn' = file'
      /\ file' = [conn EXCEPT !.version = @ + 1]
      /\ at' = IF file'.version < 11 THEN "migrate" ELSE "constraints"
      /\ conn \in U!Files /\ Found /\ Ahead /\ Standing
  BY DEF UpgradeInv, U!TypeOK, U!CommitMigration, U!Writes, U!Goes, U!Latest
<1>2. PICK v \in 1..11 : v = conn.version + 1 /\ v = file.version + 1
  BY <1>1, FileFields DEF Standing, Ahead
<1>3. file' = [conn EXCEPT !.version = v]
  BY <1>1, <1>2
<1>4. /\ file' \in U!Files /\ SameRows(conn, file') /\ file'.version = v
      /\ file'.objects = conn.objects /\ file'.indexes = conn.indexes
  <2>1. PICK new : new = [conn EXCEPT !.version = v]
    OBVIOUS
  <2>2. /\ new \in U!Files /\ SameRows(conn, new) /\ new.version = v
        /\ new.objects = conn.objects /\ new.indexes = conn.indexes
    BY <1>1, <1>2, <2>1, VersionSet
  <2>3. QED
    BY <1>3, <2>1, <2>2
<1>5. Inherits(conn, v) /\ conn.objects = U!Objects
  BY <1>1, <1>2 DEF Ahead
<1>6. Inherits(file', file'.version)
  BY <1>1, <1>4, <1>5, SameInherits, IndexesStay DEF Inherits, Rows
<1>7. Standing'
  BY <1>1, <1>2, <1>4, <1>5 DEF Standing, U!Objects
<1>8. QED
  BY <1>1, <1>4, <1>6, <1>7, Settled

LEMMA ConstrainKeeps ==
    ASSUME UpgradeInv, U!Constrain
    PROVE  UpgradeInv'
<1>1. /\ at \in {"constraints", "last constraints"} /\ conn = file /\ first' = first
      /\ file \in U!Files /\ Found /\ Inherits(file, file.version) /\ Standing
      /\ file.version = 11 /\ file.objects = U!Objects
  BY DEF UpgradeInv, U!TypeOK, U!Constrain, Standing
<1>2. ASSUME file' = file, conn' = conn,
             \/ at' = "serving" /\ file.indexes = U!Indexes
             \/ at' \in {"repair", "needs human"}
      PROVE  UpgradeInv'
  <2>1. Standing'
    BY <1>1, <1>2 DEF Standing, U!Objects
  <2>2. file' \in U!Files /\ Inherits(file', file'.version) /\ conn' = file'
    BY <1>1, <1>2
  <2>3. QED
    BY <1>1, <1>2, <2>1, <2>2, Settled
<1>3. ASSUME NEW index \in U!Indexes, U!Unique(file, index), at' = at,
             file' = [file EXCEPT !.indexes = @ \cup {index}], conn' = file'
      PROVE  UpgradeInv'
  <2>1. PICK indexes \in SUBSET U!Indexes : indexes = file.indexes \cup {index}
    BY <1>1, <1>3, FileFields
  <2>2. file' = [file EXCEPT !.indexes = indexes]
    BY <1>3, <2>1
  <2>3. /\ file' \in U!Files /\ SameRows(file, file') /\ file'.version = file.version
        /\ file'.objects = file.objects /\ file'.indexes = indexes
    BY <1>1, <2>1, <2>2, IndexSet
  <2>4. IndexesHold(file')
    <3>1. \A i \in indexes : U!Unique(file, i) /\ i \in {"charge", "active"}
      BY <1>1, <1>3, <2>1 DEF Inherits, Rows, IndexesHold, U!Indexes
    <3>2. QED
      BY <2>3, <3>1, UniqueByRows DEF IndexesHold
  <2>5. Inherits(file', file'.version)
    BY <1>1, <2>3, <2>4, SameInherits
  <2>6. Standing'
    BY <1>1, <1>3, <2>3 DEF Standing, U!Objects
  <2>7. QED
    BY <1>1, <1>3, <2>3, <2>5, <2>6, Settled
<1>4. PICK index \in U!Indexes : index = IF "charge" \in conn.indexes THEN "active" ELSE "charge"
  BY DEF U!Indexes
<1>5. \/ conn.indexes = U!Indexes /\ at' = "serving" /\ file' = file /\ conn' = conn
      \/ /\ U!Unique(conn, index) /\ at' = at
         /\ file' = [conn EXCEPT !.indexes = @ \cup {index}] /\ conn' = file'
      \/ /\ at' = IF at = "constraints" THEN "repair" ELSE "needs human"
         /\ file' = file /\ conn' = conn
  BY <1>4 DEF U!Constrain, U!Goes, U!Writes
<1>6. QED
  BY <1>1, <1>2, <1>3, <1>4, <1>5

LEMMA RepairKeeps ==
    ASSUME UpgradeInv, U!Repair
    PROVE  UpgradeInv'
<1>1. /\ at = "repair" /\ conn = file /\ first' = first /\ at' = "last constraints"
      /\ file' = U!Repaired(file) /\ conn' = file'
      /\ file \in U!Files /\ Found /\ Inherits(file, file.version) /\ Standing
      /\ file.version = 11 /\ file.objects = U!Objects
  BY DEF UpgradeInv, U!TypeOK, U!Repair, U!Writes, U!Goes, Standing
<1>2. file' \in U!Files /\ SameSchema(file, file') /\ Rows(file', 11)
  <2>1. Rows(file, 11) /\ 11 \in 0..11
    <3>1. Rows(file, file.version)
      BY <1>1 DEF Inherits
    <3>2. 11 \in 0..11
      OBVIOUS
    <3>3. QED
      BY <1>1, <3>1, <3>2, Zenon
  <2>2. PICK new : new = U!Repaired(file)
    OBVIOUS
  <2>3. new \in U!Files /\ SameSchema(file, new) /\ Rows(new, 11)
    BY <1>1, <2>1, <2>2, Repairing
  <2>4. QED
    BY <1>1, <2>2, <2>3
<1>3. Inherits(file', file'.version)
  BY <1>1, <1>2 DEF Inherits, SameSchema, Stamped
<1>4. Standing'
  BY <1>1, <1>2 DEF Standing, SameSchema, U!Objects
<1>5. QED
  BY <1>1, <1>2, <1>3, <1>4, Settled

\* An error or a crash falls back to the file, which is as it was.
LEMMA EndsKeep ==
    ASSUME UpgradeInv, U!Error \/ U!Crash
    PROVE  UpgradeInv'
<1>1. /\ conn' = file /\ file' = file /\ first' = first
      /\ file \in U!Files /\ Found /\ Inherits(file, file.version) /\ Standing
  BY DEF UpgradeInv, U!TypeOK, U!Error, U!Crash
<1>2. \/ at' \in {"down", "needs human"}
      \/ at = "constraints" /\ at' = "repair"
  BY DEF U!Error, U!Crash, U!Goes
<1>3. Fresh(file') => Fresh(file)'
  BY <1>1, FreshNext
<1>4. Standing'
  BY <1>1, <1>2, <1>3 DEF Standing
<1>5. file' \in U!Files /\ Inherits(file', file'.version) /\ conn' = file'
  BY <1>1
<1>6. QED
  BY <1>1, <1>2, <1>4, <1>5, Settled

\* Every file that may be found inherits from itself.
LEMMA FoundInherits ==
    ASSUME Found, U!RowsOf(first.version, first), IndexesHold(first), first.applied = <<>>
    PROVE  Inherits(first, first.version)
<1>1. Stamped(first, first.version)
  BY DEF Stamped
<1>2. ChargesOf(first)
  BY DEF ChargesOf
<1>3. TermsOf(first)
  <2>1. \A s \in U!Ids : first.subs[s].ends \in 1..2
    BY FileFields, SubFields DEF Found
  <2>2. QED
    BY <2>1 DEF TermsOf
<1>4. InvoiceOf(first)
  BY DEF InvoiceOf
<1>5. /\ DataOf(first, first.version)
      /\ {i \in U!Adding : i <= first.version} \subseteq first.columns
  BY DEF U!RowsOf, DataOf
<1>6. QED
  BY <1>1, <1>2, <1>3, <1>4, <1>5 DEF Inherits, Rows

\* A start finds no file, or one that inherits from itself.
LEMMA UpgradeBegins ==
    ASSUME U!MigrationsAssumption, U!Init
    PROVE  UpgradeInv
<1>1. file \in Legacy \cup {U!NoFile} /\ conn = file /\ first = file /\ at = "down"
  BY DEF U!Init
<1>2. CASE file \in Legacy
  <2>1. /\ file \in U!Files /\ "users" \in file.objects /\ file.applied = <<>>
        /\ U!RowsOf(file.version, file) /\ \A i \in file.indexes : U!Unique(file, i)
        /\ \A o \in U!Ids : file.orders[o].charge \in {<<>>, <<"c">>, <<"c", o>>}
    BY <1>2 DEF U!MigrationsAssumption
  <2>2. Found
    BY <1>1, <2>1 DEF Found, OwnCharges
  <2>3. Inherits(file, file.version)
    <3>1. U!RowsOf(first.version, first) /\ IndexesHold(first) /\ first.applied = <<>>
      BY <1>1, <2>1 DEF IndexesHold
    <3>2. QED
      BY <1>1, <2>2, <3>1, FoundInherits
  <2>4. Standing /\ Ahead /\ U!TypeOK
    BY <1>1, <2>1 DEF Standing, Ahead, U!TypeOK
  <2>5. QED
    BY <2>2, <2>3, <2>4 DEF UpgradeInv
<1>3. CASE file = U!NoFile
  <2>1. /\ file.version = 0 /\ file.objects = {} /\ file.columns = {} /\ file.indexes = {}
        /\ file.orders = [o \in U!Ids |-> U!NoRow]
        /\ file.subs = [s \in U!Ids |-> [active |-> FALSE, ends |-> 1]]
        /\ file.invoice = U!NoFile.invoice /\ file.refunds = {} /\ file.erased = FALSE
        /\ file.applied = <<>> /\ file.orders = U!NoFile.orders
        /\ file.invoice = [status |-> "cancelled", terms |-> TRUE]
    BY <1>3 DEF U!NoFile
  <2>2. U!NoRow \in U!OrderRows /\ U!NoRow.charge = <<>>
    BY DEF U!NoRow, U!OrderRows, U!Statuses, U!Charges, U!Confirmed
  <2>3. \A o \in U!Ids : file.orders[o].charge = <<>>
    BY <2>1, <2>2
  <2>4. file \in U!Files
    <3>1. file.orders \in [U!Ids -> U!OrderRows]
      BY <2>1, <2>2
    <3>2. file.subs \in [U!Ids -> U!SubRows]
      BY <2>1 DEF U!SubRows
    <3>3. file.invoice \in U!InvoiceRows
      BY <2>1 DEF U!InvoiceRows
    <3>4. <<>> \in Seq(1..U!Latest)
      BY EmptySeq
    <3>5. PICK o \in [U!Ids -> U!OrderRows], s \in [U!Ids -> U!SubRows], i \in U!InvoiceRows,
               none \in Seq(1..U!Latest), v \in 0..U!Latest + 1 :
             file = [version |-> v, objects |-> {}, columns |-> {}, indexes |-> {},
                     orders |-> o, subs |-> s, invoice |-> i, refunds |-> {},
                     erased |-> FALSE, applied |-> none]
      <4>1. file = [version |-> 0, objects |-> {}, columns |-> {}, indexes |-> {},
                    orders |-> file.orders, subs |-> file.subs, invoice |-> file.invoice,
                    refunds |-> {}, erased |-> FALSE, applied |-> <<>>]
        BY <1>3 DEF U!NoFile
      <4>2. 0 \in 0..U!Latest + 1
        BY DEF U!Latest
      <4>3. QED
        BY <3>1, <3>2, <3>3, <3>4, <4>1, <4>2, Zenon
    <3>6. QED
      BY <3>5 DEF U!Files
  <2>5. Found
    BY <1>1, <2>3, <2>4 DEF Found, OwnCharges
  <2>6. U!RowsOf(0, file)
    <3>1. {i \in U!Adding : i <= 0} \subseteq file.columns
      BY DEF U!Adding
    <3>2. QED
      BY <2>1, <3>1 DEF U!RowsOf
  <2>7. Inherits(file, file.version)
    <3>1. U!RowsOf(first.version, first)
      BY <1>1, <2>1, <2>6, Zenon
    <3>2. IndexesHold(first) /\ first.applied = <<>>
      BY <1>1, <2>1 DEF IndexesHold
    <3>3. QED
      BY <1>1, <2>5, <3>1, <3>2, FoundInherits
  <2>8. Fresh(file)
    BY <1>1, <2>1 DEF Fresh
  <2>9. Standing /\ Ahead /\ U!TypeOK
    BY <1>1, <2>4, <2>8 DEF Standing, Ahead, U!TypeOK
  <2>10. QED
    BY <2>5, <2>7, <2>9 DEF UpgradeInv
<1>4. QED
  BY <1>1, <1>2, <1>3

\* No step of the start, no error and no crash breaks UpgradeInv.
LEMMA UpgradeStep ==
    ASSUME UpgradeInv, [U!Next]_(U!vars)
    PROVE  UpgradeInv'
<1>1. CASE U!Next
  BY <1>1, OpenKeeps, SchemaKeeps, StampKeeps, ReadVersionKeeps, MigrateKeeps, CommitKeeps,
     ConstrainKeeps, RepairKeeps, EndsKeep DEF U!Next, U!Start
<1>2. CASE UNCHANGED U!vars
  <2>1. file' = file /\ conn' = conn /\ at' = at /\ first' = first
    BY <1>2 DEF U!vars
  <2>2. Inherits(file, file.version)' /\ (at = "commit" => Inherits(conn, file.version + 1)')
    <3>1. Inherits(file', file'.version)
      BY <2>1 DEF UpgradeInv
    <3>2. at = "commit" => Inherits(conn', file'.version + 1)
      BY <2>1 DEF UpgradeInv, Ahead
    <3>3. QED
      BY <2>1, <3>1, <3>2, InheritsNext
  <2>3. Found' /\ U!TypeOK'
    BY <2>1 DEF UpgradeInv, Found, U!TypeOK
  <2>4. Standing'
    <3>1. Fresh(file) => Fresh(file)'
      BY <2>1 DEF Fresh
    <3>2. QED
      BY <2>1, <3>1 DEF UpgradeInv, Standing
  <2>5. Ahead'
    BY <2>1, <2>2 DEF UpgradeInv, Ahead
  <2>6. QED
    BY <2>2, <2>3, <2>4, <2>5 DEF UpgradeInv
<1>3. QED
  BY <1>1, <1>2

\* UpgradeInv says what a bot serves on.
LEMMA UpgradeHolds ==
    ASSUME UpgradeInv
    PROVE  U!UpgradeIsFaithful
<1>1. /\ file \in U!Files /\ Found /\ Inherits(file, file.version) /\ Standing
      /\ U!TypeOK
  BY DEF UpgradeInv, U!TypeOK
<1>2. ASSUME at = "serving"
      PROVE  /\ file.version = 11 /\ file.objects = U!Objects /\ file.columns = U!Adding
             /\ file.indexes = U!Indexes /\ DataOf(file, 11) /\ ChargesOf(file)
             /\ TermsOf(file) /\ InvoiceOf(file)
             /\ \A i \in U!Indexes : U!Unique(file, i)
  <2>1. file.version = 11 /\ file.objects = U!Objects /\ file.indexes = U!Indexes
    BY <1>1, <1>2 DEF Standing
  <2>2. file.columns = U!Adding
    <3>1. {i \in U!Adding : i <= 11} \subseteq file.columns
      BY <1>1, <2>1 DEF Inherits
    <3>2. \A i \in U!Adding : i <= 11
      BY DEF U!Adding
    <3>3. QED
      BY <1>1, <3>1, <3>2, FileFields
  <2>3. Rows(file, 11)
    <3>1. Rows(file, file.version)
      BY <1>1 DEF Inherits
    <3>2. QED
      BY <2>1, <3>1, Zenon
  <2>4. QED
    BY <2>1, <2>2, <2>3 DEF Rows, IndexesHold
<1>3. U!ServesCurrentSchema
  BY <1>2 DEF U!ServesCurrentSchema, U!Serving, U!Latest
<1>4. U!StampIsTrue
  BY <1>1 DEF Inherits, Stamped, UpTo, U!StampIsTrue
<1>5. U!PaymentsAreDated
  BY <1>2 DEF U!PaymentsAreDated, U!Serving, DataOf
<1>6. U!ChargesAreKept
  <2> SUFFICES ASSUME at = "serving", NEW o \in U!Ids
               PROVE  file.orders[o].charge = Tag(o)
    BY DEF U!ChargesAreKept, U!Serving, Tag
  <2>1. CASE \A p \in U!Ids : file.orders[p].charge = first.orders[p].charge
    <3>1. U!Unique(file, "charge")
      BY <1>2 DEF U!Indexes
    <3>2. \A p, q \in U!Ids : first.orders[p].charge = first.orders[q].charge
                              => p = q \/ first.orders[p].charge = <<>>
      BY <2>1, <3>1 DEF U!Unique
    <3>3. ~\E p \in U!Ids : /\ p < o /\ first.orders[p].charge = first.orders[o].charge
                            /\ first.orders[o].charge # <<>>
      BY <3>2 DEF U!Ids
    <3>4. QED
      BY <2>1, <3>3 DEF Tag
  <2>2. QED
    BY <1>2, <2>1 DEF ChargesOf
<1>7. U!LongestIsKept
  <2> SUFFICES ASSUME at = "serving"
               PROVE  LET ends(db) == {db.subs[s].ends : s \in {t \in U!Ids : db.subs[t].active}}
                      IN  \A e \in ends(first) : \E f \in ends(file) : e <= f
    BY DEF U!LongestIsKept, U!Serving
  <2>1. QED
    BY <1>2 DEF TermsOf
<1>8. U!OldInvoicesAreClosed
  BY <1>2 DEF U!OldInvoicesAreClosed, U!Serving, DataOf, InvoiceOf
<1>9. U!RecipientsAreKnown
  BY <1>2 DEF U!RecipientsAreKnown, U!Serving, DataOf
<1>10. QED
  BY <1>1, <1>3, <1>4, <1>5, <1>6, <1>7, <1>8, <1>9 DEF U!UpgradeIsFaithful

\* The start, for any set of files that an earlier build may have left, any crashes and any
\* errors: a bot serves on the current schema only, by every migration once and in order, and
\* no charge, date of a payment, recipient or running term was lost on the way.
THEOREM UpgradeKept ==
    ASSUME U!MigrationsAssumption
    PROVE  U!Spec => []U!UpgradeIsFaithful
<1>1. U!Init => UpgradeInv
  BY UpgradeBegins
<1>2. UpgradeInv /\ [U!Next]_(U!vars) => UpgradeInv'
  BY UpgradeStep
<1>3. UpgradeInv => U!UpgradeIsFaithful
  BY UpgradeHolds
<1>4. QED
  BY <1>1, <1>2, <1>3, PTL DEF U!Spec
=============================================================================
