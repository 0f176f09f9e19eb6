---------------------------- MODULE Transactions ----------------------------
(***************************************************************************)
(* db/connection.py: the one SQLite connection that all tasks share, its   *)
(* write lock, and the ownership of an open transaction.                   *)
(*                                                                         *)
(* What one task has written and not committed is on the connection for    *)
(* every cursor, and a commit or a rollback is of the connection, not of a *)
(* task.  So all calls share the lock, except those of the task that opened *)
(* the transaction, which holds it.                                        *)
(*                                                                         *)
(* A transaction writes twice, to pair[1] and pair[2]; other calls write   *)
(* single or read everything.                                              *)
(***************************************************************************)
EXTENDS Naturals, FiniteSets

CONSTANTS
    Tasks,
    NoTask,
    MaxCalls,       \* bound on calls that write
    MaxCancels,     \* bound on tasks that are cancelled
    MaxRestarts     \* bound on restarts of the process

TransactionsAssumption ==
    /\ NoTask \notin Tasks
    /\ MaxCalls \in Nat /\ MaxCancels \in Nat /\ MaxRestarts \in Nat

VARIABLES
    disk,       \* what was committed
    conn,       \* the connection: whether a transaction is open, and what its cursors see
    up,         \* "up", or "closed" after disconnect
    lock,       \* _write_lock
    owner,      \* _transaction_owner, copied into the tasks that a task creates
    at,         \* where each task stands
    seen,       \* what a task read last, outside a transaction
    acks,       \* calls that returned, by kind, and those that were cancelled at a commit
    calls, cancels, restarts

vars == <<disk, conn, up, lock, owner, at, seen, acks, calls, cancels, restarts>>
bounds == <<calls, cancels, restarts>>

Rows == [pair : [{1, 2} -> Nat], single : Nat]
Empty == [pair |-> [i \in {1, 2} |-> 0], single |-> 0]
Kinds == {"transaction", "execute", "fetch"}
Waiting == [transaction |-> "transaction_waits", execute |-> "execute_waits",
            fetch |-> "fetch_waits"]
Waits == {Waiting[kind] : kind \in Kinds}

Goes(t, place) == at' = [at EXCEPT ![t] = place]
Opened == conn.open

\* _owns_transaction.
Owns(t) == owner[t] = t

Release(t) == lock' = IF lock = t THEN NoTask ELSE lock
Over(t) == Goes(t, "idle") /\ Release(t) /\ owner' = [owner EXCEPT ![t] = NoTask]

Committed == disk' = conn.rows /\ conn' = [conn EXCEPT !.open = FALSE]
RolledBack == conn' = [open |-> FALSE, rows |-> disk] /\ UNCHANGED disk
Written(rows) == conn' = [open |-> TRUE, rows |-> rows] /\ UNCHANGED disk

-----------------------------------------------------------------------------
(* Calls *)

\* transaction(), execute(), fetch_*(): the connection is looked up, and the lock
\* asked for.  A task inside a transaction goes on at once.
Call(t, kind) ==
    /\ at[t] = "idle" /\ up = "up"
    /\ kind # "fetch" => calls < MaxCalls
    /\ calls' = IF kind = "fetch" THEN calls ELSE calls + 1
    /\ Goes(t, IF Owns(t) THEN kind ELSE Waiting[kind])
    /\ UNCHANGED <<disk, conn, up, lock, owner, seen, acks, cancels, restarts>>

Enter(t) ==
    /\ lock = NoTask /\ lock' = t
    /\ \E kind \in Kinds : at[t] = Waiting[kind] /\ Goes(t, kind)
    /\ UNCHANGED <<disk, conn, up, owner, seen, acks, bounds>>

\* BEGIN IMMEDIATE.  Outside the try block: an error leaves the connection as it is.
Begin(t) ==
    /\ at[t] = "transaction" /\ ~Owns(t)
    /\ \/ /\ up = "up" /\ ~Opened
          /\ conn' = [conn EXCEPT !.open = TRUE]
          /\ owner' = [owner EXCEPT ![t] = t] /\ Goes(t, "first") /\ UNCHANGED lock
       \/ (up = "closed" \/ Opened) /\ Over(t) /\ UNCHANGED conn
    /\ UNCHANGED <<disk, up, seen, acks, bounds>>

First(t) ==
    /\ at[t] = "first" /\ Goes(t, "second")
    /\ Written([conn.rows EXCEPT !.pair[1] = @ + 1])
    /\ UNCHANGED <<up, lock, owner, seen, acks, bounds>>

Second(t) ==
    /\ at[t] = "second" /\ Goes(t, "commit")
    /\ Written([conn.rows EXCEPT !.pair[2] = @ + 1])
    /\ UNCHANGED <<up, lock, owner, seen, acks, bounds>>

\* The body creates a task, which takes a copy of its context.
Spawn(t, u) ==
    /\ at[t] = "second" /\ u # t /\ at[u] = "idle" /\ owner[u] = NoTask
    /\ owner' = [owner EXCEPT ![u] = t]
    /\ UNCHANGED <<disk, conn, up, lock, at, seen, acks, bounds>>

\* The body or the commit raises, and everything is rolled back.
BodyFails(t) ==
    /\ at[t] \in {"first", "second", "commit"}
    /\ RolledBack /\ Over(t)
    /\ UNCHANGED <<up, seen, acks, bounds>>

Commit(t) ==
    /\ at[t] = "commit" /\ Committed /\ Over(t)
    /\ acks' = [acks EXCEPT !.transaction = @ + 1]
    /\ UNCHANGED <<up, seen, bounds>>

\* The one statement of execute and execute_change, which opens a transaction of
\* SQLite's own.  Inside a transaction it leaves the commit to it.
Execute(t) ==
    /\ at[t] = "execute"
    /\ \/ /\ up = "up" /\ Written([conn.rows EXCEPT !.single = @ + 1])
          /\ IF Owns(t) THEN Goes(t, "idle") ELSE Goes(t, "commit_one")
          /\ UNCHANGED <<lock, owner>>
       \/ up = "closed" /\ RolledBack /\ Over(t)
    /\ UNCHANGED <<up, seen, acks, bounds>>

CommitOne(t) ==
    /\ at[t] = "commit_one" /\ Committed /\ Over(t)
    /\ acks' = [acks EXCEPT !.execute = @ + 1]
    /\ UNCHANGED <<up, seen, bounds>>

ExecuteFails(t) ==
    /\ at[t] \in {"execute", "commit_one"} /\ ~Owns(t)
    /\ RolledBack /\ Over(t)
    /\ UNCHANGED <<up, seen, acks, bounds>>

\* Mutant: readers do not wait.
FetchAnytime(t) ==
    /\ at[t] \in {"fetch", "fetch_waits"}
    /\ seen' = [seen EXCEPT ![t] = conn.rows]
    /\ Over(t)
    /\ UNCHANGED <<disk, conn, up, acks, bounds>>

\* fetch_one, fetch_all, fetch_value, under the lock.
Fetch(t) ==
    /\ at[t] = "fetch"
    /\ seen' = IF up = "up" THEN [seen EXCEPT ![t] = conn.rows] ELSE seen
    /\ Over(t)
    /\ UNCHANGED <<disk, conn, up, acks, bounds>>

-----------------------------------------------------------------------------
(* What happens to tasks, to the connection and to the process *)

\* A task is cancelled at the await where it stands.  The statement or commit under
\* way is carried out or not; the answer is lost.
Cancel(t) ==
    /\ at[t] # "idle" /\ cancels < MaxCancels /\ cancels' = cancels + 1
    /\ LET doubt(kind) == acks' = [acks EXCEPT !.doubtful = @ \cup {<<kind, cancels>>}] IN
       \/ /\ at[t] \in Waits \cup {"fetch"}
          /\ UNCHANGED <<disk, conn, acks>>
       \/ /\ at[t] = "transaction"
          /\ conn' \in {conn, [conn EXCEPT !.open = TRUE]} /\ UNCHANGED <<disk, acks>>
       \/ at[t] \in {"first", "second", "commit"} /\ RolledBack /\ UNCHANGED acks
       \/ at[t] = "commit" /\ Committed /\ doubt("transaction")
       \/ at[t] \in {"execute", "commit_one"} /\ RolledBack /\ UNCHANGED acks
       \/ at[t] = "commit_one" /\ Committed /\ doubt("execute")
    /\ Over(t)
    /\ UNCHANGED <<up, seen, calls, restarts>>

\* disconnect waits for the lock.
Disconnect ==
    /\ up = "up" /\ lock = NoTask /\ up' = "closed"
    /\ conn' = [open |-> FALSE, rows |-> disk]
    /\ UNCHANGED <<disk, lock, owner, at, seen, acks, bounds>>

\* The process ends anywhere, and connects again.  A commit that is under way in the thread
\* of the database is carried out or not.
Restart ==
    /\ restarts < MaxRestarts /\ restarts' = restarts + 1
    /\ \/ UNCHANGED disk
       \/ (\E t \in Tasks : at[t] \in {"commit", "commit_one"}) /\ disk' = conn.rows
    /\ up' = "up" /\ conn' = [open |-> FALSE, rows |-> disk']
    /\ lock' = NoTask /\ owner' = [t \in Tasks |-> NoTask] /\ at' = [t \in Tasks |-> "idle"]
    /\ acks' = [acks EXCEPT !.doubtful = @ \cup {<<"restart", restarts>>}]
    /\ UNCHANGED <<seen, calls, cancels>>

-----------------------------------------------------------------------------

Init ==
    /\ disk = Empty /\ conn = [open |-> FALSE, rows |-> Empty]
    /\ up = "up" /\ lock = NoTask
    /\ owner = [t \in Tasks |-> NoTask]
    /\ at = [t \in Tasks |-> "idle"]
    /\ seen = [t \in Tasks |-> Empty]
    /\ acks = [transaction |-> 0, execute |-> 0, doubtful |-> {}]
    /\ calls = 0 /\ cancels = 0 /\ restarts = 0

Next ==
    \/ \E t \in Tasks :
          \/ \E kind \in Kinds : Call(t, kind)
          \/ Enter(t) \/ Begin(t) \/ First(t) \/ Second(t) \/ Commit(t) \/ BodyFails(t)
          \/ Execute(t) \/ CommitOne(t) \/ ExecuteFails(t) \/ Fetch(t) \/ Cancel(t)
          \/ \E u \in Tasks : Spawn(t, u)
    \/ Disconnect \/ Restart

Spec == Init /\ [][Next]_vars

-----------------------------------------------------------------------------
(* What the calls amount to *)

\* The call of a task that stands at a place.
Asking(place) ==
    CASE place = "idle" -> "nothing"
      [] place \in {Waiting.transaction, "transaction", "first", "second", "commit"} ->
            "transaction"
      [] place \in {Waiting.execute, "execute", "commit_one"} -> "execute"
      [] place \in {Waiting.fetch, "fetch"} -> "fetch"

S == INSTANCE Store WITH
    store <- disk, asked <- [t \in Tasks |-> Asking(at[t])], answer <- seen

\* Each call takes effect once and at one moment, or not at all: what tasks see of the one
\* connection is a store of which each of them has the whole to itself.
StoreStep == [S!StoreNext]_(S!storeVars)

-----------------------------------------------------------------------------
(* Properties *)

Whole(rows) == rows.pair[1] = rows.pair[2]

\* Types; the lock and the ownership of an open transaction go together.
TypeOK ==
    /\ disk \in Rows /\ conn \in [open : BOOLEAN, rows : Rows]
    /\ up \in {"up", "closed"} /\ lock \in Tasks \cup {NoTask}
    /\ owner \in [Tasks -> Tasks \cup {NoTask}]
    /\ at \in [Tasks -> {"idle", "first", "second", "commit", "commit_one"} \cup Kinds
                            \cup Waits]
    /\ seen \in [Tasks -> Rows]
    /\ \A t \in Tasks : Owns(t) <=> at[t] \in {"first", "second", "commit"}

\* "A crash or an error cannot leave half of them behind": what is on the disk holds
\* both writes of a transaction or none, whoever committed, failed or was cancelled
\* in between.
NothingHalf == Whole(disk)

\* Readers "see either the state before a transaction or the state after its commit,
\* never its temporary middle".
ReadsAreWhole == \A t \in Tasks : Whole(seen[t])

\* A write that was reported is on the disk and one that was not is not there, but for
\* those whose task was cancelled, or whose process ended, at their commit.
ReportedIsWritten ==
    LET count(kind) == Cardinality({d \in acks.doubtful : d[1] \in {kind, "restart"}}) IN
    /\ acks.transaction <= disk.pair[1]
    /\ disk.pair[1] <= acks.transaction + count("transaction")
    /\ acks.execute <= disk.single
    /\ disk.single <= acks.execute + count("execute")

\* A transaction is open on the connection only under the lock of a task that will
\* end it, unless a task was cancelled while it began.
OpenIsOwned ==
    conn.open /\ cancels = 0 =>
        \E t \in Tasks : lock = t /\ at[t] \in {"first", "second", "commit", "commit_one"}

\* All tasks share a connection, and yet a transaction is on the disk as a whole or not at
\* all, no reader sees its middle, what was reported is written, and none is left open.
WholeOrNothing ==
    /\ TypeOK /\ NothingHalf /\ ReadsAreWhole /\ ReportedIsWritten /\ OpenIsOwned
=============================================================================
