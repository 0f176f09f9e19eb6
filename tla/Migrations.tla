----------------------------- MODULE Migrations -----------------------------
(***************************************************************************)
(* db/connection.py, connect: what a start of the bot does to the database *)
(* file it finds, of any earlier schema version and with the data that     *)
(* version wrote, and what is left if the process ends on the way.         *)
(*                                                                         *)
(* SCHEMA creates what is missing, statement by statement.  Each migration *)
(* changes the rows and the version in one transaction.  CONSTRAINTS comes *)
(* last, and the data is repaired once if it is refused.                   *)
(*                                                                         *)
(* One customer, two orders, two subscriptions to one product, an invoice  *)
(* and a refund stand for the data.                                        *)
(***************************************************************************)
EXTENDS Naturals, FiniteSets, Sequences

CONSTANTS
    Legacy,         \* the files that a start may find
    MaxCrashes,     \* bound on processes that end during a start
    MaxErrors       \* bound on statements that fail for a reason outside the data

VARIABLES
    file,       \* what was committed
    conn,       \* what the connection sees: the file and the open transaction
    at,         \* where the start stands
    first,      \* the file that was found first
    crashes, errors

vars == <<file, conn, at, first, crashes, errors>>

\* The list index plus one is the schema version.
Latest == 11
Objects == {"users", "tables", "index", "refunds"}
Indexes == {"charge", "active"}
\* The migrations that add a column.
Adding == {1, 3, 4, 5, 8, 9, 10, 11}
Ids == {1, 2}
Confirmed == {"paid", "refunded"}
Statuses == Confirmed \cup {"pending_receipt", "problem", "rejected"}

\* A tagged charge is the pair of the charge and of the order's id.
Charges == {<<>>, <<"c">>, <<"c", 1>>, <<"c", 2>>}
OrderRows == [status : Statuses, charge : Charges, paid : BOOLEAN, reversed : BOOLEAN,
              recipient : BOOLEAN]
SubRows == [active : BOOLEAN, ends : 1..2]
InvoiceRows == [status : {"pending", "paid", "cancelled"}, terms : BOOLEAN]
RefundRows == [order : BOOLEAN, completed : BOOLEAN, telegram : BOOLEAN, user : BOOLEAN]

Files == [version : 0..Latest + 1, objects : SUBSET Objects, columns : SUBSET Adding,
          indexes : SUBSET Indexes, orders : [Ids -> OrderRows], subs : [Ids -> SubRows],
          invoice : InvoiceRows, refunds : SUBSET RefundRows, erased : BOOLEAN,
          applied : Seq(1..Latest)]

-----------------------------------------------------------------------------
(* What one statement of the start does *)

\* CREATE TABLE IF NOT EXISTS makes a table with all its columns.
Created(db, object) ==
    [db EXCEPT !.objects = @ \cup {object},
               !.columns = @ \cup (CASE object \in db.objects -> {}
                                     [] object = "tables" -> Adding
                                     [] object = "refunds" -> {11}
                                     [] OTHER -> {})]

\* Of the orders with one charge the first keeps it, the others are tagged.
TaggedDuplicates(db) ==
    LET later(o) == db.orders[o].charge # <<>>
                    /\ \E p \in Ids : p < o /\ db.orders[p].charge = db.orders[o].charge IN
    [db EXCEPT !.orders = [o \in Ids |->
        IF later(o) THEN [db.orders[o] EXCEPT !.charge = Append(@, o)] ELSE db.orders[o]]]

\* Of several active subscriptions the one that runs longest stays.
KeptLongest(db) ==
    LET active == {s \in Ids : db.subs[s].active}
        longest == {s \in active : \A k \in active : db.subs[k].ends <= db.subs[s].ends}
        kept == CHOOSE s \in longest : TRUE IN
    [db EXCEPT !.subs = [s \in Ids |->
        [db.subs[s] EXCEPT !.active = @ /\ s = kept]]]

Repaired(db) == KeptLongest(TaggedDuplicates(db))

\* Mutant: what was refunded since is not taken for a payment.
WithOpenPayments(db) ==
    [db EXCEPT !.orders = [o \in Ids |->
        [db.orders[o] EXCEPT !.paid = @ \/ db.orders[o].status = "paid"]]]

WithPayments(db) ==
    [db EXCEPT !.orders = [o \in Ids |->
        [db.orders[o] EXCEPT !.paid = @ \/ db.orders[o].status \in Confirmed]]]

WithReversals(db) ==
    [db EXCEPT !.orders = [o \in Ids |->
        [db.orders[o] EXCEPT
            !.reversed = @ \/ /\ db.orders[o].status \in {"refunded", "rejected"}
                              /\ db.orders[o].paid]]]

\* The invoice gets the terms of today's product, so that nobody may pay it any more.
WithTerms(db) ==
    [db EXCEPT !.invoice = [status |-> IF @.status = "pending" THEN "cancelled" ELSE @.status,
                            terms |-> TRUE]]

\* A completed refund of an erased profile needs no Telegram id.
WithoutIds(db) ==
    [db EXCEPT !.refunds = {[r EXCEPT !.telegram = @ /\ ~(r.completed /\ db.erased)] :
                            r \in db.refunds}]

WithRecipients(db) ==
    [db EXCEPT !.orders = [o \in Ids |->
        [db.orders[o] EXCEPT
            !.recipient = @ \/ (db.orders[o].charge # <<>> /\ ~db.erased)]]]

WithUsers(db) ==
    [db EXCEPT !.refunds = {[r EXCEPT !.user = @ \/ r.order \/ (r.telegram /\ ~db.erased)] :
                            r \in db.refunds}]

\* What a migration does to the rows.
Changed(db, i) ==
    CASE i = 2 -> Repaired(db)
      [] i = 3 -> WithPayments(db)
      [] i = 4 -> WithReversals(db)
      [] i = 5 -> WithTerms(db)
      [] i = 7 -> WithoutIds(db)
      [] i = 9 -> WithRecipients(db)
      [] i = 11 -> WithUsers(db)
      [] OTHER -> db

\* MIGRATIONS[i - 1].  A column that is there already is not added again.
Migrated(db, i) ==
    [Changed(db, i) EXCEPT !.columns = @ \cup ({i} \cap Adding),
                           !.objects = IF i = 6 THEN @ \cup {"refunds"} ELSE @,
                           !.applied = Append(@, i)]

Unique(db, index) ==
    CASE index = "charge" -> \A o, p \in Ids : db.orders[o].charge = db.orders[p].charge
                                               => o = p \/ db.orders[o].charge = <<>>
      [] index = "active" -> Cardinality({s \in Ids : db.subs[s].active}) <= 1

-----------------------------------------------------------------------------
(* What a start may find *)

\* What the rows are like from version v on: a build of that version writes them so, and the
\* migrations to it made the older ones so.
RowsOf(v, db) ==
    /\ {i \in Adding : i <= v} \subseteq db.columns
    /\ v >= 5 => db.invoice.terms
    /\ \A o \in Ids : LET row == db.orders[o] IN
          /\ v >= 3 /\ row.status \in Confirmed => row.paid
          /\ v >= 4 /\ row.paid /\ row.status \in {"refunded", "rejected"} => row.reversed
          /\ v >= 9 /\ ~db.erased /\ row.charge # <<>> => row.recipient
    /\ v >= 11 /\ ~db.erased => \A r \in db.refunds : r.telegram => r.user

\* A charge is tagged with its own order, a unique index holds, and no migration was applied
\* by a start of this build yet.
MigrationsAssumption ==
    /\ Legacy \subseteq Files /\ MaxCrashes \in Nat /\ MaxErrors \in Nat
    /\ \A f \in Legacy :
          /\ "users" \in f.objects /\ f.applied = <<>> /\ RowsOf(f.version, f)
          /\ \A i \in f.indexes : Unique(f, i)
          /\ \A o \in Ids : f.orders[o].charge \in {<<>>, <<"c">>, <<"c", o>>}

-----------------------------------------------------------------------------
(* The start *)

Goes(step) == at' = step
\* A statement outside a transaction is committed as it ends.
Writes(db) == file' = db /\ conn' = db
InTransaction(db) == conn' = db /\ UNCHANGED file

\* The process starts, and sees whether the file is fresh.
Open ==
    /\ at = "down" /\ conn' = file
    /\ Goes(IF "users" \in file.objects THEN "schema" ELSE "fresh schema")
    /\ UNCHANGED <<file, first, crashes, errors>>

\* The next statement of SCHEMA.  The users come first.
Schema ==
    /\ at \in {"schema", "fresh schema"}
    /\ \/ \E object \in Objects \ conn.objects :
             /\ object # "users" => "users" \in conn.objects
             /\ Writes(Created(conn, object)) /\ UNCHANGED at
       \/ /\ conn.objects = Objects
          /\ Goes(IF at = "schema" THEN "version" ELSE "stamp") /\ UNCHANGED <<file, conn>>
    /\ UNCHANGED <<first, crashes, errors>>

\* A fresh file already matches the current schema.
Stamp ==
    /\ at = "stamp" /\ Writes([conn EXCEPT !.version = Latest]) /\ Goes("constraints")
    /\ UNCHANGED <<first, crashes, errors>>

ReadVersion ==
    /\ at = "version"
    /\ Goes(CASE conn.version > Latest -> "needs human"
              [] conn.version = Latest -> "constraints"
              [] OTHER -> "migrate")
    /\ UNCHANGED <<file, conn, first, crashes, errors>>

Migrate ==
    /\ at = "migrate" /\ InTransaction(Migrated(conn, conn.version + 1)) /\ Goes("commit")
    /\ UNCHANGED <<first, crashes, errors>>

CommitMigration ==
    /\ at = "commit" /\ Writes([conn EXCEPT !.version = @ + 1])
    /\ Goes(IF conn'.version < Latest THEN "migrate" ELSE "constraints")
    /\ UNCHANGED <<first, crashes, errors>>

\* The next statement of CONSTRAINTS.  Refused data is repaired once.
Constrain ==
    /\ at \in {"constraints", "last constraints"}
    /\ IF conn.indexes = Indexes THEN Goes("serving") /\ UNCHANGED <<file, conn>>
       ELSE LET index == IF "charge" \in conn.indexes THEN "active" ELSE "charge" IN
            IF Unique(conn, index)
            THEN Writes([conn EXCEPT !.indexes = @ \cup {index}]) /\ UNCHANGED at
            ELSE /\ Goes(IF at = "constraints" THEN "repair" ELSE "needs human")
                 /\ UNCHANGED <<file, conn>>
    /\ UNCHANGED <<first, crashes, errors>>

Repair ==
    /\ at = "repair" /\ Writes(Repaired(conn)) /\ Goes("last constraints")
    /\ UNCHANGED <<first, crashes, errors>>

\* A statement fails for a reason outside the data, as "database is locked".  The open
\* transaction is rolled back.  Every error at the repair is taken for one of the data.
Error ==
    /\ at \notin {"down", "serving", "needs human"}
    /\ errors < MaxErrors /\ errors' = errors + 1
    /\ conn' = file
    /\ Goes(CASE at = "constraints" -> "repair"
              [] at \in {"repair", "last constraints"} -> "needs human"
              [] OTHER -> "down")
    /\ UNCHANGED <<file, first, crashes>>

\* The process ends, and the supervisor starts it again.
Crash ==
    /\ at \notin {"down", "needs human"}
    /\ crashes < MaxCrashes /\ crashes' = crashes + 1
    /\ conn' = file /\ Goes("down")
    /\ UNCHANGED <<file, first, errors>>

-----------------------------------------------------------------------------

NoRow == [status |-> "pending_receipt", charge |-> <<>>, paid |-> FALSE, reversed |-> FALSE,
          recipient |-> FALSE]
NoFile == [version |-> 0, objects |-> {}, columns |-> {}, indexes |-> {},
           orders |-> [o \in Ids |-> NoRow],
           subs |-> [s \in Ids |-> [active |-> FALSE, ends |-> 1]],
           invoice |-> [status |-> "cancelled", terms |-> TRUE], refunds |-> {},
           erased |-> FALSE, applied |-> <<>>]

Init ==
    /\ file \in Legacy \cup {NoFile}
    /\ conn = file /\ first = file /\ at = "down"
    /\ crashes = 0 /\ errors = 0

Start ==
    \/ Open \/ Schema \/ Stamp \/ ReadVersion \/ Migrate \/ CommitMigration \/ Constrain
    \/ Repair
Next == Start \/ Error \/ Crash

Spec == Init /\ [][Next]_vars

\* Every process goes on with its start, and is started again.
FairSpec == Spec /\ WF_vars(Start)

-----------------------------------------------------------------------------
(* Properties *)

Serving == at = "serving"

\* Types; only a migration and its stamp are in a transaction.
TypeOK ==
    /\ file \in Files /\ conn \in Files /\ first \in Files
    /\ at \in {"down", "schema", "fresh schema", "stamp", "version", "migrate", "commit",
               "constraints", "repair", "last constraints", "serving", "needs human"}
    /\ at # "commit" => conn = file

\* The bot serves on the current schema only: every table, column and unique index is
\* there, whatever it found and wherever earlier starts ended.
ServesCurrentSchema ==
    Serving => /\ file.version = Latest /\ file.objects = Objects /\ file.columns = Adding
               /\ file.indexes = Indexes /\ \A i \in Indexes : Unique(file, i)

\* The stamp tells what was done: from the version that was found each migration was
\* applied to the rows once and in order, over crashes, errors and restarts.
StampIsTrue ==
    file.applied # <<>> =>
        file.applied = [i \in 1..(file.version - first.version) |-> first.version + i]

\* Revenue counts confirmed payments less reversals, and the rows of every version agree
\* to that: what staff refunded or refused after payment is reversed.
PaymentsAreDated ==
    Serving => \A o \in Ids : LET row == file.orders[o] IN
        /\ row.status \in Confirmed => row.paid
        /\ row.paid /\ row.status \in {"refunded", "rejected"} => row.reversed

\* "key revenue on confirmed payment rather than the current workflow status".  The code does
\* not keep it for a sale that waits as a problem in a file before version 3: see Disagreements
\* in README.md.
PaidProblemsAreDated ==
    Serving => \A o \in Ids : /\ file.orders[o].status = "problem"
                              /\ file.orders[o].charge # <<>>
                              => file.orders[o].paid

\* No charge gets lost: each one that was found belongs to its first order as it was,
\* and the others keep it readable.
ChargesAreKept ==
    Serving => \A o \in Ids : LET was == first.orders[o].charge IN
        file.orders[o].charge =
            IF \E p \in Ids : p < o /\ first.orders[p].charge = was /\ was # <<>>
            THEN Append(was, o) ELSE was

\* A customer with running subscriptions keeps the one that runs longest.
LongestIsKept ==
    LET ends(db) == {db.subs[s].ends : s \in {t \in Ids : db.subs[t].active}} IN
    Serving => \A e \in ends(first) : \E f \in ends(file) : e <= f

\* An invoice that did not record its terms cannot be paid any more.
OldInvoicesAreClosed ==
    Serving => file.invoice.terms /\ (~first.invoice.terms => file.invoice.status # "pending")

\* Money can still go back: a paid order knows its recipient and an open refund its
\* customer, unless the profile was erased before that was recorded.
RecipientsAreKnown ==
    Serving /\ ~file.erased =>
        /\ \A o \in Ids : file.orders[o].charge # <<>> => file.orders[o].recipient
        /\ \A r \in file.refunds : r.telegram => r.user

\* Every start ends: the bot serves, or refuses a newer file or one it could not repair.
StartEnded == at \in {"serving", "needs human"}
StartEnds == <>[]StartEnded

\* "refusing to write with an older schema definition": a newer file stays as it was.
\* The code does not keep it: see Disagreements in README.md.
NewerIsUntouched == first.version > Latest => file = first

\* EXIT_NEEDS_HUMAN is "for a failure that restarting cannot fix".
\* The code does not keep it: see Disagreements in README.md.
StopsForAHuman ==
    at = "needs human" => \/ file.version > Latest
                          \/ \E i \in Indexes : ~Unique(Repaired(file), i)

\* The database a bot serves on is of the current schema, and each file of an earlier
\* version came to it by every migration once and in order: no charge, no date of a payment,
\* no recipient of money and no running term was lost on the way, over crashes and errors.
UpgradeIsFaithful ==
    /\ TypeOK /\ ServesCurrentSchema /\ StampIsTrue /\ PaymentsAreDated /\ ChargesAreKept
    /\ LongestIsKept /\ OldInvoicesAreClosed /\ RecipientsAreKnown
=============================================================================
