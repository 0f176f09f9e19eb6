------------------------------- MODULE Roles -------------------------------
(***************************************************************************)
(* Who may do what: the roles and blocks of db/users.py, the rules of      *)
(* services/access.py, and the buttons of handlers/admin/people.py that    *)
(* change them or erase a profile.                                         *)
(*                                                                         *)
(* A button is answered in three steps with an await between any two: the  *)
(* row of whoever pressed it is read, then the row it names, then the      *)
(* change is written. Rows change between the steps; the decisions rest on *)
(* what was read. Owners are set from the environment at each start.       *)
(***************************************************************************)
EXTENDS Naturals, FiniteSets

CONSTANTS
    Accounts,       \* Telegram accounts
    MaxRows,        \* bound on rows of users; ids are given in order
    Lists,          \* values OWNER_IDS may have at a start
    Taps,           \* buttons that may be in hand at the same time
    MaxStarts,      \* bound on starts of the process
    Erased          \* stands for the negative telegram_id of an erased row

RolesAssumption ==
    /\ MaxRows \in Nat \ {0} /\ MaxStarts \in Nat \ {0}
    /\ Lists \subseteq (SUBSET Accounts) \ {{}}     \* missing_required
    /\ \A list \in Lists : IsFiniteSet(list)
    /\ Erased \notin Accounts

VARIABLES
    row,        \* the rows: account, role, blocked
    last,       \* the last id given
    owners,     \* OWNER_IDS of this process
    tap,        \* the buttons in hand
    starts

vars == <<row, last, owners, tap, starts>>

Rows == 1..MaxRows
ROLES == <<"user", "manager", "admin", "owner">>
NoRow == [account |-> Erased, role |-> "user", blocked |-> FALSE]
Given == 1..last
LiveRows == {r \in Given : row[r].account # Erased}
RowOf(a) == {r \in LiveRows : row[r].account = a}

Ops == {"user", "manager", "admin", "block", "unblock", "erase"}
NoTap == [step |-> "none"]

-----------------------------------------------------------------------------
(* services/access.py, over rows that were read; i and j are their ids. Past the *)
(* first test nothing of the reader's own row counts but the role.               *)

level(u) == CHOOSE n \in 1..4 : ROLES[n] = u.role
role_level(role) == CHOOSE n \in 1..4 : ROLES[n] = role

\* can(user, "roles").
can(u) == ~u.blocked /\ level(u) >= role_level("admin")

can_manage_user(i, u, j, target) ==
    /\ i # j
    /\ target.account # Erased
    /\ target.role # "owner"
    /\ \/ u.role = "owner"
       \/ level(u) > level(target)

can_assign_role(i, u, j, target, role) ==
    /\ can_manage_user(i, u, j, target)
    /\ u.role = "owner" \/ level(u) > role_level(role)

_erase_refusal(i, u, j, target) ==
    \/ target.account = Erased
    \/ u.role # "owner"
    \/ i = j
    \/ target.role # "user"

-----------------------------------------------------------------------------
(* Writes, each under the lifecycle lock of its row *)

\* _update_live: an erased row is left alone.
_update_live(r, was, fields) == IF was.account = Erased THEN was ELSE fields

\* db/users.py _erase, what it does to the profile.
_erase(was) == [account |-> Erased, role |-> "user", blocked |-> TRUE]

After(op, r, was) ==
    CASE op = "block"   -> _update_live(r, was, [was EXCEPT !.blocked = TRUE])
      [] op = "unblock" -> _update_live(r, was, [was EXCEPT !.blocked = FALSE])
      [] op = "erase"   -> IF was.account = Erased THEN was ELSE _erase(was)
      [] OTHER          -> _update_live(r, was, [was EXCEPT !.role = op])

-----------------------------------------------------------------------------
(* Buttons *)

\* base.actor: the sender's own row, and whether it may enter the section.
ActorRead(t) ==
    /\ tap[t] = NoTap
    /\ \E a \in LiveRows, op \in Ops, r \in Given :
        /\ can(row[a])
        /\ tap' = [tap EXCEPT ![t] = [step |-> "actor", id |-> a,
                                      was |-> [role |-> row[a].role],
                                      op |-> op, target |-> r]]
    /\ UNCHANGED <<row, last, owners, starts>>

\* set_role, toggle_block and erase_go up to the write: the row the button names is
\* read and the rule applied to both rows as they were read.
Allowed(p, target) ==
    CASE p.op \in {"block", "unblock"} -> can_manage_user(p.id, p.was, p.target, target)
      [] p.op = "erase"                -> ~_erase_refusal(p.id, p.was, p.target, target)
      [] OTHER -> can_assign_role(p.id, p.was, p.target, target, p.op)

TargetRead(t) ==
    /\ tap[t].step = "actor"
    /\ tap' = [tap EXCEPT ![t] =
                 IF Allowed(tap[t], row[tap[t].target])
                 THEN [tap[t] EXCEPT !.step = "write"]
                 ELSE NoTap]
    /\ UNCHANGED <<row, last, owners, starts>>

\* The write; an erasure may be refused for an open order or refund.
Write(t) ==
    /\ tap[t].step = "write"
    /\ LET r == tap[t].target IN
       \/ row' = [row EXCEPT ![r] = After(tap[t].op, r, row[r])]
       \/ tap[t].op = "erase" /\ UNCHANGED row
    /\ tap' = [tap EXCEPT ![t] = NoTap]
    /\ UNCHANGED <<last, owners, starts>>

-----------------------------------------------------------------------------
(* Profiles, and the start of the process *)

\* get_or_create: an account without a profile writes to the bot.
Register(a) ==
    /\ RowOf(a) = {} /\ last < MaxRows
    /\ last' = last + 1
    /\ row' = [row EXCEPT ![last'] = [account |-> a, role |-> "user", blocked |-> FALSE]]
    /\ UNCHANGED <<owners, tap, starts>>

\* Mutant: nobody is demoted.
PromoteOnly(rows, list) ==
    [r \in Rows |->
        IF rows[r].account \in list
        THEN [rows[r] EXCEPT !.role = "owner", !.blocked = FALSE] ELSE rows[r]]

\* ensure_owners, for the accounts that have a row.
OwnersSet(rows, list) ==
    [r \in Rows |->
        IF rows[r].account \in list
        THEN [rows[r] EXCEPT !.role = "owner", !.blocked = FALSE]
        ELSE IF rows[r].role = "owner" THEN [rows[r] EXCEPT !.role = "user"]
        ELSE rows[r]]

\* ensure_owners, for the accounts that have none: a new row each.
InsertedFor(list) ==
    LET missing == {a \in list : RowOf(a) = {}} IN
    {rows \in {[r \in Rows |->
                  IF r \in last+1..last+Cardinality(missing)
                  THEN [account |-> f[r - last], role |-> "owner", blocked |-> FALSE]
                  ELSE row[r]] : f \in [1..Cardinality(missing) -> missing]} :
       \A a \in missing : \E r \in Rows : rows[r].account = a}

\* The process ends, whatever it had in hand, and starts with the list it then finds.
Start(list) ==
    /\ starts < MaxStarts /\ starts' = starts + 1
    /\ last' = last + Cardinality({a \in list : RowOf(a) = {}})
    /\ last' <= MaxRows
    /\ \E rows \in InsertedFor(list) : row' = OwnersSet(rows, list)
    /\ owners' = list
    /\ tap' = [t \in Taps |-> NoTap]

Init ==
    /\ \E list \in Lists :
        /\ Cardinality(list) = 1
        /\ owners = list
        /\ row = [r \in Rows |-> IF r = 1
                    THEN [account |-> CHOOSE a \in list : TRUE,
                          role |-> "owner", blocked |-> FALSE]
                    ELSE NoRow]
    /\ last = 1
    /\ tap = [t \in Taps |-> NoTap]
    /\ starts = 1

Next ==
    \/ \E t \in Taps : ActorRead(t) \/ TargetRead(t) \/ Write(t)
    \/ \E a \in Accounts : Register(a)
    \/ \E list \in Lists : Start(list)

Spec == Init /\ [][Next]_vars

-----------------------------------------------------------------------------
(* Properties *)

\* Every row and every button in hand has its shape, and an account has one row.
TypeOK ==
    /\ last \in Rows /\ owners \in Lists /\ starts \in 1..MaxStarts
    /\ \A r \in Rows : row[r] \in [account : Accounts \cup {Erased},
                                   role : {ROLES[n] : n \in 1..4}, blocked : BOOLEAN]
    /\ \A r \in Rows \ Given : row[r] = NoRow
    /\ \A t \in Taps : tap[t] # NoTap =>
        tap[t].step \in {"actor", "write"} /\ tap[t].id \in Given /\ tap[t].target \in Given
    /\ \A a \in Accounts : Cardinality(RowOf(a)) <= 1

\* The environment is the whole truth about owners (db/users.py:140-142): whatever staff
\* press, and with buttons left over from any earlier time, the owners are the accounts on
\* the list this process started with, and none of them is blocked or erased.
OwnersAreTheList ==
    /\ {row[r].account : r \in {q \in Given : row[q].role = "owner"}} = owners
    /\ \A r \in Given : row[r].role = "owner" => ~row[r].blocked

\* Somebody becomes an administrator only at the hand of a person who is an owner at that
\* moment, although the rights were looked up steps before.
AdminsComeFromOwnersStep ==
    \A r \in Rows : row'[r].role = "admin" /\ row[r].role # "admin" =>
      \E t \in Taps : /\ tap[t] # NoTap /\ tap'[t] = NoTap
                      /\ row[tap[t].id].role = "owner"
                      /\ row[tap[t].id].account \in owners
AdminsComeFromOwners == [][AdminsComeFromOwnersStep]_vars

\* An erased profile stays what erasure made of it: no button pressed before takes its
\* block off or gives it a role, and no later message or start brings its account back.
ErasedRowsAreInertStep ==
    \A r \in Given : row[r].account = Erased => row'[r] = row[r]
ErasedRowsAreInert == [][ErasedRowsAreInertStep]_vars

\* "Staff cannot be erased, change the role first" (handlers/admin/people.py:56).
\* The code does not keep it: see Disagreements in README.md.
StaffIsNotErased ==
    [][\A r \in Given :
         row[r].account # Erased /\ row'[r].account = Erased => row[r].role = "user"]_vars

\* An account has one profile and the owners are those on the environment's list, whatever
\* buttons staff press that they were shown before a change of roles, an erasure or a start.
RolesFollowTheList ==
    /\ TypeOK /\ OwnersAreTheList
=============================================================================
