---------------------------- MODULE PanelProofs ----------------------------
(***************************************************************************)
(* What six parts of the staff panel promise, for any staff, clients, rows *)
(* and bounds: Roles, Broadcast, Settings, Dialogs, Catalog and Paging.    *)
(* They share no state and no lemma: each has an invariant of its own.     *)
(*                                                                         *)
(* Roles (IInv): an account has one live row, the rows of owners are those *)
(* of the list, and a button in hand rests on what cannot change under it: *)
(* no button takes ownership away, and a start drops all of them.          *)
(*                                                                         *)
(* Broadcast (BroadcastInv): the previews are numbered without a gap, and  *)
(* a text goes out only from the one task that took its preview away.      *)
(*                                                                         *)
(* Settings (CacheInv): the cache is what a start would make of the table. *)
(*                                                                         *)
(* Dialogs (DialogsInv): a prompt's number is of one sender and one kind,  *)
(* wherever it is held, and a message in hand knows when its author had    *)
(* the rights.                                                             *)
(*                                                                         *)
(* Catalog (CatalogInv): an owner has a slug once, and what orders,        *)
(* subscriptions and staff who are about to write point at is known.       *)
(*                                                                         *)
(* Paging (PagingInv): what is on the screen is a page of some list.       *)
(***************************************************************************)
EXTENDS Roles, FiniteSetTheorems, SequenceTheorems, WellFoundedInduction, TLAPS

CONSTANTS
    Staff, Clients, Tasks, MaxPreviews, MaxRestarts,    \* of Broadcast
    Keys, Kind, Low, High, MaxHalves, MaxSigns,         \* of Settings
    Senders, Messages, Kinds, MaxProfiles, MaxPrompts, MaxChanges,  \* of Dialogs
    Names, MaxProducts, MaxBought, MaxSubs,             \* of Catalog
    Ids, PageSize, QueueLimit, MaxButtons, PerPage      \* of Paging

VARIABLES
    pending, author, stale, client, task, got, told, restarts,  \* of Broadcast
    table, cache,                                               \* of Settings
    profile, slot, open, msg, prompts, changes, over,           \* of Dialogs
    product, lastProduct, order, lastOrder, sub, lastSub, desk, \* of Catalog
    items, perPage, screen, buttons                             \* of Paging

W == INSTANCE Broadcast
V == INSTANCE Settings
D == INSTANCE Dialogs WITH tap <- open
K == INSTANCE Catalog WITH task <- desk
G == INSTANCE Paging WITH MaxRows <- MaxButtons

-----------------------------------------------------------------------------
(* Roles *)

RoleNames == {"user", "manager", "admin", "owner"}
Record == [account : Accounts \cup {Erased}, role : RoleNames, blocked : BOOLEAN]
InHand == [step : {"actor", "write"}, id : Rows, was : [role : RoleNames], op : Ops,
           target : Rows]

Types ==
    /\ last \in Rows /\ owners \in Lists /\ starts \in 1..MaxStarts
    /\ row \in [Rows -> Record]
    /\ \A r \in Rows : r > last => row[r] = NoRow
    /\ tap \in [Taps -> {NoTap} \cup InHand]
    /\ \A t \in Taps : tap[t] # NoTap => tap[t].id <= last /\ tap[t].target <= last

\* An account has one live row.
OneRow ==
    \A r, q \in Rows : row[r].account # Erased /\ row[r].account = row[q].account => r = q

\* The owners, row by row.
OwnerRows ==
    /\ \A r \in Rows : row[r].role = "owner" => row[r].account \in owners /\ ~row[r].blocked
    /\ \A a \in owners : \E r \in Rows : row[r].role = "owner" /\ row[r].account = a

\* A button in hand that was pressed by an owner is an owner's still, and one that is about
\* to be written names nobody who is an owner.
TapInv(t) ==
    tap[t] # NoTap =>
      /\ tap[t].was.role = "owner" => row[tap[t].id].role = "owner"
      /\ tap[t].step = "write" =>
           /\ row[tap[t].target].role # "owner"
           /\ tap[t].op = "admin" => tap[t].was.role = "owner"

IInv == Types /\ OneRow /\ OwnerRows /\ \A t \in Taps : TapInv(t)

\* ROLES lists the four names.
LEMMA RoleSet == {ROLES[n] : n \in 1..4} = RoleNames
  BY DEF ROLES, RoleNames

\* The levels are the places in ROLES.
LEMMA Levels ==
    /\ role_level("user") = 1 /\ role_level("manager") = 2
    /\ role_level("admin") = 3 /\ role_level("owner") = 4
    /\ \A u : level(u) = role_level(u.role)
  <1>1. \A n \in 1..4 : (ROLES[n] = "user" <=> n = 1) /\ (ROLES[n] = "manager" <=> n = 2)
                        /\ (ROLES[n] = "admin" <=> n = 3) /\ (ROLES[n] = "owner" <=> n = 4)
    BY DEF ROLES
  <1>2. role_level("user") = 1 
    BY <1>1 DEF role_level
  <1>3. role_level("manager") = 2
    BY <1>1 DEF role_level
  <1>4. role_level("admin") = 3
    BY <1>1 DEF role_level
  <1>5. role_level("owner") = 4
    BY <1>1 DEF role_level
  <1>6. \A u : level(u) = role_level(u.role)
    BY DEF level, role_level
  <1>7. QED
    BY <1>2, <1>3, <1>4, <1>5, <1>6

\* A rule lets nothing happen to an owner, and only owners make administrators.
LEMMA Rules ==
    ASSUME NEW p \in InHand, NEW target \in Record, Allowed(p, target)
    PROVE  target.role # "owner" /\ (p.op = "admin" => p.was.role = "owner")
  <1>1. p.op \in Ops /\ p.was.role \in RoleNames
    BY DEF InHand
  <1>2. CASE p.op \in {"block", "unblock"}
    BY <1>2 DEF Allowed, can_manage_user
  <1>3. CASE p.op = "erase"
    BY <1>3 DEF Allowed, _erase_refusal
  <1>4. CASE p.op \in {"user", "manager", "admin"}
    <2>1. can_assign_role(p.id, p.was, p.target, target, p.op)
      BY <1>4 DEF Allowed
    <2>2. level(p.was) > role_level(p.op) \/ p.was.role = "owner"
      BY <2>1 DEF can_assign_role
    <2>3. level(p.was) = role_level(p.was.role)
      BY Levels
    <2>4. p.op = "admin" => p.was.role = "owner"
      BY <1>1, <2>2, <2>3, Levels DEF RoleNames
    <2>5. QED
      BY <2>1, <2>4 DEF can_assign_role, can_manage_user
  <1>5. QED
    BY <1>1, <1>2, <1>3, <1>4 DEF Ops

\* What a write leaves of a row: no owner, and its account or none.
LEMMA Writes ==
    ASSUME RolesAssumption, NEW op \in Ops, NEW r, NEW was \in Record, was.role # "owner"
    PROVE  /\ After(op, r, was) \in Record /\ After(op, r, was).role # "owner"
           /\ After(op, r, was).account \in {was.account, Erased}
           /\ was.account = Erased => After(op, r, was) = was
           /\ After(op, r, was).role = "admin" => op = "admin" \/ was.role = "admin"
  <1> USE DEF _update_live, Record, RoleNames
  <1>1. CASE op = "block"
    BY <1>1 DEF After
  <1>2. CASE op = "unblock"
    BY <1>2 DEF After
  <1>3. CASE op = "erase"
    BY <1>3 DEF After, _erase
  <1>4. CASE op \in {"user", "manager", "admin"}
    BY <1>4 DEF After
  <1>5. QED
    BY <1>1, <1>2, <1>3, <1>4 DEF Ops

\* A row that is no owner's becomes another that is none, of its account, of none, or of one
\* that had no row.
LEMMA RowChanges ==
    ASSUME RolesAssumption, IInv, NEW r \in Rows, NEW v \in Record,
           row' = [row EXCEPT ![r] = v], owners' = owners,
           row[r].role # "owner", v.role # "owner",
           \/ v.account \in {row[r].account, Erased}
           \/ \A q \in Rows : row[q].account # v.account
    PROVE  OneRow' /\ OwnerRows'
  <1>1. row'[r] = v /\ \A q \in Rows \ {r} : row'[q] = row[q]
    BY DEF IInv, Types
  <1>2. OneRow'
    <2> SUFFICES ASSUME NEW p \in Rows, NEW q \in Rows,
                        row'[p].account # Erased, row'[p].account = row'[q].account
                 PROVE  p = q
      BY DEF OneRow
    <2>1. QED
      BY <1>1 DEF IInv, OneRow
  <1>3. OwnerRows'
    BY <1>1 DEF IInv, OwnerRows
  <1>4. QED
    BY <1>2, <1>3

\* The first read takes a button in hand and changes no row.
LEMMA ActorKeeps ==
    ASSUME RolesAssumption, IInv, NEW t \in Taps, ActorRead(t)
    PROVE  IInv'
  <1>1. PICK a \in LiveRows, op \in Ops, r \in Given :
          tap' = [tap EXCEPT ![t] = [step |-> "actor", id |-> a,
                                     was |-> [role |-> row[a].role],
                                     op |-> op, target |-> r]]
    BY DEF ActorRead
  <1>2. PICK v : v = [step |-> "actor", id |-> a, was |-> [role |-> row[a].role],
                      op |-> op, target |-> r]
    OBVIOUS
  <1>3. a \in Rows /\ a <= last /\ r \in Rows /\ r <= last /\ row[a] \in Record
    BY DEF LiveRows, Given, Rows, IInv, Types, RolesAssumption
  <1>4. v \in InHand /\ v # NoTap
    BY <1>2, <1>3 DEF InHand, NoTap, Record
  <1>5. tap' = [tap EXCEPT ![t] = v] /\ v.id = a /\ v.target = r /\ v.step = "actor"
        /\ v.was.role = row[a].role
    BY <1>1, <1>2
  <1>6. UNCHANGED <<row, last, owners, starts>>
    BY DEF ActorRead
  <1>7. tap'[t] = v /\ \A u \in Taps \ {t} : tap'[u] = tap[u]
    BY <1>5 DEF IInv, Types
  <1>8. Types'
    BY <1>3, <1>4, <1>5, <1>6, <1>7 DEF IInv, Types, Rows
  <1>9. OneRow' /\ OwnerRows'
    BY <1>6 DEF IInv, OneRow, OwnerRows, Rows
  <1>10. \A u \in Taps : TapInv(u)'
    BY <1>5, <1>6, <1>7 DEF IInv, TapInv
  <1>11. QED
    BY <1>8, <1>9, <1>10 DEF IInv

\* The second read goes on only as the rules allow.
LEMMA TargetKeeps ==
    ASSUME RolesAssumption, IInv, NEW t \in Taps, TargetRead(t)
    PROVE  IInv'
  <1>0. tap[t] # NoTap /\ tap[t] \in InHand /\ tap[t].target \in Rows
        /\ row[tap[t].target] \in Record
    BY DEF TargetRead, NoTap, IInv, Types, InHand
  <1>1. PICK v \in {NoTap} \cup InHand :
          /\ tap' = [tap EXCEPT ![t] = v]
          /\ v # NoTap => /\ v.id = tap[t].id /\ v.target = tap[t].target /\ v.was = tap[t].was
                          /\ v.op = tap[t].op /\ Allowed(tap[t], row[tap[t].target])
    <2>1. CASE Allowed(tap[t], row[tap[t].target])
      <3>1. PICK v : v = [tap[t] EXCEPT !.step = "write"]
        OBVIOUS
      <3>2. v \in InHand /\ v.id = tap[t].id /\ v.target = tap[t].target
            /\ v.was = tap[t].was /\ v.op = tap[t].op
        BY <1>0, <3>1 DEF InHand
      <3>3. QED
        BY <2>1, <3>1, <3>2 DEF TargetRead
    <2>2. CASE ~Allowed(tap[t], row[tap[t].target])
      BY <2>2 DEF TargetRead
    <2>3. QED
      BY <2>1, <2>2
  <1>2. UNCHANGED <<row, last, owners, starts>>
    BY DEF TargetRead
  <1>3. tap'[t] = v /\ \A u \in Taps \ {t} : tap'[u] = tap[u]
    BY <1>1 DEF IInv, Types
  <1>4. Types'
    BY <1>0, <1>1, <1>2, <1>3 DEF IInv, Types, Rows
  <1>5. OneRow' /\ OwnerRows'
    BY <1>2 DEF IInv, OneRow, OwnerRows, Rows
  <1>6. Allowed(tap[t], row[tap[t].target]) =>
          row[tap[t].target].role # "owner" /\ (tap[t].op = "admin" => tap[t].was.role = "owner")
    BY <1>0, Rules
  <1>7. \A u \in Taps : TapInv(u)'
    BY <1>0, <1>1, <1>2, <1>3, <1>6 DEF IInv, TapInv
  <1>8. QED
    BY <1>4, <1>5, <1>7 DEF IInv

\* A write changes one row, of nobody who is an owner, though others changed since it was
\* decided.
LEMMA WriteKeeps ==
    ASSUME RolesAssumption, IInv, NEW t \in Taps, Write(t)
    PROVE  IInv'
  <1>0. tap[t] # NoTap /\ tap[t] \in InHand
    BY DEF Write, NoTap, IInv, Types
  <1>1. PICK r \in Rows, op \in Ops : r = tap[t].target /\ op = tap[t].op
    BY <1>0 DEF InHand
  <1>2. row[r] \in Record /\ row[r].role # "owner" /\ r <= last
    BY <1>0, <1>1 DEF Write, IInv, Types, TapInv
  <1>3. UNCHANGED <<last, owners, starts>> /\ tap' = [tap EXCEPT ![t] = NoTap]
    BY DEF Write
  <1>4. PICK v \in Record : /\ row' = [row EXCEPT ![r] = v] /\ v.role # "owner"
                            /\ v.account \in {row[r].account, Erased}
    <2>1. CASE row' = [row EXCEPT ![r] = After(op, r, row[r])]
      BY <1>2, <2>1, Writes
    <2>2. CASE row' = row
      <3>1. row' = [row EXCEPT ![r] = row[r]]
        BY <2>2 DEF IInv, Types
      <3>2. QED
        BY <1>2, <3>1
    <2>3. QED
      BY <1>1, <2>1, <2>2 DEF Write
  <1>5. row'[r] = v /\ \A q \in Rows \ {r} : row'[q] = row[q]
    BY <1>4 DEF IInv, Types
  <1>6. OneRow' /\ OwnerRows'
    BY <1>2, <1>3, <1>4, RowChanges DEF IInv, Types
  <1>7. tap'[t] = NoTap /\ \A u \in Taps \ {t} : tap'[u] = tap[u]
    BY <1>3 DEF IInv, Types
  <1>8. Types'
    BY <1>2, <1>3, <1>4, <1>5, <1>7 DEF IInv, Types, Rows
  <1>9. \A u \in Taps : TapInv(u)'
    <2> SUFFICES ASSUME NEW u \in Taps, u # t, tap[u] # NoTap PROVE TapInv(u)'
      BY <1>7 DEF TapInv
    <2>1. tap'[u] = tap[u] /\ tap[u] \in InHand
      BY <1>7 DEF IInv, Types
    <2>2. tap[u].id \in Rows /\ tap[u].target \in Rows /\ TapInv(u)
      BY <2>1 DEF InHand, IInv
    <2>3. QED
      BY <1>2, <1>4, <1>5, <2>1, <2>2 DEF TapInv
  <1>10. QED
    BY <1>6, <1>8, <1>9 DEF IInv

\* /start gives an account without a row a new one.
LEMMA RegisterKeeps ==
    ASSUME RolesAssumption, IInv, NEW a \in Accounts, Register(a)
    PROVE  IInv'
  <1>1. PICK r \in Rows : r = last + 1 /\ last' = r
    BY DEF Register, Rows, IInv, Types, RolesAssumption
  <1>2. PICK v : v = [account |-> a, role |-> "user", blocked |-> FALSE]
    OBVIOUS
  <1>3. v \in Record /\ v.role = "user" /\ v.account = a
    BY <1>2 DEF Record, RoleNames
  <1>4. row' = [row EXCEPT ![r] = v] /\ UNCHANGED <<owners, tap, starts>>
    BY <1>1, <1>2 DEF Register
  <1>5. row[r] = NoRow /\ row[r].role = "user" /\ last \in Int
    <2>1. last \in Int /\ r > last /\ row[r] = NoRow
      BY <1>1 DEF IInv, Types, Rows, RolesAssumption
    <2>2. QED
      BY <2>1 DEF NoRow
  <1>6. \A q \in Rows : row[q].account # a
    <2> SUFFICES ASSUME NEW q \in Rows, row[q].account = a PROVE FALSE
      OBVIOUS
    <2>1. a # Erased
      BY DEF RolesAssumption
    <2>2. q <= last
      BY <2>1 DEF IInv, Types, NoRow, Rows
    <2>3. q \in RowOf(a)
      BY <2>1, <2>2 DEF RowOf, LiveRows, Given, Rows
    <2>4. QED
      BY <2>3 DEF Register
  <1>7. OneRow' /\ OwnerRows'
    BY <1>1, <1>3, <1>4, <1>5, <1>6, RowChanges DEF Rows
  <1>8. row'[r] = v /\ \A q \in Rows \ {r} : row'[q] = row[q]
    BY <1>4 DEF IInv, Types
  <1>9. Types'
    BY <1>1, <1>3, <1>4, <1>5, <1>8 DEF IInv, Types, Rows, RolesAssumption, InHand
  <1>10. \A u \in Taps : TapInv(u)'
    <2> SUFFICES ASSUME NEW u \in Taps, tap[u] # NoTap PROVE TapInv(u)'
      BY <1>4 DEF TapInv
    <2>1. tap[u].id \in Rows /\ tap[u].target \in Rows /\ tap[u].id # r /\ TapInv(u)
      BY <1>1, <1>5 DEF InHand, IInv, Types, Rows
    <2>2. QED
      BY <1>3, <1>4, <1>8, <2>1 DEF TapInv
  <1>11. QED
    BY <1>7, <1>9, <1>10 DEF IInv

\* The next n rows, which an insertion of n takes.
Fresh(r, n) == last < r /\ r <= last + n

\* The accounts without a row get one each.
LEMMA Inserted ==
    ASSUME RolesAssumption, IInv, NEW list \in Lists,
           NEW missing, missing = {a \in list : RowOf(a) = {}},
           NEW n \in Nat, n = Cardinality(missing), last + n <= MaxRows,
           NEW rows \in InsertedFor(list)
    PROVE  /\ last + n \in Rows
           /\ rows \in [Rows -> Record]
           /\ \A r \in Rows : ~Fresh(r, n) => rows[r] = row[r]
           /\ \A r \in Rows : Fresh(r, n) =>
                rows[r].account \in missing /\ rows[r].role = "owner" /\ ~rows[r].blocked
           /\ \A r, q \in Rows :
                Fresh(r, n) /\ Fresh(q, n) /\ rows[r].account = rows[q].account => r = q
           /\ \A a \in missing : \E r \in Rows : Fresh(r, n) /\ rows[r].account = a
           /\ \A a \in missing : a # Erased /\ \A r \in Rows : row[r].account # a
  <1>1. last \in Rows /\ last \in Int /\ last + n \in Rows /\ MaxRows \in Int
    BY DEF IInv, Types, Rows, RolesAssumption
  <1>2. PICK f : /\ f \in [1..n -> missing]
                 /\ rows = [r \in Rows |-> rows[r]]
                 /\ \A r \in Rows :
                      rows[r] = IF r \in last+1..last+n
                                THEN [account |-> f[r - last], role |-> "owner", blocked |-> FALSE]
                                ELSE row[r]
                 /\ \A a \in missing : \E r \in Rows : rows[r].account = a
    <2> DEFINE M == {a \in list : RowOf(a) = {}}
    <2>1. PICK f : /\ f \in [1..Cardinality(M) -> M]
                   /\ rows = [r \in Rows |->
                        IF r \in last+1..last+Cardinality(M)
                        THEN [account |-> f[r - last], role |-> "owner", blocked |-> FALSE]
                        ELSE row[r]]
                   /\ \A a \in M : \E r \in Rows : rows[r].account = a
      BY DEF InsertedFor
    <2>2. M = missing /\ Cardinality(M) = n
      OBVIOUS
    <2> HIDE DEF M
    <2>3. \A r \in Rows :
            rows[r] = IF r \in last+1..last+n
                      THEN [account |-> f[r - last], role |-> "owner", blocked |-> FALSE]
                      ELSE row[r]
      BY <2>1, <2>2
    <2>4. rows = [r \in Rows |-> rows[r]]
      BY ONLY <2>1
    <2>5. f \in [1..n -> missing] /\ \A a \in missing : \E r \in Rows : rows[r].account = a
      BY <2>1, <2>2
    <2>6. QED
      BY <2>3, <2>4, <2>5
  <1>3. ASSUME NEW r \in Rows, ~Fresh(r, n) PROVE rows[r] = row[r]
    <2>1. r \notin last+1..last+n
      BY <1>1, <1>3 DEF Rows, Fresh
    <2>2. QED
      BY <1>2, <2>1
  <1>4. ASSUME NEW r \in Rows, Fresh(r, n)
        PROVE  \E i \in 1..n : /\ r = last + i /\ f[i] \in missing
                               /\ rows[r].account = f[i]
                               /\ rows[r].role = "owner" /\ ~rows[r].blocked
                               /\ rows[r] \in Record
    <2>1. r - last \in 1..n /\ r = last + (r - last) /\ r \in last+1..last+n
      BY <1>1, <1>4 DEF Rows, Fresh
    <2>2. PICK i \in 1..n : r - last = i
      BY <2>1
    <2>3. rows[r] = [account |-> f[i], role |-> "owner", blocked |-> FALSE]
      BY <1>2, <2>1, <2>2
    <2>4. f[i] \in missing /\ f[i] \in Accounts
      BY <1>2 DEF RolesAssumption
    <2>5. rows[r] \in Record
      BY <2>3, <2>4 DEF Record, RoleNames
    <2>6. r = last + i
      BY <2>1, <2>2
    <2>7. rows[r].account = f[i] /\ rows[r].role = "owner" /\ ~rows[r].blocked
      BY <2>3
    <2>8. QED
      BY <2>4, <2>5, <2>6, <2>7
  <1>5. \A a \in missing : a # Erased /\ \A r \in Rows : row[r].account # a
    <2> SUFFICES ASSUME NEW a \in missing
                 PROVE  a # Erased /\ \A r \in Rows : row[r].account # a
      OBVIOUS
    <2>1. a \in Accounts /\ a # Erased /\ RowOf(a) = {}
      BY DEF RolesAssumption
    <2>2. ASSUME NEW r \in Rows, row[r].account = a PROVE FALSE
      <3>1. r <= last
        BY <1>1, <2>1, <2>2 DEF IInv, Types, NoRow, Rows
      <3>2. r \in RowOf(a)
        BY <2>1, <2>2, <3>1 DEF RowOf, LiveRows, Given, Rows
      <3>3. QED
        BY <2>1, <3>2
    <2>3. QED
      BY <2>1, <2>2
  <1>6. \A a \in missing : \E r \in Rows : Fresh(r, n) /\ rows[r].account = a
    <2> SUFFICES ASSUME NEW a \in missing
                 PROVE  \E r \in Rows : Fresh(r, n) /\ rows[r].account = a
      OBVIOUS
    <2>1. PICK r \in Rows : rows[r].account = a
      BY <1>2
    <2>2. Fresh(r, n)
      BY <1>3, <1>5, <2>1
    <2>3. QED
      BY <2>1, <2>2
  <1>7. \A i, j \in 1..n : f[i] = f[j] => i = j
    <2>1. ASSUME NEW a \in missing PROVE \E i \in 1..n : f[i] = a
      <3>1. PICK r \in Rows : Fresh(r, n) /\ rows[r].account = a
        BY <1>6
      <3>2. QED
        BY <1>4, <3>1
    <2>2. f \in Surjection(1..n, missing)
      BY <1>2, <2>1 DEF Surjection
    <2>3. IsFiniteSet(1..n) /\ Cardinality(1..n) = n
      BY FS_Interval
    <2>4. f \in Injection(1..n, missing)
      BY <2>2, <2>3, FS_SurjSameCardinalityImpliesInj
    <2>5. QED
      BY <2>4 DEF Injection, IsInjective
  <1>8. rows \in [Rows -> Record]
    <2>1. ASSUME NEW r \in Rows, Fresh(r, n) PROVE rows[r] \in Record
      BY <1>4, <2>1
    <2>2. ASSUME NEW r \in Rows, ~Fresh(r, n) PROVE rows[r] \in Record
      BY <1>3, <2>2 DEF IInv, Types
    <2>3. QED
      BY <1>2, <2>1, <2>2
  <1>9. \A r, q \in Rows :
          Fresh(r, n) /\ Fresh(q, n) /\ rows[r].account = rows[q].account => r = q
    <2> SUFFICES ASSUME NEW r \in Rows, NEW q \in Rows, Fresh(r, n), Fresh(q, n),
                        rows[r].account = rows[q].account
                 PROVE  r = q
      OBVIOUS
    <2>1. PICK i \in 1..n : r = last + i /\ rows[r].account = f[i]
      BY <1>4
    <2>2. PICK j \in 1..n : q = last + j /\ rows[q].account = f[j]
      BY <1>4
    <2>3. QED
      BY <1>7, <2>1, <2>2
  <1>10. \A r \in Rows : Fresh(r, n) =>
           rows[r].account \in missing /\ rows[r].role = "owner" /\ ~rows[r].blocked
    BY <1>4
  <1>11. QED
    BY <1>1, <1>3, <1>5, <1>6, <1>8, <1>9, <1>10

\* How many are missing is a number, because lists are finite.
LEMMA Missing ==
    ASSUME RolesAssumption, NEW list \in Lists
    PROVE  Cardinality({a \in list : RowOf(a) = {}}) \in Nat
  <1>1. IsFiniteSet(list) /\ {a \in list : RowOf(a) = {}} \in SUBSET list
    BY DEF RolesAssumption
  <1>2. IsFiniteSet({a \in list : RowOf(a) = {}})
    BY <1>1, FS_Subset
  <1>3. QED
    BY <1>2, FS_CardinalityType

\* A start leaves the rows there are and inserts rows of owners, before it sets the roles.
LEMMA StartRows ==
    ASSUME RolesAssumption, IInv, NEW list \in Lists, Start(list)
    PROVE  \E rows \in [Rows -> Record] :
                     /\ row' = OwnersSet(rows, list)
                     /\ \A r \in Rows : \/ rows[r] = row[r]
                                        \/ r > last /\ rows[r].role = "owner"
  <1> DEFINE missing == {a \in list : RowOf(a) = {}}
  <1>1. PICK rows \in InsertedFor(list) : row' = OwnersSet(rows, list)
    BY DEF Start
  <1>2. PICK n \in Nat : n = Cardinality(missing) /\ last + n <= MaxRows
    BY Missing DEF Start
  <1>3. rows \in [Rows -> Record]
    BY <1>2, Inserted
  <1>4. \A r \in Rows : /\ ~Fresh(r, n) => rows[r] = row[r]
                        /\ Fresh(r, n) => rows[r].role = "owner"
    BY <1>2, Inserted
  <1>5. \A r \in Rows : Fresh(r, n) => r > last
    BY DEF Fresh, IInv, Types, Rows, RolesAssumption
  <1>6. QED
    BY <1>1, <1>3, <1>4, <1>5

\* ensure_owners makes the owners the list and leaves an account one row.
LEMMA StartKeeps ==
    ASSUME RolesAssumption, IInv, NEW list \in Lists, Start(list)
    PROVE  IInv'
  <1> DEFINE missing == {a \in list : RowOf(a) = {}}
  <1> DEFINE n == Cardinality(missing)
  <1>1. n \in Nat
    BY Missing
  <1>2. PICK rows \in InsertedFor(list) : row' = OwnersSet(rows, list)
    BY DEF Start
  <1>3. /\ last' = last + n /\ last + n <= MaxRows /\ owners' = list
        /\ tap' = [t \in Taps |-> NoTap] /\ starts' \in 1..MaxStarts
    BY DEF Start, IInv, Types, RolesAssumption
  <1> HIDE DEF n
  <1>4. /\ last + n \in Rows
        /\ rows \in [Rows -> Record]
        /\ \A r \in Rows : ~Fresh(r, n) => rows[r] = row[r]
        /\ \A r \in Rows : Fresh(r, n) =>
             rows[r].account \in missing /\ rows[r].role = "owner" /\ ~rows[r].blocked
        /\ \A r, q \in Rows :
             Fresh(r, n) /\ Fresh(q, n) /\ rows[r].account = rows[q].account => r = q
        /\ \A a \in missing : \E r \in Rows : Fresh(r, n) /\ rows[r].account = a
        /\ \A a \in missing : a # Erased /\ \A r \in Rows : row[r].account # a
    <2> USE DEF n
    <2>1. QED
      BY <1>1, <1>2, <1>3, Inserted
  <1> HIDE DEF missing
  <1>5. \A r, q \in Rows : rows[r].account # Erased /\ rows[r].account = rows[q].account => r = q
    BY <1>4 DEF IInv, OneRow
  <1>6. \A r \in Rows :
          /\ row'[r].account = rows[r].account /\ row'[r] \in Record
          /\ row'[r].role = "owner" <=> rows[r].account \in list
          /\ row'[r].role = "owner" => ~row'[r].blocked
          /\ rows[r].account \notin list /\ rows[r].role # "owner" => row'[r] = rows[r]
    <2> SUFFICES ASSUME NEW r \in Rows
                 PROVE  /\ row'[r].account = rows[r].account /\ row'[r] \in Record
                        /\ row'[r].role = "owner" <=> rows[r].account \in list
                        /\ row'[r].role = "owner" => ~row'[r].blocked
                        /\ rows[r].account \notin list /\ rows[r].role # "owner"
                           => row'[r] = rows[r]
      OBVIOUS
    <2>1. rows[r] \in Record
      BY <1>4
    <2>2. QED
      BY <1>2, <2>1 DEF OwnersSet, Record, RoleNames
  <1>7. row' \in [Rows -> Record]
    <2>1. row' = [r \in Rows |-> row'[r]]
      BY <1>2 DEF OwnersSet
    <2>2. QED
      BY <1>6, <2>1
  <1>8. \A r \in Rows : r > last + n => row'[r] = NoRow
    <2> SUFFICES ASSUME NEW r \in Rows, r > last + n PROVE row'[r] = NoRow
      OBVIOUS
    <2>1. ~Fresh(r, n) /\ r > last
      BY <1>1, <1>4 DEF Fresh, IInv, Types, Rows, RolesAssumption
    <2>2. rows[r] = NoRow
      BY <1>4, <2>1 DEF IInv, Types
    <2>3. Erased \notin list
      BY DEF RolesAssumption
    <2>4. QED
      BY <1>6, <2>2, <2>3 DEF NoRow
  <1>9. Types'
    BY <1>3, <1>4, <1>7, <1>8 DEF IInv, Types, Rows
  <1>10. OneRow'
    BY <1>5, <1>6 DEF OneRow, Rows
  <1>11. OwnerRows'
    <2>1. ASSUME NEW a \in list PROVE \E r \in Rows : rows[r].account = a
      <3>1. CASE a \in missing
        BY <1>4, <3>1
      <3>2. CASE a \notin missing
        <4>1. PICK r \in RowOf(a) : TRUE
          BY <3>2 DEF missing
        <4>2. r \in Rows /\ r <= last /\ row[r].account = a
          BY <4>1 DEF RowOf, LiveRows, Given, Rows, IInv, Types, RolesAssumption
        <4>3. ~Fresh(r, n)
          BY <4>2 DEF Fresh, Rows, IInv, Types, RolesAssumption
        <4>4. QED
          BY <1>4, <4>2, <4>3
      <3>3. QED
        BY <3>1, <3>2
    <2>2. QED
      BY <1>3, <1>6, <2>1 DEF OwnerRows, Rows
  <1>12. \A t \in Taps : TapInv(t)'
    BY <1>3 DEF TapInv
  <1>13. QED
    BY <1>9, <1>10, <1>11, <1>12 DEF IInv

\* A step that changes nothing keeps the invariant.
LEMMA StutterKeeps == IInv /\ UNCHANGED vars => IInv'
  BY DEF vars, IInv, Types, OneRow, OwnerRows, TapInv, Rows

\* The rows and the buttons in hand are always as the invariant says.
THEOREM Invariance ==
    ASSUME RolesAssumption
    PROVE  Spec => []IInv
  <1>1. Init => IInv
    <2> SUFFICES ASSUME Init PROVE IInv
      OBVIOUS
    <2>1. PICK list \in Lists :
            /\ Cardinality(list) = 1 /\ owners = list
            /\ row = [r \in Rows |-> IF r = 1
                        THEN [account |-> CHOOSE a \in list : TRUE,
                              role |-> "owner", blocked |-> FALSE]
                        ELSE NoRow]
      BY DEF Init
    <2>2. PICK a \in list : a = CHOOSE b \in list : TRUE
      <3>1. list # {}
        BY DEF RolesAssumption
      <3>2. QED
        BY <3>1
    <2>3. list = {a} /\ a \in Accounts /\ a # Erased
      <3>1. IsFiniteSet(list) /\ a \in Accounts
        BY DEF RolesAssumption
      <3>2. PICK b : list = {b}
        BY <2>1, <3>1, FS_Singleton
      <3>3. QED
        BY <3>1, <3>2 DEF RolesAssumption
    <2>4. /\ row[1] = [account |-> a, role |-> "owner", blocked |-> FALSE]
          /\ \A r \in Rows \ {1} : row[r] = NoRow
          /\ 1 \in Rows
      BY <2>1, <2>2 DEF Rows, RolesAssumption
    <2>5. row \in [Rows -> Record]
      <3>1. [account |-> a, role |-> "owner", blocked |-> FALSE] \in Record
        BY <2>3 DEF Record, RoleNames
      <3>2. NoRow \in Record
        BY DEF Record, RoleNames, NoRow
      <3>3. \A r \in Rows : row[r] \in Record
        BY <2>4, <3>1, <3>2
      <3>4. row = [r \in Rows |-> row[r]]
        BY <2>1
      <3>5. QED
        BY <3>3, <3>4
    <2>6. Types
      BY <2>1, <2>4, <2>5 DEF Init, Types, Rows, RolesAssumption
    <2>7. OneRow /\ OwnerRows
      BY <2>1, <2>3, <2>4 DEF OneRow, OwnerRows, NoRow
    <2>8. \A t \in Taps : TapInv(t)
      BY DEF Init, TapInv
    <2>9. QED
      BY <2>6, <2>7, <2>8 DEF IInv
  <1>2. IInv /\ [Next]_vars => IInv'
    BY ActorKeeps, TargetKeeps, WriteKeeps, RegisterKeeps, StartKeeps, StutterKeeps DEF Next
  <1>3. QED
    BY <1>1, <1>2, PTL DEF Spec

\* What the invariant says of the properties.
LEMMA Cases ==
    ASSUME RolesAssumption, IInv
    PROVE  TypeOK /\ OwnersAreTheList
  <1>0. last \in Nat /\ Given \subseteq Rows /\ \A r \in Rows : r \in Given <=> r <= last
    BY DEF IInv, Types, Given, Rows, RolesAssumption
  <1>1. TypeOK
    <2>1. \A a \in Accounts : Cardinality(RowOf(a)) <= 1
      <3> SUFFICES ASSUME NEW a \in Accounts PROVE Cardinality(RowOf(a)) <= 1
        OBVIOUS
      <3>1. \A r, q \in RowOf(a) : r = q
        <4> TAKE r, q \in RowOf(a)
        <4>1. /\ r \in Rows /\ row[r].account = a /\ a # Erased
              /\ q \in Rows /\ row[q].account = a
          BY <1>0 DEF RowOf, LiveRows
        <4>2. QED
          BY <4>1 DEF IInv, OneRow
      <3>2. CASE RowOf(a) = {}
        BY <3>2, FS_EmptySet
      <3>3. CASE RowOf(a) # {}
        <4>1. PICK r \in RowOf(a) : TRUE
          BY <3>3
        <4>2. RowOf(a) = {r}
          BY <3>1, <4>1, Zenon
        <4>3. Cardinality({r}) = 1
          BY FS_Singleton
        <4>4. QED
          BY <4>2, <4>3
      <3>4. QED
        BY <3>2, <3>3
    <2>2. \A t \in Taps : tap[t] # NoTap =>
            tap[t].step \in {"actor", "write"} /\ tap[t].id \in Given /\ tap[t].target \in Given
      BY <1>0 DEF IInv, Types, InHand
    <2>3. \A r \in Rows \ Given : row[r] = NoRow
      BY <1>0 DEF IInv, Types
    <2>4. \A r \in Rows : row[r] \in [account : Accounts \cup {Erased},
                                      role : {ROLES[n] : n \in 1..4}, blocked : BOOLEAN]
      BY RoleSet DEF IInv, Types, Record
    <2>5. QED
      BY <2>1, <2>2, <2>3, <2>4 DEF IInv, Types, TypeOK
  <1>2. OwnersAreTheList
    <2>1. \A r \in Rows : row[r].role = "owner" => r \in Given
      BY <1>0 DEF IInv, Types, NoRow
    <2>2. QED
      BY <1>0, <2>1 DEF IInv, OwnerRows, OwnersAreTheList
  <1>3. QED
    BY <1>1, <1>2

\* An account has one profile and the owners are those on the environment's list, whatever
\* buttons staff press that they were shown before a change of roles, an erasure or a start.
THEOREM RolesKept ==
    ASSUME RolesAssumption
    PROVE  Spec => []RolesFollowTheList
  <1>1. IInv => RolesFollowTheList
    BY Cases DEF RolesFollowTheList
  <1>2. QED
    BY <1>1, Invariance, PTL

\* Nobody becomes an administrator but by a button of somebody who is an owner at the moment of
\* the write, not only when the button was pressed.
THEOREM Admins ==
    ASSUME RolesAssumption
    PROVE  Spec => AdminsComeFromOwners
  <1>1. IInv /\ [Next]_vars => [AdminsComeFromOwnersStep]_vars
    <2> SUFFICES ASSUME IInv, Next PROVE AdminsComeFromOwnersStep
      OBVIOUS
    <2>1. ASSUME NEW r \in Rows, row'[r].role = "admin", row[r].role # "admin"
          PROVE  \E t \in Taps : /\ tap[t] # NoTap /\ tap'[t] = NoTap
                                 /\ row[tap[t].id].role = "owner"
                                 /\ row[tap[t].id].account \in owners
      <3>1. ASSUME NEW t \in Taps, Write(t)
            PROVE  \E u \in Taps : /\ tap[u] # NoTap /\ tap'[u] = NoTap
                                   /\ row[tap[u].id].role = "owner"
                                   /\ row[tap[u].id].account \in owners
        <4>1. tap[t] # NoTap /\ tap[t] \in InHand /\ tap'[t] = NoTap /\ tap[t].step = "write"
          BY <3>1 DEF Write, NoTap, IInv, Types
        <4>2. tap[t].target \in Rows /\ tap[t].id \in Rows /\ tap[t].op \in Ops /\ TapInv(t)
          BY <4>1 DEF InHand, IInv
        <4>3. row[tap[t].target] \in Record /\ row[tap[t].target].role # "owner"
          BY <4>1, <4>2 DEF TapInv, IInv, Types
        <4>4. row'[r] = row[r] \/ (r = tap[t].target /\ row'[r] = After(tap[t].op, r, row[r]))
          BY <3>1, <4>2 DEF Write, IInv, Types
        <4>5. tap[t].op = "admin"
          BY <2>1, <4>2, <4>3, <4>4, Writes
        <4>6. row[tap[t].id].role = "owner"
          BY <4>1, <4>2, <4>5 DEF TapInv
        <4>7. QED
          BY <4>1, <4>2, <4>6 DEF IInv, OwnerRows
      <3>2. ASSUME NEW a \in Accounts, Register(a) PROVE FALSE
        <4>1. last + 1 \in Rows
          BY <3>2 DEF Register, IInv, Types, Rows, RolesAssumption
        <4>2. row'[last + 1].role = "user" /\ \A q \in Rows \ {last + 1} : row'[q] = row[q]
          BY <3>2, <4>1 DEF Register, IInv, Types
        <4>3. QED
          BY <2>1, <4>2
      <3>3. ASSUME NEW list \in Lists, Start(list) PROVE FALSE
        <4>1. PICK rows \in [Rows -> Record] :
                /\ row' = OwnersSet(rows, list)
                /\ rows[r] = row[r] \/ rows[r].role = "owner"
          BY <3>3, StartRows
        <4>2. rows[r] \in Record
          OBVIOUS
        <4>3. row'[r].role \in {"owner", "user", rows[r].role}
          BY <4>1, <4>2 DEF OwnersSet, Record
        <4>4. QED
          BY <2>1, <4>1, <4>3
      <3>4. ASSUME row' = row PROVE FALSE
        BY <2>1, <3>4
      <3>5. QED
        BY <3>1, <3>2, <3>3, <3>4 DEF Next, ActorRead, TargetRead
    <2>2. QED
      BY <2>1 DEF AdminsComeFromOwnersStep
  <1>2. QED
    BY <1>1, Invariance, PTL DEF Spec, AdminsComeFromOwners

\* An erased row stays as erasure left it, whatever was decided about it before.
THEOREM Inert ==
    ASSUME RolesAssumption
    PROVE  Spec => ErasedRowsAreInert
  <1>1. IInv /\ [Next]_vars => [ErasedRowsAreInertStep]_vars
    <2> SUFFICES ASSUME IInv, Next PROVE ErasedRowsAreInertStep
      OBVIOUS
    <2>1. ASSUME NEW r \in Given, row[r].account = Erased
          PROVE  row'[r] = row[r]
      <3>0. r \in Rows /\ r <= last /\ row[r] \in Record /\ last \in Int /\ r \in Int
        BY DEF Given, Rows, IInv, Types, RolesAssumption
      <3>1. row[r].role # "owner"
        <4>1. Erased \notin owners
          BY DEF IInv, Types, RolesAssumption
        <4>2. QED
          BY <2>1, <3>0, <4>1 DEF IInv, OwnerRows
      <3>2. ASSUME NEW t \in Taps, Write(t) PROVE row'[r] = row[r]
        <4>1. tap[t].op \in Ops
          BY <3>2 DEF Write, NoTap, IInv, Types, InHand
        <4>2. row'[r] = row[r] \/ row'[r] = After(tap[t].op, r, row[r])
          BY <3>0, <3>2 DEF Write, IInv, Types
        <4>3. QED
          BY <2>1, <3>0, <3>1, <4>1, <4>2, Writes
      <3>3. ASSUME NEW a \in Accounts, Register(a) PROVE row'[r] = row[r]
        BY <3>0, <3>3 DEF Register, IInv, Types
      <3>4. ASSUME NEW list \in Lists, Start(list) PROVE row'[r] = row[r]
        <4>1. PICK rows \in [Rows -> Record] :
                /\ row' = OwnersSet(rows, list)
                /\ rows[r] = row[r] \/ r > last
          BY <3>0, <3>4, StartRows
        <4>2. rows[r] = row[r]
          BY <3>0, <4>1
        <4>3. Erased \notin list
          BY DEF RolesAssumption
        <4>4. QED
          BY <2>1, <3>0, <3>1, <4>1, <4>2, <4>3 DEF OwnersSet
      <3>5. QED
        BY <3>2, <3>3, <3>4 DEF Next, ActorRead, TargetRead
    <2>2. QED
      BY <2>1 DEF ErasedRowsAreInertStep
  <1>2. QED
    BY <1>1, Invariance, PTL DEF Spec, ErasedRowsAreInert

-----------------------------------------------------------------------------
(* Broadcast *)

Sendings == [at : {"idle", "send", "cancel", "list", "next"},
           nonce : 0..MaxPreviews, text : 0..MaxPreviews, left : SUBSET Clients]

BroadcastTypes ==
    /\ pending \in [Staff -> 0..MaxPreviews] /\ author \in [W!Previews -> Staff \cup {W!Nobody}]
    /\ stale \subseteq W!Made /\ told \subseteq W!Made /\ restarts \in 0..MaxRestarts
    /\ client \in [Clients -> {"here", "blocked", "erased"}]
    /\ got \in [Clients -> [W!Previews -> Nat]]
    /\ task \in [Tasks -> Sendings]

\* The preview that a task is sending, and those whose sending has begun.
Sends(t, n) == task[t].at \in {"list", "next"} /\ task[t].text = n
Begun(n) == n \in W!Made /\ pending[author[n]] # n

TaskInv(t) ==
    /\ task[t].at # "idle" => task[t].nonce \in W!Made
    /\ task[t].at \in {"list", "next"} =>
         task[t].text = task[t].nonce /\ Begun(task[t].nonce)

BroadcastInv ==
    /\ BroadcastTypes
    /\ \E k \in 0..MaxPreviews : W!Made = 1..k
    /\ \A s \in Staff : pending[s] # 0 => author[pending[s]] = s
    /\ \A t \in Tasks : TaskInv(t)
    /\ \A t, u \in Tasks, n \in W!Previews : Sends(t, n) /\ Sends(u, n) => t = u
    /\ \A c \in Clients, n \in W!Previews : got[c][n] # 0 =>
         /\ got[c][n] = 1 /\ Begun(n)
         /\ \A t \in Tasks : Sends(t, n) => task[t].at = "next" /\ c \notin task[t].left

\* The two modules count alike.
LEMMA SameCardinality == \A S : W!Cardinality(S) = Cardinality(S)
  BY DEF W!Cardinality, Cardinality

\* The previews made are real ones, and as many as their last number says.
LEMMA MadeTypes ==
    ASSUME W!BroadcastAssumption, BroadcastInv
    PROVE  /\ \A n \in W!Made : n \in W!Previews /\ n # 0 /\ author[n] \in Staff
           /\ \E k \in 0..MaxPreviews : k = W!Cardinality(W!Made) /\ W!Made = 1..k
           /\ 0 \notin W!Previews
  <1>1. \A n \in W!Made : n \in W!Previews /\ n # 0 /\ author[n] \in Staff
    BY DEF BroadcastInv, BroadcastTypes, W!Made, W!Previews, W!BroadcastAssumption
  <1>2. PICK k \in 0..MaxPreviews : W!Made = 1..k
    BY DEF BroadcastInv
  <1>3. W!Cardinality(1..k) = k
    BY <1>2, FS_Interval, SameCardinality DEF W!BroadcastAssumption
  <1>4. QED
    BY <1>1, <1>2, <1>3 DEF W!Previews, W!BroadcastAssumption

\* A new preview takes the place of the author's older one, and nothing was sent of it.
LEMMA PrepareKeeps ==
    ASSUME W!BroadcastAssumption, BroadcastInv, NEW s \in Staff, W!Prepare(s)
    PROVE  BroadcastInv'
  <1>1. PICK n \in W!Previews : /\ n = W!Cardinality(W!Made) + 1
                              /\ author' = [author EXCEPT ![n] = s]
                              /\ pending' = [pending EXCEPT ![s] = n]
    BY DEF W!Prepare
  <1>2. n \notin W!Made /\ n # 0 /\ 1..n = W!Made \cup {n} /\ n \in 0..MaxPreviews
    BY <1>1, MadeTypes DEF W!Previews, W!BroadcastAssumption
  <1>3. s # W!Nobody
    BY DEF W!BroadcastAssumption
  <1>4. W!Made' = W!Made \cup {n} /\ \A m \in W!Made : author'[m] = author[m]
    <2>1. author \in [W!Previews -> Staff \cup {W!Nobody}]
      BY DEF BroadcastInv, BroadcastTypes
    <2>2. author'[n] = s /\ \A m \in W!Previews \ {n} : author'[m] = author[m]
      BY <1>1, <2>1
    <2>3. \A m \in W!Previews : m \in W!Made' <=> m \in W!Made \/ m = n
      BY <1>1, <1>3, <2>2 DEF W!Made, W!Previews
    <2>4. W!Made \subseteq W!Previews /\ W!Made' \subseteq W!Previews
      BY DEF W!Made, W!Previews
    <2>5. W!Made' = W!Made \cup {n}
      BY <1>1, <2>3, <2>4
    <2>6. QED
      BY <1>2, <2>2, <2>4, <2>5
  <1>5. BroadcastTypes'
    <2>1. /\ pending' \in [Staff -> 0..MaxPreviews]
          /\ author' \in [W!Previews -> Staff \cup {W!Nobody}]
      BY <1>1, <1>2 DEF BroadcastInv, BroadcastTypes
    <2>2. stale' \subseteq W!Made' /\ told' \subseteq W!Made'
      BY <1>4 DEF BroadcastInv, BroadcastTypes, W!Prepare
    <2>3. QED
      BY <2>1, <2>2 DEF BroadcastInv, BroadcastTypes, W!Prepare, W!Previews
  <1>6. \A r \in Staff : pending'[r] # 0 => author'[pending'[r]] = r
    <2> SUFFICES ASSUME NEW r \in Staff, pending'[r] # 0 PROVE author'[pending'[r]] = r
      OBVIOUS
    <2>1. CASE r = s
      BY <1>1, <2>1 DEF BroadcastInv, BroadcastTypes
    <2>2. CASE r # s
      <3>1. pending'[r] = pending[r] /\ author[pending[r]] = r
        BY <1>1, <2>2 DEF BroadcastInv, BroadcastTypes
      <3>2. pending[r] \in W!Made
        BY <3>1, <2>2, <1>1 DEF BroadcastInv, BroadcastTypes, W!Made, W!Previews,
            W!BroadcastAssumption
      <3>3. QED
        BY <3>1, <3>2, <1>4
    <2>3. QED
      BY <2>1, <2>2
  <1>7. \A m \in W!Previews : Begun(m) => Begun(m)'
    BY <1>1, <1>2, <1>4, MadeTypes DEF Begun, BroadcastInv, BroadcastTypes
  <1>8. \A t \in Tasks : TaskInv(t)'
    <2>1. \A m \in W!Made : Begun(m) => Begun(m)'
      BY <1>7, MadeTypes
    <2>2. QED
      BY <2>1, <1>4 DEF BroadcastInv, TaskInv, W!Prepare
  <1>9. /\ \A t, u \in Tasks, m \in W!Previews : (Sends(t, m) /\ Sends(u, m) => t = u)'
        /\ (\A c \in Clients, m \in W!Previews : got[c][m] # 0 =>
             /\ got[c][m] = 1 /\ Begun(m)
             /\ \A t \in Tasks : Sends(t, m) => task[t].at = "next" /\ c \notin task[t].left)'
    BY <1>7 DEF BroadcastInv, Sends, W!Prepare, W!Previews
  <1>10. QED
    BY <1>2, <1>4, <1>5, <1>6, <1>8, <1>9 DEF BroadcastInv, W!Previews

\* A preview whose sending began stays begun while no new one is made.
LEMMA BegunStays ==
    ASSUME W!BroadcastAssumption, BroadcastInv, author' = author,
           \/ pending' = pending
           \/ \E s \in Staff : pending' = [pending EXCEPT ![s] = 0]
           \/ pending' = [s \in Staff |-> 0]
    PROVE  /\ W!Made' = W!Made
           /\ \A n \in W!Previews : Begun(n) => Begun(n)'
           /\ \A s \in Staff : pending'[s] # 0 => author'[pending'[s]] = s
           /\ pending' \in [Staff -> 0..MaxPreviews]
  <1>1. W!Made' = W!Made
    BY DEF W!Made
  <1>2. \A s \in Staff : pending'[s] \in {0, pending[s]}
    BY DEF BroadcastInv, BroadcastTypes
  <1>3. \A n \in W!Previews : Begun(n) => Begun(n)'
    BY <1>1, <1>2, MadeTypes DEF Begun
  <1>4. \A s \in Staff : pending'[s] # 0 => author'[pending'[s]] = s
    BY <1>2 DEF BroadcastInv
  <1>5. pending' \in [Staff -> 0..MaxPreviews]
    BY DEF BroadcastInv, BroadcastTypes, W!BroadcastAssumption
  <1>6. QED
    BY <1>1, <1>3, <1>4, <1>5

\* A step in which no task begins to send and no client gets anything.
LEMMA QuietKeeps ==
    ASSUME W!BroadcastAssumption, BroadcastInv, BroadcastTypes', author' = author, got' = got,
           \/ pending' = pending
           \/ \E s \in Staff : pending' = [pending EXCEPT ![s] = 0]
           \/ pending' = [s \in Staff |-> 0],
           \A t \in Tasks :
             \/ task'[t] = task[t]
             \/ task'[t].at = "idle"
             \/ task'[t].at \in {"send", "cancel"} /\ task'[t].nonce \in W!Made
             \/ /\ task[t].at = "list" /\ task'[t].at = "next"
                /\ task'[t].text = task[t].text /\ task'[t].nonce = task[t].nonce
    PROVE  BroadcastInv'
  <1>1. /\ W!Made' = W!Made /\ \A n \in W!Previews : Begun(n) => Begun(n)'
        /\ \A s \in Staff : pending'[s] # 0 => author'[pending'[s]] = s
    BY BegunStays
  <1>2. \A t \in Tasks, n \in W!Previews :
          Sends(t, n)' => Sends(t, n) /\ (task'[t] = task[t] \/ task[t].at = "list")
    BY DEF Sends
  <1>3. \A t \in Tasks : TaskInv(t)'
    BY <1>1, MadeTypes DEF BroadcastInv, TaskInv
  <1>4. (\A t, u \in Tasks, n \in W!Previews : Sends(t, n) /\ Sends(u, n) => t = u)'
    BY <1>2 DEF BroadcastInv, W!Previews
  <1>5. (\A c \in Clients, n \in W!Previews : got[c][n] # 0 =>
          /\ got[c][n] = 1 /\ Begun(n)
          /\ \A t \in Tasks : Sends(t, n) => task[t].at = "next" /\ c \notin task[t].left)'
    BY <1>1, <1>2 DEF BroadcastInv, W!Previews
  <1>6. QED
    BY <1>1, <1>3, <1>4, <1>5 DEF BroadcastInv

\* Starting to send consumes the preview: no other tap sends it, and nobody got it yet.
LEMMA BeginKeeps ==
    ASSUME W!BroadcastAssumption, BroadcastInv, NEW t \in Tasks, W!Start(t)
    PROVE  BroadcastInv'
  <1>0. PICK n \in W!Previews : n = task[t].nonce /\ n \in W!Made /\ author[n] \in Staff /\ n # 0
    BY MadeTypes DEF W!Start, BroadcastInv, TaskInv
  <1>1. CASE pending[author[n]] = n /\ n \notin stale
    <2>1. /\ pending' = [pending EXCEPT ![author[n]] = 0]
          /\ task' = [task EXCEPT ![t] = [task[t] EXCEPT !.at = "list", !.text = n]]
          /\ author' = author /\ got' = got /\ UNCHANGED <<stale, client, told, restarts>>
      BY <1>0, <1>1 DEF W!Start, W!Mine, W!Forget, W!Moves
    <2>2. /\ task'[t].at = "list" /\ task'[t].text = n /\ task'[t].nonce = n
          /\ task'[t] \in Sendings /\ \A u \in Tasks \ {t} : task'[u] = task[u]
          /\ task' \in [Tasks -> Sendings]
      <3>1. n \in 0..MaxPreviews /\ task[t] \in Sendings /\ task \in [Tasks -> Sendings]
        BY <1>0 DEF BroadcastInv, BroadcastTypes, W!Previews
      <3>2. task'[t] = [task[t] EXCEPT !.at = "list", !.text = n]
        BY <2>1, <3>1
      <3>3. /\ task'[t].at = "list" /\ task'[t].text = n /\ task'[t].nonce = n
            /\ task'[t] \in Sendings
        BY <1>0, <3>1, <3>2 DEF Sendings
      <3>4. QED
        BY <2>1, <3>1, <3>3
    <2>3. /\ W!Made' = W!Made /\ \A m \in W!Previews : Begun(m) => Begun(m)'
          /\ \A s \in Staff : pending'[s] # 0 => author'[pending'[s]] = s
          /\ pending' \in [Staff -> 0..MaxPreviews]
      BY <1>0, <2>1, BegunStays
    <2>4. BroadcastTypes'
      BY <2>1, <2>2, <2>3 DEF BroadcastInv, BroadcastTypes
    <2>5. ~Begun(n) /\ Begun(n)'
      BY <1>0, <1>1, <2>1 DEF Begun, BroadcastInv, BroadcastTypes, W!Made
    <2>6. /\ \A u \in Tasks : ~Sends(u, n)
          /\ \A c \in Clients : got[c][n] = 0
      BY <1>0, <2>5 DEF BroadcastInv, TaskInv, Sends
    <2>7. \A u \in Tasks, m \in W!Previews :
            Sends(u, m)' => \/ Sends(u, m) /\ u # t /\ m # n
                            \/ u = t /\ m = n
      BY <2>2, <2>6 DEF Sends
    <2>8. \A u \in Tasks : TaskInv(u)'
      BY <1>0, <2>2, <2>3, <2>5, MadeTypes DEF BroadcastInv, TaskInv
    <2>9. (\A u, w \in Tasks, m \in W!Previews : Sends(u, m) /\ Sends(w, m) => u = w)'
      BY <2>7 DEF BroadcastInv, W!Previews
    <2>10. (\A c \in Clients, m \in W!Previews : got[c][m] # 0 =>
             /\ got[c][m] = 1 /\ Begun(m)
             /\ \A u \in Tasks : Sends(u, m) => task[u].at = "next" /\ c \notin task[u].left)'
      BY <2>1, <2>2, <2>3, <2>6, <2>7 DEF BroadcastInv, W!Previews
    <2>11. QED
      BY <2>1, <2>3, <2>4, <2>8, <2>9, <2>10 DEF BroadcastInv
  <1>2. CASE ~(pending[author[n]] = n /\ n \notin stale)
    <2>1. task' = [task EXCEPT ![t] = W!Idle] /\ pending' = pending
      BY <1>0, <1>2 DEF W!Start, W!Mine, W!Moves
    <2>2. BroadcastTypes' /\ task'[t].at = "idle" /\ \A u \in Tasks \ {t} : task'[u] = task[u]
      <3>1. W!Idle \in Sendings /\ W!Idle.at = "idle" /\ task \in [Tasks -> Sendings]
        BY DEF BroadcastInv, BroadcastTypes, Sendings, W!Idle, W!BroadcastAssumption
      <3>2. QED
        BY <2>1, <3>1 DEF BroadcastInv, BroadcastTypes, W!Start, W!Made
    <2>3. QED
      BY <2>1, <2>2, QuietKeeps DEF W!Start
  <1>3. QED
    BY <1>1, <1>2

\* A text is sent to a client that is on the task's list, once, for it leaves the list.
LEMMA SendKeeps ==
    ASSUME W!BroadcastAssumption, BroadcastInv, NEW t \in Tasks, NEW c \in Clients, W!Send(t, c)
    PROVE  BroadcastInv'
  <1>0. PICK n \in W!Previews : n = task[t].text /\ n = task[t].nonce /\ Begun(n)
    BY MadeTypes DEF W!Send, BroadcastInv, TaskInv
  <1>1. /\ task[t].at = "next" /\ c \in task[t].left
        /\ task' = [task EXCEPT ![t] = [task[t] EXCEPT !.left = @ \ {c}]]
        /\ UNCHANGED <<pending, author, stale, client, told, restarts>>
        /\ \/ got' = [got EXCEPT ![c][n] = @ + 1]
           \/ got' = got
    BY <1>0 DEF W!Send, W!Moves
  <1>2. /\ task'[t].at = "next" /\ task'[t].text = n /\ task'[t].nonce = n
        /\ task'[t].left = task[t].left \ {c}
        /\ \A u \in Tasks \ {t} : task'[u] = task[u]
        /\ task' \in [Tasks -> Sendings]
    <2>1. task[t] \in Sendings /\ task \in [Tasks -> Sendings]
      BY DEF BroadcastInv, BroadcastTypes
    <2>2. task'[t] = [task[t] EXCEPT !.left = task[t].left \ {c}]
      BY <1>1, <2>1
    <2>3. /\ task'[t].at = "next" /\ task'[t].text = n /\ task'[t].nonce = n
          /\ task'[t].left = task[t].left \ {c} /\ task'[t] \in Sendings
      BY <1>0, <1>1, <2>1, <2>2 DEF Sendings
    <2>4. QED
      BY <1>1, <2>1, <2>3
  <1>3. W!Made' = W!Made /\ \A m \in W!Previews : Begun(m)' <=> Begun(m)
    BY <1>1 DEF Begun, W!Made
  <1>4. got[c][n] = 0
    BY <1>0, <1>1 DEF BroadcastInv, Sends
  <1>5. /\ got' \in [Clients -> [W!Previews -> Nat]]
        /\ \A d \in Clients, m \in W!Previews :
             got'[d][m] = got[d][m] \/ (d = c /\ m = n /\ got'[d][m] = 1)
    <2>1. got \in [Clients -> [W!Previews -> Nat]]
      BY DEF BroadcastInv, BroadcastTypes
    <2>2. CASE got' = got
      BY <2>1, <2>2
    <2>3. CASE got' = [got EXCEPT ![c][n] = @ + 1]
      <3>1. got' = [got EXCEPT ![c] = [got[c] EXCEPT ![n] = 1]]
        BY <1>4, <2>1, <2>3
      <3>2. [got[c] EXCEPT ![n] = 1] \in [W!Previews -> Nat]
        BY <2>1
      <3>3. got' \in [Clients -> [W!Previews -> Nat]]
        BY <2>1, <3>1, <3>2
      <3>4. QED
        BY <2>1, <3>1, <3>3
    <2>4. QED
      BY <1>1, <2>2, <2>3
  <1>6. \A u \in Tasks, m \in W!Previews : Sends(u, m)' <=> Sends(u, m)
    BY <1>0, <1>1, <1>2 DEF Sends
  <1>7. BroadcastTypes'
    BY <1>1, <1>2, <1>3, <1>5 DEF BroadcastInv, BroadcastTypes
  <1>8. \A u \in Tasks : TaskInv(u)'
    BY <1>0, <1>1, <1>2, <1>3, MadeTypes DEF BroadcastInv, TaskInv
  <1>9. (\A u, w \in Tasks, m \in W!Previews : Sends(u, m) /\ Sends(w, m) => u = w)'
    BY <1>6 DEF BroadcastInv, W!Previews
  <1>10. ASSUME NEW d \in Clients, NEW m \in W!Previews, got'[d][m] # 0
         PROVE  /\ got'[d][m] = 1 /\ Begun(m)'
                /\ \A u \in Tasks : Sends(u, m)' =>
                     task'[u].at = "next" /\ d \notin task'[u].left
    <2>1. CASE d = c /\ m = n
      <3>1. \A u \in Tasks : Sends(u, n)' => u = t
        <4>1. Sends(t, n)
          BY <1>0, <1>1 DEF Sends
        <4>2. QED
          BY <1>6, <4>1 DEF BroadcastInv
      <3>2. QED
        BY <1>0, <1>2, <1>3, <1>4, <1>5, <1>10, <2>1, <3>1
    <2>2. CASE got'[d][m] = got[d][m]
      <3>1. /\ got[d][m] = 1 /\ Begun(m)
            /\ \A u \in Tasks : Sends(u, m) => task[u].at = "next" /\ d \notin task[u].left
        BY <1>10, <2>2 DEF BroadcastInv
      <3>2. QED
        BY <1>2, <1>3, <1>6, <2>2, <3>1
    <2>3. QED
      BY <1>5, <2>1, <2>2
  <1>11. QED
    BY <1>1, <1>3, <1>7, <1>8, <1>9, <1>10 DEF BroadcastInv, W!Previews

\* The other steps send nothing and begin no sending.
LEMMA OthersKeep ==
    ASSUME W!BroadcastAssumption, BroadcastInv,
           \/ \E t \in Tasks : \/ \E n \in W!Previews, button \in {"send", "cancel"} :
                                    W!Tap(t, n, button)
                               \/ W!CancelTap(t) \/ W!List(t) \/ W!Finish(t)
           \/ \E n \in W!Previews : W!Expire(n)
           \/ \E c \in Clients, new \in {"here", "blocked", "erased"} : W!Change(c, new)
           \/ W!Restart
           \/ UNCHANGED W!vars
    PROVE  BroadcastInv'
  <1> USE DEF W!Moves, W!BroadcastAssumption
  <1>1. ASSUME NEW t \in Tasks, NEW n \in W!Previews, NEW button \in {"send", "cancel"},
               W!Tap(t, n, button)
        PROVE  BroadcastInv'
    <2>1. /\ BroadcastTypes' /\ \A u \in Tasks \ {t} : task'[u] = task[u]
          /\ task'[t].at \in {"send", "cancel"} /\ task'[t].nonce \in W!Made
      <3>1. PICK v : v = [W!Idle EXCEPT !.at = button, !.nonce = n]
        OBVIOUS
      <3>2. v = [at |-> button, nonce |-> n, text |-> 0, left |-> {}]
        BY <3>1 DEF W!Idle
      <3>3. v \in Sendings /\ v.at = button /\ v.nonce = n
        BY <3>2 DEF Sendings, W!Previews
      <3>4. task' = [task EXCEPT ![t] = v]
        BY <1>1, <3>1 DEF W!Tap
      <3>5. task' \in [Tasks -> Sendings]
        BY <3>3, <3>4 DEF BroadcastInv, BroadcastTypes
      <3>8. BroadcastTypes'
        BY <1>1, <3>5 DEF W!Tap, BroadcastInv, BroadcastTypes, W!Made
      <3>6. task'[t] = v /\ \A u \in Tasks \ {t} : task'[u] = task[u]
        BY <3>4 DEF BroadcastInv, BroadcastTypes
      <3>7. QED
        BY <1>1, <3>3, <3>6, <3>8 DEF W!Tap, W!Made
    <2>2. QED
      BY <1>1, <2>1, QuietKeeps DEF W!Tap
  <1>2. ASSUME NEW t \in Tasks, W!CancelTap(t)
        PROVE  BroadcastInv'
    <2>1. task[t].nonce \in W!Made /\ author[task[t].nonce] \in Staff
      BY <1>2, MadeTypes DEF W!CancelTap, BroadcastInv, TaskInv
    <2>2. \/ pending' = pending
          \/ \E s \in Staff : pending' = [pending EXCEPT ![s] = 0]
      BY <1>2, <2>1 DEF W!CancelTap, W!Forget
    <2>3. pending' \in [Staff -> 0..MaxPreviews]
      BY <1>2, <2>2, BegunStays DEF W!CancelTap
    <2>4. /\ BroadcastTypes' /\ task'[t].at = "idle" /\ \A u \in Tasks \ {t} : task'[u] = task[u]
      BY <1>2, <2>1, <2>3 DEF W!CancelTap, BroadcastInv, BroadcastTypes, Sendings, W!Idle,
          W!Made
    <2>5. QED
      BY <1>2, <2>2, <2>4, QuietKeeps DEF W!CancelTap
  <1>3. ASSUME NEW t \in Tasks, W!List(t)
        PROVE  BroadcastInv'
    <2>1. /\ BroadcastTypes' /\ \A u \in Tasks \ {t} : task'[u] = task[u]
          /\ task[t].at = "list" /\ task'[t].at = "next"
          /\ task'[t].text = task[t].text /\ task'[t].nonce = task[t].nonce
      <3>0. task[t] \in Sendings /\ task \in [Tasks -> Sendings]
        BY DEF BroadcastInv, BroadcastTypes
      <3>1. PICK left \in SUBSET Clients :
              task' = [task EXCEPT ![t] = [task[t] EXCEPT !.at = "next", !.left = left]]
        BY <1>3 DEF W!List
      <3>2. PICK v : v = [task[t] EXCEPT !.at = "next", !.left = left]
        OBVIOUS
      <3>3. v \in Sendings /\ v.at = "next" /\ v.text = task[t].text
            /\ v.nonce = task[t].nonce
        BY <3>0, <3>2 DEF Sendings
      <3>4. task' = [task EXCEPT ![t] = v]
        BY <3>1, <3>2
      <3>5. /\ task' \in [Tasks -> Sendings] /\ task'[t] = v
            /\ \A u \in Tasks \ {t} : task'[u] = task[u]
        BY <3>0, <3>3, <3>4
      <3>6. BroadcastTypes'
        BY <1>3, <3>5 DEF W!List, BroadcastInv, BroadcastTypes, W!Made
      <3>7. QED
        BY <1>3, <3>3, <3>5, <3>6 DEF W!List
    <2>2. QED
      BY <1>3, <2>1, QuietKeeps DEF W!List
  <1>4. ASSUME NEW t \in Tasks, W!Finish(t)
        PROVE  BroadcastInv'
    <2>1. /\ BroadcastTypes' /\ task'[t].at = "idle" /\ \A u \in Tasks \ {t} : task'[u] = task[u]
      BY <1>4 DEF W!Finish, BroadcastInv, BroadcastTypes, Sendings, W!Idle, W!Made
    <2>2. QED
      BY <1>4, <2>1, QuietKeeps DEF W!Finish
  <1>5. ASSUME NEW n \in W!Previews, W!Expire(n)
        PROVE  BroadcastInv'
    <2>1. BroadcastTypes'
      BY <1>5 DEF W!Expire, BroadcastInv, BroadcastTypes, W!Made
    <2>2. QED
      BY <1>5, <2>1, QuietKeeps DEF W!Expire
  <1>6. ASSUME NEW c \in Clients, NEW new \in {"here", "blocked", "erased"}, W!Change(c, new)
        PROVE  BroadcastInv'
    <2>1. BroadcastTypes'
      BY <1>6 DEF W!Change, BroadcastInv, BroadcastTypes, W!Made
    <2>2. QED
      BY <1>6, <2>1, QuietKeeps DEF W!Change
  <1>7. CASE W!Restart
    <2>1. BroadcastTypes' /\ \A u \in Tasks : task'[u].at = "idle"
      BY <1>7 DEF W!Restart, BroadcastInv, BroadcastTypes, Sendings, W!Idle, W!Made
    <2>2. QED
      BY <1>7, <2>1, QuietKeeps DEF W!Restart
  <1>8. CASE UNCHANGED W!vars
    <2>1. BroadcastTypes'
      BY <1>8 DEF W!vars, BroadcastInv, BroadcastTypes, W!Made
    <2>2. QED
      BY <1>8, <2>1, QuietKeeps DEF W!vars
  <1>9. QED
    BY <1>1, <1>2, <1>3, <1>4, <1>5, <1>6, <1>7, <1>8

\* The previews, the tasks and what clients got are always as the invariant says.
THEOREM BroadcastInvariance ==
    ASSUME W!BroadcastAssumption
    PROVE  W!Spec => []BroadcastInv
  <1>1. W!Init => BroadcastInv
    <2> SUFFICES ASSUME W!Init PROVE BroadcastInv
      OBVIOUS
    <2>1. W!Made = 1..0
      BY DEF W!Init, W!Made
    <2>2. BroadcastTypes
      BY <2>1 DEF W!Init, BroadcastTypes, Sendings, W!Idle, W!BroadcastAssumption, W!Previews,
          W!Made
    <2>3. QED
      <3>1. \A t \in Tasks : task[t].at = "idle"
        BY DEF W!Init, W!Idle
      <3>2. \A c \in Clients, n \in W!Previews : got[c][n] = 0
        BY DEF W!Init
      <3>3. QED
        BY <2>1, <2>2, <3>1, <3>2 DEF W!Init, BroadcastInv, TaskInv, Sends,
            W!BroadcastAssumption
  <1>2. BroadcastInv /\ [W!Next]_W!vars => BroadcastInv'
    BY PrepareKeeps, BeginKeeps, SendKeeps, OthersKeep DEF W!Next
  <1>3. QED
    BY <1>1, <1>2, PTL DEF W!Spec

\* What goes out is the text the tapped button stands under, and it goes to a client once.
THEOREM SentOnce ==
    ASSUME W!BroadcastAssumption
    PROVE  W!Spec => []W!SentOnceAsShown
  <1>1. BroadcastInv => W!SentOnceAsShown
    <2> SUFFICES ASSUME BroadcastInv PROVE W!SentOnceAsShown
      OBVIOUS
    <2>1. W!TypeOK
      BY DEF BroadcastInv, BroadcastTypes, Sendings, W!TypeOK
    <2>2. W!WhatWasShownIsSent
      BY DEF BroadcastInv, TaskInv, W!WhatWasShownIsSent
    <2>3. \A c \in Clients, n \in W!Previews : got[c][n] \in {0, 1}
      BY DEF BroadcastInv
    <2>4. QED
      BY <2>1, <2>2, <2>3 DEF W!SentOnceAsShown, W!NobodyGetsItTwice
  <1>2. QED
    BY <1>1, BroadcastInvariance, PTL

\* A client who is erased while a broadcast goes out gets no more of it.
THEOREM NothingErased ==
    ASSUME W!BroadcastAssumption
    PROVE  W!Spec => W!NothingToTheErased
  <1>1. BroadcastInv /\ [W!Next]_W!vars => [W!NothingToTheErasedStep]_W!vars
    <2> SUFFICES ASSUME BroadcastInv, W!Next PROVE W!NothingToTheErasedStep
      OBVIOUS
    <2>1. ASSUME NEW t \in Tasks, NEW c \in Clients, W!Send(t, c)
          PROVE  W!NothingToTheErasedStep
      BY <2>1 DEF W!Send, W!NothingToTheErasedStep, BroadcastInv, BroadcastTypes
    <2>2. QED
      BY <2>1 DEF W!Next, W!Prepare, W!Tap, W!Start, W!CancelTap, W!List, W!Finish, W!Expire,
          W!Change, W!Restart, W!NothingToTheErasedStep
  <1>2. QED
    BY <1>1, BroadcastInvariance, PTL DEF W!Spec, W!NothingToTheErased

-----------------------------------------------------------------------------
(* Settings *)

\* What readers may rely on for a value of key k.
Clean(k) ==
    CASE Kind[k] = "whole" ->
            {t \in V!Numbers : t.as = "integer" /\ Low[k] <= t.halves /\ t.halves <= High[k]}
      [] Kind[k] = "decimal" ->
            {t \in V!Numbers : t.as = "decimal" /\ Low[k] <= t.halves /\ t.halves <= High[k]}
      [] Kind[k] = "switch" -> {V!Digit(TRUE), V!Digit(FALSE)}
      [] Kind[k] = "username" -> {t \in V!Usernames : t.formed /\ t.signs = 0}
      [] Kind[k] = "prose" -> {t \in V!Prose : t.short}

CacheInv ==
    /\ table = [k \in Keys |-> table[k]]
    /\ \A k \in Keys : table[k] \in V!Texts(k) \cup {V!None}
    /\ cache = [k \in Keys |-> V!Loaded(k, table[k])]

-----------------------------------------------------------------------------
(* Validation *)

\* Whatever validation lets through is clean: in range, well formed, in one spelling.
LEMMA ValidIsClean ==
    ASSUME V!SettingsAssumption, NEW k \in Keys, NEW t \in V!Texts(k), V!Validate(k, t) # V!None
    PROVE  V!Validate(k, t) \in Clean(k)
<1>1. CASE Kind[k] = "whole"
  BY <1>1 DEF V!SettingsAssumption, V!Validate, V!CleanNumber, Clean, V!Texts, V!Numbers,
      V!Prose, V!Number, V!None
<1>2. CASE Kind[k] = "decimal"
  BY <1>2 DEF V!SettingsAssumption, V!Validate, V!CleanNumber, Clean, V!Texts, V!Numbers,
      V!Prose, V!Number, V!None
<1>3. CASE Kind[k] = "switch"
  BY <1>3 DEF V!SettingsAssumption, V!Validate, V!CleanSwitch, Clean, V!Texts, V!Numbers,
      V!Prose, V!Words, V!Digit, V!Number, V!None
<1>4. CASE Kind[k] = "username"
  BY <1>4 DEF V!SettingsAssumption, V!Validate, V!CleanUsername, Clean, V!Texts, V!Usernames,
      V!None
<1>5. CASE Kind[k] = "prose"
  BY <1>5 DEF V!SettingsAssumption, V!Validate, V!CleanProse, Clean, V!Texts, V!Prose, V!None
<1> QED
  BY <1>1, <1>2, <1>3, <1>4, <1>5 DEF V!SettingsAssumption

\* The defaults are clean.
LEMMA DefaultIsClean ==
    ASSUME V!SettingsAssumption, NEW k \in Keys
    PROVE  V!Default(k) \in Clean(k)
<1>1. CASE Kind[k] = "whole"
  BY <1>1 DEF V!SettingsAssumption, V!Default, Clean, V!Numbers, V!Number
<1>2. CASE Kind[k] = "decimal"
  BY <1>2 DEF V!SettingsAssumption, V!Default, Clean, V!Numbers, V!Number
<1>3. CASE Kind[k] = "switch"
  BY <1>3 DEF V!Default, Clean
<1>4. CASE Kind[k] = "username"
  BY <1>4 DEF V!SettingsAssumption, V!Default, Clean, V!Usernames
<1>5. CASE Kind[k] = "prose"
  BY <1>5 DEF V!Default, Clean, V!Prose
<1> QED
  BY <1>1, <1>2, <1>3, <1>4, <1>5 DEF V!SettingsAssumption

\* Clean texts are texts of their key, and validation leaves them as they are.
LEMMA CleanIsStable ==
    ASSUME V!SettingsAssumption, NEW k \in Keys, NEW t \in Clean(k)
    PROVE  t \in V!Texts(k) /\ t # V!None /\ V!Validate(k, t) = t
<1>1. CASE Kind[k] = "whole"
  BY <1>1 DEF V!SettingsAssumption, V!Validate, V!CleanNumber, Clean, V!Texts, V!Numbers,
      V!Number, V!None
<1>2. CASE Kind[k] = "decimal"
  BY <1>2 DEF V!SettingsAssumption, V!Validate, V!CleanNumber, Clean, V!Texts, V!Numbers,
      V!Number, V!None
<1>3. CASE Kind[k] = "switch"
  BY <1>3 DEF V!SettingsAssumption, V!Validate, V!CleanSwitch, Clean, V!Texts, V!Numbers,
      V!Digit, V!Number, V!None
<1>4. CASE Kind[k] = "username"
  BY <1>4 DEF V!Validate, V!CleanUsername, Clean, V!Texts, V!Usernames, V!None
<1>5. CASE Kind[k] = "prose"
  BY <1>5 DEF V!Validate, V!CleanProse, Clean, V!Texts, V!Prose, V!None
<1> QED
  BY <1>1, <1>2, <1>3, <1>4, <1>5 DEF V!SettingsAssumption

\* What a start makes of a row is clean, whatever the row holds.
LEMMA LoadedIsClean ==
    ASSUME V!SettingsAssumption, NEW k \in Keys, NEW t \in V!Texts(k) \cup {V!None}
    PROVE  V!Loaded(k, t) \in Clean(k)
  BY ValidIsClean, DefaultIsClean DEF V!Loaded

-----------------------------------------------------------------------------
(* Invariance *)

LEMMA CacheStart == ASSUME V!SettingsAssumption, V!Init PROVE CacheInv
<1>1. table = [k \in Keys |-> V!None] /\ \A k \in Keys : table[k] = V!None
  BY DEF V!Init
<1>2. cache = [k \in Keys |-> V!Loaded(k, table[k])]
  BY <1>1 DEF V!Init
<1> QED
  BY <1>1, <1>2 DEF CacheInv

LEMMA CacheStep == ASSUME V!SettingsAssumption, CacheInv, [V!Next]_V!vars PROVE CacheInv'
<1>1. CASE V!Restart
  BY <1>1 DEF CacheInv, V!Restart
<1>2. ASSUME NEW k \in Keys, NEW t \in V!Texts(k), V!Save(k, t) PROVE CacheInv'
  <2> DEFINE value == V!Validate(k, t)
  <2>1. /\ value \in V!Texts(k) /\ value # V!None /\ V!Validate(k, value) = value
    BY <1>2, ValidIsClean, CleanIsStable DEF V!Save
  <2>2. /\ table' = [table EXCEPT ![k] = value]
        /\ cache' = [cache EXCEPT ![k] = value]
    BY <1>2 DEF V!Save
  <2>3. V!Loaded(k, value) = value
    BY <2>1 DEF V!Loaded
  <2> HIDE DEF value
  <2> QED
    BY <2>1, <2>2, <2>3 DEF CacheInv
<1>3. ASSUME NEW k \in Keys, NEW t \in V!Texts(k) \cup {V!None}, V!StartOver(k, t) PROVE CacheInv'
  BY <1>3 DEF CacheInv, V!StartOver
<1>4. CASE UNCHANGED V!vars
  BY <1>4 DEF CacheInv, V!vars
<1> QED
  BY <1>1, <1>2, <1>3, <1>4 DEF V!Next

\* Nothing the table holds reaches a reader uncleaned: the cache is clean.
LEMMA CacheIsClean ==
    ASSUME V!SettingsAssumption, CacheInv PROVE \A k \in Keys : cache[k] \in Clean(k)
  BY LoadedIsClean DEF CacheInv

\* The scheduler, the keyboards and the texts get values in range and well formed,
\* whatever rows older versions or hands left.
THEOREM Readers == ASSUME V!SettingsAssumption PROVE V!Spec => []V!ReadersAreSafe
<1>1. ASSUME CacheInv PROVE V!ReadersAreSafe
  <2>1. ASSUME NEW k \in Keys, Kind[k] = "whole"
        PROVE  /\ cache[k].is = "number" /\ cache[k].as = "integer"
               /\ cache[k].halves % 2 = 0
               /\ Low[k] <= V!GetInt(k) /\ V!GetInt(k) <= High[k]
    <3>1. cache[k] \in {t \in V!Numbers : t.as = "integer" /\ Low[k] <= t.halves
                                            /\ t.halves <= High[k]}
      BY <1>1, <2>1, CacheIsClean DEF Clean
    <3>2. cache[k].halves \in Int /\ cache[k].halves % 2 = 0
      BY <3>1 DEF V!Numbers, V!SettingsAssumption
    <3>3. V!GetInt(k) = cache[k].halves
      BY <3>2 DEF V!GetInt
    <3> QED
      BY <3>1, <3>2, <3>3 DEF V!Numbers
  <2>2. ASSUME NEW k \in Keys, Kind[k] # "whole"
        PROVE  /\ Kind[k] = "decimal" => /\ cache[k].is = "number"
                                         /\ Low[k] <= cache[k].halves
                                         /\ cache[k].halves <= High[k]
               /\ Kind[k] = "switch" => cache[k] \in {V!Digit(TRUE), V!Digit(FALSE)}
               /\ Kind[k] = "username" => /\ cache[k].is = "username" /\ cache[k].formed
                                          /\ cache[k].signs = 0
               /\ Kind[k] = "prose" => cache[k].is = "prose" /\ cache[k].short
    BY <1>1, <2>2, CacheIsClean DEF Clean, V!Numbers, V!Usernames, V!Prose
  <2> QED
    BY <2>1, <2>2 DEF V!ReadersAreSafe
<1> QED
  BY <1>1, CacheStart, CacheStep, PTL DEF V!Spec

\* What staff were told is stored stays the value of the setting over every restart.
THEOREM Restarts == ASSUME V!SettingsAssumption PROVE V!Spec => V!RestartChangesNothing
<1>1. ASSUME CacheInv, [V!Next]_V!vars PROVE [V!RestartChangesNothingStep]_V!vars
  BY <1>1 DEF CacheInv, V!Restart, V!RestartChangesNothingStep
<1> QED
  BY <1>1, CacheStart, CacheStep, PTL DEF V!Spec, V!RestartChangesNothing

-----------------------------------------------------------------------------
(* Dialogs *)

Prompt == [id : 1..MaxPrompts, kind : Kinds, actor : Nat, step : {0, 1}, old : BOOLEAN]
Opening == [step : {"set", "tell"}, kind : Kinds, actor : Nat]
Answer == [step : {"asked", "lookup", "write"}, from : Senders,
           text : {"value", "bad", "cancel"}, prompt : Prompt,
           late : BOOLEAN, held : BOOLEAN]
Profile == [id : Nat, last : 1..MaxProfiles, role : DOMAIN D!LevelOf, blocked : BOOLEAN]

DialogTypes ==
    /\ prompts \in 0..MaxPrompts /\ changes \in 0..MaxChanges /\ over \subseteq 1..prompts
    /\ profile \in [Senders -> Profile]
    /\ \A s \in Senders : profile[s].id \in {0, profile[s].last}
    /\ open \in [Senders -> {D!NoTap} \cup Opening]
    /\ slot \in [Senders -> {D!NoPrompt} \cup Prompt]
    /\ msg \in [Messages -> {D!NoMessage} \cup Answer]

\* Two prompts with one number are of one kind and one sender.
Alike(s, p, t, q) == p.id = q.id => s = t /\ p.kind = q.kind

\* What the store holds of a sender.
SlotInv(s) ==
    slot[s] # D!NoPrompt =>
      /\ slot[s].id <= prompts
      /\ slot[s].old => slot[s].id \in over
      /\ slot[s].kind # "req_new" /\ ~slot[s].old => slot[s].id \notin over
      /\ \A t \in Senders : slot[t] # D!NoPrompt => Alike(s, slot[s], t, slot[t])

\* What a message in hand knows.
MessageInv(m) ==
    msg[m] # D!NoMessage =>
      /\ msg[m].prompt.id <= prompts /\ ~msg[m].prompt.old
      /\ msg[m].prompt.kind # "req_new" => ~msg[m].late
      /\ D!HasRights(profile[msg[m].from], msg[m].prompt) => msg[m].held
      /\ msg[m].step \in {"lookup", "write"} => msg[m].held
      /\ \A s \in Senders :
           slot[s] # D!NoPrompt => Alike(msg[m].from, msg[m].prompt, s, slot[s])
      /\ \A n \in Messages :
           msg[n] # D!NoMessage => Alike(msg[m].from, msg[m].prompt, msg[n].from, msg[n].prompt)

\* A prompt that nobody ended is in the store.
Stored == \A p \in (1..prompts) \ over : \E s \in Senders : slot[s].id = p

DialogsInv ==
    /\ DialogTypes /\ Stored
    /\ \A s \in Senders : SlotInv(s)
    /\ \A m \in Messages : MessageInv(m)

\* The places that hold nothing differ from all that hold something.
LEMMA NoneApart ==
    /\ \A p \in Prompt : p # D!NoPrompt /\ p.id # 0
    /\ \A p \in Opening : p # D!NoTap
    /\ \A p \in Answer : p # D!NoMessage
    /\ D!NoPrompt.id = 0
  BY DEF Prompt, D!NoPrompt, Opening, D!NoTap, Answer, D!NoMessage

\* A sender's prompt is cleared, and it and one of the sender's messages' are over.
LEMMA ClearKeeps ==
    ASSUME D!DialogsAssumption, DialogsInv, NEW s \in Senders,
           UNCHANGED <<profile, prompts, changes>>,
           slot' = [slot EXCEPT ![s] = D!NoPrompt],
           D!Ended(s, D!NoPrompt) \subseteq over',
           \A id \in over' \ D!Ended(s, D!NoPrompt) : \E m \in Messages :
               msg[m] # D!NoMessage /\ msg[m].from = s /\ msg[m].prompt.id = id,
           open' \in [Senders -> {D!NoTap} \cup Opening],
           msg' \in [Messages -> {D!NoMessage} \cup Answer],
           \A m \in Messages :
             \/ msg'[m] \in {msg[m], D!NoMessage}
             \/ /\ msg[m] # D!NoMessage /\ msg'[m] # D!NoMessage /\ msg'[m].held
                /\ msg'[m].from = msg[m].from /\ msg'[m].prompt = msg[m].prompt
                /\ msg'[m].late = msg[m].late
    PROVE  DialogsInv'
  <1> DEFINE more == over' \ D!Ended(s, D!NoPrompt)
  <1>0. over \subseteq over' /\ over' \subseteq over \cup {slot[s].id} \cup more
    BY DEF D!Ended
  <1>1. slot'[s] = D!NoPrompt /\ \A t \in Senders \ {s} : slot'[t] = slot[t]
    BY DEF DialogsInv, DialogTypes
  <1>2. over' \subseteq 1..prompts
    <2>1. slot[s].id \in 1..prompts \/ slot[s].id = 0
      BY NoneApart DEF DialogsInv, DialogTypes, SlotInv, Prompt, D!DialogsAssumption
    <2>2. \A id \in more : id \in 1..prompts
      BY NoneApart DEF DialogsInv, DialogTypes, MessageInv, Answer, Prompt,
          D!DialogsAssumption
    <2>3. D!Ended(s, D!NoPrompt) \subseteq 1..prompts
      BY <2>1, NoneApart DEF D!Ended, DialogsInv, DialogTypes
    <2>4. QED
      BY <2>2, <2>3
  <1>3. DialogTypes'
    BY <1>1, <1>2 DEF DialogsInv, DialogTypes
  <1>4. Stored'
    <2> SUFFICES ASSUME NEW p \in (1..prompts) \ over' PROVE \E t \in Senders : slot'[t].id = p
      BY DEF Stored
    <2>1. PICK t \in Senders : slot[t].id = p
      BY <1>0 DEF DialogsInv, Stored
    <2>2. t # s
      <3>1. p # 0
        BY DEF DialogsInv, DialogTypes
      <3>2. slot[s].id # p
        BY <3>1, NoneApart DEF D!Ended
      <3>3. QED
        BY <2>1, <3>2
    <2>3. QED
      BY <1>1, <2>1, <2>2
  <1>5. ASSUME NEW t \in Senders, t # s, slot[t] # D!NoPrompt, slot[t].id \in over'
        PROVE  slot[t].id \in over
    <2>1. slot[t] \in Prompt /\ SlotInv(t)
      BY <1>5 DEF DialogsInv, DialogTypes
    <2>2. slot[t].id # slot[s].id
      BY <1>5, <2>1, NoneApart DEF SlotInv, Alike
    <2>3. slot[t].id \notin more
      BY <1>5 DEF DialogsInv, MessageInv, Alike
    <2>4. QED
      BY <1>0, <1>5, <2>2, <2>3
  <1>6. ASSUME NEW t \in Senders PROVE SlotInv(t)'
    BY <1>0, <1>1, <1>5 DEF DialogsInv, SlotInv, Alike
  <1>7. ASSUME NEW m \in Messages PROVE MessageInv(m)'
    <2>1. \A n \in Messages : msg'[n] # D!NoMessage =>
            /\ msg[n] # D!NoMessage
            /\ msg'[n].from = msg[n].from /\ msg'[n].prompt = msg[n].prompt
      OBVIOUS
    <2>2. \A t \in Senders : slot'[t] # D!NoPrompt => slot[t] # D!NoPrompt /\ slot'[t] = slot[t]
      BY <1>1
    <2> SUFFICES ASSUME msg'[m] # D!NoMessage PROVE MessageInv(m)'
      BY DEF MessageInv
    <2>3. MessageInv(m) /\ msg[m] # D!NoMessage
      BY <2>1 DEF DialogsInv
    <2>4. \A n \in Messages : msg'[n] # D!NoMessage =>
            Alike(msg'[m].from, msg'[m].prompt, msg'[n].from, msg'[n].prompt)
      BY <2>1, <2>3 DEF MessageInv
    <2>5. \A t \in Senders :
            slot'[t] # D!NoPrompt => Alike(msg'[m].from, msg'[m].prompt, t, slot'[t])
      BY <2>1, <2>2, <2>3 DEF MessageInv
    <2>6. msg'[m] = msg[m] \/ (msg'[m].held /\ msg'[m].late = msg[m].late)
      OBVIOUS
    <2>7. QED
      BY <2>1, <2>3, <2>4, <2>5, <2>6 DEF MessageInv
  <1>8. QED
    BY <1>3, <1>4, <1>6, <1>7 DEF DialogsInv

\* A step that leaves the store alone: messages in hand go on or end.
LEMMA NothingStoredKeeps ==
    ASSUME D!DialogsAssumption, DialogsInv,
           UNCHANGED <<profile, slot, prompts, changes, over>>,
           open' \in [Senders -> {D!NoTap} \cup Opening],
           msg' \in [Messages -> {D!NoMessage} \cup Answer],
           \A m \in Messages :
             \/ msg'[m] \in {msg[m], D!NoMessage}
             \/ /\ msg[m] # D!NoMessage /\ msg'[m] # D!NoMessage /\ msg'[m].held
                /\ msg'[m].from = msg[m].from /\ msg'[m].prompt = msg[m].prompt
                /\ msg'[m].late = msg[m].late
    PROVE  DialogsInv'
  <1>1. DialogTypes' /\ Stored' /\ \A t \in Senders : SlotInv(t)'
    BY DEF DialogsInv, DialogTypes, Stored, SlotInv
  <1>2. ASSUME NEW m \in Messages PROVE MessageInv(m)'
    <2>1. \A n \in Messages : msg'[n] # D!NoMessage =>
            /\ msg[n] # D!NoMessage
            /\ msg'[n].from = msg[n].from /\ msg'[n].prompt = msg[n].prompt
      OBVIOUS
    <2> SUFFICES ASSUME msg'[m] # D!NoMessage PROVE MessageInv(m)'
      BY DEF MessageInv
    <2>2. MessageInv(m) /\ msg[m] # D!NoMessage
      BY <2>1 DEF DialogsInv
    <2>3. \A n \in Messages : msg'[n] # D!NoMessage =>
            Alike(msg'[m].from, msg'[m].prompt, msg'[n].from, msg'[n].prompt)
      BY <2>1, <2>2 DEF MessageInv
    <2>4. \A s \in Senders :
            slot'[s] # D!NoPrompt => Alike(msg'[m].from, msg'[m].prompt, s, slot'[s])
      BY <2>1, <2>2 DEF MessageInv
    <2>5. msg'[m] = msg[m] \/ (msg'[m].held /\ msg'[m].late = msg[m].late)
      OBVIOUS
    <2>6. QED
      BY <2>1, <2>2, <2>3, <2>4, <2>5 DEF MessageInv
  <1>3. QED
    BY <1>1, <1>2 DEF DialogsInv

\* A new prompt takes the place of an older one.
LEMMA OpenSetKeeps ==
    ASSUME D!DialogsAssumption, DialogsInv, NEW s \in Senders, D!OpenSet(s)
    PROVE  DialogsInv'
  <1>0. /\ open[s] \in Opening
        /\ prompts' = prompts + 1 /\ prompts \in Nat /\ prompts' \in 1..MaxPrompts
    BY DEF D!OpenSet, D!NoTap, DialogsInv, DialogTypes, D!DialogsAssumption
  <1>1. PICK p : p = [id |-> prompts', kind |-> open[s].kind, actor |-> open[s].actor,
                      step |-> 0, old |-> FALSE]
    OBVIOUS
  <1>2. p \in Prompt /\ p.id = prompts + 1 /\ ~p.old
    BY <1>0, <1>1 DEF Prompt, Opening
  <1>3. slot' = [slot EXCEPT ![s] = p] /\ over' = D!Ended(s, p)
        /\ UNCHANGED <<profile, msg, changes>>
    BY <1>1 DEF D!OpenSet
  <1>4. open' \in [Senders -> {D!NoTap} \cup Opening]
    <2>1. PICK v : v = [open[s] EXCEPT !.step = "tell"]
      OBVIOUS
    <2>2. v \in Opening
      BY <1>0, <2>1 DEF Opening
    <2>3. open' = [open EXCEPT ![s] = v]
      BY <2>1 DEF D!OpenSet, DialogsInv, DialogTypes
    <2>4. QED
      BY <2>2, <2>3 DEF DialogsInv, DialogTypes
  <1>5. slot'[s] = p /\ \A t \in Senders \ {s} : slot'[t] = slot[t]
    BY <1>3 DEF DialogsInv, DialogTypes
  <1>6. \A t \in Senders : slot[t].id \in 0..prompts /\ (slot[t] # D!NoPrompt => slot[t].id # 0)
    BY <1>0, NoneApart DEF DialogsInv, DialogTypes, SlotInv, Prompt
  <1>7. /\ over \subseteq over' /\ over' \subseteq over \cup {slot[s].id}
        /\ over' \subseteq 1..prompts
    <2>1. over' = over \cup ({slot[s].id} \ {0, p.id})
      BY <1>3 DEF D!Ended
    <2>2. /\ over \subseteq 1..prompts /\ slot[s].id \in 0..prompts
          /\ 1..prompts \subseteq 1..prompts'
      BY <1>0, <1>6 DEF DialogsInv, DialogTypes
    <2>3. {slot[s].id} \ {0, p.id} \subseteq 1..prompts
      BY <1>0, <2>2
    <2>4. QED
      BY <2>1, <2>2, <2>3
  <1>8. DialogTypes'
    <2>1. slot' \in [Senders -> {D!NoPrompt} \cup Prompt]
      BY <1>2, <1>3 DEF DialogsInv, DialogTypes
    <2>2. prompts' \in 0..MaxPrompts
      BY <1>0
    <2>3. over' \subseteq 1..prompts'
      BY <1>0, <1>7
    <2>4. profile' = profile /\ msg' = msg /\ changes' = changes
      BY <1>3
    <2>5. QED
      BY <1>4, <2>1, <2>2, <2>3, <2>4 DEF DialogsInv, DialogTypes
  <1>9. Stored'
    <2> SUFFICES ASSUME NEW q \in (1..prompts') \ over' PROVE \E t \in Senders : slot'[t].id = q
      BY DEF Stored
    <2>1. CASE q = prompts + 1
      BY <1>2, <1>5, <2>1
    <2>2. CASE q # prompts + 1
      <3>1. q \in 1..prompts
        BY <1>0, <2>2
      <3>2. PICK t \in Senders : slot[t].id = q
        BY <1>7, <3>1 DEF DialogsInv, Stored
      <3>3. t # s
        BY <1>2, <1>3, <1>6, <2>2, <3>1, <3>2 DEF D!Ended
      <3>4. QED
        BY <1>5, <3>2, <3>3
    <2>3. QED
      BY <2>1, <2>2
  <1>10. ASSUME NEW t \in Senders, t # s, slot[t] # D!NoPrompt
         PROVE  /\ slot[t].id \in over' => slot[t].id \in over
                /\ slot[t].id # p.id /\ slot[t].id <= prompts'
    <2>1. slot[t] \in Prompt /\ SlotInv(t)
      BY <1>10 DEF DialogsInv, DialogTypes
    <2>2. slot[t].id # slot[s].id
      BY <1>6, <1>10, <2>1, NoneApart DEF SlotInv, Alike
    <2>3. QED
      BY <1>0, <1>2, <1>6, <1>7, <2>2
  <1>11. ASSUME NEW t \in Senders PROVE SlotInv(t)'
    <2>1. CASE t = s
      <3>1. p.id \notin over'
        BY <1>0, <1>2, <1>7
      <3>2. \A u \in Senders : slot'[u] # D!NoPrompt => Alike(s, slot'[s], u, slot'[u])
        BY <1>5, <1>10 DEF Alike
      <3>3. QED
        BY <1>0, <1>2, <1>5, <2>1, <3>1, <3>2 DEF SlotInv, Alike
    <2>2. CASE t # s
      <3> SUFFICES ASSUME slot[t] # D!NoPrompt PROVE SlotInv(t)'
        BY <1>5, <2>2 DEF SlotInv
      <3>1. SlotInv(t) /\ slot'[t] = slot[t] /\ (slot[t].id \in over' <=> slot[t].id \in over)
        BY <1>5, <1>7, <1>10, <2>2 DEF DialogsInv
      <3>2. Alike(t, slot[t], s, p) /\ slot[t].id <= prompts'
        BY <1>10, <2>2 DEF Alike
      <3>3. \A u \in Senders : slot'[u] # D!NoPrompt => Alike(t, slot[t], u, slot'[u])
        BY <1>5, <3>1, <3>2 DEF SlotInv
      <3>4. QED
        BY <3>1, <3>2, <3>3 DEF SlotInv
    <2>3. QED
      BY <2>1, <2>2
  <1>12. ASSUME NEW m \in Messages PROVE MessageInv(m)'
    <2>1. msg[m] # D!NoMessage => msg[m].prompt.id <= prompts' /\ msg[m].prompt.id # p.id
      BY <1>0, <1>2 DEF DialogsInv, DialogTypes, MessageInv, Answer, Prompt
    <2>2. QED
      BY <1>3, <1>5, <2>1 DEF DialogsInv, MessageInv, Alike, D!HasRights
  <1>13. QED
    BY <1>8, <1>9, <1>11, <1>12 DEF DialogsInv

\* The first of two answers arms its prompt again, whatever became of it meanwhile.
LEMMA TwoStepsKeeps ==
    ASSUME D!DialogsAssumption, DialogsInv, NEW m \in Messages, msg[m] # D!NoMessage,
           msg[m].prompt.kind = "req_new", msg[m].prompt.step = 0,
           D!TwoSteps(m), UNCHANGED <<profile, open, prompts, changes>>
    PROVE  DialogsInv'
  <1>0. PICK s \in Senders :
          /\ s = msg[m].from /\ msg[m] \in Answer /\ msg[m].prompt \in Prompt
          /\ profile[s] \in Profile
    BY DEF DialogsInv, DialogTypes, Answer
  <1>1. PICK p : p = [msg[m].prompt EXCEPT !.step = 1, !.actor = profile[s].id]
    OBVIOUS
  <1>2. /\ p \in Prompt /\ p.id = msg[m].prompt.id
        /\ p.kind = "req_new" /\ p.old = msg[m].prompt.old
    BY <1>0, <1>1 DEF Prompt, Profile
  <1>3. slot' = [slot EXCEPT ![s] = p] /\ over' = D!Ended(s, p)
        /\ msg' = [msg EXCEPT ![m] = D!NoMessage]
    BY <1>0, <1>1 DEF D!TwoSteps, D!Drop
  <1>4. slot'[s] = p /\ \A t \in Senders \ {s} : slot'[t] = slot[t]
    BY <1>3 DEF DialogsInv, DialogTypes
  <1>5. \A n \in Messages : msg'[n] \in {msg[n], D!NoMessage}
    BY <1>3 DEF DialogsInv, DialogTypes
  <1>6. /\ p.id <= prompts /\ ~p.old /\ p.id # 0
        /\ \A t \in Senders : slot[t] # D!NoPrompt /\ slot[t].id = p.id =>
             t = s /\ slot[t].kind = "req_new"
        /\ \A n \in Messages : msg[n] # D!NoMessage => Alike(s, p, msg[n].from, msg[n].prompt)
    BY <1>0, <1>2, NoneApart DEF DialogsInv, MessageInv, Alike
  <1>7. \A t \in Senders : slot[t].id \in 0..prompts /\ (slot[t] # D!NoPrompt => slot[t].id # 0)
    BY NoneApart DEF DialogsInv, DialogTypes, SlotInv, Prompt, D!DialogsAssumption
  <1>8. /\ over \subseteq over' /\ over' \subseteq over \cup {slot[s].id}
        /\ over' \subseteq 1..prompts
    <2>1. over' = over \cup ({slot[s].id} \ {0, p.id})
      BY <1>3 DEF D!Ended
    <2>2. over \subseteq 1..prompts /\ slot[s].id \in 0..prompts /\ prompts' = prompts
          /\ prompts \in Nat
      BY <1>7 DEF DialogsInv, DialogTypes, D!DialogsAssumption
    <2>3. {slot[s].id} \ {0, p.id} \subseteq 1..prompts
      BY <2>2
    <2>4. QED
      BY <2>1, <2>2, <2>3
  <1>9. DialogTypes'
    BY <1>2, <1>3, <1>8 DEF DialogsInv, DialogTypes
  <1>10. Stored'
    <2> SUFFICES ASSUME NEW q \in (1..prompts) \ over' PROVE \E t \in Senders : slot'[t].id = q
      BY DEF Stored
    <2>1. PICK t \in Senders : slot[t].id = q
      BY <1>8 DEF DialogsInv, Stored
    <2>2. CASE t = s
      <3>1. q = p.id
        BY <1>3, <2>1, <2>2 DEF D!Ended, DialogsInv, DialogTypes
      <3>2. QED
        BY <1>4, <3>1
    <2>3. CASE t # s
      BY <1>4, <2>1, <2>3
    <2>4. QED
      BY <2>2, <2>3
  <1>11. ASSUME NEW t \in Senders, t # s, slot[t] # D!NoPrompt, slot[t].id \in over'
         PROVE  slot[t].id \in over
    <2>1. slot[t] \in Prompt /\ SlotInv(t)
      BY <1>11 DEF DialogsInv, DialogTypes
    <2>2. slot[t].id # slot[s].id
      BY <1>11, <2>1, NoneApart DEF SlotInv, Alike
    <2>3. QED
      BY <1>8, <1>11, <2>2
  <1>12. ASSUME NEW t \in Senders PROVE SlotInv(t)'
    <2>1. CASE t = s
      <3>1. \A u \in Senders : slot'[u] # D!NoPrompt => Alike(s, p, u, slot'[u])
        BY <1>2, <1>4, <1>6 DEF Alike
      <3>2. QED
        BY <1>2, <1>4, <1>6, <2>1, <3>1 DEF SlotInv
    <2>2. CASE t # s
      <3> SUFFICES ASSUME slot[t] # D!NoPrompt PROVE SlotInv(t)'
        BY <1>4, <2>2 DEF SlotInv
      <3>1. SlotInv(t) /\ slot'[t] = slot[t] /\ (slot[t].id \in over' <=> slot[t].id \in over)
        BY <1>4, <1>8, <1>11, <2>2 DEF DialogsInv
      <3>2. Alike(t, slot[t], s, p)
        BY <1>6, <2>2 DEF Alike
      <3>3. \A u \in Senders : slot'[u] # D!NoPrompt => Alike(t, slot[t], u, slot'[u])
        BY <1>4, <3>1, <3>2 DEF SlotInv
      <3>4. QED
        BY <3>1, <3>3 DEF SlotInv
    <2>3. QED
      BY <2>1, <2>2
  <1>13. ASSUME NEW n \in Messages PROVE MessageInv(n)'
    <2> SUFFICES ASSUME msg'[n] # D!NoMessage PROVE MessageInv(n)'
      BY DEF MessageInv
    <2>1. msg'[n] = msg[n] /\ MessageInv(n) /\ msg[n] # D!NoMessage
      BY <1>5 DEF DialogsInv
    <2>2. Alike(msg[n].from, msg[n].prompt, s, p)
      BY <1>6, <2>1 DEF Alike
    <2>3. \A t \in Senders :
            slot'[t] # D!NoPrompt => Alike(msg[n].from, msg[n].prompt, t, slot'[t])
      BY <1>4, <2>1, <2>2 DEF MessageInv
    <2>4. QED
      BY <1>5, <2>1, <2>3 DEF MessageInv, D!HasRights
  <1>14. QED
    BY <1>9, <1>10, <1>12, <1>13 DEF DialogsInv

\* A message comes: it carries the prompt in the store, which is not over unless it was armed
\* again, or that prompt has expired and is dropped.
LEMMA ReceiveKeeps ==
    ASSUME D!DialogsAssumption, DialogsInv, NEW m \in Messages, NEW s \in Senders,
           NEW text \in {"value", "bad", "cancel"}, D!Receive(m, s, text)
    PROVE  DialogsInv'
  <1>0. slot[s] # D!NoPrompt /\ slot[s] \in Prompt /\ SlotInv(s)
    BY DEF D!Receive, DialogsInv, DialogTypes
  <1>1. CASE slot[s].old
    <2>1. /\ UNCHANGED <<profile, prompts, changes, msg, open>>
          /\ slot' = [slot EXCEPT ![s] = D!NoPrompt] /\ over' = D!Ended(s, D!NoPrompt)
      BY <1>1 DEF D!Receive, D!clear_for
    <2>2. /\ open' \in [Senders -> {D!NoTap} \cup Opening]
          /\ msg' \in [Messages -> {D!NoMessage} \cup Answer]
      BY <2>1 DEF DialogsInv, DialogTypes
    <2>3. QED
      BY <2>1, <2>2, ClearKeeps
  <1>2. CASE ~slot[s].old
    <2>1. PICK a : a = [step |-> "asked", from |-> s, text |-> text, prompt |-> slot[s],
                        late |-> slot[s].id \in over, held |-> D!HasRights(profile[s], slot[s])]
      OBVIOUS
    <2>2. /\ msg' = [msg EXCEPT ![m] = a]
          /\ UNCHANGED <<profile, slot, open, prompts, changes, over>>
      BY <1>2, <2>1 DEF D!Receive
    <2>3. D!HasRights(profile[s], slot[s]) \in BOOLEAN /\ (slot[s].id \in over) \in BOOLEAN
      BY DEF D!HasRights
    <2>4. a \in Answer /\ a # D!NoMessage
      <3>1. PICK late \in BOOLEAN, held \in BOOLEAN :
              a = [step |-> "asked", from |-> s, text |-> text, prompt |-> slot[s],
                   late |-> late, held |-> held]
        BY <2>1, <2>3
      <3>2. a \in Answer
        BY <1>0, <3>1 DEF Answer
      <3>3. QED
        BY <3>2, NoneApart
    <2>5. msg'[m] = a /\ \A n \in Messages \ {m} : msg'[n] = msg[n]
      BY <2>2 DEF DialogsInv, DialogTypes
    <2>6. DialogTypes' /\ Stored' /\ \A t \in Senders : SlotInv(t)'
      BY <2>2, <2>4 DEF DialogsInv, DialogTypes, Stored, SlotInv
    <2>7. /\ a.from = s /\ a.prompt = slot[s] /\ a.step = "asked"
          /\ a.late = (slot[s].id \in over)
          /\ D!HasRights(profile[s], slot[s]) => a.held
      BY <2>1
    <2>8. \A n \in Messages :
            msg[n] # D!NoMessage => Alike(msg[n].from, msg[n].prompt, s, slot[s])
      BY <1>0 DEF DialogsInv, MessageInv
    <2>9. ASSUME NEW n \in Messages PROVE MessageInv(n)'
      <3>1. CASE n = m
        <4>1. \A t \in Senders : slot'[t] # D!NoPrompt => Alike(s, slot[s], t, slot'[t])
          BY <1>0, <2>2 DEF SlotInv
        <4>2. \A k \in Messages : msg'[k] # D!NoMessage =>
                Alike(s, slot[s], msg'[k].from, msg'[k].prompt)
          BY <2>5, <2>7, <2>8 DEF Alike
        <4>3. /\ slot[s].id <= prompts
              /\ slot[s].kind # "req_new" => slot[s].id \notin over
          BY <1>0, <1>2 DEF SlotInv
        <4>4. /\ a.prompt.id <= prompts /\ ~a.prompt.old
              /\ a.prompt.kind # "req_new" => ~a.late
              /\ D!HasRights(profile[a.from], a.prompt) => a.held
              /\ a.step = "asked"
          BY <1>2, <2>7, <4>3
        <4>5. QED
          BY <2>2, <2>5, <2>7, <3>1, <4>1, <4>2, <4>4 DEF MessageInv
      <3>2. CASE n # m
        <4> SUFFICES ASSUME msg[n] # D!NoMessage PROVE MessageInv(n)'
          BY <2>5, <3>2 DEF MessageInv
        <4>1. \A k \in Messages : msg'[k] # D!NoMessage =>
                Alike(msg[n].from, msg[n].prompt, msg'[k].from, msg'[k].prompt)
          BY <2>5, <2>7, <2>8 DEF DialogsInv, MessageInv
        <4>2. msg'[n] = msg[n] /\ MessageInv(n)
          BY <2>5, <3>2 DEF DialogsInv
        <4>3. QED
          BY <2>2, <4>1, <4>2 DEF MessageInv
      <3>3. QED
        BY <3>1, <3>2
    <2>10. QED
      BY <2>6, <2>9 DEF DialogsInv
  <1>3. QED
    BY <1>1, <1>2

\* What the steps of a message in hand do to it.
LEMMA MessageMoves ==
    ASSUME D!DialogsAssumption, DialogsInv, NEW m \in Messages, msg[m] # D!NoMessage,
           NEW step \in {"asked", "lookup", "write"}
    PROVE  /\ D!Drop(m) =>
                /\ msg' \in [Messages -> {D!NoMessage} \cup Answer]
                /\ \A n \in Messages : msg'[n] \in {msg[n], D!NoMessage}
           /\ D!Goes(m, step) =>
                /\ msg' \in [Messages -> {D!NoMessage} \cup Answer]
                /\ \A n \in Messages \ {m} : msg'[n] = msg[n]
                /\ msg'[m] # D!NoMessage /\ msg'[m].held = msg[m].held /\ msg'[m].step = step
                /\ msg'[m].from = msg[m].from /\ msg'[m].prompt = msg[m].prompt
                /\ msg'[m].late = msg[m].late
  <1>1. msg[m] \in Answer
    BY DEF DialogsInv, DialogTypes
  <1>2. PICK v : v = [msg[m] EXCEPT !.step = step]
    OBVIOUS
  <1>3. /\ v \in Answer /\ v.held = msg[m].held /\ v.step = step
        /\ v.from = msg[m].from /\ v.prompt = msg[m].prompt /\ v.late = msg[m].late
    BY <1>1, <1>2 DEF Answer
  <1>4. ASSUME D!Goes(m, step) PROVE msg' = [msg EXCEPT ![m] = v]
    BY <1>2, <1>4 DEF D!Goes, DialogsInv, DialogTypes
  <1>5. ASSUME D!Goes(m, step)
        PROVE  /\ msg' \in [Messages -> {D!NoMessage} \cup Answer]
               /\ msg'[m] = v /\ \A n \in Messages \ {m} : msg'[n] = msg[n]
    BY <1>3, <1>4, <1>5 DEF DialogsInv, DialogTypes
  <1>6. ASSUME D!Drop(m)
        PROVE  /\ msg' \in [Messages -> {D!NoMessage} \cup Answer]
               /\ \A n \in Messages : msg'[n] \in {msg[n], D!NoMessage}
    BY <1>6 DEF D!Drop, DialogsInv, DialogTypes
  <1>7. QED
    BY <1>3, <1>5, <1>6, NoneApart

\* The ways a handler goes on with a message whose author holds the rights.
LEMMA HandlersKeep ==
    ASSUME D!DialogsAssumption, DialogsInv, NEW m \in Messages, msg[m] # D!NoMessage, msg[m].held,
           UNCHANGED <<profile, open, prompts, changes>>,
           \/ D!Accept(m)
           \/ D!Drop(m) /\ D!clear_for(msg[m].from)
           \/ D!Drop(m) /\ UNCHANGED <<slot, over>>
           \/ D!Goes(m, "lookup") /\ UNCHANGED <<slot, over>>
    PROVE  DialogsInv'
  <1>0. msg[m].from \in Senders /\ open' \in [Senders -> {D!NoTap} \cup Opening]
    BY DEF DialogsInv, DialogTypes, Answer
  <1>1. CASE D!Accept(m)
    <2>1. /\ D!Goes(m, "write") /\ slot' = [slot EXCEPT ![msg[m].from] = D!NoPrompt]
          /\ over' = D!Ended(msg[m].from, D!NoPrompt) \cup {msg[m].prompt.id}
      BY <1>1 DEF D!Accept
    <2>2. /\ msg' \in [Messages -> {D!NoMessage} \cup Answer]
          /\ \A n \in Messages :
               \/ msg'[n] \in {msg[n], D!NoMessage}
               \/ /\ msg[n] # D!NoMessage /\ msg'[n] # D!NoMessage /\ msg'[n].held
                  /\ msg'[n].from = msg[n].from /\ msg'[n].prompt = msg[n].prompt
                  /\ msg'[n].late = msg[n].late
      BY <2>1, MessageMoves
    <2>3. /\ D!Ended(msg[m].from, D!NoPrompt) \subseteq over'
          /\ \A id \in over' \ D!Ended(msg[m].from, D!NoPrompt) : id = msg[m].prompt.id
      BY <2>1
    <2>4. QED
      BY <1>0, <2>1, <2>2, <2>3, ClearKeeps
  <1>2. CASE D!Drop(m) /\ D!clear_for(msg[m].from)
    <2>1. /\ D!Drop(m) /\ slot' = [slot EXCEPT ![msg[m].from] = D!NoPrompt]
          /\ over' = D!Ended(msg[m].from, D!NoPrompt)
      BY <1>2 DEF D!clear_for
    <2>2. QED
      BY <1>0, <2>1, MessageMoves, ClearKeeps
  <1>3. CASE D!Drop(m) /\ UNCHANGED <<slot, over>>
    BY <1>0, <1>3, MessageMoves, NothingStoredKeeps
  <1>4. CASE D!Goes(m, "lookup") /\ UNCHANGED <<slot, over>>
    BY <1>0, <1>4, MessageMoves, NothingStoredKeeps
  <1>5. QED
    BY <1>1, <1>2, <1>3, <1>4

\* text_input goes on only for an author who holds the rights now.
LEMMA CheckKeeps ==
    ASSUME D!DialogsAssumption, DialogsInv, NEW m \in Messages, D!Check(m)
    PROVE  DialogsInv'
  <1> DEFINE s == msg[m].from
             p == msg[m].prompt
  <1>0. msg[m] # D!NoMessage /\ s \in Senders /\ UNCHANGED <<profile, open, prompts, changes>>
    BY DEF D!Check, D!NoMessage, DialogsInv, DialogTypes, Answer
  <1>1. CASE profile[s].id # p.actor \/ msg[m].text = "cancel" \/ ~D!can(profile[s], p.kind)
    <2>1. D!Drop(m) /\ slot' = [slot EXCEPT ![s] = D!NoPrompt] /\ over' = D!Ended(s, D!NoPrompt)
      BY <1>1 DEF D!Check, D!clear_for
    <2>2. open' \in [Senders -> {D!NoTap} \cup Opening]
      BY <1>0 DEF DialogsInv, DialogTypes
    <2>3. QED
      BY <1>0, <2>1, <2>2, MessageMoves, ClearKeeps
  <1>2. CASE ~(profile[s].id # p.actor \/ msg[m].text = "cancel" \/ ~D!can(profile[s], p.kind))
    <2>1. D!HasRights(profile[s], p)
      BY <1>2 DEF D!can, D!HasRights
    <2>2. msg[m].held
      <3>1. MessageInv(m)
        BY DEF DialogsInv
      <3>2. QED
        BY <1>0, <2>1, <3>1 DEF MessageInv
    <2>3. \/ D!Accept(m)
          \/ D!Drop(m) /\ D!clear_for(msg[m].from)
          \/ D!Drop(m) /\ UNCHANGED <<slot, over>>
          \/ D!Goes(m, "lookup") /\ UNCHANGED <<slot, over>>
          \/ p.kind = "req_new" /\ p.step = 0 /\ D!TwoSteps(m)
      BY <1>2 DEF D!Check, D!ClearsFirst, D!KeepsIfBad, D!TwoSteps
    <2>4. QED
      BY <1>0, <2>2, <2>3, HandlersKeep, TwoStepsKeeps
  <1>3. QED
    BY <1>1, <1>2

\* Handlers that look something up, and the write of the value.
LEMMA LookupKeeps ==
    ASSUME D!DialogsAssumption, DialogsInv, NEW m \in Messages, D!Lookup(m) \/ D!Write(m)
    PROVE  DialogsInv'
  <1>0. /\ msg[m] # D!NoMessage /\ UNCHANGED <<profile, open, prompts, changes>>
        /\ msg[m].step \in {"lookup", "write"}
    BY DEF D!Lookup, D!Write, D!NoMessage
  <1>1. MessageInv(m)
    BY DEF DialogsInv
  <1>2. msg[m].held
    BY <1>0, <1>1 DEF MessageInv
  <1>3. \/ D!Accept(m)
        \/ D!Drop(m) /\ D!clear_for(msg[m].from)
        \/ D!Drop(m) /\ UNCHANGED <<slot, over>>
    BY DEF D!Lookup, D!Write, D!KeepsIfBad
  <1>4. QED
    BY <1>0, <1>2, <1>3, HandlersKeep

\* Buttons, and leaving for the menu.
LEMMA ButtonsKeep ==
    ASSUME D!DialogsAssumption, DialogsInv, NEW s \in Senders,
           (\E kind \in Kinds : D!OpenRead(s, kind)) \/ D!OpenTell(s) \/ D!Leave(s)
    PROVE  DialogsInv'
  <1>0. UNCHANGED <<profile, msg, prompts, changes>>
        /\ msg' \in [Messages -> {D!NoMessage} \cup Answer]
    BY DEF D!OpenRead, D!OpenTell, D!Leave, DialogsInv, DialogTypes
  <1>1. open' \in [Senders -> {D!NoTap} \cup Opening]
    <2>1. ASSUME NEW kind \in Kinds, D!OpenRead(s, kind)
          PROVE  open' \in [Senders -> {D!NoTap} \cup Opening]
      <3>1. PICK v : v = [step |-> "set", kind |-> kind, actor |-> profile[s].id]
        OBVIOUS
      <3>2. v \in Opening
        BY <3>1 DEF Opening, DialogsInv, DialogTypes, Profile
      <3>3. open' = [open EXCEPT ![s] = v]
        BY <2>1, <3>1 DEF D!OpenRead
      <3>4. QED
        BY <3>2, <3>3 DEF DialogsInv, DialogTypes
    <2>2. QED
      BY <2>1 DEF D!OpenTell, D!Leave, DialogsInv, DialogTypes
  <1>2. CASE UNCHANGED <<slot, over>>
    BY <1>0, <1>1, <1>2, NothingStoredKeeps
  <1>3. CASE D!clear_for(s)
    BY <1>0, <1>1, <1>3, ClearKeeps DEF D!clear_for
  <1>4. QED
    BY <1>2, <1>3 DEF D!OpenRead, D!OpenTell, D!Leave

\* A prompt grows old and is over, though it stays in the store until it is swept.
LEMMA ExpireKeeps ==
    ASSUME D!DialogsAssumption, DialogsInv, NEW s \in Senders, D!Expire(s)
    PROVE  DialogsInv'
  <1>0. slot[s] \in Prompt /\ slot[s] # D!NoPrompt /\ SlotInv(s)
    BY DEF D!Expire, DialogsInv, DialogTypes
  <1>1. PICK p : p = [slot[s] EXCEPT !.old = TRUE]
    OBVIOUS
  <1>2. /\ p \in Prompt /\ p # D!NoPrompt
        /\ p.id = slot[s].id /\ p.kind = slot[s].kind /\ p.old
    BY <1>0, <1>1, NoneApart DEF Prompt
  <1>3. slot' = [slot EXCEPT ![s] = p] /\ over' = over \cup {slot[s].id}
        /\ UNCHANGED <<profile, open, msg, prompts, changes>>
    BY <1>1 DEF D!Expire, DialogsInv, DialogTypes
  <1>4. slot'[s] = p /\ \A t \in Senders \ {s} : slot'[t] = slot[t]
    BY <1>3 DEF DialogsInv, DialogTypes
  <1>5. \A t \in Senders : /\ slot'[t].id = slot[t].id
                           /\ slot'[t] # D!NoPrompt => /\ slot[t] # D!NoPrompt
                                                     /\ slot'[t].kind = slot[t].kind
    BY <1>0, <1>2, <1>4
  <1>6. over' \subseteq 1..prompts
    <2>1. slot[s].id \in 1..prompts
      BY <1>0 DEF SlotInv, Prompt, DialogsInv, DialogTypes, D!DialogsAssumption
    <2>2. QED
      BY <1>3, <2>1 DEF DialogsInv, DialogTypes
  <1>7. DialogTypes' /\ Stored'
    BY <1>2, <1>3, <1>5, <1>6 DEF DialogsInv, DialogTypes, Stored
  <1>8. ASSUME NEW t \in Senders PROVE SlotInv(t)'
    <2>1. t # s /\ slot[t] # D!NoPrompt => slot[t].id # slot[s].id
      BY <1>0 DEF DialogsInv, SlotInv, Alike
    <2>2. slot'[t] # D!NoPrompt =>
            \A u \in Senders : slot'[u] # D!NoPrompt => Alike(t, slot'[t], u, slot'[u])
      BY <1>5 DEF DialogsInv, SlotInv, Alike
    <2>3. CASE t = s
      BY <1>0, <1>2, <1>3, <1>4, <2>2, <2>3 DEF SlotInv
    <2>4. CASE t # s
      BY <1>3, <1>4, <2>1, <2>2, <2>4 DEF DialogsInv, SlotInv
    <2>5. QED
      BY <2>3, <2>4
  <1>9. ASSUME NEW m \in Messages PROVE MessageInv(m)'
    BY <1>3, <1>5 DEF DialogsInv, MessageInv, Alike, D!HasRights
  <1>10. QED
    BY <1>7, <1>8, <1>9 DEF DialogsInv

\* The sweep drops what is old, and so over.
LEMMA SweepKeeps ==
    ASSUME D!DialogsAssumption, DialogsInv, D!Sweep
    PROVE  DialogsInv'
  <1>1. /\ UNCHANGED <<profile, open, msg, prompts, changes, over>>
        /\ \A t \in Senders : \/ slot'[t] = slot[t]
                              \/ slot'[t] = D!NoPrompt /\ slot[t] # D!NoPrompt /\ slot[t].old
        /\ slot' \in [Senders -> {D!NoPrompt} \cup Prompt]
    BY DEF D!Sweep, DialogsInv, DialogTypes
  <1>2. DialogTypes'
    BY <1>1 DEF DialogsInv, DialogTypes
  <1>3. Stored'
    BY <1>1 DEF DialogsInv, Stored, SlotInv
  <1>4. ASSUME NEW t \in Senders PROVE SlotInv(t)'
    BY <1>1 DEF DialogsInv, SlotInv
  <1>5. ASSUME NEW m \in Messages PROVE MessageInv(m)'
    <2> SUFFICES ASSUME msg[m] # D!NoMessage PROVE MessageInv(m)'
      BY <1>1 DEF MessageInv
    <2>1. MessageInv(m)
      BY DEF DialogsInv
    <2>2. \A t \in Senders :
            slot'[t] # D!NoPrompt => Alike(msg[m].from, msg[m].prompt, t, slot'[t])
      BY <1>1, <2>1 DEF MessageInv
    <2>3. QED
      BY <1>1, <2>1, <2>2 DEF MessageInv
  <1>6. QED
    BY <1>2, <1>3, <1>4, <1>5 DEF DialogsInv

\* Messages in hand remember that their author held the rights, if it was so after a change.
LEMMA ProfileChangesKeeps ==
    ASSUME D!DialogsAssumption, DialogsInv, NEW s \in Senders, D!ProfileChanges(s)
    PROVE  DialogsInv'
  <1>1. PICK v : /\ \/ \E role \in DOMAIN D!LevelOf : v = [profile[s] EXCEPT !.role = role]
                    \/ v = [profile[s] EXCEPT !.blocked = ~profile[s].blocked]
                    \/ v = [id |-> 0, last |-> profile[s].last, role |-> "user",
                            blocked |-> TRUE]
                    \/ v = [id |-> profile[s].last + 1, last |-> profile[s].last + 1,
                            role |-> "user", blocked |-> FALSE]
                 /\ v.last <= MaxProfiles
                 /\ profile' = [profile EXCEPT ![s] = v]
                 /\ msg' = [m \in Messages |->
                      IF msg[m] # D!NoMessage /\ msg[m].from = s
                      THEN [msg[m] EXCEPT !.held = @ \/ D!HasRights(v, msg[m].prompt)]
                      ELSE msg[m]]
    BY DEF D!ProfileChanges
  <1>2. UNCHANGED <<slot, open, prompts, over>> /\ changes' \in 0..MaxChanges
    BY DEF D!ProfileChanges, DialogsInv, DialogTypes, D!DialogsAssumption
  <1>3. v \in Profile /\ v.id \in {0, v.last}
    <2>0. profile[s] \in Profile /\ profile[s].id \in {0, profile[s].last}
      BY DEF DialogsInv, DialogTypes
    <2>1. "user" \in DOMAIN D!LevelOf
      BY DEF D!LevelOf
    <2>2. CASE \E role \in DOMAIN D!LevelOf : v = [profile[s] EXCEPT !.role = role]
      BY <2>0, <2>2 DEF Profile
    <2>3. CASE v = [profile[s] EXCEPT !.blocked = ~profile[s].blocked]
      BY <2>0, <2>3 DEF Profile
    <2>4. CASE v = [id |-> 0, last |-> profile[s].last, role |-> "user", blocked |-> TRUE]
      BY <2>0, <2>1, <2>4 DEF Profile
    <2>5. CASE v = [id |-> profile[s].last + 1, last |-> profile[s].last + 1,
                    role |-> "user", blocked |-> FALSE]
      BY <1>1, <2>0, <2>1, <2>5 DEF Profile, D!DialogsAssumption
    <2>6. QED
      BY <1>1, <2>2, <2>3, <2>4, <2>5
  <1>4. profile'[s] = v /\ (\A t \in Senders \ {s} : profile'[t] = profile[t])
        /\ profile' \in [Senders -> Profile]
    BY <1>1, <1>3 DEF DialogsInv, DialogTypes
  <1>5. ASSUME NEW m \in Messages
        PROVE  /\ msg'[m] \in {D!NoMessage} \cup Answer
               /\ msg[m] = D!NoMessage => msg'[m] = D!NoMessage
               /\ msg'[m] # D!NoMessage =>
                    /\ msg[m] # D!NoMessage /\ msg'[m].step = msg[m].step
                    /\ msg'[m].from = msg[m].from /\ msg'[m].prompt = msg[m].prompt
                    /\ msg'[m].late = msg[m].late
                    /\ msg[m].held => msg'[m].held
                    /\ msg[m].from = s /\ D!HasRights(v, msg[m].prompt) => msg'[m].held
                    /\ msg[m].from # s => msg'[m] = msg[m]
    <2>1. CASE msg[m] # D!NoMessage /\ msg[m].from = s
      <3>1. PICK h \in BOOLEAN : h = (msg[m].held \/ D!HasRights(v, msg[m].prompt))
        OBVIOUS
      <3>2. PICK a : a = [msg[m] EXCEPT !.held = h]
        OBVIOUS
      <3>3. msg[m] \in Answer
        BY <2>1 DEF DialogsInv, DialogTypes
      <3>4. a \in Answer /\ a.held = h /\ a.step = msg[m].step /\ a.from = msg[m].from
            /\ a.prompt = msg[m].prompt /\ a.late = msg[m].late
        BY <3>2, <3>3 DEF Answer
      <3>5. msg'[m] = a
        BY <1>1, <2>1, <3>1, <3>2
      <3>6. QED
        BY <2>1, <3>1, <3>4, <3>5
    <2>2. CASE ~(msg[m] # D!NoMessage /\ msg[m].from = s)
      BY <1>1, <2>2 DEF DialogsInv, DialogTypes
    <2>3. QED
      BY <2>1, <2>2
  <1>6. DialogTypes'
    <2>1. msg' \in [Messages -> {D!NoMessage} \cup Answer]
      BY <1>1, <1>5
    <2>2. \A t \in Senders : profile'[t].id \in {0, profile'[t].last}
      BY <1>3, <1>4 DEF DialogsInv, DialogTypes
    <2>3. QED
      BY <1>2, <1>4, <2>1, <2>2 DEF DialogsInv, DialogTypes
  <1>7. Stored' /\ \A t \in Senders : SlotInv(t)'
    BY <1>2 DEF DialogsInv, Stored, SlotInv
  <1>8. ASSUME NEW m \in Messages PROVE MessageInv(m)'
    <2> SUFFICES ASSUME msg'[m] # D!NoMessage PROVE MessageInv(m)'
      BY DEF MessageInv
    <2>1. msg[m] # D!NoMessage /\ MessageInv(m) /\ msg[m].from \in Senders
      BY <1>5 DEF DialogsInv, DialogTypes, Answer
    <2>2. D!HasRights(profile'[msg'[m].from], msg'[m].prompt) => msg'[m].held
      <3>1. CASE msg[m].from = s
        BY <1>4, <1>5, <3>1
      <3>2. CASE msg[m].from # s
        BY <1>4, <1>5, <2>1, <3>2 DEF MessageInv
      <3>3. QED
        BY <3>1, <3>2
    <2>3. \A n \in Messages : msg'[n] # D!NoMessage =>
            Alike(msg'[m].from, msg'[m].prompt, msg'[n].from, msg'[n].prompt)
      BY <1>5, <2>1 DEF MessageInv
    <2>4. QED
      BY <1>2, <1>5, <2>1, <2>2, <2>3 DEF MessageInv
  <1>9. QED
    BY <1>6, <1>7, <1>8 DEF DialogsInv

\* A new process has no prompt, and all earlier ones are over.
LEMMA NewProcessKeeps ==
    ASSUME D!DialogsAssumption, DialogsInv, D!Restart
    PROVE  DialogsInv'
  BY DEF D!Restart, DialogsInv, DialogTypes, Stored, SlotInv, MessageInv

\* The store, the buttons and the messages in hand are always as the invariant says.
LEMMA DialogsInvariance ==
    ASSUME D!DialogsAssumption
    PROVE  D!Spec => []DialogsInv
  <1>1. D!Init => DialogsInv
    <2> SUFFICES ASSUME D!Init PROVE DialogsInv
      OBVIOUS
    <2>1. \A s \in Senders : profile[s] \in Profile /\ profile[s].id = profile[s].last
      <3>1. "admin" \in DOMAIN D!LevelOf
        BY DEF D!LevelOf
      <3>2. PICK v : v = [id |-> 1, last |-> 1, role |-> "admin", blocked |-> FALSE]
        OBVIOUS
      <3>3. v \in Profile /\ v.id = v.last
        BY <3>1, <3>2 DEF Profile, D!DialogsAssumption
      <3>4. \A s \in Senders : profile[s] = v
        BY <3>2 DEF D!Init
      <3>5. QED
        BY <3>3, <3>4
    <2>2. DialogTypes
      BY <2>1 DEF D!Init, DialogTypes, D!DialogsAssumption
    <2>3. QED
      BY <2>2 DEF D!Init, DialogsInv, Stored, SlotInv, MessageInv
  <1>2. DialogsInv /\ [D!Next]_D!vars => DialogsInv'
    <2> SUFFICES ASSUME DialogsInv, [D!Next]_D!vars PROVE DialogsInv'
      OBVIOUS
    <2>1. CASE UNCHANGED D!vars
      BY <2>1 DEF D!vars, DialogsInv, DialogTypes, Stored, SlotInv, MessageInv, D!HasRights
    <2>2. CASE D!Next
      BY <2>2, OpenSetKeeps, ButtonsKeep, ReceiveKeeps, CheckKeeps, LookupKeeps, ExpireKeeps,
         SweepKeeps, ProfileChangesKeeps, NewProcessKeeps DEF D!Next
    <2>3. QED
      BY <2>1, <2>2
  <1>3. QED
    BY <1>1, <1>2, PTL DEF D!Spec

\* A prompt nobody ended is in the store, and no message writes its value for a prompt that was
\* over when it came, whatever interleaves between its reads and its write.
THEOREM AnswersFind ==
    ASSUME D!DialogsAssumption
    PROVE  D!Spec => []D!AnswersFindTheirPrompt
  <1>1. DialogsInv => D!AnswersFindTheirPrompt
    <2> SUFFICES ASSUME DialogsInv PROVE D!AnswersFindTheirPrompt
      OBVIOUS
    <2>1. D!TypeOK
      <3>1. \A s \in Senders :
              /\ profile[s].id \in {0, profile[s].last} /\ profile[s].last \in 1..MaxProfiles
              /\ open[s] # D!NoTap => open[s].step \in {"set", "tell"}
              /\ slot[s] # D!NoPrompt => slot[s].id \in 1..prompts /\ slot[s].kind \in Kinds
        <4> TAKE s \in Senders
        <4>1. profile[s].id \in {0, profile[s].last} /\ profile[s].last \in 1..MaxProfiles
          BY DEF DialogsInv, DialogTypes, Profile
        <4>2. open[s] # D!NoTap => open[s].step \in {"set", "tell"}
          BY DEF DialogsInv, DialogTypes, Opening
        <4>3. slot[s] # D!NoPrompt => slot[s].id \in 1..prompts /\ slot[s].kind \in Kinds
          BY DEF DialogsInv, DialogTypes, SlotInv, Prompt, D!DialogsAssumption
        <4>4. QED
          BY <4>1, <4>2, <4>3
      <3>2. \A m \in Messages : msg[m] # D!NoMessage =>
              /\ msg[m].step \in {"asked", "lookup", "write"}
              /\ msg[m].prompt.id \in 1..prompts
        BY DEF DialogsInv, DialogTypes, MessageInv, Answer, Prompt, D!DialogsAssumption
      <3>3. QED
        BY <3>1, <3>2 DEF DialogsInv, DialogTypes, Stored, D!TypeOK
    <2>2. D!OverIsOver
      <3> SUFFICES ASSUME NEW m \in Messages, msg[m].step = "write",
                          msg[m].prompt.kind # "req_new"
                   PROVE  ~msg[m].late
        BY DEF D!OverIsOver
      <3>1. MessageInv(m) /\ msg[m] # D!NoMessage
        BY DEF DialogsInv, D!NoMessage
      <3>2. QED
        BY <3>1 DEF MessageInv
    <2>3. QED
      BY <2>1, <2>2 DEF D!AnswersFindTheirPrompt
  <1>2. QED
    BY <1>1, DialogsInvariance, PTL

\* A value is written only if its author held the rights at some moment since the message came.
THEOREM RightsHeld ==
    ASSUME D!DialogsAssumption
    PROVE  D!Spec => D!NobodyFinishesWithoutRights
  <1>1. DialogsInv => D!NobodyFinishesWithoutRightsStep
    <2> SUFFICES ASSUME DialogsInv, NEW m \in Messages, msg[m].step = "write"
                 PROVE  msg[m].held
      BY DEF D!NobodyFinishesWithoutRightsStep
    <2>1. MessageInv(m) /\ msg[m] # D!NoMessage
      BY DEF DialogsInv, D!NoMessage
    <2>2. QED
      BY <2>1 DEF MessageInv
  <1>2. QED
    BY <1>1, DialogsInvariance, PTL DEF D!Spec, D!NobodyFinishesWithoutRights

-----------------------------------------------------------------------------
(* Catalog *)

Card == [slug : K!Slugs, owner : K!Owners, active : BOOLEAN, live : {TRUE}]
Sale == [client : Clients, slug : K!Slugs, product : 0..MaxProducts, open : BOOLEAN]
Term == [client : Clients, slug : K!Slugs, product : 0..MaxProducts, active : BOOLEAN,
         periods : Nat \ {0}]
ToInsert == [op : {"insert"}, slug : K!Slugs, owner : K!Owners, active : BOOLEAN]
ToGrant == [op : {"grant"}, client : Clients, product : 1..MaxProducts, slug : K!Slugs]

\* Rows of products: ids are given in turn, and an owner has a slug once.
ProductsInv ==
    /\ lastProduct \in 0..MaxProducts
    /\ product \in [K!Products -> {K!NoProduct} \cup Card]
    /\ \A p \in K!Products : p > lastProduct => product[p] = K!NoProduct
    /\ \A p, q \in K!Live : product[p].slug = product[q].slug
                            /\ product[p].owner = product[q].owner => p = q

\* What an order or a subscription of a client may point at.
LinkOk(c, p) == p # 0 => p \in K!Live /\ product[p].owner \in {K!Public, c}

LinkNext(c, p) == p # 0 => p \in K!Live' /\ product'[p].owner \in {K!Public, c}

OrdersInv ==
    /\ lastOrder \in 0..MaxBought /\ order \in [K!Orders -> {K!NoOrder} \cup Sale]
    /\ \A x \in K!Orders : IF x > lastOrder THEN order[x] = K!NoOrder
                           ELSE order[x] \in Sale /\ LinkOk(order[x].client, order[x].product)

\* An order adds one period to a subscription, once.
Closed == {x \in 1..lastOrder : ~order[x].open}

SubsInv ==
    /\ lastSub \in 0..MaxSubs /\ sub \in [K!Subs -> {K!NoSub} \cup Term]
    /\ \A s \in K!Subs : IF s > lastSub THEN sub[s] = K!NoSub
                         ELSE /\ sub[s] \in Term /\ LinkOk(sub[s].client, sub[s].product)
                              /\ sub[s].periods <= 1 + Cardinality(Closed)

\* What staff looked up and are about to write.  A product that was deleted since leaves an
\* empty row behind, which belongs to nobody and is never filled again.
DeskInv ==
    /\ desk \in [Staff -> {K!Idle} \cup ToInsert \cup ToGrant]
    /\ \A s \in Staff : desk[s].op = "grant" =>
          /\ desk[s].product \in 1..lastProduct
          /\ product[desk[s].product].owner \in {K!Public, desk[s].client}

CatalogInv == ProductsInv /\ OrdersInv /\ SubsInv /\ DeskInv

LEMMA CatalogStart == ASSUME K!CatalogAssumption, K!Init PROVE CatalogInv
  <1>1. ProductsInv
    BY DEF K!CatalogAssumption, K!Init, ProductsInv, K!Live, K!Products
  <1>2. OrdersInv
    BY DEF K!CatalogAssumption, K!Init, OrdersInv, K!Orders
  <1>3. SubsInv
    BY DEF K!CatalogAssumption, K!Init, SubsInv, K!Subs
  <1>4. DeskInv
    BY DEF K!Init, DeskInv, K!Idle
  <1>5. QED
    BY <1>1, <1>2, <1>3, <1>4 DEF CatalogInv

LEMMA ClosedIsFinite ==
    ASSUME K!CatalogAssumption, OrdersInv
    PROVE  /\ IsFiniteSet(Closed) /\ Cardinality(Closed) \in Nat
           /\ Cardinality(Closed) <= MaxBought
  <1>1. IsFiniteSet(1..lastOrder) /\ Cardinality(1..lastOrder) = lastOrder
    <2>1. lastOrder \in Nat
      BY DEF K!CatalogAssumption, OrdersInv
    <2>2. QED
      BY <2>1, FS_Interval
  <1>2. Closed \subseteq 1..lastOrder
    BY DEF Closed
  <1>3. IsFiniteSet(Closed) /\ Cardinality(Closed) <= Cardinality(1..lastOrder)
    BY <1>1, <1>2, FS_Subset
  <1>4. Cardinality(Closed) \in Nat
    BY <1>3, FS_CardinalityType
  <1>5. QED
    BY <1>1, <1>3, <1>4 DEF K!CatalogAssumption, OrdersInv

\* What does not disturb the links keeps what points at products.
LinksStay ==
    /\ \A c \in Clients, p \in 0..MaxProducts : LinkOk(c, p) => LinkOk(c, p)'
    /\ lastProduct <= lastProduct'
    /\ \A p \in 1..lastProduct : product'[p].owner \in {product[p].owner, K!Public}

LEMMA SameProducts ==
    ASSUME K!CatalogAssumption, ProductsInv, UNCHANGED <<product, lastProduct>>
    PROVE  ProductsInv' /\ LinksStay
  <1>1. K!Live' = K!Live
    BY DEF K!Live
  <1>2. ProductsInv'
    BY <1>1 DEF ProductsInv
  <1>3. LinksStay
    BY <1>1 DEF LinksStay, LinkOk, ProductsInv, K!CatalogAssumption
  <1>4. QED
    BY <1>2, <1>3

LEMMA OrdersStay ==
    ASSUME K!CatalogAssumption, OrdersInv, LinksStay, UNCHANGED <<order, lastOrder>>
    PROVE  OrdersInv' /\ Closed' = Closed
  <1>1. Closed' = Closed
    BY DEF Closed
  <1>2. \A x \in K!Orders : x <= lastOrder => LinkOk(order[x].client, order[x].product)'
    <2> SUFFICES ASSUME NEW x \in K!Orders, x <= lastOrder
                 PROVE  LinkOk(order[x].client, order[x].product)'
      OBVIOUS
    <2>1. order[x] \in Sale /\ LinkOk(order[x].client, order[x].product)
      BY DEF OrdersInv, K!Orders, K!CatalogAssumption
    <2>2. order[x].client \in Clients /\ order[x].product \in 0..MaxProducts
      BY <2>1 DEF Sale
    <2>3. QED
      BY <2>1, <2>2 DEF LinksStay, LinkOk
  <1>3. QED
    BY <1>1, <1>2 DEF OrdersInv, K!Orders, K!CatalogAssumption

LEMMA SubsStay ==
    ASSUME K!CatalogAssumption, SubsInv, LinksStay, UNCHANGED <<sub, lastSub>>,
           Cardinality(Closed) \in Nat, Cardinality(Closed') \in Nat,
           Cardinality(Closed) <= Cardinality(Closed')
    PROVE  SubsInv'
  <1>1. \A s \in K!Subs : s <= lastSub =>
           /\ LinkOk(sub[s].client, sub[s].product)'
           /\ sub'[s].periods <= 1 + Cardinality(Closed')
    <2> SUFFICES ASSUME NEW s \in K!Subs, s <= lastSub
                 PROVE  /\ LinkOk(sub[s].client, sub[s].product)'
                        /\ sub'[s].periods <= 1 + Cardinality(Closed')
      OBVIOUS
    <2>1. /\ sub[s] \in Term /\ LinkOk(sub[s].client, sub[s].product)
          /\ sub[s].periods <= 1 + Cardinality(Closed)
      BY DEF SubsInv, K!Subs, K!CatalogAssumption
    <2>2. /\ sub[s].client \in Clients /\ sub[s].product \in 0..MaxProducts
          /\ sub[s].periods \in Nat
      BY <2>1 DEF Term
    <2>3. sub'[s].periods <= 1 + Cardinality(Closed')
      BY <2>1, <2>2
    <2>4. LinkOk(sub[s].client, sub[s].product)'
      BY <2>1, <2>2 DEF LinksStay, LinkOk
    <2>5. QED
      BY <2>3, <2>4
  <1>2. QED
    BY <1>1 DEF SubsInv, K!Subs, K!CatalogAssumption

LEMMA DeskStays ==
    ASSUME K!CatalogAssumption, ProductsInv, DeskInv, LinksStay, lastProduct' \in Nat,
           NEW s \in Staff, NEW e \in {K!Idle} \cup ToInsert \cup ToGrant,
           desk' = [desk EXCEPT ![s] = e] \/ desk' = desk,
           e.op = "grant" => /\ e.product \in 1..lastProduct
                             /\ product[e.product].owner \in {K!Public, e.client}
    PROVE  DeskInv'
  <1>1. desk' \in [Staff -> {K!Idle} \cup ToInsert \cup ToGrant]
    BY DEF DeskInv
  <1>2. ASSUME NEW t \in Staff, desk'[t].op = "grant"
        PROVE  /\ desk'[t].product \in 1..lastProduct'
               /\ product'[desk'[t].product].owner \in {K!Public, desk'[t].client}
    <2>1. /\ desk'[t].product \in 1..lastProduct
          /\ product[desk'[t].product].owner \in {K!Public, desk'[t].client}
      BY <1>2 DEF DeskInv
    <2>2. QED
      BY <2>1 DEF LinksStay, ProductsInv, K!CatalogAssumption
  <1>3. QED
    BY <1>1, <1>2 DEF DeskInv

\* Staff look something up.
LEMMA ReadKeeps ==
    ASSUME K!CatalogAssumption, CatalogInv, UNCHANGED <<product, lastProduct, K!salesVars>>,
           NEW s \in Staff, NEW e \in {K!Idle} \cup ToInsert \cup ToGrant,
           desk' = [desk EXCEPT ![s] = e] \/ desk' = desk,
           e.op = "grant" => /\ e.product \in 1..lastProduct
                             /\ product[e.product].owner \in {K!Public, e.client}
    PROVE  CatalogInv'
  <1>1. ProductsInv' /\ LinksStay
    BY SameProducts DEF CatalogInv
  <1>2. OrdersInv' /\ Closed' = Closed
    BY <1>1, OrdersStay DEF CatalogInv, K!salesVars
  <1>3. SubsInv'
    BY <1>1, <1>2, SubsStay, ClosedIsFinite DEF CatalogInv, K!salesVars
  <1>4. DeskInv'
    BY <1>1, DeskStays DEF CatalogInv, ProductsInv, K!CatalogAssumption
  <1>5. QED
    BY <1>1, <1>2, <1>3, <1>4 DEF CatalogInv

LEMMA NewReadKeeps ==
    ASSUME K!CatalogAssumption, CatalogInv, NEW s \in Staff, NEW n \in Names,
           NEW o \in K!Owners, K!NewRead(s, n, o)
    PROVE  CatalogInv'
  <1>1. PICK k \in 1..MaxProducts :
           desk' = [desk EXCEPT ![s] = [op |-> "insert", slug |-> <<n, k>>, owner |-> o,
                                        active |-> FALSE]]
    BY DEF K!NewRead
  <1>2. PICK e : e = [op |-> "insert", slug |-> <<n, k>>, owner |-> o, active |-> FALSE]
    OBVIOUS
  <1>3. e \in ToInsert /\ e.op = "insert"
    BY <1>2 DEF ToInsert, K!Slugs
  <1>4. QED
    BY <1>1, <1>2, <1>3, ReadKeeps DEF K!NewRead

LEMMA CloneReadKeeps ==
    ASSUME K!CatalogAssumption, CatalogInv, NEW s \in Staff, NEW p \in K!Products,
           NEW c \in Clients, K!CloneRead(s, p, c)
    PROVE  CatalogInv'
  <1>1. product[p] \in Card
    BY DEF CatalogInv, ProductsInv, K!CloneRead, K!Live, K!NoProduct
  <1>2. PICK e : e = [op |-> "insert", slug |-> product[p].slug, owner |-> c, active |-> TRUE]
    OBVIOUS
  <1>3. e \in ToInsert /\ e.op = "insert"
    BY <1>1, <1>2 DEF ToInsert, Card, K!Owners
  <1>4. desk' = [desk EXCEPT ![s] = e] /\ UNCHANGED <<product, lastProduct, K!salesVars>>
    BY <1>2 DEF K!CloneRead
  <1>5. QED
    BY <1>3, <1>4, ReadKeeps

LEMMA GrantReadKeeps ==
    ASSUME K!CatalogAssumption, CatalogInv, NEW s \in Staff, NEW p \in K!Products,
           NEW c \in Clients, K!GrantRead(s, p, c)
    PROVE  CatalogInv'
  <1>1. product[p] \in Card /\ p \in 1..lastProduct
    BY DEF CatalogInv, ProductsInv, K!GrantRead, K!Live, K!NoProduct
  <1>2. PICK e : e = [op |-> "grant", client |-> c, product |-> p, slug |-> product[p].slug]
    OBVIOUS
  <1>3. e \in ToGrant /\ e.product = p /\ e.client = c
    BY <1>1, <1>2 DEF ToGrant, Card, K!Products
  <1>4. /\ desk' = [desk EXCEPT ![s] = e] /\ UNCHANGED <<product, lastProduct, K!salesVars>>
        /\ product[p].owner \in {K!Public, c}
    BY <1>2 DEF K!GrantRead
  <1>5. QED
    BY <1>1, <1>3, <1>4, ReadKeeps

LEMMA InsertKeeps ==
    ASSUME K!CatalogAssumption, CatalogInv, NEW s \in Staff, K!Insert(s)
    PROVE  CatalogInv'
  <1>0. /\ desk[s] \in ToInsert /\ UNCHANGED K!salesVars
        /\ desk' = [desk EXCEPT ![s] = K!Idle] /\ K!Idle.op = "idle"
    BY DEF CatalogInv, DeskInv, K!Insert, K!Idle, ToGrant
  <1>1. CASE UNCHANGED <<product, lastProduct>>
    BY <1>0, <1>1, ReadKeeps
  <1>2. CASE /\ K!Holding(desk[s].slug, desk[s].owner) = {}
             /\ lastProduct' = lastProduct + 1
             /\ product' = [product EXCEPT ![lastProduct'] =
                              [slug |-> desk[s].slug, owner |-> desk[s].owner,
                               active |-> desk[s].active, live |-> TRUE]]
    <2>1. PICK v : v = [slug |-> desk[s].slug, owner |-> desk[s].owner,
                        active |-> desk[s].active, live |-> TRUE]
      OBVIOUS
    <2>2. v \in Card /\ v.slug = desk[s].slug /\ v.owner = desk[s].owner /\ v.live = TRUE
      BY <1>0, <2>1 DEF Card, ToInsert
    <2>3. PICK n \in K!Products : n = lastProduct + 1
      BY DEF CatalogInv, ProductsInv, K!Insert, K!CatalogAssumption, K!Products
    <2>4. lastProduct' = n /\ product' = [product EXCEPT ![n] = v]
      BY <1>2, <2>1, <2>3
    <2>5. /\ product' \in [K!Products -> {K!NoProduct} \cup Card]
          /\ product'[n] = v /\ \A p \in K!Products \ {n} : product'[p] = product[p]
      BY <2>2, <2>4 DEF CatalogInv, ProductsInv
    <2>6. /\ lastProduct \in 0..MaxProducts /\ lastProduct' \in 0..MaxProducts
          /\ \A p \in K!Products : p > lastProduct' => product'[p] = K!NoProduct
      BY <2>3, <2>4, <2>5 DEF CatalogInv, ProductsInv, K!CatalogAssumption, K!Products
    <2>7. K!Live' = K!Live \cup {n} /\ n \notin K!Live /\ K!Live \subseteq K!Products
      BY <2>2, <2>3, <2>4, <2>5, <2>6 DEF K!Live, K!Products, K!CatalogAssumption
    <2>8. \A p \in K!Live : ~(product[p].slug = v.slug /\ product[p].owner = v.owner)
      BY <1>2, <2>2 DEF K!Holding
    <2>9. ASSUME NEW p \in K!Live', NEW q \in K!Live', product'[p].slug = product'[q].slug,
                 product'[p].owner = product'[q].owner
          PROVE  p = q
      BY <2>5, <2>7, <2>8, <2>9 DEF CatalogInv, ProductsInv
    <2>10. ProductsInv'
      BY <2>5, <2>6, <2>9 DEF ProductsInv
    <2>11. LinksStay
      <3>1. \A c \in Clients, p \in 0..MaxProducts : LinkOk(c, p) => LinkOk(c, p)'
        BY <2>5, <2>7 DEF LinkOk
      <3>2. \A p \in 1..lastProduct : product'[p].owner \in {product[p].owner, K!Public}
        BY <2>3, <2>5, <2>6 DEF K!Products, K!CatalogAssumption
      <3>3. QED
        BY <2>3, <2>4, <2>6, <3>1, <3>2 DEF LinksStay, K!CatalogAssumption
    <2>12. OrdersInv' /\ Closed' = Closed
      BY <1>0, <2>11, OrdersStay DEF CatalogInv, K!salesVars
    <2>13. SubsInv'
      BY <1>0, <2>11, <2>12, SubsStay, ClosedIsFinite DEF CatalogInv, K!salesVars
    <2>14. DeskInv'
      <3>1. lastProduct' \in Nat /\ K!Idle.op # "grant"
        BY <1>0, <2>6 DEF K!CatalogAssumption
      <3>2. K!Idle \in {K!Idle} \cup ToInsert \cup ToGrant
        OBVIOUS
      <3>3. QED
        BY <1>0, <2>11, <3>1, <3>2, DeskStays DEF CatalogInv
    <2>15. QED
      BY <2>10, <2>12, <2>13, <2>14 DEF CatalogInv
  <1>3. QED
    BY <1>1, <1>2 DEF K!Insert

LEMMA ToggleKeeps ==
    ASSUME K!CatalogAssumption, CatalogInv, NEW p \in K!Products, NEW on \in BOOLEAN,
           K!Toggle(p, on)
    PROVE  CatalogInv'
  <1>1. /\ p \in K!Live /\ UNCHANGED <<lastProduct, K!salesVars, desk>>
        /\ product' = [product EXCEPT ![p].active = on]
    BY DEF K!Toggle
  <1>2. product[p] \in Card
    BY <1>1 DEF CatalogInv, ProductsInv, K!Live, K!NoProduct
  <1>3. PICK v : v = [product[p] EXCEPT !.active = on]
    OBVIOUS
  <1>4. /\ v \in Card /\ v.slug = product[p].slug /\ v.owner = product[p].owner
        /\ v.live = product[p].live
    BY <1>2, <1>3 DEF Card
  <1>5. product' = [product EXCEPT ![p] = v]
    BY <1>1, <1>3 DEF CatalogInv, ProductsInv
  <1>6. /\ product' \in [K!Products -> {K!NoProduct} \cup Card]
        /\ \A q \in K!Products \ {p} : product'[q] = product[q]
        /\ \A q \in K!Products : /\ product'[q].slug = product[q].slug
                                 /\ product'[q].owner = product[q].owner
                                 /\ product'[q].live = product[q].live
    BY <1>4, <1>5 DEF CatalogInv, ProductsInv
  <1>7. K!Live' = K!Live /\ K!Live \subseteq K!Products /\ 1..lastProduct \subseteq K!Products
    BY <1>1, <1>6 DEF CatalogInv, ProductsInv, K!CatalogAssumption, K!Live, K!Products
  <1>8. ProductsInv'
    BY <1>1, <1>6, <1>7 DEF CatalogInv, ProductsInv, K!Live, K!Products, K!CatalogAssumption
  <1>9. LinksStay
    <2>1. \A c \in Clients, q \in 0..MaxProducts : LinkOk(c, q) => LinkOk(c, q)'
      BY <1>6, <1>7 DEF LinkOk
    <2>2. QED
      BY <1>1, <1>6, <1>7, <2>1 DEF CatalogInv, ProductsInv, LinksStay, K!CatalogAssumption
  <1>10. OrdersInv' /\ Closed' = Closed
    BY <1>1, <1>9, OrdersStay DEF CatalogInv, K!salesVars
  <1>11. SubsInv'
    BY <1>1, <1>9, <1>10, SubsStay, ClosedIsFinite DEF CatalogInv, K!salesVars
  <1>12. DeskInv'
    BY <1>1, <1>9 DEF CatalogInv, DeskInv, LinksStay
  <1>13. QED
    BY <1>8, <1>10, <1>11, <1>12 DEF CatalogInv

\* delete of db/products.py, row by row.
LEMMA DeleteKeeps ==
    ASSUME K!CatalogAssumption, CatalogInv, NEW p \in K!Products, K!Delete(p)
    PROVE  CatalogInv'
  <1>1. /\ p \in K!Live /\ UNCHANGED <<lastProduct, lastOrder, lastSub, desk>>
        /\ product' = [product EXCEPT ![p] = K!NoProduct]
        /\ sub' = K!Detached(sub, p) /\ order' = K!Detached(order, p)
        /\ p # 0
    BY DEF K!Delete, K!Products, K!CatalogAssumption
  <1>2. /\ product' \in [K!Products -> {K!NoProduct} \cup Card]
        /\ product'[p] = K!NoProduct /\ \A q \in K!Products \ {p} : product'[q] = product[q]
    BY <1>1 DEF CatalogInv, ProductsInv
  <1>3. K!Live' = K!Live \ {p} /\ K!Live \subseteq K!Products /\ K!NoProduct.owner = K!Public
    BY <1>1, <1>2 DEF CatalogInv, ProductsInv, K!Live, K!NoProduct, K!Products,
                      K!CatalogAssumption
  <1>4. \A c \in Clients, q \in 0..MaxProducts : q # p /\ LinkOk(c, q) => LinkNext(c, q)
    BY <1>2, <1>3 DEF LinkOk, LinkNext
  <1>5. ProductsInv'
    BY <1>1, <1>2, <1>3 DEF CatalogInv, ProductsInv
  <1>6. \A x \in K!Orders :
          /\ order'[x].open = order[x].open
          /\ x > lastOrder => order'[x] = K!NoOrder
          /\ x <= lastOrder => /\ order'[x] \in Sale
                               /\ LinkNext(order'[x].client, order'[x].product)
    <2> SUFFICES ASSUME NEW x \in K!Orders
                 PROVE  /\ order'[x].open = order[x].open
                        /\ x > lastOrder => order'[x] = K!NoOrder
                        /\ x <= lastOrder => /\ order'[x] \in Sale
                                             /\ LinkNext(order'[x].client, order'[x].product)
      OBVIOUS
    <2>1. order'[x] = IF order[x].product = p THEN [order[x] EXCEPT !.product = 0]
                      ELSE order[x]
      BY <1>1 DEF CatalogInv, OrdersInv, K!Detached
    <2>2. CASE x > lastOrder
      <3>1. order[x] = K!NoOrder /\ order[x].product = 0 /\ ~(x <= lastOrder)
        BY <2>2 DEF CatalogInv, OrdersInv, K!NoOrder, K!Orders, K!CatalogAssumption
      <3>2. QED
        BY <1>1, <2>1, <3>1
    <2>3. CASE x <= lastOrder
      <3>1. order[x] \in Sale /\ LinkOk(order[x].client, order[x].product) /\ ~(x > lastOrder)
        BY <2>3 DEF CatalogInv, OrdersInv, K!Orders, K!CatalogAssumption
      <3>2. PICK v : v = [order[x] EXCEPT !.product = 0]
        OBVIOUS
      <3>3. v \in Sale /\ v.open = order[x].open /\ v.product = 0 /\ v.client = order[x].client
        BY <3>1, <3>2 DEF Sale, K!CatalogAssumption
      <3>4. order[x].product = p => order'[x] = v
        BY <2>1, <3>2
      <3>5. order[x].product # p => order'[x] = order[x]
        BY <2>1
      <3>6. order[x].client \in Clients /\ order[x].product \in 0..MaxProducts
        BY <3>1 DEF Sale
      <3>7. LinkNext(order'[x].client, order'[x].product)
        <4>1. CASE order[x].product = p
          BY <3>3, <3>4, <4>1 DEF LinkNext
        <4>2. CASE order[x].product # p
          <5>1. product'[order[x].product] = product[order[x].product] \/ order[x].product = 0
            BY <1>2, <1>3, <3>1, <4>2 DEF LinkOk
          <5>2. QED
            BY <1>3, <3>1, <3>5, <4>2, <5>1 DEF LinkOk, LinkNext
        <4>3. QED
          BY <4>1, <4>2
      <3>8. QED
        BY <3>1, <3>3, <3>4, <3>5, <3>7
    <2>4. QED
      BY <2>2, <2>3 DEF CatalogInv, OrdersInv, K!Orders, K!CatalogAssumption
  <1>7. order' \in [K!Orders -> {K!NoOrder} \cup Sale]
    <2>1. order' = [x \in K!Orders |-> order'[x]]
      BY <1>1 DEF CatalogInv, OrdersInv, K!Detached
    <2>2. QED
      BY <1>6, <2>1 DEF CatalogInv, OrdersInv, K!Orders, K!CatalogAssumption
  <1>8. OrdersInv' /\ Closed' = Closed
    <2>1. OrdersInv'
      BY <1>1, <1>6, <1>7
         DEF CatalogInv, OrdersInv, LinkOk, LinkNext, K!Orders, K!CatalogAssumption
    <2>2. 1..lastOrder \subseteq K!Orders
      BY DEF CatalogInv, OrdersInv, K!Orders, K!CatalogAssumption
    <2>3. QED
      BY <1>1, <1>6, <2>1, <2>2 DEF Closed
  <1>9. \A s \in K!Subs :
          /\ s > lastSub => sub'[s] = K!NoSub
          /\ s <= lastSub => /\ sub'[s] \in Term /\ sub'[s].periods = sub[s].periods
                             /\ LinkNext(sub'[s].client, sub'[s].product)
    <2> SUFFICES ASSUME NEW s \in K!Subs
                 PROVE  /\ s > lastSub => sub'[s] = K!NoSub
                        /\ s <= lastSub => /\ sub'[s] \in Term
                                           /\ sub'[s].periods = sub[s].periods
                                           /\ LinkNext(sub'[s].client, sub'[s].product)
      OBVIOUS
    <2>1. sub'[s] = IF sub[s].product = p THEN [sub[s] EXCEPT !.product = 0] ELSE sub[s]
      BY <1>1 DEF CatalogInv, SubsInv, K!Detached
    <2>2. CASE s > lastSub
      <3>1. sub[s] = K!NoSub /\ sub[s].product = 0 /\ ~(s <= lastSub)
        BY <2>2 DEF CatalogInv, SubsInv, K!NoSub, K!Subs, K!CatalogAssumption
      <3>2. QED
        BY <1>1, <2>1, <3>1
    <2>3. CASE s <= lastSub
      <3>1. sub[s] \in Term /\ LinkOk(sub[s].client, sub[s].product) /\ ~(s > lastSub)
        BY <2>3 DEF CatalogInv, SubsInv, K!Subs, K!CatalogAssumption
      <3>2. PICK v : v = [sub[s] EXCEPT !.product = 0]
        OBVIOUS
      <3>3. v \in Term /\ v.periods = sub[s].periods /\ v.product = 0
        BY <3>1, <3>2 DEF Term, K!CatalogAssumption
      <3>4. sub[s].product = p => sub'[s] = v
        BY <2>1, <3>2
      <3>5. sub[s].product # p => sub'[s] = sub[s]
        BY <2>1
      <3>6. LinkNext(sub'[s].client, sub'[s].product)
        <4>1. CASE sub[s].product = p
          BY <3>3, <3>4, <4>1 DEF LinkNext
        <4>2. CASE sub[s].product # p
          <5>1. product'[sub[s].product] = product[sub[s].product] \/ sub[s].product = 0
            BY <1>2, <1>3, <3>1, <4>2 DEF LinkOk
          <5>2. QED
            BY <1>3, <3>1, <3>5, <4>2, <5>1 DEF LinkOk, LinkNext
        <4>3. QED
          BY <4>1, <4>2
      <3>7. QED
        BY <3>1, <3>3, <3>4, <3>5, <3>6
    <2>4. QED
      BY <2>2, <2>3 DEF CatalogInv, SubsInv, K!Subs, K!CatalogAssumption
  <1>10. sub' \in [K!Subs -> {K!NoSub} \cup Term]
    <2>1. sub' = [s \in K!Subs |-> sub'[s]]
      BY <1>1 DEF CatalogInv, SubsInv, K!Detached
    <2>2. QED
      BY <1>9, <2>1 DEF CatalogInv, SubsInv, K!Subs, K!CatalogAssumption
  <1>11. SubsInv'
    BY <1>1, <1>8, <1>9, <1>10
       DEF CatalogInv, SubsInv, LinkOk, LinkNext, K!Subs, K!CatalogAssumption
  <1>12. DeskInv'
    <2>1. \A q \in 1..lastProduct : product'[q].owner \in {product[q].owner, K!Public}
      BY <1>2, <1>3 DEF CatalogInv, ProductsInv, K!Products, K!CatalogAssumption
    <2>2. QED
      BY <1>1, <2>1 DEF CatalogInv, DeskInv
  <1>13. QED
    BY <1>5, <1>8, <1>11, <1>12 DEF CatalogInv

\* A row for a subscription, new or extended; the orders that are closed only grow.
LEMMA SubWritten ==
    ASSUME K!CatalogAssumption, CatalogInv, UNCHANGED <<product, lastProduct>>,
           NEW s \in K!Subs, NEW v \in Term, sub' = [sub EXCEPT ![s] = v],
           \/ s <= lastSub /\ lastSub' = lastSub
           \/ s = lastSub + 1 /\ lastSub' = s,
           LinkOk(v.client, v.product),
           Cardinality(Closed') \in Nat, Cardinality(Closed) <= Cardinality(Closed'),
           v.periods <= 1 + Cardinality(Closed')
    PROVE  SubsInv'
  <1>1. LinksStay
    BY SameProducts DEF CatalogInv
  <1>2. Cardinality(Closed) \in Nat
    BY ClosedIsFinite DEF CatalogInv
  <1>3. LinkNext(v.client, v.product)
    BY <1>1 DEF LinksStay, Term, LinkOk, LinkNext
  <1>4. /\ lastSub \in 0..MaxSubs /\ lastSub' \in 0..MaxSubs
        /\ sub' \in [K!Subs -> {K!NoSub} \cup Term] /\ sub'[s] = v
        /\ \A r \in K!Subs \ {s} : sub'[r] = sub[r]
    BY DEF CatalogInv, SubsInv, K!Subs, K!CatalogAssumption
  <1>5. ASSUME NEW r \in K!Subs
        PROVE  IF r > lastSub' THEN sub'[r] = K!NoSub
               ELSE /\ sub'[r] \in Term /\ LinkNext(sub'[r].client, sub'[r].product)
                    /\ sub'[r].periods <= 1 + Cardinality(Closed')
    <2>1. CASE r = s
      BY <1>3, <1>4, <2>1 DEF K!Subs, K!CatalogAssumption
    <2>2. CASE r # s
      <3>1. sub'[r] = sub[r] /\ (r > lastSub' <=> r > lastSub)
        BY <1>4, <2>2 DEF K!Subs, K!CatalogAssumption
      <3>2. CASE r > lastSub
        BY <3>1, <3>2 DEF CatalogInv, SubsInv
      <3>3. CASE ~(r > lastSub)
        <4>1. /\ sub[r] \in Term /\ LinkOk(sub[r].client, sub[r].product)
              /\ sub[r].periods <= 1 + Cardinality(Closed)
          BY <3>3 DEF CatalogInv, SubsInv
        <4>2. /\ sub[r].client \in Clients /\ sub[r].product \in 0..MaxProducts
              /\ sub[r].periods \in Nat
          BY <4>1 DEF Term
        <4>3. LinkNext(sub[r].client, sub[r].product)
          BY <1>1, <4>1, <4>2 DEF LinksStay, LinkOk, LinkNext
        <4>4. sub'[r].periods <= 1 + Cardinality(Closed')
          BY <1>2, <3>1, <4>1, <4>2
        <4>5. QED
          BY <3>1, <3>3, <4>1, <4>3, <4>4
      <3>4. QED
        BY <3>2, <3>3
    <2>3. QED
      BY <2>1, <2>2
  <1>6. QED
    BY <1>4, <1>5 DEF SubsInv, LinkOk, LinkNext

LEMMA GrantKeeps ==
    ASSUME K!CatalogAssumption, CatalogInv, NEW s \in Staff, K!Grant(s)
    PROVE  CatalogInv'
  <1>0. /\ desk[s] \in ToGrant /\ UNCHANGED <<product, lastProduct, order, lastOrder>>
        /\ desk' = [desk EXCEPT ![s] = K!Idle] /\ K!Idle.op = "idle"
    BY DEF CatalogInv, DeskInv, K!Grant, K!Idle, ToInsert
  <1>1. CASE UNCHANGED <<sub, lastSub>>
    BY <1>0, <1>1, ReadKeeps DEF K!salesVars
  <1>2. CASE /\ desk[s].product \in K!Live
             /\ lastSub' = lastSub + 1
             /\ sub' = [sub EXCEPT ![lastSub'] =
                          [client |-> desk[s].client, slug |-> desk[s].slug,
                           product |-> desk[s].product, active |-> TRUE, periods |-> 1]]
    <2>1. PICK v : v = [client |-> desk[s].client, slug |-> desk[s].slug,
                        product |-> desk[s].product, active |-> TRUE, periods |-> 1]
      OBVIOUS
    <2>2. /\ v \in Term /\ v.periods = 1 /\ v.client = desk[s].client
          /\ v.product = desk[s].product
      BY <1>0, <2>1 DEF Term, ToGrant, K!CatalogAssumption
    <2>3. LinkOk(v.client, v.product)
      BY <1>0, <1>2, <2>2 DEF CatalogInv, DeskInv, LinkOk, ToGrant
    <2>4. PICK n \in K!Subs : n = lastSub + 1
      BY DEF CatalogInv, SubsInv, K!Grant, K!Subs, K!CatalogAssumption
    <2>5. sub' = [sub EXCEPT ![n] = v] /\ lastSub' = n
      BY <1>2, <2>1, <2>4
    <2>6. ProductsInv' /\ LinksStay
      BY <1>0, SameProducts DEF CatalogInv
    <2>7. OrdersInv' /\ Closed' = Closed
      BY <1>0, <2>6, OrdersStay DEF CatalogInv
    <2>8. /\ Cardinality(Closed') \in Nat /\ Cardinality(Closed) <= Cardinality(Closed')
          /\ v.periods <= 1 + Cardinality(Closed')
      <3>1. Cardinality(Closed) \in Nat
        BY ClosedIsFinite DEF CatalogInv
      <3>2. QED
        BY <2>2, <2>7, <3>1
    <2>9. SubsInv'
      <3>1. UNCHANGED <<product, lastProduct>> /\ n = lastSub + 1 /\ lastSub' = n
        BY <1>0, <2>4, <2>5
      <3>2. QED
        BY <2>2, <2>3, <2>5, <2>8, <3>1, SubWritten
    <2>10. DeskInv'
      <3>1. lastProduct' \in Nat /\ K!Idle.op # "grant"
        BY <1>0 DEF CatalogInv, ProductsInv, K!CatalogAssumption
      <3>2. K!Idle \in {K!Idle} \cup ToInsert \cup ToGrant
        OBVIOUS
      <3>3. QED
        BY <1>0, <2>6, <3>1, <3>2, DeskStays DEF CatalogInv
    <2>11. QED
      BY <2>6, <2>7, <2>9, <2>10 DEF CatalogInv
  <1>3. QED
    BY <1>1, <1>2 DEF K!Grant

\* What a card resolves to is on sale, and public or the client's own.
LEMMA ResolvedIsVisible ==
    ASSUME K!CatalogAssumption, ProductsInv, NEW c \in Clients, NEW p \in K!Products,
           NEW q \in K!Resolve(c, p)
    PROVE  /\ q \in K!Live /\ q \in K!Products /\ product[q].active
           /\ product[q].owner \in {K!Public, c}
  <1> DEFINE own == {r \in K!Holding(product[p].slug, c) : product[r].active}
  <1>1. p \in K!Live /\ product[p].active /\ product[p].owner \in {K!Public, c}
    BY DEF K!Resolve
  <1>2. q \in own \/ q = p
    BY <1>1 DEF K!Resolve
  <1>3. \A r \in own : r \in K!Live /\ product[r].owner = c /\ product[r].active
    BY DEF K!Holding
  <1>4. q \in K!Live /\ product[q].active /\ product[q].owner \in {K!Public, c}
    BY <1>1, <1>2, <1>3
  <1>5. K!Live \subseteq K!Products
    BY DEF ProductsInv, K!Live, K!Products, K!CatalogAssumption
  <1>6. QED
    BY <1>4, <1>5

LEMMA BuyKeeps ==
    ASSUME K!CatalogAssumption, CatalogInv, NEW c \in Clients, NEW p \in K!Products,
           K!Buy(c, p)
    PROVE  CatalogInv'
  <1>1. PICK q \in K!Resolve(c, p) :
           /\ lastOrder' = lastOrder + 1
           /\ order' = [order EXCEPT ![lastOrder'] =
                          [client |-> c, slug |-> product[q].slug, product |-> q, open |-> TRUE]]
    BY DEF K!Buy
  <1>2. UNCHANGED <<product, lastProduct, sub, lastSub, desk>>
    BY DEF K!Buy
  <1>3. /\ q \in K!Live /\ q \in K!Products /\ product[q].owner \in {K!Public, c}
        /\ product[q] \in Card
    BY ResolvedIsVisible DEF CatalogInv, ProductsInv, K!Live, K!NoProduct
  <1>4. PICK v : v = [client |-> c, slug |-> product[q].slug, product |-> q, open |-> TRUE]
    OBVIOUS
  <1>5. v \in Sale /\ v.client = c /\ v.product = q /\ v.open
    <2>1. product[q].slug \in K!Slugs /\ q \in 0..MaxProducts
      <3>1. product[q].slug \in K!Slugs
        BY <1>3 DEF Card
      <3>2. q \in 0..MaxProducts
        BY <1>3 DEF K!Products, K!CatalogAssumption
      <3>3. QED
        BY <3>1, <3>2
    <2>2. QED
      BY <1>4, <2>1 DEF Sale
  <1>6. PICK n \in K!Orders : n = lastOrder + 1
    BY DEF CatalogInv, OrdersInv, K!Buy, K!Orders, K!CatalogAssumption
  <1>7. lastOrder' = n /\ order' = [order EXCEPT ![n] = v]
    BY <1>1, <1>4, <1>6
  <1>8. /\ lastOrder \in 0..MaxBought /\ lastOrder' \in 0..MaxBought
        /\ order' \in [K!Orders -> {K!NoOrder} \cup Sale] /\ order'[n] = v
        /\ \A x \in K!Orders \ {n} : order'[x] = order[x]
    BY <1>5, <1>6, <1>7 DEF CatalogInv, OrdersInv, K!Orders, K!CatalogAssumption
  <1>9. ProductsInv' /\ LinksStay
    BY <1>2, SameProducts DEF CatalogInv
  <1>10. OrdersInv'
    <2>1. ASSUME NEW x \in K!Orders
          PROVE  IF x > lastOrder' THEN order'[x] = K!NoOrder
                 ELSE order'[x] \in Sale /\ LinkNext(order'[x].client, order'[x].product)
      <3>1. CASE x = n
        <4>1. LinkOk(c, q) /\ q \in 0..MaxProducts
          BY <1>3 DEF LinkOk, K!Products
        <4>2. LinkNext(c, q)
          BY <1>9, <4>1 DEF LinksStay, LinkOk, LinkNext
        <4>3. QED
          BY <1>5, <1>6, <1>7, <1>8, <3>1, <4>2 DEF K!Orders, K!CatalogAssumption
      <3>2. CASE x # n
        <4>1. order'[x] = order[x] /\ (x > lastOrder' <=> x > lastOrder)
          BY <1>6, <1>7, <1>8, <3>2 DEF K!Orders, K!CatalogAssumption
        <4>2. CASE x > lastOrder
          BY <4>1, <4>2 DEF CatalogInv, OrdersInv
        <4>3. CASE ~(x > lastOrder)
          <5>1. order[x] \in Sale /\ LinkOk(order[x].client, order[x].product)
            BY <4>3 DEF CatalogInv, OrdersInv
          <5>2. order[x].client \in Clients /\ order[x].product \in 0..MaxProducts
            BY <5>1 DEF Sale
          <5>3. LinkNext(order[x].client, order[x].product)
            BY <1>9, <5>1, <5>2 DEF LinksStay, LinkOk, LinkNext
          <5>4. QED
            BY <4>1, <4>3, <5>1, <5>3
        <4>4. QED
          BY <4>2, <4>3
      <3>3. QED
        BY <3>1, <3>2
    <2>2. QED
      BY <1>8, <2>1 DEF OrdersInv, LinkOk, LinkNext
  <1>11. Closed' = Closed
    <2>1. \A x \in 1..lastOrder : x \in K!Orders \ {n}
      BY <1>6, <1>8 DEF K!Orders, K!CatalogAssumption
    <2>2. \A x : x \in 1..lastOrder' <=> x \in 1..lastOrder \/ x = n
      BY <1>6, <1>7, <1>8 DEF K!CatalogAssumption
    <2>3. n \notin 1..lastOrder
      BY <1>6, <1>8 DEF K!CatalogAssumption
    <2>4. QED
      BY <1>5, <1>8, <2>1, <2>2, <2>3 DEF Closed
  <1>12. SubsInv'
    BY <1>2, <1>9, <1>11, SubsStay, ClosedIsFinite DEF CatalogInv
  <1>13. DeskInv'
    BY <1>2, <1>9 DEF CatalogInv, DeskInv, LinksStay
  <1>14. QED
    BY <1>9, <1>10, <1>12, <1>13 DEF CatalogInv

\* An order that is paid, cancelled or refused is closed, once.
LEMMA OrderClosed ==
    ASSUME K!CatalogAssumption, CatalogInv, UNCHANGED <<product, lastProduct, lastOrder>>,
           NEW x \in K!Orders, order[x].open, order' = [order EXCEPT ![x].open = FALSE]
    PROVE  /\ ProductsInv' /\ LinksStay /\ OrdersInv' /\ order[x] \in Sale
           /\ LinkOk(order[x].client, order[x].product)
           /\ Cardinality(Closed) \in Nat /\ Cardinality(Closed') = Cardinality(Closed) + 1
  <1>1. ProductsInv' /\ LinksStay
    BY SameProducts DEF CatalogInv
  <1>2. /\ x <= lastOrder /\ order[x] \in Sale /\ LinkOk(order[x].client, order[x].product)
        /\ order[x].client \in Clients /\ order[x].product \in 0..MaxProducts
    BY DEF CatalogInv, OrdersInv, K!NoOrder, K!Orders, K!CatalogAssumption, Sale
  <1>3. PICK v : v = [order[x] EXCEPT !.open = FALSE]
    OBVIOUS
  <1>4. v \in Sale /\ ~v.open /\ v.client = order[x].client /\ v.product = order[x].product
    BY <1>2, <1>3 DEF Sale
  <1>5. order' = [order EXCEPT ![x] = v]
    BY <1>3 DEF CatalogInv, OrdersInv
  <1>6. /\ order' \in [K!Orders -> {K!NoOrder} \cup Sale] /\ order'[x] = v
        /\ \A y \in K!Orders \ {x} : order'[y] = order[y]
    BY <1>4, <1>5 DEF CatalogInv, OrdersInv
  <1>7. OrdersInv'
    <2>1. ASSUME NEW y \in K!Orders
          PROVE  IF y > lastOrder THEN order'[y] = K!NoOrder
                 ELSE order'[y] \in Sale /\ LinkNext(order'[y].client, order'[y].product)
      <3>1. CASE y = x
        <4>1. LinkNext(v.client, v.product) /\ ~(y > lastOrder)
          BY <1>1, <1>2, <1>4, <3>1 DEF LinksStay, LinkOk, LinkNext, CatalogInv, OrdersInv,
                                        K!Orders, K!CatalogAssumption
        <4>2. QED
          BY <1>4, <1>6, <3>1, <4>1
      <3>2. CASE y # x
        <4>1. order'[y] = order[y]
          BY <1>6, <3>2
        <4>2. CASE y > lastOrder
          BY <4>1, <4>2 DEF CatalogInv, OrdersInv
        <4>3. CASE ~(y > lastOrder)
          <5>1. order[y] \in Sale /\ LinkOk(order[y].client, order[y].product)
            BY <4>3 DEF CatalogInv, OrdersInv
          <5>2. order[y].client \in Clients /\ order[y].product \in 0..MaxProducts
            BY <5>1 DEF Sale
          <5>3. LinkNext(order[y].client, order[y].product)
            BY <1>1, <5>1, <5>2 DEF LinksStay, LinkOk, LinkNext
          <5>4. QED
            BY <4>1, <4>3, <5>1, <5>3
        <4>4. QED
          BY <4>2, <4>3
      <3>3. QED
        BY <3>1, <3>2
    <2>2. QED
      BY <1>6, <2>1 DEF CatalogInv, OrdersInv, LinkOk, LinkNext
  <1>8. Closed' = Closed \cup {x} /\ x \notin Closed
    <2>1. 1..lastOrder \subseteq K!Orders /\ x \in 1..lastOrder
      BY <1>2 DEF CatalogInv, OrdersInv, K!Orders, K!CatalogAssumption
    <2>2. QED
      BY <1>4, <1>6, <2>1 DEF Closed
  <1>9. Cardinality(Closed) \in Nat /\ Cardinality(Closed') = Cardinality(Closed) + 1
    BY <1>8, ClosedIsFinite, FS_AddElement DEF CatalogInv
  <1>10. QED
    BY <1>1, <1>2, <1>7, <1>9

LEMMA PayKeeps ==
    ASSUME K!CatalogAssumption, CatalogInv, NEW x \in K!Orders, K!Pay(x)
    PROVE  CatalogInv'
  <1>1. /\ ProductsInv' /\ LinksStay /\ OrdersInv' /\ order[x] \in Sale
        /\ LinkOk(order[x].client, order[x].product)
        /\ Cardinality(Closed) \in Nat /\ Cardinality(Closed') = Cardinality(Closed) + 1
    BY OrderClosed DEF K!Pay
  <1>2. UNCHANGED <<product, lastProduct, desk>>
    BY DEF K!Pay
  <1>3. SubsInv'
    <2>1. ASSUME NEW s \in K!ActiveFor(order[x].client, order[x].slug),
                 sub' = [sub EXCEPT ![s].periods = @ + 1], UNCHANGED lastSub
          PROVE  SubsInv'
      <3>1. /\ s \in K!Subs /\ s <= lastSub /\ sub[s] \in Term
            /\ LinkOk(sub[s].client, sub[s].product)
            /\ sub[s].periods <= 1 + Cardinality(Closed)
        BY <2>1 DEF CatalogInv, SubsInv, K!ActiveFor, K!NoSub, K!Subs, K!CatalogAssumption
      <3>2. PICK v : v = [sub[s] EXCEPT !.periods = sub[s].periods + 1]
        OBVIOUS
      <3>3. /\ v \in Term /\ v.client = sub[s].client /\ v.product = sub[s].product
            /\ v.periods = sub[s].periods + 1 /\ sub[s].periods \in Nat
        BY <3>1, <3>2 DEF Term
      <3>4. sub' = [sub EXCEPT ![s] = v]
        BY <2>1, <3>1, <3>2 DEF CatalogInv, SubsInv
      <3>5. Cardinality(Closed') \in Nat /\ v.periods <= 1 + Cardinality(Closed')
        BY <1>1, <3>1, <3>3
      <3>6. LinkOk(v.client, v.product) /\ Cardinality(Closed) <= Cardinality(Closed')
        BY <1>1, <3>1, <3>3, <3>5
      <3>7. QED
        BY <1>2, <2>1, <3>1, <3>3, <3>4, <3>5, <3>6, SubWritten
    <2>2. ASSUME lastSub < MaxSubs, lastSub' = lastSub + 1,
                 sub' = [sub EXCEPT ![lastSub'] =
                           [client |-> order[x].client, slug |-> order[x].slug,
                            product |-> order[x].product, active |-> TRUE, periods |-> 1]]
          PROVE  SubsInv'
      <3>1. PICK n \in K!Subs : n = lastSub + 1
        BY <2>2 DEF CatalogInv, SubsInv, K!Subs, K!CatalogAssumption
      <3>2. PICK v : v = [client |-> order[x].client, slug |-> order[x].slug,
                          product |-> order[x].product, active |-> TRUE, periods |-> 1]
        OBVIOUS
      <3>3. /\ v \in Term /\ v.client = order[x].client /\ v.product = order[x].product
            /\ v.periods = 1
        BY <1>1, <3>2 DEF Term, Sale
      <3>4. sub' = [sub EXCEPT ![n] = v] /\ lastSub' = n
        BY <2>2, <3>1, <3>2
      <3>5. /\ Cardinality(Closed') \in Nat /\ v.periods <= 1 + Cardinality(Closed')
            /\ Cardinality(Closed) <= Cardinality(Closed')
        BY <1>1, <3>3
      <3>6. QED
        BY <1>1, <1>2, <3>1, <3>3, <3>4, <3>5, SubWritten
    <2>3. QED
      BY <2>1, <2>2 DEF K!Pay
  <1>4. DeskInv'
    BY <1>1, <1>2 DEF CatalogInv, DeskInv, LinksStay
  <1>5. QED
    BY <1>1, <1>3, <1>4 DEF CatalogInv

LEMMA CancelKeeps ==
    ASSUME K!CatalogAssumption, CatalogInv, NEW x \in K!Orders, K!CancelOrder(x)
    PROVE  CatalogInv'
  <1>1. /\ ProductsInv' /\ LinksStay /\ OrdersInv'
        /\ Cardinality(Closed) \in Nat /\ Cardinality(Closed') = Cardinality(Closed) + 1
    BY OrderClosed DEF K!CancelOrder
  <1>2. UNCHANGED <<product, lastProduct, sub, lastSub, desk>>
    BY DEF K!CancelOrder
  <1>3. Cardinality(Closed') \in Nat /\ Cardinality(Closed) <= Cardinality(Closed')
    BY <1>1
  <1>4. SubsInv'
    BY <1>1, <1>2, <1>3, SubsStay DEF CatalogInv
  <1>5. DeskInv'
    BY <1>1, <1>2 DEF CatalogInv, DeskInv, LinksStay
  <1>6. QED
    BY <1>1, <1>4, <1>5 DEF CatalogInv

LEMMA CloseKeeps ==
    ASSUME K!CatalogAssumption, CatalogInv, NEW s \in K!Subs, K!Close(s)
    PROVE  CatalogInv'
  <1>1. /\ UNCHANGED <<product, lastProduct, order, lastOrder, lastSub, desk>>
        /\ sub[s].active /\ sub' = [sub EXCEPT ![s].active = FALSE]
    BY DEF K!Close
  <1>2. ProductsInv' /\ LinksStay
    BY <1>1, SameProducts DEF CatalogInv
  <1>3. OrdersInv' /\ Closed' = Closed
    BY <1>1, <1>2, OrdersStay DEF CatalogInv
  <1>4. /\ s <= lastSub /\ sub[s] \in Term /\ LinkOk(sub[s].client, sub[s].product)
        /\ sub[s].periods <= 1 + Cardinality(Closed)
    BY <1>1 DEF CatalogInv, SubsInv, K!NoSub, K!Subs, K!CatalogAssumption
  <1>5. PICK v : v = [sub[s] EXCEPT !.active = FALSE]
    OBVIOUS
  <1>6. /\ v \in Term /\ v.client = sub[s].client /\ v.product = sub[s].product
        /\ v.periods = sub[s].periods
    BY <1>4, <1>5 DEF Term
  <1>7. sub' = [sub EXCEPT ![s] = v]
    BY <1>1, <1>5 DEF CatalogInv, SubsInv
  <1>8. Cardinality(Closed) \in Nat /\ Cardinality(Closed) <= Cardinality(Closed)
    BY ClosedIsFinite DEF CatalogInv
  <1>9. SubsInv'
    BY <1>1, <1>3, <1>4, <1>6, <1>7, <1>8, SubWritten
  <1>10. DeskInv'
    BY <1>1, <1>2 DEF CatalogInv, DeskInv, LinksStay
  <1>11. QED
    BY <1>2, <1>3, <1>9, <1>10 DEF CatalogInv

LEMMA CatalogStep ==
    ASSUME K!CatalogAssumption, CatalogInv, [K!Next]_(K!vars)
    PROVE  CatalogInv'
  <1>1. CASE UNCHANGED K!vars
    <2>1. UNCHANGED <<product, lastProduct, order, lastOrder, sub, lastSub, desk>>
      BY <1>1 DEF K!vars, K!salesVars
    <2>2. ProductsInv' /\ LinksStay
      BY <2>1, SameProducts DEF CatalogInv
    <2>3. OrdersInv' /\ Closed' = Closed
      BY <2>1, <2>2, OrdersStay DEF CatalogInv
    <2>4. SubsInv'
      BY <2>1, <2>2, <2>3, SubsStay, ClosedIsFinite DEF CatalogInv
    <2>5. DeskInv'
      BY <2>1 DEF CatalogInv, DeskInv
    <2>6. QED
      BY <2>2, <2>3, <2>4, <2>5 DEF CatalogInv
  <1>2. CASE \E s \in Staff : K!Insert(s) \/ K!Grant(s)
    BY <1>2, InsertKeeps, GrantKeeps
  <1>3. CASE \E s \in Staff, n \in Names, o \in K!Owners : K!NewRead(s, n, o)
    BY <1>3, NewReadKeeps
  <1>4. CASE \E s \in Staff, p \in K!Products, c \in Clients :
                K!CloneRead(s, p, c) \/ K!GrantRead(s, p, c)
    BY <1>4, CloneReadKeeps, GrantReadKeeps
  <1>5. CASE \E p \in K!Products, on \in BOOLEAN : K!Toggle(p, on)
    BY <1>5, ToggleKeeps
  <1>6. CASE \E p \in K!Products : K!Delete(p) \/ \E c \in Clients : K!Buy(c, p)
    BY <1>6, DeleteKeeps, BuyKeeps
  <1>7. CASE \E x \in K!Orders : K!Pay(x) \/ K!CancelOrder(x)
    BY <1>7, PayKeeps, CancelKeeps
  <1>8. CASE \E s \in K!Subs : K!Close(s)
    BY <1>8, CloseKeeps
  <1>9. QED
    BY <1>1, <1>2, <1>3, <1>4, <1>5, <1>6, <1>7, <1>8 DEF K!Next

\* The query of a list and the one behind a button, from an owner having a slug once.
LEMMA CardsMatch == ASSUME K!CatalogAssumption, ProductsInv PROVE K!CardsMatchLists
  <1> SUFFICES ASSUME NEW c \in Clients
               PROVE  /\ UNION {K!Resolve(c, p) : p \in K!Products}
                           = K!ListPersonal(c) \cup K!PublicCatalogFor(c)
                      /\ \A p, q \in K!ListPersonal(c) \cup K!PublicCatalogFor(c) :
                            product[p].slug = product[q].slug => p = q
    BY DEF K!CardsMatchLists
  <1>1. K!Live \subseteq K!Products /\ c # K!Public
    BY DEF ProductsInv, K!CatalogAssumption, K!Live, K!Products, K!Public
  <1>2. ASSUME NEW p \in K!Products, NEW q \in K!Resolve(c, p)
        PROVE  q \in K!ListPersonal(c) \cup K!PublicCatalogFor(c)
    <2>1. /\ q \in K!Live /\ product[q].active /\ product[q].owner \in {K!Public, c}
      BY <1>2, ResolvedIsVisible
    <2>2. CASE product[q].owner = c
      BY <2>1, <2>2 DEF K!ListPersonal
    <2>3. CASE product[q].owner = K!Public
      <3> DEFINE own == {r \in K!Holding(product[p].slug, c) : product[r].active}
      <3>1. q \notin own
        BY <1>1, <2>3 DEF K!Holding
      <3>2. q = p /\ own = {}
        BY <1>2, <2>3, <3>1 DEF K!Resolve
      <3>3. \A r \in K!ListPersonal(c) : product[r].slug # product[q].slug
        BY <3>2 DEF K!ListPersonal, K!Holding
      <3>4. QED
        BY <2>1, <2>3, <3>3 DEF K!PublicCatalogFor, K!ListPublic
    <2>4. QED
      BY <2>1, <2>2, <2>3
  <1>3. ASSUME NEW q \in K!ListPersonal(c) \cup K!PublicCatalogFor(c)
        PROVE  q \in K!Products /\ q \in K!Resolve(c, q)
    <2>1. q \in K!Live /\ product[q].active /\ product[q].owner \in {K!Public, c}
      BY <1>3 DEF K!ListPersonal, K!PublicCatalogFor, K!ListPublic
    <2>2. CASE product[q].owner = c
      BY <1>1, <2>1, <2>2 DEF K!Resolve
    <2>3. CASE product[q].owner = K!Public
      <3>1. \A r \in K!ListPersonal(c) : product[r].slug # product[q].slug
        BY <1>1, <1>3, <2>3 DEF K!ListPersonal, K!PublicCatalogFor
      <3>2. {r \in K!Holding(product[q].slug, c) : product[r].active} = {}
        BY <3>1 DEF K!ListPersonal, K!Holding
      <3>3. QED
        BY <1>1, <2>1, <2>3, <3>2 DEF K!Resolve
    <2>4. QED
      BY <2>1, <2>2, <2>3
  <1>4. ASSUME NEW p \in K!ListPersonal(c) \cup K!PublicCatalogFor(c),
               NEW q \in K!ListPersonal(c) \cup K!PublicCatalogFor(c),
               product[p].slug = product[q].slug
        PROVE  p = q
    <2>1. p \in K!Live /\ q \in K!Live
      BY DEF K!ListPersonal, K!PublicCatalogFor, K!ListPublic
    <2>2. product[p].owner = product[q].owner
      BY <1>4 DEF K!ListPersonal, K!PublicCatalogFor, K!ListPublic
    <2>3. QED
      BY <1>4, <2>1, <2>2 DEF ProductsInv
  <1>5. QED
    BY <1>2, <1>3, <1>4

\* Lists and cards agree, offers stay with their client, and links are live, for any clients,
\* staff, names and bounds.
THEOREM OffersConsistent == ASSUME K!CatalogAssumption PROVE K!Spec => []K!OffersAreConsistent
  <1>1. K!Init => CatalogInv
    BY CatalogStart
  <1>2. CatalogInv /\ [K!Next]_(K!vars) => CatalogInv'
    BY CatalogStep
  <1>3. CatalogInv => K!OffersAreConsistent
    <2> SUFFICES ASSUME CatalogInv PROVE K!OffersAreConsistent
      OBVIOUS
    <2>1. K!TypeOK
      <3>1. /\ lastProduct \in 0..MaxProducts /\ lastOrder \in 0..MaxBought
            /\ lastSub \in 0..MaxSubs
        BY DEF CatalogInv, ProductsInv, OrdersInv, SubsInv
      <3>2. \A p \in K!Products :
               product[p] = K!NoProduct \/ (p <= lastProduct /\ product[p] \in Card)
        <4>1. \A p \in K!Products : p > lastProduct \/ p <= lastProduct
          BY <3>1 DEF K!Products, K!CatalogAssumption
        <4>2. QED
          BY <4>1 DEF CatalogInv, ProductsInv
      <3>3. \A x \in K!Orders : ~(x > lastOrder) =>
               order[x] \in [client : Clients, slug : K!Slugs, product : 0..lastProduct,
                             open : BOOLEAN]
        <4> SUFFICES ASSUME NEW x \in K!Orders, ~(x > lastOrder)
                     PROVE  order[x] \in [client : Clients, slug : K!Slugs,
                                          product : 0..lastProduct, open : BOOLEAN]
          OBVIOUS
        <4>1. order[x] \in Sale /\ LinkOk(order[x].client, order[x].product)
          BY DEF CatalogInv, OrdersInv
        <4>2. order[x].product \in 0..lastProduct
          BY <3>1, <4>1 DEF LinkOk, K!Live, K!CatalogAssumption
        <4>3. QED
          BY <4>1, <4>2 DEF Sale
      <3>4. \A s \in K!Subs : ~(s > lastSub) =>
               sub[s] \in [client : Clients, slug : K!Slugs, product : 0..lastProduct,
                           active : BOOLEAN, periods : 1..(MaxBought + 1)]
        <4> SUFFICES ASSUME NEW s \in K!Subs, ~(s > lastSub)
                     PROVE  sub[s] \in [client : Clients, slug : K!Slugs,
                                        product : 0..lastProduct, active : BOOLEAN,
                                        periods : 1..(MaxBought + 1)]
          OBVIOUS
        <4>1. /\ sub[s] \in Term /\ LinkOk(sub[s].client, sub[s].product)
              /\ sub[s].periods <= 1 + Cardinality(Closed)
          BY DEF CatalogInv, SubsInv
        <4>2. sub[s].product \in 0..lastProduct
          BY <3>1, <4>1 DEF LinkOk, K!Live, K!CatalogAssumption
        <4>3. sub[s].periods \in Nat \ {0}
          BY <4>1 DEF Term
        <4>4. sub[s].periods \in 1..(MaxBought + 1)
          BY <4>1, <4>3, ClosedIsFinite DEF CatalogInv, K!CatalogAssumption
        <4>5. QED
          BY <4>1, <4>2, <4>4 DEF Term
      <3>5. \A s \in Staff : desk[s] \in {K!Idle} \cup ToInsert
               \cup [op : {"grant"}, client : Clients, product : 1..lastProduct, slug : K!Slugs]
        BY DEF CatalogInv, DeskInv, ToGrant
      <3>6. QED
        BY <3>1, <3>2, <3>3, <3>4, <3>5 DEF K!TypeOK, Card, ToInsert, CatalogInv, OrdersInv,
                                            SubsInv
    <2>2. K!CardsMatchLists
      BY CardsMatch DEF CatalogInv
    <2>3. K!OffersStayPrivate
      BY DEF CatalogInv, OrdersInv, SubsInv, K!OffersStayPrivate, LinkOk, K!NoOrder, K!NoSub
    <2>4. K!LinksAreLive
      BY DEF CatalogInv, OrdersInv, SubsInv, K!LinksAreLive, LinkOk, K!NoOrder, K!NoSub
    <2>5. QED
      BY <2>1, <2>2, <2>3, <2>4 DEF K!OffersAreConsistent
  <1>4. QED
    BY <1>1, <1>2, <1>3, PTL DEF K!Spec

-----------------------------------------------------------------------------
(* Lists in pages *)

\* A set of natural numbers has a least one.
LEMMA LeastNumber ==
    ASSUME NEW T \in SUBSET Nat, T # {}
    PROVE  \E m \in T : \A k \in T : m <= k
<1>1. PICK m \in T : \A k \in T : ~(<<k, m>> \in OpToRel(<, Nat))
  BY NatLessThanWellFounded, WFMin, Zenon
<1>2. \A k \in T : ~(k < m)
  BY <1>1 DEF OpToRel
<1>3. QED
  BY <1>2

\* A product grows with its factor.
LEMMA Times ==
    ASSUME NEW a \in Int, NEW b \in Int, NEW c \in Nat, a <= b
    PROVE  a * c \in Int /\ b * c \in Int /\ a * c <= b * c
<1>1. (b - a) * c >= 0
  OBVIOUS
<1>2. QED
  BY <1>1

\* There are as many pages as it takes: the last one begins before the list ends.
LEMMA PagesTotal ==
    ASSUME NEW n \in Nat, NEW size \in Nat \ {0}
    PROVE  LET total == G!TotalPages(n, size) IN
           /\ total \in Nat \ {0} /\ total * size \in Nat /\ n <= total * size
           /\ n > 0 => (total - 1) * size < n
           /\ n = 0 => total = 1
<1>1. PICK q : q = (n + size - 1) \div size
  OBVIOUS
<1>2. q \in Int /\ q * size <= n + size - 1 /\ n + size - 1 < q * size + size
  BY <1>1
<1>3. q >= 0
  <2>1. SUFFICES ASSUME q <= -1 PROVE FALSE
    BY <1>2
  <2>2. q * size <= (-1) * size
    BY <1>2, <2>1, Times
  <2>3. QED
    BY <1>2, <2>2
<1>4. n = 0 => q < 1
  <2>1. SUFFICES ASSUME n = 0, q >= 1 PROVE FALSE
    BY <1>2
  <2>2. 1 * size <= q * size
    BY <1>2, <2>1, Times
  <2>3. QED
    BY <1>2, <2>1, <2>2
<1>5. n > 0 => q >= 1
  <2>1. SUFFICES ASSUME n > 0, q = 0 PROVE FALSE
    BY <1>2, <1>3
  <2>2. QED
    BY <1>2, <2>1
<1>6. G!TotalPages(n, size) = IF q <= 1 THEN 1 ELSE q
  BY <1>1, <1>2 DEF G!TotalPages, G!AtLeast
<1>7. CASE q > 1
  <2>1. (q - 1) * size = q * size - size
    BY <1>2
  <2>2. QED
    BY <1>2, <1>4, <1>6, <1>7, <2>1
<1>8. CASE q <= 1
  <2>1. q * size <= 1 * size
    BY <1>2, <1>8, Times
  <2>2. QED
    BY <1>2, <1>6, <1>8, <2>1
<1>9. QED
  BY <1>2, <1>7, <1>8

\* What paginate makes of a list: pages are counted from 0.
RowsAt(list, p, size) ==
    SubSeq(list, p * size + 1, G!AtMost(Len(list), p * size + size))

\* What is shown of a list is one page, with arrows to those beside it.
IsPage(shown, list, size, here) ==
    LET total == G!TotalPages(Len(list), size) IN
    /\ here \in 0..(total - 1) /\ shown.page = here /\ shown.total = total
    /\ shown.rows = RowsAt(list, here, size)
    /\ shown.nav = {p \in 0..(total - 1) : p = here - 1 \/ p = here + 1}

LEMMA Paginated ==
    ASSUME NEW list \in Seq(Ids), NEW size \in Nat \ {0}, NEW page \in Int
    PROVE  /\ IsPage(G!Paginate(list, page, size), list, size, G!Clamp(Len(list), size, page))
           /\ page \in 0..(G!TotalPages(Len(list), size) - 1)
              => G!Clamp(Len(list), size, page) = page
<1>1. PICK total, here : total = G!TotalPages(Len(list), size)
                         /\ here = G!Clamp(Len(list), size, page)
  OBVIOUS
<1>2. Len(list) \in Nat /\ total \in Nat \ {0}
  BY <1>1, PagesTotal
<1>3. here \in 0..(total - 1) /\ (page \in 0..(total - 1) => here = page)
  BY <1>1, <1>2 DEF G!Clamp, G!AtLeast, G!AtMost
<1>4. G!Paginate(list, page, size) =
        [page |-> here, total |-> total, rows |-> G!Slice(list, here * size, size),
         nav |-> IF total > 1 THEN G!Nav(here, total) ELSE {}]
  BY <1>1 DEF G!Paginate
<1>5. G!Slice(list, here * size, size) = RowsAt(list, here, size)
  BY DEF G!Slice, RowsAt
<1>6. (IF total > 1 THEN G!Nav(here, total) ELSE {})
        = {p \in 0..(total - 1) : p = here - 1 \/ p = here + 1}
  BY <1>2, <1>3 DEF G!Nav
<1>7. IsPage(G!Paginate(list, page, size), list, size, here)
  BY <1>1, <1>3, <1>4, <1>5, <1>6 DEF IsPage
<1>8. QED
  BY <1>1, <1>3, <1>7

\* A page is a piece of the list, and has lines if the list has.
LEMMA PageOfList ==
    ASSUME NEW list \in Seq(Ids), NEW size \in Nat \ {0},
           NEW p \in 0..(G!TotalPages(Len(list), size) - 1)
    PROVE  /\ p * size \in Nat /\ p * size <= Len(list)
           /\ list # <<>> => p * size < Len(list) /\ RowsAt(list, p, size) # <<>>
           /\ RowsAt(list, p, size) \in Seq(Ids)
<1>1. PICK total : total = G!TotalPages(Len(list), size)
  OBVIOUS
<1>2. /\ Len(list) \in Nat /\ total \in Nat \ {0}
      /\ Len(list) > 0 => (total - 1) * size < Len(list)
      /\ Len(list) = 0 => total = 1
  <2>1. Len(list) \in Nat
    OBVIOUS
  <2>2. QED
    BY <1>1, <2>1, PagesTotal
<1>3. p \in Nat /\ p <= total - 1 /\ total - 1 \in Int /\ size \in Nat
  BY <1>1, <1>2
<1>4. 0 * size <= p * size /\ p * size \in Int /\ p * size <= (total - 1) * size
  BY <1>3, Times
<1>5. p * size \in Nat /\ p * size <= Len(list) /\ (Len(list) > 0 => p * size < Len(list))
  <2>1. CASE Len(list) > 0
    BY <1>2, <1>4, <2>1
  <2>2. CASE Len(list) = 0
    BY <1>2, <1>3, <1>4, <2>2
  <2>3. QED
    BY <1>2, <2>1, <2>2
<1>6. PICK k, m : k = p * size /\ m = G!AtMost(Len(list), p * size + size)
  OBVIOUS
<1>7. /\ k \in Nat /\ m \in Nat /\ m <= Len(list)
      /\ RowsAt(list, p, size) = SubSeq(list, k + 1, m)
      /\ Len(list) > 0 => k + 1 <= m
  BY <1>2, <1>5, <1>6 DEF RowsAt, G!AtMost
<1>8. \A i \in (k + 1)..m : list[i] \in Ids
  BY <1>7, ElementOfSeq
<1>9. /\ SubSeq(list, k + 1, m) \in Seq(Ids)
      /\ Len(SubSeq(list, k + 1, m)) = IF k + 1 <= m THEN m - (k + 1) + 1 ELSE 0
  <2>1. PICK j \in Int : j = k + 1
    BY <1>7
  <2>2. m \in Int /\ \A i \in j..m : list[i] \in Ids
    BY <1>7, <1>8, <2>1
  <2>3. /\ SubSeq(list, j, m) \in Seq(Ids)
        /\ Len(SubSeq(list, j, m)) = IF j <= m THEN m - j + 1 ELSE 0
    BY <2>1, <2>2, SubSeqProperties
  <2>4. QED
    BY <2>1, <2>3, Zenon
<1>10. list # <<>> => Len(list) > 0
  BY <1>2, EmptySeq
<1>11. QED
  BY <1>5, <1>7, <1>9, <1>10

\* One page after the other, from the first on, is the list as far as they go.
LEMMA PagesInARow ==
    ASSUME NEW list \in Seq(Ids), NEW size \in Nat \ {0},
           NEW i \in 2..G!TotalPages(Len(list), size)
    PROVE  SubSeq(list, 1, G!AtMost(Len(list), (i - 1) * size)) \o RowsAt(list, i - 1, size)
           = SubSeq(list, 1, G!AtMost(Len(list), i * size))
<1>1. PICK k : k = (i - 1) * size
  OBVIOUS
<1>2. i - 1 \in 0..(G!TotalPages(Len(list), size) - 1) /\ i \in Int
  <2>1. PICK total : total = G!TotalPages(Len(list), size)
    OBVIOUS
  <2>2. Len(list) \in Nat
    OBVIOUS
  <2>3. total \in Nat
    BY <2>1, <2>2, PagesTotal
  <2>4. i \in 2..total
    BY <2>1
  <2>5. i - 1 \in 0..(total - 1) /\ i \in Int
    BY <2>3, <2>4
  <2>6. QED
    BY <2>1, <2>5
<1>3. k \in Nat /\ k <= Len(list) /\ Len(list) \in Nat
  BY <1>1, <1>2, PageOfList
<1>4. i * size = k + size
  BY <1>1, <1>2
<1>5. PICK m : m = G!AtMost(Len(list), k + size)
  OBVIOUS
<1>6. m \in k..Len(list) /\ G!AtMost(Len(list), k) = k
  BY <1>3, <1>5 DEF G!AtMost
<1>7. SubSeq(list, 1, k) \o SubSeq(list, k + 1, m) = SubSeq(list, 1, m)
  <2>1. k \in 1 - 1..Len(list) /\ 1 \in 1..Len(list) + 1
    BY <1>3
  <2>2. QED
    BY <1>6, <2>1, ConcatAdjacentSubSeq
<1>8. RowsAt(list, i - 1, size) = SubSeq(list, k + 1, m)
  BY <1>1, <1>5 DEF RowsAt
<1>9. QED
  BY <1>1, <1>4, <1>5, <1>6, <1>7, <1>8


\* The values of f are the sequences one after the other.
InARow(f, seqs, n) == f = [i \in 1..n |-> IF i = 1 THEN seqs[i] ELSE f[i - 1] \o seqs[i]]

\* FlattenSeq is defined by such a function, and there is one only.
LEMMA Flattened ==
    ASSUME NEW n \in Nat \ {0}, NEW seqs, Len(seqs) = n, NEW f, InARow(f, seqs, n)
    PROVE  G!FlattenSeq(seqs) = f[n]
<1>0. f = [i \in 1..n |-> IF i = 1 THEN seqs[i] ELSE f[i - 1] \o seqs[i]]
  BY DEF InARow
<1>1. PICK g : g = CHOOSE h : h = [i \in 1..n |-> IF i = 1 THEN seqs[i] ELSE h[i - 1] \o seqs[i]]
  OBVIOUS
<1>2. g = [i \in 1..n |-> IF i = 1 THEN seqs[i] ELSE g[i - 1] \o seqs[i]]
  BY <1>0, <1>1
<1>3. G!FlattenSeq(seqs) = g[n]
  BY <1>1 DEF G!FlattenSeq
<1>4. \A i \in 1..n : g[i] = f[i]
  <2> DEFINE T == {i \in 1..n : g[i] # f[i]}
  <2>1. SUFFICES ASSUME T # {} PROVE FALSE
    OBVIOUS
  <2>2. PICK m \in T : \A k \in T : m <= k
    <3>1. T \in SUBSET Nat
      OBVIOUS
    <3> HIDE DEF T
    <3>2. QED
      BY <2>1, <3>1, LeastNumber
  <2>3. m \in 1..n /\ g[m] # f[m]
    BY <2>2
  <2>4. CASE m = 1
    BY <1>0, <1>2, <2>3, <2>4
  <2>5. CASE m # 1
    <3>1. m - 1 \in 1..n /\ m - 1 \notin T
      BY <2>2, <2>3, <2>5
    <3>2. g[m - 1] = f[m - 1]
      BY <3>1
    <3>3. g[m] = g[m - 1] \o seqs[m] /\ f[m] = f[m - 1] \o seqs[m]
      BY <1>0, <1>2, <2>3, <2>5
    <3>4. QED
      BY <2>3, <3>2, <3>3
  <2>6. QED
    BY <2>4, <2>5
<1>5. QED
  BY <1>3, <1>4

\* The pages of a list, one after the other, are the list.
LEMMA PagesAreList ==
    ASSUME NEW list \in Seq(Ids), NEW size \in Nat \ {0}, NEW total,
           total = G!TotalPages(Len(list), size), NEW pages,
           pages = [p \in 1..total |-> RowsAt(list, p - 1, size)]
    PROVE  G!FlattenSeq(pages) = list
<1>1. /\ Len(list) \in Nat /\ total \in Nat \ {0} /\ total * size \in Nat
      /\ Len(list) <= total * size
  <2>1. Len(list) \in Nat
    OBVIOUS
  <2>2. QED
    BY <2>1, PagesTotal
<1>2. Len(pages) = total
  BY <1>1
<1>3. PICK f : f = [i \in 1..total |-> SubSeq(list, 1, G!AtMost(Len(list), i * size))]
  OBVIOUS
<1>4. ASSUME NEW i \in 1..total
      PROVE  f[i] = IF i = 1 THEN pages[i] ELSE f[i - 1] \o pages[i]
  <2>1. /\ pages[i] = RowsAt(list, i - 1, size)
        /\ f[i] = SubSeq(list, 1, G!AtMost(Len(list), i * size))
    BY <1>3
  <2>2. CASE i = 1
    <3>1. (i - 1) * size + 1 = 1 /\ (i - 1) * size + size = 1 * size /\ 1 * size = i * size
      BY <2>2
    <3>2. RowsAt(list, i - 1, size) = SubSeq(list, 1, G!AtMost(Len(list), i * size))
      BY <3>1 DEF RowsAt
    <3>3. QED
      BY <2>1, <2>2, <3>2
  <2>3. CASE i # 1
    <3>1. i - 1 \in 1..total /\ i \in 2..total
      BY <1>1, <2>3
    <3>2. f[i - 1] = SubSeq(list, 1, G!AtMost(Len(list), (i - 1) * size))
      BY <1>3, <3>1
    <3>3. SubSeq(list, 1, G!AtMost(Len(list), (i - 1) * size)) \o RowsAt(list, i - 1, size)
          = SubSeq(list, 1, G!AtMost(Len(list), i * size))
      BY <3>1, PagesInARow
    <3>4. QED
      BY <2>1, <2>3, <3>2, <3>3
  <2>4. QED
    BY <2>2, <2>3
<1>5. InARow(f, pages, total)
  BY <1>3, <1>4 DEF InARow
<1>6. G!FlattenSeq(pages) = f[total]
  BY <1>1, <1>2, <1>5, Flattened, Zenon
<1>7. f[total] = SubSeq(list, 1, Len(list))
  <2>1. f[total] = SubSeq(list, 1, G!AtMost(Len(list), total * size))
    <3>1. total \in 1..total
      BY <1>1
    <3>2. QED
      BY <1>3, <3>1
  <2>2. G!AtMost(Len(list), total * size) = Len(list)
    BY <1>1 DEF G!AtMost
  <2>3. QED
    BY <2>1, <2>2
<1>8. QED
  BY <1>6, <1>7, SubSeqFull


-----------------------------------------------------------------------------
(* What the arrows reach *)

\* The pages that n taps reach at most.
Near(n) == {p \in 0..(screen.total - 1) : p - n <= screen.page /\ screen.page <= p + n}

\* The arrows of a page lead to the pages beside it.
ArrowsLead ==
    /\ screen.total \in Nat \ {0} /\ screen.page \in 0..(screen.total - 1)
    /\ \A p \in 0..(screen.total - 1) :
          G!Pages[p + 1].nav = {q \in 0..(screen.total - 1) : q = p - 1 \/ q = p + 1}

LEMMA OneTapMore ==
    ASSUME ArrowsLead, NEW n \in Nat \ {0}
    PROVE  Near(n) = Near(n - 1) \cup UNION {G!Pages[p + 1].nav : p \in Near(n - 1)}
<1>1. screen.total \in Nat \ {0} /\ screen.page \in 0..(screen.total - 1)
  BY DEF ArrowsLead
<1>2. ASSUME NEW q \in Near(n), q \notin Near(n - 1)
      PROVE  \E p \in Near(n - 1) : q \in G!Pages[p + 1].nav
  <2>1. q \in 0..(screen.total - 1) /\ (q = screen.page + n \/ q = screen.page - n)
    BY <1>1, <1>2 DEF Near
  <2>2. CASE q = screen.page + n
    <3>1. q - 1 \in Near(n - 1) /\ q - 1 \in 0..(screen.total - 1) /\ q = (q - 1) + 1
      BY <1>1, <2>1, <2>2 DEF Near
    <3>2. q \in G!Pages[(q - 1) + 1].nav
      BY <2>1, <3>1 DEF ArrowsLead
    <3>3. QED
      BY <3>1, <3>2
  <2>3. CASE q = screen.page - n
    <3>1. q + 1 \in Near(n - 1) /\ q + 1 \in 0..(screen.total - 1) /\ q = (q + 1) - 1
      BY <1>1, <2>1, <2>3 DEF Near
    <3>2. q \in G!Pages[(q + 1) + 1].nav
      BY <2>1, <3>1 DEF ArrowsLead
    <3>3. QED
      BY <3>1, <3>2
  <2>4. QED
    BY <2>1, <2>2, <2>3
<1>3. ASSUME NEW p \in Near(n - 1), NEW q \in G!Pages[p + 1].nav
      PROVE  q \in Near(n)
  <2>1. p \in 0..(screen.total - 1) /\ p - (n - 1) <= screen.page /\ screen.page <= p + (n - 1)
    BY DEF Near
  <2>2. q \in 0..(screen.total - 1) /\ (q = p - 1 \/ q = p + 1)
    BY <1>3, <2>1 DEF ArrowsLead
  <2>3. QED
    BY <1>1, <2>1, <2>2 DEF Near
<1>4. Near(n - 1) \subseteq Near(n)
  BY <1>1 DEF Near
<1>5. QED
  BY <1>2, <1>3, <1>4

\* By the arrows of any screen, and of the screens that they lead to, one gets to every page.
LEMMA ArrowsReachAll ==
    ASSUME ArrowsLead
    PROVE  G!Reached = 0..(screen.total - 1)
<1> DEFINE next(h, n) == IF n = 0 THEN {screen.page}
                         ELSE h[n - 1] \cup UNION {G!Pages[p + 1].nav : p \in h[n - 1]}
<1>1. screen.total \in Nat \ {0} /\ screen.page \in 0..(screen.total - 1)
  BY DEF ArrowsLead
<1>2. PICK f : f = [n \in Nat |-> Near(n)]
  OBVIOUS
<1>3. ASSUME NEW n \in Nat
      PROVE  f[n] = next(f, n)
  <2>1. CASE n = 0
    <3>1. Near(0) = {screen.page}
      BY <1>1 DEF Near
    <3>2. QED
      BY <1>2, <2>1, <3>1
  <2>2. CASE n # 0
    <3>1. n \in Nat \ {0} /\ n - 1 \in Nat
      BY <2>2
    <3>2. f[n] = Near(n) /\ f[n - 1] = Near(n - 1)
      BY <1>2, <3>1
    <3>3. Near(n) = Near(n - 1) \cup UNION {G!Pages[p + 1].nav : p \in Near(n - 1)}
      BY <3>1, OneTapMore
    <3>4. QED
      BY <2>2, <3>2, <3>3
  <2>3. QED
    BY <2>1, <2>2
<1>4. f = [n \in Nat |-> next(f, n)]
  BY <1>2, <1>3
<1>5. PICK g : g = CHOOSE h : h = [n \in Nat |-> next(h, n)]
  OBVIOUS
<1>6. g = [n \in Nat |-> next(g, n)]
  BY <1>4, <1>5
<1>7. G!Reached = g[screen.total]
  BY <1>5 DEF G!Reached
<1>8. \A n \in Nat : g[n] = f[n]
  <2> DEFINE T == {n \in Nat : g[n] # f[n]}
  <2>1. SUFFICES ASSUME T # {} PROVE FALSE
    OBVIOUS
  <2>2. PICK m \in T : \A k \in T : m <= k
    <3>1. T \in SUBSET Nat
      OBVIOUS
    <3> HIDE DEF T
    <3>2. QED
      BY <2>1, <3>1, LeastNumber
  <2>3. m \in Nat /\ g[m] # f[m]
    BY <2>2
  <2>4. g[m] = next(g, m) /\ f[m] = next(f, m)
    <3> HIDE DEF next
    <3>1. QED
      BY <1>4, <1>6, <2>3
  <2>5. CASE m = 0
    BY <2>3, <2>4, <2>5
  <2>6. CASE m # 0
    <3>1. m - 1 \in Nat /\ m - 1 \notin T
      BY <2>2, <2>3, <2>6
    <3>2. g[m - 1] = f[m - 1]
      BY <3>1
    <3>3. QED
      BY <2>3, <2>4, <2>6, <3>2
  <2>7. QED
    BY <2>5, <2>6
<1>9. g[screen.total] = Near(screen.total)
  BY <1>1, <1>2, <1>8
<1>10. Near(screen.total) = 0..(screen.total - 1)
  BY <1>1 DEF Near
<1>11. QED
  BY <1>7, <1>9, <1>10


-----------------------------------------------------------------------------
(* The screens *)

\* A screen is a page of some list that the parts of it agree on.
Shows(sc, list, size, page) ==
    /\ sc.kind \in G!Kinds /\ sc.list = list /\ sc.size = size
    /\ IsPage(sc, list, size, page) /\ sc.body = sc.rows

ScreenOk(sc) ==
    \/ sc = G!NoScreen
    \/ \E list \in Seq(Ids), size \in Nat \ {0}, page \in Nat : Shows(sc, list, size, page)

ItemsOk(list) == list \in Seq(Ids) /\ G!IsInjective(list)

PagingInv ==
    /\ ItemsOk(items) /\ perPage \in PerPage /\ buttons \in [G!Kinds -> SUBSET Nat]
    /\ ScreenOk(screen)

\* Every list of the panel and the catalog is shown so.
LEMMA ScreensShow ==
    ASSUME G!PagingAssumption, items \in Seq(Ids), perPage \in PerPage, NEW kind \in G!Kinds,
           NEW asked \in Nat, NEW sc, sc = G!Screen(kind, asked)
    PROVE  ScreenOk(sc) /\ sc.nav \subseteq Nat
<1>1. PageSize \in Nat \ {0} /\ QueueLimit \in Nat \ {0} /\ G!CatalogSize \in Nat \ {0}
  BY DEF G!PagingAssumption, G!CatalogSize, G!AtMost, G!AtLeast
<1>2. ASSUME NEW list \in Seq(Ids), NEW size \in Nat \ {0}, NEW shown,
             shown = G!Paginate(list, asked, size), sc.kind = kind, sc.list = list,
             sc.size = size, sc.total = shown.total, sc.page = shown.page,
             sc.rows = shown.rows, sc.body = shown.rows, sc.nav = shown.nav
      PROVE  ScreenOk(sc) /\ sc.nav \subseteq Nat
  <2>1. PICK here : here = G!Clamp(Len(list), size, asked)
    OBVIOUS
  <2>2. IsPage(shown, list, size, here)
    <3>1. asked \in Int
      OBVIOUS
    <3>2. IsPage(G!Paginate(list, asked, size), list, size, G!Clamp(Len(list), size, asked))
      BY <3>1, Paginated
    <3>3. QED
      BY <1>2, <2>1, <3>2, Zenon
  <2>3. Shows(sc, list, size, here)
    BY <1>2, <2>2 DEF Shows, IsPage
  <2>4. here \in Nat /\ sc.nav \subseteq Nat
    BY <1>2, <2>2 DEF IsPage
  <2>5. QED
    BY <2>3, <2>4 DEF ScreenOk
<1>3. CASE kind = "catalog"
  <2>1. PICK shown : shown = G!Paginate(items, asked, G!CatalogSize)
    OBVIOUS
  <2>2. sc = [kind |-> "catalog", list |-> items, page |-> shown.page, total |-> shown.total,
              body |-> shown.rows, rows |-> shown.rows, nav |-> shown.nav,
              size |-> G!CatalogSize]
    BY <1>3, <2>1 DEF G!Screen, G!CatalogScreen
  <2>3. QED
    BY <1>1, <1>2, <1>3, <2>1, <2>2
<1>4. ASSUME NEW list \in Seq(Ids), sc = G!PanelScreen(kind, list, asked)
      PROVE  ScreenOk(sc) /\ sc.nav \subseteq Nat
  <2>1. PICK shown : shown = G!Paginate(list, asked, PageSize)
    OBVIOUS
  <2>2. sc = [kind |-> kind, list |-> list, page |-> shown.page, total |-> shown.total,
              body |-> G!PageSlice(list, asked), rows |-> shown.rows, nav |-> shown.nav,
              size |-> PageSize]
    BY <1>4, <2>1 DEF G!PanelScreen
  <2>3. G!PageSlice(list, asked) = shown.rows
    BY <2>1 DEF G!PageSlice, G!Paginate
  <2>4. QED
    BY <1>1, <1>2, <2>1, <2>2, <2>3
<1>5. CASE kind = "products"
  BY <1>4, <1>5 DEF G!Screen, G!ProductsScreen
<1>6. CASE kind = "queue"
  <2>1. PICK list, n : list = G!Slice(items, 0, QueueLimit)
                       /\ n = G!AtMost(Len(items), 0 + QueueLimit)
    OBVIOUS
  <2>2. n \in Nat /\ n <= Len(items) /\ list = SubSeq(items, 1, n)
    BY <1>1, <2>1 DEF G!Slice, G!AtMost
  <2>3. \A i \in 1..n : items[i] \in Ids
    BY <2>2, ElementOfSeq
  <2>4. list \in Seq(Ids)
    BY <2>2, <2>3, SubSeqProperties
  <2>5. sc = G!PanelScreen(kind, list, asked)
    BY <1>6, <2>1 DEF G!Screen, G!QueueScreen
  <2>6. QED
    BY <1>4, <2>4, <2>5
<1>7. QED
  BY <1>3, <1>5, <1>6 DEF G!Kinds

\* An item that is put in or taken out leaves the others, each once.
LEMMA ItemAdded ==
    ASSUME NEW list, ItemsOk(list), NEW id \in Ids, id \notin G!ToSet(list),
           NEW i \in 1..(Len(list) + 1)
    PROVE  ItemsOk(G!InsertAt(list, i, id))
<1>1. PICK a, b : a = SubSeq(list, 1, i - 1) /\ b = SubSeq(list, i, Len(list))
  OBVIOUS
<1>2. list \in Seq(Ids) /\ Len(list) \in Nat /\ DOMAIN list = 1..Len(list)
  BY LenProperties DEF ItemsOk
<1>3. \A k \in 1..Len(list) : list[k] \in Ids
  BY <1>2, ElementOfSeq
<1>4. /\ a \in Seq(Ids) /\ Len(a) = i - 1
      /\ \A k \in 1..(i - 1) : a[k] = list[k]
  <2>1. \A k \in 1..(i - 1) : list[k] \in Ids
    BY <1>2, <1>3
  <2>2. 1 \in Int /\ i - 1 \in Int /\ (1 <= i - 1 \/ i = 1)
    BY <1>2
  <2>3. QED
    BY <1>1, <2>1, <2>2, SubSeqProperties
<1>5. /\ b \in Seq(Ids) /\ Len(b) = Len(list) - i + 1
      /\ \A k \in 1..(Len(list) - i + 1) : b[k] = list[i + k - 1]
  <2>1. \A k \in i..Len(list) : list[k] \in Ids
    BY <1>2, <1>3
  <2>2. i \in Int /\ Len(list) \in Int /\ (i <= Len(list) \/ i = Len(list) + 1)
    BY <1>2
  <2>3. QED
    BY <1>1, <1>2, <2>1, <2>2, SubSeqProperties
<1>6. PICK new : new = (a \o <<id>>) \o b
  OBVIOUS
<1>7. /\ new \in Seq(Ids) /\ Len(new) = Len(list) + 1
      /\ \A k \in 1..(i - 1) : new[k] = list[k]
      /\ new[i] = id
      /\ \A k \in (i + 1)..(Len(list) + 1) : new[k] = list[k - 1]
  <2>1. PICK c : c = a \o <<id>>
    OBVIOUS
  <2>2. <<id>> \in Seq(Ids) /\ Len(<<id>>) = 1 /\ <<id>>[1] = id
    OBVIOUS
  <2>3. /\ c \in Seq(Ids) /\ Len(c) = i
        /\ \A k \in 1..i : c[k] = IF k <= i - 1 THEN a[k] ELSE <<id>>[k - (i - 1)]
    BY <1>2, <1>4, <2>1, <2>2, ConcatProperties
  <2>4. /\ \A k \in 1..(i - 1) : c[k] = list[k]
        /\ c[i] = id
    BY <1>2, <1>4, <2>2, <2>3
  <2>5. /\ new \in Seq(Ids) /\ Len(new) = Len(list) + 1
        /\ \A k \in 1..(Len(list) + 1) : new[k] = IF k <= i THEN c[k] ELSE b[k - i]
    <3>1. c \in Seq(Ids) /\ b \in Seq(Ids) /\ Len(c) + Len(b) = Len(list) + 1 /\ new = c \o b
      <4>1. new = c \o b
        BY <1>6, <2>1
      <4>2. c \in Seq(Ids) /\ Len(c) = i /\ b \in Seq(Ids) /\ Len(b) = Len(list) - i + 1
        BY <1>5, <2>3
      <4>3. QED
        BY <1>2, <4>1, <4>2
    <3>2. /\ c \o b \in Seq(Ids) /\ Len(c \o b) = Len(c) + Len(b)
          /\ \A k \in 1..(Len(c) + Len(b)) :
                (c \o b)[k] = IF k <= Len(c) THEN c[k] ELSE b[k - Len(c)]
      BY <3>1, ConcatProperties
    <3>3. Len(c) = i
      BY <2>3
    <3>4. QED
      BY <3>1, <3>2, <3>3
  <2>6. ASSUME NEW k \in (i + 1)..(Len(list) + 1)
        PROVE  new[k] = list[k - 1]
    <3>1. k - i \in 1..(Len(list) - i + 1) /\ i + (k - i) - 1 = k - 1
      BY <1>2
    <3>2. new[k] = b[k - i]
      BY <1>2, <2>5
    <3>3. QED
      BY <1>5, <3>1, <3>2
  <2>7. QED
    BY <1>2, <2>4, <2>5, <2>6
<1>8. \A k \in 1..Len(list) : list[k] # id
  BY <1>2 DEF G!ToSet
<1>9. \A k, l \in 1..Len(list) : list[k] = list[l] => k = l
  BY <1>2 DEF ItemsOk, G!IsInjective
<1>10. \A k, l \in 1..(Len(list) + 1) : new[k] = new[l] => k = l
  <2> SUFFICES ASSUME NEW k \in 1..(Len(list) + 1), NEW l \in 1..(Len(list) + 1),
                      new[k] = new[l]
               PROVE  k = l
    OBVIOUS
  <2> DEFINE from(j) == IF j < i THEN j ELSE j - 1
  <2>1. ASSUME NEW j \in 1..(Len(list) + 1), j # i
        PROVE  from(j) \in 1..Len(list) /\ new[j] = list[from(j)]
    <3>1. CASE j < i
      <4>1. j \in 1..(i - 1)
        BY <1>2, <3>1
      <4>2. new[j] = list[j]
        BY <1>7, <4>1
      <4>3. QED
        BY <1>2, <3>1, <4>2
    <3>2. CASE j > i
      <4>1. j \in (i + 1)..(Len(list) + 1)
        BY <1>2, <3>2
      <4>2. new[j] = list[j - 1]
        BY <1>7, <4>1
      <4>3. QED
        BY <1>2, <3>2, <4>2
    <3>3. QED
      BY <1>2, <2>1, <3>1, <3>2
  <2>2. CASE k = i \/ l = i
    <3> HIDE DEF from
    <3>1. QED
      BY <1>7, <1>8, <2>1, <2>2
  <2>3. CASE k # i /\ l # i
    <3>1. from(k) = from(l)
      <4> HIDE DEF from
      <4>1. QED
        BY <1>9, <2>1, <2>3
    <3>2. QED
      BY <1>2, <2>3, <3>1
  <2>4. QED
    BY <2>2, <2>3
<1>11. ItemsOk(new)
  <2>1. DOMAIN new = 1..(Len(list) + 1)
    BY <1>7, LenProperties
  <2>2. QED
    BY <1>7, <1>10, <2>1 DEF ItemsOk, G!IsInjective
<1>12. QED
  BY <1>1, <1>6, <1>11 DEF G!InsertAt

LEMMA ItemDropped ==
    ASSUME NEW list, ItemsOk(list), NEW i \in 1..Len(list)
    PROVE  ItemsOk(G!RemoveAt(list, i))
<1>1. PICK a, b : a = SubSeq(list, 1, i - 1) /\ b = SubSeq(list, i + 1, Len(list))
  OBVIOUS
<1>2. list \in Seq(Ids) /\ Len(list) \in Nat /\ i \in 1..Len(list)
  BY DEF ItemsOk
<1>3. \A k \in 1..Len(list) : list[k] \in Ids
  BY <1>2, ElementOfSeq
<1>4. /\ a \in Seq(Ids) /\ Len(a) = i - 1
      /\ \A k \in 1..(i - 1) : a[k] = list[k]
  <2>1. \A k \in 1..(i - 1) : list[k] \in Ids
    BY <1>2, <1>3
  <2>2. 1 \in Int /\ i - 1 \in Int /\ (1 <= i - 1 \/ i = 1)
    BY <1>2
  <2>3. QED
    BY <1>1, <2>1, <2>2, SubSeqProperties
<1>5. /\ b \in Seq(Ids) /\ Len(b) = Len(list) - i
      /\ \A k \in 1..(Len(list) - i) : b[k] = list[i + k]
  <2>1. \A k \in (i + 1)..Len(list) : list[k] \in Ids
    BY <1>2, <1>3
  <2>2. PICK m \in Int : m = i + 1 /\ (m <= Len(list) \/ i = Len(list))
    BY <1>2
  <2>3. /\ b \in Seq(Ids) /\ Len(b) = IF m <= Len(list) THEN Len(list) - m + 1 ELSE 0
        /\ \A k \in 1..(Len(list) - m + 1) : b[k] = list[m + k - 1]
    BY <1>1, <1>2, <2>1, <2>2, SubSeqProperties
  <2>4. Len(list) - m + 1 = Len(list) - i
    BY <1>2, <2>2
  <2>5. ASSUME NEW k \in 1..(Len(list) - i)
        PROVE  b[k] = list[i + k]
    <3>1. m + k - 1 = i + k
      BY <1>2, <2>2
    <3>2. b[k] = list[m + k - 1]
      BY <2>3, <2>4
    <3>3. QED
      BY <3>1, <3>2, Zenon
  <2>6. QED
    <3>1. Len(b) = Len(list) - i
      BY <1>2, <2>2, <2>3
    <3>2. QED
      BY <2>3, <2>5, <3>1
<1>6. PICK new : new = a \o b
  OBVIOUS
<1>7. /\ new \in Seq(Ids) /\ Len(new) = Len(list) - 1
      /\ \A k \in 1..(i - 1) : new[k] = list[k]
      /\ \A k \in i..(Len(list) - 1) : new[k] = list[k + 1]
  <2>1. /\ new \in Seq(Ids) /\ Len(new) = Len(list) - 1
        /\ \A k \in 1..(Len(list) - 1) : new[k] = IF k <= i - 1 THEN a[k] ELSE b[k - (i - 1)]
    <3>1. a \in Seq(Ids) /\ b \in Seq(Ids) /\ Len(a) + Len(b) = Len(list) - 1 /\ new = a \o b
      BY <1>2, <1>4, <1>5, <1>6
    <3>2. /\ a \o b \in Seq(Ids) /\ Len(a \o b) = Len(a) + Len(b)
          /\ \A k \in 1..(Len(a) + Len(b)) :
                (a \o b)[k] = IF k <= Len(a) THEN a[k] ELSE b[k - Len(a)]
      BY <3>1, ConcatProperties
    <3>3. Len(a) = i - 1
      BY <1>4
    <3>4. QED
      BY <3>1, <3>2, <3>3
  <2>2. ASSUME NEW k \in i..(Len(list) - 1)
        PROVE  new[k] = list[k + 1]
    <3>1. k - (i - 1) \in 1..(Len(list) - i) /\ i + (k - (i - 1)) = k + 1
      BY <1>2
    <3>2. new[k] = b[k - (i - 1)]
      BY <1>2, <2>1
    <3>3. QED
      BY <1>5, <3>1, <3>2
  <2>3. ASSUME NEW k \in 1..(i - 1)
        PROVE  new[k] = list[k]
    <3>1. k \in 1..(Len(list) - 1) /\ k <= i - 1
      BY <1>2
    <3>2. new[k] = a[k]
      BY <2>1, <3>1
    <3>3. QED
      BY <1>4, <3>2
  <2>4. QED
    BY <2>1, <2>2, <2>3
<1>8. \A k, l \in 1..Len(list) : list[k] = list[l] => k = l
  BY <1>2 DEF ItemsOk, G!IsInjective
<1>9. \A k, l \in 1..(Len(list) - 1) : new[k] = new[l] => k = l
  <2> SUFFICES ASSUME NEW k \in 1..(Len(list) - 1), NEW l \in 1..(Len(list) - 1),
                      new[k] = new[l]
               PROVE  k = l
    OBVIOUS
  <2> DEFINE from(j) == IF j < i THEN j ELSE j + 1
  <2>1. ASSUME NEW j \in 1..(Len(list) - 1)
        PROVE  from(j) \in 1..Len(list) /\ new[j] = list[from(j)]
    <3>1. CASE j < i
      <4>1. j \in 1..(i - 1)
        BY <1>2, <3>1
      <4>2. new[j] = list[j]
        BY <1>7, <4>1
      <4>3. QED
        BY <1>2, <3>1, <4>2
    <3>2. CASE j >= i
      <4>1. j \in i..(Len(list) - 1)
        BY <1>2, <3>2
      <4>2. new[j] = list[j + 1]
        BY <1>7, <4>1
      <4>3. QED
        BY <1>2, <3>2, <4>2
    <3>3. QED
      BY <1>2, <3>1, <3>2
  <2>2. from(k) = from(l)
    <3> HIDE DEF from
    <3>1. QED
      BY <1>8, <2>1
  <2>3. QED
    BY <1>2, <2>2
<1>10. ItemsOk(new)
  <2>1. DOMAIN new = 1..(Len(list) - 1)
    BY <1>7, LenProperties
  <2>2. QED
    BY <1>7, <1>9, <2>1 DEF ItemsOk, G!IsInjective
<1>11. QED
  BY <1>1, <1>6, <1>10 DEF G!RemoveAt

LEMMA PagingBegins ==
    ASSUME G!PagingAssumption, G!Init
    PROVE  PagingInv
<1>1. ItemsOk(<<>>)
  BY DEF ItemsOk, G!IsInjective
<1>2. QED
  BY <1>1 DEF G!Init, PagingInv, ScreenOk

LEMMA PagingStep ==
    ASSUME G!PagingAssumption, PagingInv, [G!Next]_(G!vars)
    PROVE  PagingInv'
<1>1. ASSUME NEW kind \in G!Kinds, NEW page, G!Show(kind, page)
      PROVE  PagingInv'
  <2>1. /\ page \in Nat /\ screen' = G!Screen(kind, page)
        /\ buttons' = [buttons EXCEPT ![kind] = buttons[kind] \cup screen'.nav]
        /\ items' = items /\ perPage' = perPage
    BY <1>1 DEF G!Show, PagingInv
  <2>2. ScreenOk(screen') /\ screen'.nav \subseteq Nat
    BY <2>1, ScreensShow DEF PagingInv, ItemsOk
  <2>3. buttons' \in [G!Kinds -> SUBSET Nat]
    BY <2>1, <2>2 DEF PagingInv
  <2>4. ItemsOk(items)' /\ ScreenOk(screen)'
    BY <2>1, <2>2 DEF PagingInv, ItemsOk, ScreenOk
  <2>5. QED
    BY <2>1, <2>3, <2>4 DEF PagingInv
<1>2. ASSUME UNCHANGED <<screen, buttons>>, ItemsOk(items'), perPage' \in PerPage
      PROVE  PagingInv'
  <2>1. ItemsOk(items)'
    BY <1>2 DEF ItemsOk
  <2>2. screen' = screen /\ buttons' = buttons
    BY <1>2
  <2>3. ScreenOk(screen)'
    BY <2>2 DEF PagingInv, ScreenOk
  <2>4. QED
    BY <1>2, <2>1, <2>2, <2>3 DEF PagingInv
<1>3. ASSUME NEW id \in Ids, NEW i \in 1..(Len(items) + 1), G!Add(id, i)
      PROVE  PagingInv'
  BY <1>2, <1>3, ItemAdded DEF G!Add, PagingInv
<1>4. ASSUME NEW i \in DOMAIN items, G!Drop(i)
      PROVE  PagingInv'
  <2>1. i \in 1..Len(items)
    BY <1>4 DEF PagingInv, ItemsOk
  <2>2. QED
    BY <1>2, <1>4, <2>1, ItemDropped DEF G!Drop, PagingInv
<1>5. ASSUME NEW n \in PerPage, G!SetPerPage(n)
      PROVE  PagingInv'
  BY <1>2, <1>5 DEF G!SetPerPage, PagingInv
<1>6. CASE UNCHANGED G!vars
  BY <1>2, <1>6 DEF G!vars, PagingInv
<1>7. QED
  BY <1>1, <1>3, <1>4, <1>5, <1>6 DEF G!Next

LEMMA PagingHolds ==
    ASSUME PagingInv
    PROVE  G!PagesAreTheList
<1>1. /\ ItemsOk(items) /\ perPage \in PerPage /\ buttons \in [G!Kinds -> SUBSET Nat]
      /\ G!IsInjective(items) /\ G!ToSet(items) \subseteq Ids
  <2>1. \A i \in DOMAIN items : items[i] \in Ids
    BY ElementOfSeq, LenProperties DEF PagingInv, ItemsOk
  <2>2. QED
    BY <2>1 DEF PagingInv, ItemsOk, G!ToSet
<1>2. CASE screen = G!NoScreen
  <2>1. screen.kind = "none" /\ screen.page = 0 /\ screen.total = 1 /\ screen.nav = {}
    BY <1>2 DEF G!NoScreen
  <2>2. QED
    BY <1>1, <2>1 DEF G!PagesAreTheList, G!TypeOK, G!LinesAreTheButtons,
                      G!EverythingIsReached, G!Shown
<1>3. ASSUME NEW list \in Seq(Ids), NEW size \in Nat \ {0}, NEW page \in Nat,
             Shows(screen, list, size, page)
      PROVE  G!PagesAreTheList
  <2>1. PICK total : total = G!TotalPages(Len(list), size)
    OBVIOUS
  <2>2. /\ screen.kind \in G!Kinds /\ screen.list = list /\ screen.size = size
        /\ screen.total = total /\ screen.page = page /\ page \in 0..(total - 1)
        /\ screen.rows = RowsAt(list, page, size) /\ screen.body = screen.rows
        /\ screen.nav = {p \in 0..(total - 1) : p = page - 1 \/ p = page + 1}
    BY <1>3, <2>1 DEF Shows, IsPage
  <2>3. total \in Nat \ {0}
    <3>1. Len(list) \in Nat
      OBVIOUS
    <3>2. QED
      BY <2>1, <3>1, PagesTotal
  <2>4. G!TypeOK
    BY <1>1, <2>2, <2>3 DEF G!TypeOK
  <2>5. G!LinesAreTheButtons
    <3>1. list # <<>> => RowsAt(list, page, size) # <<>>
      BY <2>1, <2>2, PageOfList
    <3>2. QED
      BY <2>2, <3>1 DEF G!LinesAreTheButtons
  <2>6. ASSUME NEW p \in 0..(total - 1)
        PROVE  /\ G!Pages[p + 1].rows = RowsAt(list, p, size)
               /\ G!Pages[p + 1].nav = {q \in 0..(total - 1) : q = p - 1 \/ q = p + 1}
    <3>1. p + 1 \in 1..total /\ (p + 1) - 1 = p /\ p \in Int
      BY <2>3
    <3>2. G!Pages[p + 1] = G!Paginate(list, p, size)
      BY <2>2, <3>1 DEF G!Pages
    <3>3. IsPage(G!Paginate(list, p, size), list, size, G!Clamp(Len(list), size, p))
          /\ G!Clamp(Len(list), size, p) = p
      BY <2>1, <3>1, Paginated
    <3>4. IsPage(G!Pages[p + 1], list, size, p)
      BY <3>2, <3>3, Zenon
    <3>5. QED
      BY <2>1, <3>4 DEF IsPage
  <2>7. G!FlattenSeq([p \in 1..screen.total |-> G!Pages[p].rows]) = list
    <3>1. PICK pages : pages = [p \in 1..total |-> RowsAt(list, p - 1, size)]
      OBVIOUS
    <3>2. ASSUME NEW p \in 1..total
          PROVE  G!Pages[p].rows = RowsAt(list, p - 1, size)
      <4>1. p - 1 \in 0..(total - 1) /\ (p - 1) + 1 = p
        BY <2>3
      <4>2. G!Pages[(p - 1) + 1].rows = RowsAt(list, p - 1, size)
        BY <2>6, <4>1
      <4>3. QED
        BY <4>1, <4>2, Zenon
    <3>3. [p \in 1..screen.total |-> G!Pages[p].rows] = pages
      BY <2>2, <3>1, <3>2
    <3>4. G!FlattenSeq(pages) = list
      BY <2>1, <3>1, PagesAreList
    <3>5. QED
      BY <3>3, <3>4, Zenon
  <2>8. ArrowsLead
    BY <2>2, <2>3, <2>6 DEF ArrowsLead
  <2>9. G!EverythingIsReached
    BY <2>2, <2>7, <2>8, ArrowsReachAll DEF G!EverythingIsReached
  <2>10. QED
    BY <2>4, <2>5, <2>9 DEF G!PagesAreTheList
<1>4. QED
  BY <1>2, <1>3 DEF PagingInv, ScreenOk

\* Lists in pages, of any length and with pages of any size: whatever page an old button asks
\* for, the screen shows lines if there are any, the buttons are those lines, and the arrows
\* lead through the whole list, each item once.
THEOREM PagesKept ==
    ASSUME G!PagingAssumption
    PROVE  G!Spec => []G!PagesAreTheList
<1>1. G!Init => PagingInv
  BY PagingBegins
<1>2. PagingInv /\ [G!Next]_(G!vars) => PagingInv'
  BY PagingStep
<1>3. PagingInv => G!PagesAreTheList
  BY PagingHolds
<1>4. QED
  BY <1>1, <1>2, <1>3, PTL DEF G!Spec
=============================================================================
