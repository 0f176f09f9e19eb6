----------------------------- MODULE Requisites -----------------------------
(***************************************************************************)
(* Bank details for transfers: db/requisites.py, the staff dialogues over  *)
(* them in handlers/admin/requisites.py, their assignment to clients in    *)
(* handlers/admin/people.py, and billing.transfer_method, which picks the  *)
(* details a client is shown.                                              *)
(*                                                                         *)
(* Staff tap buttons of any age, so every operation may come for details   *)
(* that were disabled or deleted meanwhile.                                *)
(***************************************************************************)
EXTENDS Naturals, FiniteSets

CONSTANTS
    MaxMethods,     \* bound on rows of payment_methods; ids are given in order
    Clients,
    Staff,
    MaxSteps        \* bound on operations

RequisitesAssumption == MaxMethods \in Nat /\ MaxSteps \in Nat

VARIABLES
    method,     \* the rows
    last,       \* the last id given
    assigned,   \* payment_method_id of each client, 0 for none
    forAll,     \* transfer_for_all
    tap,        \* what a member of staff has read and will write
    steps

vars == <<method, last, assigned, forAll, tap, steps>>

Methods == 1..MaxMethods
NoRow == [active |-> FALSE, deleted |-> FALSE, default |-> FALSE]
NoTap == [op |-> "none"]

UsableNow == {m \in 1..last : method[m].active /\ ~method[m].deleted}
Defaults == {m \in UsableNow : method[m].default}

Counts == steps < MaxSteps /\ steps' = steps + 1
Lowest(S) == CHOOSE m \in S : \A n \in S : m <= n

\* _promote_default_if_needed: the default is handed to the first other usable row.
Promoted(rows, m) ==
    IF ~rows[m].default THEN rows
    ELSE LET others == UsableNow \ {m} IN
         [n \in Methods |->
            [rows[n] EXCEPT !.default = others # {} /\ n = Lowest(others)]]

-----------------------------------------------------------------------------
(* Operations of the database, a transaction each *)

\* Mutant: new details become the default.
CreateAsDefault ==
    /\ Counts /\ last < MaxMethods /\ last' = last + 1
    /\ method' = [method EXCEPT ![last'] =
                     [active |-> TRUE, deleted |-> FALSE, default |-> TRUE]]
    /\ UNCHANGED <<assigned, forAll, tap>>

\* create: the first usable details are the default.
Create ==
    /\ Counts /\ last < MaxMethods /\ last' = last + 1
    /\ method' = [method EXCEPT ![last'] =
                     [active |-> TRUE, deleted |-> FALSE, default |-> Defaults = {}]]
    /\ UNCHANGED <<assigned, forAll, tap>>

\* set_default.
MakeDefault(m) ==
    /\ Counts /\ m \in UsableNow
    /\ method' = [n \in Methods |-> [method[n] EXCEPT !.default = n = m]]
    /\ UNCHANGED <<last, assigned, forAll, tap>>

\* delete.
Delete(m) ==
    /\ Counts /\ m <= last
    /\ method' = [Promoted(method, m) EXCEPT ![m] =
                     [active |-> FALSE, deleted |-> TRUE, default |-> FALSE]]
    /\ assigned' = [c \in Clients |-> IF assigned[c] = m THEN 0 ELSE assigned[c]]
    /\ UNCHANGED <<last, forAll, tap>>

-----------------------------------------------------------------------------
(* Dialogues that read first *)

\* method_toggle reads the row, deleted or not.
ToggleRead(s, m) ==
    /\ tap[s] = NoTap /\ m <= last
    /\ tap' = [tap EXCEPT ![s] = [op |-> "toggle", method |-> m,
                                  active |-> ~method[m].active]]
    /\ UNCHANGED <<method, last, assigned, forAll, steps>>

\* update: details that are disabled hand on the default.
Toggle(s) ==
    /\ Counts /\ tap[s].op = "toggle" /\ tap' = [tap EXCEPT ![s] = NoTap]
    /\ LET m == tap[s].method
           rows == [method EXCEPT ![m].active = tap[s].active] IN
       method' = IF tap[s].active THEN rows ELSE Promoted(rows, m)
    /\ UNCHANGED <<last, assigned, forAll>>

\* payment_method_set finds the details usable, or is to take the assignment away.
AssignRead(s, c, m) ==
    /\ tap[s] = NoTap /\ m \in UsableNow \cup {0}
    /\ tap' = [tap EXCEPT ![s] = [op |-> "assign", client |-> c, method |-> m]]
    /\ UNCHANGED <<method, last, assigned, forAll, steps>>

Assign(s) ==
    /\ Counts /\ tap[s].op = "assign" /\ tap' = [tap EXCEPT ![s] = NoTap]
    /\ assigned' = [assigned EXCEPT ![tap[s].client] = tap[s].method]
    /\ UNCHANGED <<method, last, forAll>>

\* The setting transfer_for_all.
SetForAll ==
    /\ Counts /\ forAll' = ~forAll
    /\ UNCHANGED <<method, last, assigned, tap>>

-----------------------------------------------------------------------------
(* What a client is shown *)

DefaultOrNone == IF Defaults = {} THEN 0 ELSE CHOOSE m \in Defaults : TRUE

\* for_user.
ForUser(c) == IF assigned[c] \in UsableNow THEN assigned[c] ELSE DefaultOrNone

\* transfer_method, for a product with a price in rubles.
TransferMethod(c) == IF assigned[c] = 0 /\ ~forAll THEN 0 ELSE ForUser(c)

-----------------------------------------------------------------------------

Init ==
    /\ method = [m \in Methods |-> NoRow] /\ last = 0
    /\ assigned = [c \in Clients |-> 0] /\ forAll \in BOOLEAN
    /\ tap = [s \in Staff |-> NoTap] /\ steps = 0

Next ==
    \/ Create \/ SetForAll
    \/ \E m \in Methods : MakeDefault(m) \/ Delete(m)
    \/ \E s \in Staff :
          \/ \E m \in Methods : ToggleRead(s, m)
          \/ \E c \in Clients, m \in Methods \cup {0} : AssignRead(s, c, m)
          \/ Toggle(s) \/ Assign(s)

Spec == Init /\ [][Next]_vars

-----------------------------------------------------------------------------
(* Properties *)

Taps == {NoTap} \cup [op : {"toggle"}, method : Methods, active : BOOLEAN]
                \cup [op : {"assign"}, client : Clients, method : Methods \cup {0}]

\* Types; what was never created is empty, and nobody has it.
TypeOK ==
    /\ method \in [Methods -> [active : BOOLEAN, deleted : BOOLEAN, default : BOOLEAN]]
    /\ last \in 0..MaxMethods /\ assigned \in [Clients -> 0..last] /\ forAll \in BOOLEAN
    /\ tap \in [Staff -> Taps]
    /\ \A m \in Methods : m > last => method[m] = NoRow

\* get_default takes any row it finds: at most one is the default, and it is one that
\* clients may pay to, whatever old buttons staff press.
OneUsableDefault ==
    \A m, n \in Methods : method[m].default => /\ m \in UsableNow
                                               /\ method[n].default => m = n

\* Details that are disabled or deleted hand the default on: as long as some are left,
\* no operation leaves the other clients without.
DefaultIsHandedOnStep ==
    Defaults # {} => Defaults' # {} \/ UsableNow' = {}
DefaultIsHandedOn == [][DefaultIsHandedOnStep]_vars

\* Deleted details never come back to a client, by an old button or an assignment that
\* was under way.
DeletedIsNotShownStep ==
    \A m \in Methods : method[m].deleted =>
       /\ method'[m].deleted
       /\ \A c \in Clients : TransferMethod(c)' # m
DeletedIsNotShown == [][DeletedIsNotShownStep]_vars

\* "Delete these details?  Clients assigned to them fall back to the default ones."
\* The code does not keep it: see Disagreements in README.md.
AssignedFallBack ==
    [][\A m \in Methods : Delete(m) =>
          \A c \in Clients : TransferMethod(c) = m => TransferMethod(c)' = DefaultOrNone']_vars
=============================================================================
