-------------------------- MODULE RequisitesProofs --------------------------
(***************************************************************************)
(* What Requisites promises, for any number of bank details, clients,      *)
(* staff and operations.  The default is a usable row and the only one     *)
(* (OneUsableDefault); beside the types this is inductive, because         *)
(* disabling and deleting hand the default on in the same transaction.     *)
(***************************************************************************)
EXTENDS MCRecords, Sequences, WellFoundedInduction, TLAPS

Row == [active : BOOLEAN, deleted : BOOLEAN, default : BOOLEAN]

\* A button in hand names details that were created.
TapsKnown == \A s \in Staff : tap[s] # NoTap => tap[s].method <= last

IInv == TypeOK /\ TapsKnown /\ OneUsableDefault

-----------------------------------------------------------------------------
(* Handing on the default *)

\* The first of some rows is one of them.
LEMMA LowestIsIn ==
    ASSUME NEW S, S \subseteq Nat, S # {}
    PROVE  Lowest(S) \in S
<1> DEFINE Less == {ss \in Nat \X Nat : ss[1] < ss[2]}
<1>1. IsWellFoundedOn(Less, Nat)
  BY NatLessThanWellFounded DEF OpToRel
<1>2. PICK m \in S : \A n \in S : ~(<<n, m>> \in Less)
  <2> HIDE DEF Less
  <2> QED
    BY <1>1, WFMin
<1>3. ASSUME NEW n \in S PROVE m <= n
  <2>1. m \in Nat /\ n \in Nat
    OBVIOUS
  <2>2. ~(n < m)
    BY <1>2, <2>1
  <2> QED
    BY <2>1, <2>2
<1> QED
  BY <1>3 DEF Lowest

Others(m) == UsableNow \ {m}

\* A row that is switched on or off keeps its other fields, and other rows stay.
LEMMA SwitchedRows ==
    ASSUME NEW rows \in [Methods -> Row], NEW m \in Methods, NEW b \in BOOLEAN,
           NEW new, new = [rows EXCEPT ![m].active = b]
    PROVE  /\ new \in [Methods -> Row] /\ new[m].active = b
           /\ \A n \in Methods \ {m} : new[n] = rows[n]
           /\ \A n \in Methods : new[n].default = rows[n].default
                                 /\ new[n].deleted = rows[n].deleted
  BY DEF Row

\* _promote_default_if_needed moves the default and nothing else.
LEMMA PromotedRows ==
    ASSUME TypeOK, NEW m \in Methods,
           NEW rows \in [Methods -> Row]
    PROVE  /\ Promoted(rows, m) \in [Methods -> Row]
           /\ \A n \in Methods : /\ Promoted(rows, m)[n].active = rows[n].active
                                 /\ Promoted(rows, m)[n].deleted = rows[n].deleted
           /\ ~rows[m].default => Promoted(rows, m) = rows
           /\ rows[m].default => \A n \in Methods :
                 Promoted(rows, m)[n].default <=> Others(m) # {} /\ n = Lowest(Others(m))
  BY DEF Promoted, Others, Row

LEMMA OthersAreMethods ==
    ASSUME RequisitesAssumption, TypeOK, NEW m \in Methods
    PROVE  /\ Others(m) \subseteq Methods
           /\ Others(m) # {} => Lowest(Others(m)) \in Others(m)
<1>1. Others(m) \subseteq Methods /\ Methods \subseteq Nat
  BY DEF Others, UsableNow, TypeOK, RequisitesAssumption, Methods
<1> QED
  BY <1>1, LowestIsIn

-----------------------------------------------------------------------------
(* Types *)

\* Rows whose default is handed on and that are empty above last stay empty there.
LEMMA EmptyAboveLast ==
    ASSUME RequisitesAssumption, TypeOK, NEW m \in Methods, m <= last,
           NEW rows \in [Methods -> Row],
           \A n \in Methods : n > last => rows[n] = NoRow,
           NEW n \in Methods, n > last
    PROVE  Promoted(rows, m)[n] = NoRow
<1>1. n \notin Others(m)
  BY DEF Others, UsableNow, TypeOK, Methods, RequisitesAssumption
<1>2. /\ Promoted(rows, m)[n] \in Row /\ Promoted(rows, m)[n].active = FALSE
      /\ Promoted(rows, m)[n].deleted = FALSE
  BY PromotedRows DEF NoRow
<1>3. Promoted(rows, m)[n].default = FALSE
  <2>1. CASE rows[m].default
    <3>1. Promoted(rows, m)[n].default <=> Others(m) # {} /\ n = Lowest(Others(m))
      BY <2>1, PromotedRows
    <3>2. ~ (Others(m) # {} /\ n = Lowest(Others(m)))
      BY <1>1, OthersAreMethods
    <3>3. Promoted(rows, m)[n].default \in BOOLEAN
      BY <1>2 DEF Row
    <3> QED
      BY <3>1, <3>2, <3>3
  <2>2. CASE ~rows[m].default
    BY <2>2, PromotedRows DEF NoRow
  <2> QED
    BY <2>1, <2>2
<1> QED
  BY <1>2, <1>3 DEF NoRow, Row

LEMMA Types ==
    ASSUME RequisitesAssumption, TypeOK, TapsKnown, [Next]_vars
    PROVE  TypeOK' /\ TapsKnown'
<1> DEFINE Known ==
        /\ method \in [Methods -> Row] /\ last \in 0..MaxMethods
        /\ \A n \in Methods : n > last => method[n] = NoRow
<1> USE DEF RequisitesAssumption
<1>0. /\ Known /\ Methods = 1..MaxMethods /\ last \in Nat
      /\ assigned \in [Clients -> 0..last] /\ forAll \in BOOLEAN /\ tap \in [Staff -> Taps]
  BY DEF TypeOK, Row, Methods
<1>1. CASE Create
  <2>1. last + 1 \in Methods /\ last' = last + 1
    BY <1>0, <1>1 DEF Create
  <2> DEFINE new == [active |-> TRUE, deleted |-> FALSE, default |-> Defaults = {}]
  <2>a. new \in Row /\ method' = [method EXCEPT ![last + 1] = new]
    BY <1>1, <2>1 DEF Create, Row
  <2> HIDE DEF new
  <2>2. Known'
    BY <1>0, <2>1, <2>a
  <2>3. assigned' \in [Clients -> 0..last']
    BY <1>0, <1>1, <2>1 DEF Create
  <2>4. TapsKnown'
    BY <1>0, <1>1, <2>1 DEF Create, TapsKnown, Taps, NoTap
  <2> QED
    BY <1>0, <1>1, <2>2, <2>3, <2>4 DEF Create, TypeOK, Row
<1>2. CASE SetForAll
  BY <1>2 DEF TypeOK, SetForAll, TapsKnown
<1>3. ASSUME NEW m \in Methods, MakeDefault(m) PROVE TypeOK' /\ TapsKnown'
  <2>1. m \in 1..last
    BY <1>3 DEF MakeDefault, UsableNow
  <2>2. /\ method' = [n \in Methods |-> [method[n] EXCEPT !.default = n = m]]
        /\ last' = last
    BY <1>3 DEF MakeDefault
  <2>3. method' \in [Methods -> Row]
    BY <1>0, <2>2 DEF Row
  <2>4. ASSUME NEW n \in Methods, n > last PROVE method'[n] = NoRow
    <3>1. n # m /\ method'[n] \in Row
      BY <1>0, <2>1, <2>3, <2>4
    <3>2. method'[n] = [method[n] EXCEPT !.default = FALSE] /\ method[n] = NoRow
      BY <1>0, <2>2, <2>4, <3>1
    <3>3. /\ method'[n].default = FALSE /\ method'[n].active = FALSE
          /\ method'[n].deleted = FALSE
      BY <3>2 DEF NoRow
    <3> QED
      BY <3>1, <3>3 DEF NoRow, Row
  <2> QED
    BY <1>0, <1>3, <2>2, <2>3, <2>4 DEF MakeDefault, TypeOK, TapsKnown, Row
<1>4. ASSUME NEW m \in Methods, Delete(m) PROVE TypeOK' /\ TapsKnown'
  <2>1. m <= last /\ last' = last
    BY <1>4 DEF Delete
  <2>2. Promoted(method, m) \in [Methods -> Row]
    BY <1>0, PromotedRows
  <2>3. method' \in [Methods -> Row]
    BY <1>4, <2>2 DEF Delete, Row
  <2>4. ASSUME NEW n \in Methods, n > last PROVE method'[n] = NoRow
    <3>1. n # m /\ Promoted(method, m)[n] = NoRow
      BY <1>0, <2>1, <2>4, EmptyAboveLast
    <3> QED
      BY <1>4, <2>2, <3>1 DEF Delete
  <2>5. assigned' \in [Clients -> 0..last]
    BY <1>0, <1>4 DEF Delete
  <2> QED
    BY <1>0, <1>4, <2>1, <2>3, <2>4, <2>5 DEF Delete, TypeOK, TapsKnown, Row
<1>5. ASSUME NEW s \in Staff, NEW m \in Methods, ToggleRead(s, m)
      PROVE  TypeOK' /\ TapsKnown'
  <2> DEFINE new == [op |-> "toggle", method |-> m, active |-> ~method[m].active]
  <2>1. new \in Taps /\ new.method = m
    BY <1>0 DEF Row, Taps
  <2>2. m <= last /\ tap' = [tap EXCEPT ![s] = new] /\ last' = last
    BY <1>5 DEF ToggleRead
  <2> HIDE DEF new
  <2>3. tap' \in [Staff -> Taps] /\ TapsKnown'
    BY <1>0, <2>1, <2>2 DEF TapsKnown
  <2> QED
    BY <1>5, <2>3 DEF ToggleRead, TypeOK
<1>6. ASSUME NEW s \in Staff, NEW c \in Clients, NEW m \in Methods \cup {0},
             AssignRead(s, c, m)
      PROVE  TypeOK' /\ TapsKnown'
  <2>1. m <= last
    BY <1>0, <1>6 DEF AssignRead, UsableNow
  <2>2. tap' \in [Staff -> Taps]
    BY <1>0, <1>6 DEF AssignRead, Taps
  <2>3. TapsKnown'
    BY <1>0, <1>6, <2>1 DEF AssignRead, TapsKnown
  <2> QED
    BY <1>6, <2>2, <2>3 DEF AssignRead, TypeOK
<1>7. ASSUME NEW s \in Staff, Toggle(s) PROVE TypeOK' /\ TapsKnown'
  <2> DEFINE m == tap[s].method
             rows == [method EXCEPT ![m].active = tap[s].active]
  <2>1. m \in Methods /\ tap[s].active \in BOOLEAN /\ m <= last
    BY <1>0, <1>7 DEF Toggle, Taps, NoTap, TapsKnown
  <2>2. rows \in [Methods -> Row] /\ \A n \in Methods : n > last => rows[n] = NoRow
    <3>a. method \in [Methods -> Row] /\ rows = [method EXCEPT ![m].active = tap[s].active]
      BY <1>0
    <3>1. /\ rows \in [Methods -> Row]
          /\ \A n \in Methods \ {m} : rows[n] = method[n]
      <4> HIDE DEF m, rows
      <4> QED
        BY ONLY <2>1, <3>a, SwitchedRows
    <3>2. \A n \in Methods : n > last => n # m /\ method[n] = NoRow
      BY <1>0, <2>1
    <3> QED
      BY <3>1, <3>2
  <2>3. method' = rows \/ method' = Promoted(rows, m)
    BY <1>7 DEF Toggle
  <2>4. last' = last /\ assigned' = assigned /\ forAll' = forAll
        /\ tap' = [tap EXCEPT ![s] = NoTap]
    BY <1>7 DEF Toggle
  <2> HIDE DEF m, rows
  <2>5. Known'
    <3>1. CASE method' = rows
      BY <1>0, <2>2, <2>4, <3>1
    <3>2. CASE method' = Promoted(rows, m)
      <4>1. method' \in [Methods -> Row]
        BY <2>1, <2>2, <3>2, PromotedRows
      <4>2. \A n \in Methods : n > last => method'[n] = NoRow
        BY <2>1, <2>2, <3>2, EmptyAboveLast
      <4> QED
        BY <1>0, <2>4, <4>1, <4>2
    <3> QED
      BY <2>3, <3>1, <3>2
  <2>6. tap' \in [Staff -> Taps] /\ TapsKnown'
    BY <1>0, <2>4 DEF Taps, TapsKnown
  <2> QED
    BY <1>0, <2>4, <2>5, <2>6 DEF TypeOK, Row
<1>8. ASSUME NEW s \in Staff, Assign(s) PROVE TypeOK' /\ TapsKnown'
  <2>1. tap[s].client \in Clients /\ tap[s].method \in 0..last
    BY <1>0, <1>8 DEF Assign, Taps, NoTap, TapsKnown
  <2>2. assigned' \in [Clients -> 0..last]
    BY <1>0, <1>8, <2>1 DEF Assign
  <2>3. tap' \in [Staff -> Taps] /\ TapsKnown'
    BY <1>0, <1>8 DEF Assign, Taps, TapsKnown
  <2> QED
    BY <1>8, <2>2, <2>3 DEF Assign, TypeOK
<1>9. CASE UNCHANGED vars
  BY <1>9 DEF TypeOK, TapsKnown, vars
<1> QED
  BY <1>1, <1>2, <1>3, <1>4, <1>5, <1>6, <1>7, <1>8, <1>9 DEF Next

LEMMA InitialTypes == ASSUME RequisitesAssumption, Init PROVE IInv
<1>1. method \in [Methods -> Row] /\ \A m \in Methods : method[m] = NoRow
  BY DEF Init, Row, NoRow
<1>2. TypeOK
  BY <1>1 DEF Init, TypeOK, Row, Taps, RequisitesAssumption
<1>3. TapsKnown
  BY DEF Init, TapsKnown
<1>4. OneUsableDefault
  BY <1>1 DEF OneUsableDefault, NoRow
<1> QED
  BY <1>2, <1>3, <1>4 DEF IInv

-----------------------------------------------------------------------------
(* The default *)

\* Only the default among the rows that stay usable is the default after it is handed on.
LEMMA HandedOn ==
    ASSUME RequisitesAssumption, IInv, NEW m \in Methods, NEW rows \in [Methods -> Row],
           \A n \in Methods : rows[n].default = method[n].default,
           NEW a \in Methods, Promoted(rows, m)[a].default
    PROVE  /\ a # m /\ a \in UsableNow
           /\ \A b \in Methods : Promoted(rows, m)[b].default => a = b
<1>0. TypeOK /\ OneUsableDefault
  BY DEF IInv
<1>1. CASE rows[m].default
  <2>1. \A n \in Methods :
           Promoted(rows, m)[n].default <=> Others(m) # {} /\ n = Lowest(Others(m))
    BY <1>0, <1>1, PromotedRows
  <2>2. a = Lowest(Others(m)) /\ a \in Others(m)
    BY <1>0, <2>1, OthersAreMethods
  <2> QED
    BY <2>1, <2>2 DEF Others
<1>2. CASE ~rows[m].default
  <2>1. Promoted(rows, m) = rows
    BY <1>0, <1>2, PromotedRows
  <2>2. method[a].default /\ ~method[m].default
    BY <1>2, <2>1
  <2>3. \A b \in Methods : Promoted(rows, m)[b].default => method[b].default
    BY <2>1
  <2> QED
    BY <1>0, <2>2, <2>3 DEF OneUsableDefault
<1>3. rows[m].default \in BOOLEAN
  BY DEF Row
<1> QED
  BY <1>1, <1>2, <1>3

\* Every operation leaves one usable default, or none.
LEMMA Default ==
    ASSUME RequisitesAssumption, IInv, [Next]_vars
    PROVE  OneUsableDefault'
<1>0. /\ TypeOK /\ OneUsableDefault /\ TapsKnown
      /\ method \in [Methods -> Row] /\ Methods = 1..MaxMethods /\ last \in Nat
      /\ MaxMethods \in Nat /\ last <= MaxMethods /\ tap \in [Staff -> Taps]
  BY DEF IInv, TypeOK, Row, Methods, RequisitesAssumption
<1>1. CASE Create
  <2>1. /\ last' = last + 1 /\ last' \in Methods /\ method[last'] = NoRow
        /\ method' = [method EXCEPT ![last'] =
                        [active |-> TRUE, deleted |-> FALSE, default |-> Defaults = {}]]
    BY <1>0, <1>1 DEF Create, TypeOK
  <2>2. UsableNow \subseteq UsableNow' /\ last' \in UsableNow'
    BY <1>0, <2>1 DEF UsableNow
  <2>3. ASSUME NEW m \in Methods, method'[m].default
        PROVE  m \in UsableNow' /\ (m = last' => Defaults = {})
                                /\ (m # last' => method[m].default /\ m \in Defaults)
    BY <1>0, <2>1, <2>2, <2>3 DEF OneUsableDefault, Defaults
  <2> QED
    BY <1>0, <2>3 DEF OneUsableDefault
<1>2. ASSUME NEW m \in Methods, MakeDefault(m) PROVE OneUsableDefault'
  <2>1. /\ \A n \in Methods : /\ method'[n].default = (n = m)
                              /\ method'[n].active = method[n].active
                              /\ method'[n].deleted = method[n].deleted
        /\ last' = last /\ m \in UsableNow
    BY <1>0, <1>2 DEF MakeDefault, Row
  <2>2. UsableNow' = UsableNow
    BY <1>0, <2>1 DEF UsableNow
  <2> QED
    BY <2>1, <2>2 DEF OneUsableDefault
<1>3. ASSUME NEW m \in Methods, Delete(m) PROVE OneUsableDefault'
  <2>1. Promoted(method, m) \in [Methods -> Row]
    BY <1>0, PromotedRows
  <2>2. /\ last' = last /\ ~method'[m].default
        /\ \A n \in Methods \ {m} : method'[n] = Promoted(method, m)[n]
    BY <1>3, <2>1 DEF Delete
  <2>3. \A n \in Methods \ {m} : /\ method'[n].active = method[n].active
                                 /\ method'[n].deleted = method[n].deleted
    BY <1>0, <2>2, PromotedRows
  <2>4. UsableNow \ {m} \subseteq UsableNow'
    BY <1>0, <2>2, <2>3 DEF UsableNow
  <2>5. ASSUME NEW a \in Methods, method'[a].default
        PROVE  /\ a \in UsableNow'
               /\ \A b \in Methods : method'[b].default => a = b
    <3>1. a # m /\ Promoted(method, m)[a].default
      BY <2>2, <2>5
    <3> QED
      BY <1>0, <2>2, <2>4, <3>1, HandedOn
  <2> QED
    BY <2>5 DEF OneUsableDefault
<1>4. ASSUME NEW s \in Staff, Toggle(s) PROVE OneUsableDefault'
  <2> DEFINE m == tap[s].method
             rows == [method EXCEPT ![m].active = tap[s].active]
  <2>1. m \in Methods /\ tap[s].active \in BOOLEAN
    BY <1>0, <1>4 DEF Toggle, Taps, NoTap
  <2>2. /\ rows \in [Methods -> Row] /\ rows[m].active = tap[s].active
        /\ \A n \in Methods : /\ rows[n].default = method[n].default
                              /\ rows[n].deleted = method[n].deleted
        /\ \A n \in Methods \ {m} : rows[n].active = method[n].active
    <3>1. method \in [Methods -> Row] /\ rows = [method EXCEPT ![m].active = tap[s].active]
      BY <1>0
    <3> HIDE DEF m, rows
    <3>2. /\ rows \in [Methods -> Row] /\ rows[m].active = tap[s].active
          /\ \A n \in Methods \ {m} : rows[n] = method[n]
          /\ \A n \in Methods : /\ rows[n].default = method[n].default
                                /\ rows[n].deleted = method[n].deleted
      BY ONLY <2>1, <3>1, SwitchedRows
    <3> QED
      BY <3>2
  <2>3. method' = (IF tap[s].active THEN rows ELSE Promoted(rows, m)) /\ last' = last
    BY <1>4 DEF Toggle
  <2> HIDE DEF m, rows
  <2>4. CASE tap[s].active
    <3>1. method' = rows
      BY <2>3, <2>4
    <3>2. ASSUME NEW n \in UsableNow PROVE method'[n].active /\ ~method'[n].deleted
      <4>1. n \in Methods /\ method[n].active /\ ~method[n].deleted
        BY <1>0 DEF UsableNow
      <4>2. CASE n = m
        BY <2>2, <2>4, <3>1, <4>1, <4>2
      <4>3. CASE n # m
        BY <2>2, <3>1, <4>1, <4>3
      <4> QED
        BY <4>2, <4>3
    <3>3. UsableNow \subseteq UsableNow'
      BY <1>0, <2>3, <3>2 DEF UsableNow
    <3> QED
      BY <1>0, <2>2, <3>1, <3>3 DEF OneUsableDefault
  <2>5. CASE ~tap[s].active
    <3>1. method' = Promoted(rows, m)
      BY <2>3, <2>5
    <3>2. \A n \in Methods \ {m} : /\ method'[n].active = method[n].active
                                   /\ method'[n].deleted = method[n].deleted
      BY <1>0, <2>1, <2>2, <3>1, PromotedRows
    <3>3. UsableNow \ {m} \subseteq UsableNow'
      BY <1>0, <2>3, <3>2 DEF UsableNow
    <3>4. ASSUME NEW a \in Methods, method'[a].default
          PROVE  /\ a \in UsableNow'
                 /\ \A b \in Methods : method'[b].default => a = b
      BY <2>1, <2>2, <3>1, <3>3, <3>4, HandedOn
    <3> QED
      BY <3>4 DEF OneUsableDefault
  <2> QED
    BY <2>1, <2>4, <2>5
<1>5. CASE UNCHANGED <<method, last>>
  BY <1>0, <1>5 DEF OneUsableDefault, UsableNow
<1> QED
  BY <1>1, <1>2, <1>3, <1>4, <1>5 DEF Next, vars, SetForAll, ToggleRead, AssignRead, Assign

LEMMA Inductive == ASSUME RequisitesAssumption, IInv, [Next]_vars PROVE IInv'
  BY Types, Default DEF IInv

\* As long as some details can be paid to, the default goes from one to another.
LEMMA DefaultHandedOn ==
    ASSUME RequisitesAssumption, IInv, [Next]_vars
    PROVE  DefaultIsHandedOnStep
<1>0. /\ TypeOK /\ OneUsableDefault /\ TapsKnown
      /\ method \in [Methods -> Row] /\ Methods = 1..MaxMethods /\ last \in Nat
      /\ MaxMethods \in Nat /\ last <= MaxMethods /\ tap \in [Staff -> Taps]
  BY DEF IInv, TypeOK, Row, Methods, RequisitesAssumption
<1> SUFFICES ASSUME NEW d \in Defaults PROVE Defaults' # {} \/ UsableNow' = {}
  BY DEF DefaultIsHandedOnStep
<1>d. d \in Methods /\ d \in UsableNow /\ method[d].default
  BY <1>0 DEF Defaults, UsableNow
<1>1. CASE Create
  <2>1. last' = last + 1 /\ method'[d] = method[d]
    BY <1>0, <1>1, <1>d DEF Create, UsableNow
  <2>2. d \in UsableNow' /\ method'[d].default
    BY <1>0, <1>d, <2>1 DEF UsableNow
  <2> QED
    BY <2>2 DEF Defaults
<1>2. ASSUME NEW m \in Methods, MakeDefault(m) PROVE m \in Defaults'
  <2>1. /\ method'[m].default /\ method'[m].active = method[m].active
        /\ method'[m].deleted = method[m].deleted
        /\ last' = last /\ m \in UsableNow
    BY <1>0, <1>2 DEF MakeDefault, Row
  <2> QED
    BY <2>1 DEF Defaults, UsableNow
<1>3. ASSUME NEW m \in Methods, NEW rows \in [Methods -> Row],
             rows[m].default = method[m].default, rows[d].default,
             last' = last, ~method'[m].active \/ method'[m].deleted,
             \A n \in Methods \ {m} : /\ method'[n].active = method[n].active
                                      /\ method'[n].deleted = method[n].deleted
                                      /\ method'[n].default = Promoted(rows, m)[n].default
      PROVE  Defaults' # {} \/ UsableNow' = {}
  <2>1. UsableNow' = Others(m)
    BY <1>0, <1>3 DEF UsableNow, Others
  <2>2. CASE ~rows[m].default
    <3>1. d # m /\ Promoted(rows, m) = rows
      BY <1>0, <1>3, <2>2, PromotedRows
    <3>2. d \in UsableNow' /\ method'[d].default
      BY <1>3, <1>d, <2>1, <3>1 DEF Others
    <3> QED
      BY <3>2 DEF Defaults
  <2>3. CASE rows[m].default /\ Others(m) # {}
    <3> DEFINE n == Lowest(Others(m))
    <3>1. n \in Others(m) /\ n \in Methods
      BY <1>0, <2>3, OthersAreMethods
    <3>2. Promoted(rows, m)[n].default
      BY <1>0, <1>3, <2>3, <3>1, PromotedRows
    <3>3. n \in UsableNow' /\ method'[n].default
      BY <1>3, <2>1, <3>1, <3>2 DEF Others
    <3> QED
      BY <3>3 DEF Defaults
  <2> QED
    BY <2>1, <2>2, <2>3
<1>4. ASSUME NEW m \in Methods, Delete(m) PROVE Defaults' # {} \/ UsableNow' = {}
  <2>1. Promoted(method, m) \in [Methods -> Row]
    BY <1>0, PromotedRows
  <2>2. /\ last' = last /\ ~method'[m].active
        /\ \A n \in Methods \ {m} : method'[n] = Promoted(method, m)[n]
    BY <1>4, <2>1 DEF Delete
  <2>3. \A n \in Methods \ {m} : /\ method'[n].active = method[n].active
                                 /\ method'[n].deleted = method[n].deleted
                                 /\ method'[n].default = Promoted(method, m)[n].default
    BY <1>0, <2>2, PromotedRows
  <2> QED
    BY <1>0, <1>3, <1>d, <2>2, <2>3
<1>5. ASSUME NEW s \in Staff, Toggle(s) PROVE Defaults' # {} \/ UsableNow' = {}
  <2> DEFINE m == tap[s].method
             rows == [method EXCEPT ![m].active = tap[s].active]
  <2>1. m \in Methods /\ tap[s].active \in BOOLEAN
    BY <1>0, <1>5 DEF Toggle, Taps, NoTap
  <2>2. /\ rows \in [Methods -> Row] /\ rows[m].active = tap[s].active
        /\ \A n \in Methods : /\ rows[n].default = method[n].default
                              /\ rows[n].deleted = method[n].deleted
        /\ \A n \in Methods \ {m} : rows[n].active = method[n].active
    <3>1. method \in [Methods -> Row] /\ rows = [method EXCEPT ![m].active = tap[s].active]
      BY <1>0
    <3> HIDE DEF m, rows
    <3>2. /\ rows \in [Methods -> Row] /\ rows[m].active = tap[s].active
          /\ \A n \in Methods \ {m} : rows[n] = method[n]
          /\ \A n \in Methods : /\ rows[n].default = method[n].default
                                /\ rows[n].deleted = method[n].deleted
      BY ONLY <2>1, <3>1, SwitchedRows
    <3> QED
      BY <3>2
  <2>3. method' = (IF tap[s].active THEN rows ELSE Promoted(rows, m)) /\ last' = last
    BY <1>5 DEF Toggle
  <2> HIDE DEF m, rows
  <2>4. CASE tap[s].active
    <3>1. method' = rows
      BY <2>3, <2>4
    <3>2. last' = last /\ method'[d].default /\ method'[d].deleted = method[d].deleted
      BY <1>d, <2>2, <2>3, <3>1
    <3>3. method'[d].active
      <4>1. method[d].active
        BY <1>d DEF UsableNow
      <4> QED
        BY <1>d, <2>2, <2>4, <3>1, <4>1
    <3>4. d \in UsableNow'
      BY <1>d, <3>2, <3>3 DEF UsableNow
    <3> QED
      BY <3>2, <3>4 DEF Defaults
  <2>5. CASE ~tap[s].active
    <3>1. method' = Promoted(rows, m)
      BY <2>3, <2>5
    <3>2. /\ ~method'[m].active
          /\ \A n \in Methods \ {m} :
                /\ method'[n].active = method[n].active
                /\ method'[n].deleted = method[n].deleted
                /\ method'[n].default = Promoted(rows, m)[n].default
      BY <1>0, <2>1, <2>2, <2>5, <3>1, PromotedRows
    <3> QED
      BY <1>3, <1>d, <2>1, <2>2, <2>3, <3>2
  <2> QED
    BY <2>1, <2>4, <2>5
<1>6. CASE UNCHANGED <<method, last>>
  BY <1>6 DEF Defaults, UsableNow
<1> QED
  BY <1>1, <1>2, <1>4, <1>5, <1>6 DEF Next, vars, SetForAll, ToggleRead, AssignRead, Assign

-----------------------------------------------------------------------------
(* What a client is shown *)

\* A client is shown details that can be paid to, or none.
LEMMA ShownIsUsable ==
    ASSUME NEW c \in Clients
    PROVE  TransferMethod(c)' \in UsableNow' \cup {0}
<1>1. DefaultOrNone' \in UsableNow' \cup {0}
  BY DEF DefaultOrNone, Defaults
<1> QED
  BY <1>1 DEF TransferMethod, ForUser

\* Deleted details stay deleted, so nobody is shown them.
LEMMA DeletedNotShown ==
    ASSUME RequisitesAssumption, IInv, [Next]_vars
    PROVE  DeletedIsNotShownStep
<1>0. /\ TypeOK /\ method \in [Methods -> Row] /\ Methods = 1..MaxMethods
      /\ last \in Nat /\ MaxMethods \in Nat /\ tap \in [Staff -> Taps]
  BY DEF IInv, TypeOK, Row, Methods, RequisitesAssumption
<1> SUFFICES ASSUME NEW m \in Methods, method[m].deleted PROVE method'[m].deleted
  <2>1. ASSUME NEW m \in Methods, method'[m].deleted, NEW c \in Clients
        PROVE  TransferMethod(c)' # m
    BY <1>0, <2>1, ShownIsUsable DEF UsableNow
  <2> QED
    BY <2>1 DEF DeletedIsNotShownStep
<1>1. CASE Create
  <2>1. m # last'
    BY <1>0, <1>1 DEF Create, TypeOK, NoRow
  <2> QED
    BY <1>0, <1>1, <2>1 DEF Create
<1>2. ASSUME NEW n \in Methods, MakeDefault(n) PROVE method'[m].deleted
  BY <1>0, <1>2 DEF MakeDefault, Row
<1>3. ASSUME NEW n \in Methods, Delete(n) PROVE method'[m].deleted
  <2>1. Promoted(method, n) \in [Methods -> Row] /\ Promoted(method, n)[m].deleted
    BY <1>0, PromotedRows
  <2> QED
    BY <1>0, <1>3, <2>1 DEF Delete
<1>4. ASSUME NEW s \in Staff, Toggle(s) PROVE method'[m].deleted
  <2> DEFINE n == tap[s].method
             rows == [method EXCEPT ![n].active = tap[s].active]
  <2>1. n \in Methods /\ tap[s].active \in BOOLEAN
    BY <1>0, <1>4 DEF Toggle, Taps, NoTap
  <2>2. rows \in [Methods -> Row] /\ rows[m].deleted
    BY <1>0, <2>1 DEF Row
  <2>3. method' = rows \/ method' = Promoted(rows, n)
    BY <1>4 DEF Toggle
  <2> HIDE DEF n, rows
  <2> QED
    BY <1>0, <2>1, <2>2, <2>3, PromotedRows
<1>5. CASE UNCHANGED method
  BY <1>5
<1> QED
  BY <1>1, <1>2, <1>3, <1>4, <1>5
     DEF Next, vars, SetForAll, ToggleRead, AssignRead, Assign

-----------------------------------------------------------------------------
(* What is shown of the specification *)

\* Types; rows that were never created are empty, and no client has them.
THEOREM TypesHold ==
    ASSUME RequisitesAssumption
    PROVE  Spec => []TypeOK
<1>1. ASSUME IInv, [Next]_vars PROVE IInv'
  BY <1>1, Inductive
<1>2. Init => IInv
  BY InitialTypes
<1>3. IInv => TypeOK
  BY DEF IInv
<1> QED
  BY <1>1, <1>2, <1>3, PTL DEF Spec

\* At any moment at most one row is the default, and clients may pay to it: create,
\* set_default, delete and update together keep it, whatever old buttons staff press.
THEOREM OneDefault ==
    ASSUME RequisitesAssumption
    PROVE  Spec => []OneUsableDefault
<1>1. ASSUME IInv, [Next]_vars PROVE IInv'
  BY <1>1, Inductive
<1>2. Init => IInv
  BY InitialTypes
<1>3. IInv => OneUsableDefault
  BY DEF IInv
<1> QED
  BY <1>1, <1>2, <1>3, PTL DEF Spec

\* No operation takes the default away while details are left that can be paid to:
\* _promote_default_if_needed hands it on.
THEOREM HandsOn ==
    ASSUME RequisitesAssumption
    PROVE  Spec => DefaultIsHandedOn
<1>1. ASSUME IInv, [Next]_vars PROVE IInv' /\ [DefaultIsHandedOnStep]_vars
  BY <1>1, Inductive, DefaultHandedOn
<1>2. Init => IInv
  BY InitialTypes
<1> QED
  BY <1>1, <1>2, PTL DEF Spec, DefaultIsHandedOn

\* Deleted details are never undeleted, and transfer_method shows them to nobody.
THEOREM StayDeleted ==
    ASSUME RequisitesAssumption
    PROVE  Spec => DeletedIsNotShown
<1>1. ASSUME IInv, [Next]_vars PROVE IInv' /\ [DeletedIsNotShownStep]_vars
  BY <1>1, Inductive, DeletedNotShown
<1>2. Init => IInv
  BY InitialTypes
<1> QED
  BY <1>1, <1>2, PTL DEF Spec, DeletedIsNotShown

-----------------------------------------------------------------------------
(* The run `records`: what PanelProofs shows, for the instances in MCRecords *)

PN == INSTANCE PanelProofs WITH
    Accounts <- Staff \cup {"client"}, MaxRows <- 3, Lists <- (SUBSET Staff) \ {{}},
    Taps <- Clients, MaxStarts <- 2, Erased <- "erased", row <- x1, last <- x2,
    owners <- x3, tap <- x4, starts <- x5,
    Staff <- Staff, Clients <- Clients, Tasks <- {"t1", "t2"}, MaxPreviews <- 2,
    MaxRestarts <- 1, pending <- x1, author <- x2, stale <- x3, client <- x4, task <- x5,
    got <- x6, told <- x7, restarts <- x8,
    Senders <- {"sender"}, Messages <- Clients,
    Kinds <- {"setting_value", "product_field", "req_field", "req_new"}, MaxProfiles <- 2,
    MaxPrompts <- 2, MaxChanges <- 2, profile <- x1, slot <- x2, open <- x3, msg <- x4,
    prompts <- x5, changes <- x6, over <- x7,
    Keys <- DOMAIN NumberKind, Kind <- NumberKind, Low <- LowOf(NumberKind),
    High <- HighOf(NumberKind), MaxHalves <- 3, MaxSigns <- 1, table <- x1, cache <- x2,
    Names <- {"name"}, MaxProducts <- 2, MaxBought <- 2, MaxSubs <- 1, product <- x1,
    lastProduct <- x2, order <- x3, lastOrder <- x4, sub <- x5, lastSub <- x6, desk <- x7,
    Ids <- Clients \cup {"id"}, PageSize <- 1, QueueLimit <- 3, MaxButtons <- 3,
    PerPage <- {2, 3}, items <- x1, perPage <- x2, screen <- x3, buttons <- x4
PT == INSTANCE PanelProofs WITH
    Accounts <- Staff \cup {"client"}, MaxRows <- 3, Lists <- (SUBSET Staff) \ {{}},
    Taps <- Clients, MaxStarts <- 2, Erased <- "erased", row <- x1, last <- x2,
    owners <- x3, tap <- x4, starts <- x5,
    Staff <- Staff, Clients <- Clients, Tasks <- {"t1", "t2"}, MaxPreviews <- 2,
    MaxRestarts <- 1, pending <- x1, author <- x2, stale <- x3, client <- x4, task <- x5,
    got <- x6, told <- x7, restarts <- x8,
    Senders <- {"sender"}, Messages <- Clients,
    Kinds <- {"setting_value", "product_field", "req_field", "req_new"}, MaxProfiles <- 2,
    MaxPrompts <- 2, MaxChanges <- 2, profile <- x1, slot <- x2, open <- x3, msg <- x4,
    prompts <- x5, changes <- x6, over <- x7,
    Keys <- DOMAIN TextKind, Kind <- TextKind, Low <- LowOf(TextKind),
    High <- HighOf(TextKind), MaxHalves <- 3, MaxSigns <- 1, table <- x1, cache <- x2,
    Names <- {"name"}, MaxProducts <- 2, MaxBought <- 2, MaxSubs <- 1, product <- x1,
    lastProduct <- x2, order <- x3, lastOrder <- x4, sub <- x5, lastSub <- x6, desk <- x7,
    Ids <- Clients \cup {"id"}, PageSize <- 1, QueueLimit <- 3, MaxButtons <- 3,
    PerPage <- {2, 3}, items <- x1, perPage <- x2, screen <- x3, buttons <- x4

SP == INSTANCE SubscriptionsProofs WITH
    Sales <- Clients, Amounts <- {1, 3}, FirstMonth <- 11, MaxMonths <- 3, ledger <- x1,
    age <- x2, report <- x3,
    Orders <- {}, Subs <- {}, NoSub <- 0, Days <- {}, MaxTime <- 0, MaxGifts <- 0,
    now <- x1, account <- x1, order <- x1, sub <- x1, gifts <- x1, given <- x1,
    sweep <- x1                                 \* of Subscriptions, which is not here

\* What PanelProofs shows of broadcasts.
LEMMA OfBroadcast ==
    ASSUME W!BroadcastAssumption
    PROVE  /\ W!Spec => []W!SentOnceAsShown
           /\ W!Spec => W!NothingToTheErased
  BY PN!SentOnce, PN!NothingErased, PTL
       DEF W!vars, PN!W!vars, W!Previews, PN!W!Previews, W!Nobody, PN!W!Nobody,
           W!BroadcastAssumption, PN!W!BroadcastAssumption, W!Made, PN!W!Made, W!Idle,
           PN!W!Idle, W!Moves, PN!W!Moves, W!Prepare, PN!W!Prepare, W!Tap, PN!W!Tap,
           W!Mine, PN!W!Mine, W!Forget, PN!W!Forget, W!StartAny, PN!W!StartAny, W!Start,
           PN!W!Start, W!CancelTap, PN!W!CancelTap, W!List, PN!W!List, W!Send, PN!W!Send,
           W!Finish, PN!W!Finish, W!Expire, PN!W!Expire, W!Change, PN!W!Change, W!Restart,
           PN!W!Restart, W!Init, PN!W!Init, W!Next, PN!W!Next, W!Spec, PN!W!Spec,
           W!TypeOK, PN!W!TypeOK, W!WhatWasShownIsSent, PN!W!WhatWasShownIsSent,
           W!NobodyGetsItTwice, PN!W!NobodyGetsItTwice, W!NothingToTheErasedStep,
           PN!W!NothingToTheErasedStep, W!NothingToTheErased, PN!W!NothingToTheErased,
           W!CancelledIsNotSent, PN!W!CancelledIsNotSent, W!SentOnceAsShown,
           PN!W!SentOnceAsShown, W!Cardinality, PN!W!Cardinality

\* What PanelProofs shows of roles.
LEMMA OfRoles ==
    ASSUME R!RolesAssumption
    PROVE  /\ R!Spec => []R!RolesFollowTheList
           /\ R!Spec => R!AdminsComeFromOwners
           /\ R!Spec => R!ErasedRowsAreInert
  BY PN!RolesKept, PN!Admins, PN!Inert, PTL
       DEF R!RolesAssumption, PN!RolesAssumption, R!vars, PN!vars, R!Rows, PN!Rows,
           R!ROLES, PN!ROLES, R!NoRow, PN!NoRow, R!Given, PN!Given, R!LiveRows,
           PN!LiveRows, R!RowOf, PN!RowOf, R!Ops, PN!Ops, R!NoTap, PN!NoTap, R!level,
           PN!level, R!role_level, PN!role_level, R!can, PN!can, R!can_manage_user,
           PN!can_manage_user, R!can_assign_role, PN!can_assign_role, R!_erase_refusal,
           PN!_erase_refusal, R!_update_live, PN!_update_live, R!_erase, PN!_erase,
           R!After, PN!After, R!ActorRead, PN!ActorRead, R!Allowed, PN!Allowed,
           R!TargetRead, PN!TargetRead, R!Write, PN!Write, R!Register, PN!Register,
           R!PromoteOnly, PN!PromoteOnly, R!OwnersSet, PN!OwnersSet, R!InsertedFor,
           PN!InsertedFor, R!Start, PN!Start, R!Init, PN!Init, R!Next, PN!Next, R!Spec,
           PN!Spec, R!TypeOK, PN!TypeOK, R!OwnersAreTheList, PN!OwnersAreTheList,
           R!AdminsComeFromOwnersStep, PN!AdminsComeFromOwnersStep,
           R!AdminsComeFromOwners, PN!AdminsComeFromOwners, R!ErasedRowsAreInertStep,
           PN!ErasedRowsAreInertStep, R!ErasedRowsAreInert, PN!ErasedRowsAreInert,
           R!StaffIsNotErased, PN!StaffIsNotErased, R!RolesFollowTheList,
           PN!RolesFollowTheList, R!Cardinality, PN!Cardinality, R!IsFiniteSet,
           PN!IsFiniteSet

\* What PanelProofs shows of settings, for the numbers.
LEMMA OfNumbers ==
    ASSUME V!SettingsAssumption
    PROVE  /\ V!Spec => []V!ReadersAreSafe
           /\ V!Spec => V!RestartChangesNothing
  BY PN!Readers, PN!Restarts, PTL
       DEF V!SettingsAssumption, PN!V!SettingsAssumption, V!vars, PN!V!vars, V!Numbers,
           PN!V!Numbers, V!Words, PN!V!Words, V!Usernames, PN!V!Usernames, V!Prose,
           PN!V!Prose, V!Texts, PN!V!Texts, V!None, PN!V!None, V!Number, PN!V!Number,
           V!Digit, PN!V!Digit, V!Default, PN!V!Default, V!CleanUsername,
           PN!V!CleanUsername, V!CleanSwitch, PN!V!CleanSwitch, V!CleanProse,
           PN!V!CleanProse, V!CleanNumber, PN!V!CleanNumber, V!Validate, PN!V!Validate,
           V!LoadedAsIs, PN!V!LoadedAsIs, V!Loaded, PN!V!Loaded, V!Save, PN!V!Save,
           V!Restart, PN!V!Restart, V!StartOver, PN!V!StartOver, V!Init, PN!V!Init,
           V!Next, PN!V!Next, V!Spec, PN!V!Spec, V!GetInt, PN!V!GetInt, V!GetBool,
           PN!V!GetBool, V!TypeOK, PN!V!TypeOK, V!ReadersAreSafe, PN!V!ReadersAreSafe,
           V!RestartChangesNothingStep, PN!V!RestartChangesNothingStep,
           V!RestartChangesNothing, PN!V!RestartChangesNothing

\* The same, for the texts.
LEMMA OfTexts ==
    ASSUME O!SettingsAssumption
    PROVE  /\ O!Spec => []O!ReadersAreSafe
           /\ O!Spec => O!RestartChangesNothing
  BY PT!Readers, PT!Restarts, PTL
       DEF O!SettingsAssumption, PT!V!SettingsAssumption, O!vars, PT!V!vars, O!Numbers,
           PT!V!Numbers, O!Words, PT!V!Words, O!Usernames, PT!V!Usernames, O!Prose,
           PT!V!Prose, O!Texts, PT!V!Texts, O!None, PT!V!None, O!Number, PT!V!Number,
           O!Digit, PT!V!Digit, O!Default, PT!V!Default, O!CleanUsername,
           PT!V!CleanUsername, O!CleanSwitch, PT!V!CleanSwitch, O!CleanProse,
           PT!V!CleanProse, O!CleanNumber, PT!V!CleanNumber, O!Validate, PT!V!Validate,
           O!LoadedAsIs, PT!V!LoadedAsIs, O!Loaded, PT!V!Loaded, O!Save, PT!V!Save,
           O!Restart, PT!V!Restart, O!StartOver, PT!V!StartOver, O!Init, PT!V!Init,
           O!Next, PT!V!Next, O!Spec, PT!V!Spec, O!GetInt, PT!V!GetInt, O!GetBool,
           PT!V!GetBool, O!TypeOK, PT!V!TypeOK, O!ReadersAreSafe, PT!V!ReadersAreSafe,
           O!RestartChangesNothingStep, PT!V!RestartChangesNothingStep,
           O!RestartChangesNothing, PT!V!RestartChangesNothing

\* What PanelProofs shows of the catalog.
LEMMA OfCatalog ==
    ASSUME C!CatalogAssumption
    PROVE  C!Spec => []C!OffersAreConsistent
  BY PN!OffersConsistent, PTL
       DEF C!CatalogAssumption, PN!K!CatalogAssumption, C!salesVars, PN!K!salesVars,
           C!vars, PN!K!vars, C!Products, PN!K!Products, C!Orders, PN!K!Orders, C!Subs,
           PN!K!Subs, C!Public, PN!K!Public, C!Owners, PN!K!Owners, C!Slugs, PN!K!Slugs,
           C!NoProduct, PN!K!NoProduct, C!NoOrder, PN!K!NoOrder, C!NoSub, PN!K!NoSub,
           C!Idle, PN!K!Idle, C!Live, PN!K!Live, C!Holding, PN!K!Holding, C!ActiveFor,
           PN!K!ActiveFor, C!ListPersonal, PN!K!ListPersonal, C!ListPublic,
           PN!K!ListPublic, C!PublicCatalogFor, PN!K!PublicCatalogFor,
           C!Resolve, PN!K!Resolve, C!NewRead, PN!K!NewRead,
           C!CloneRead, PN!K!CloneRead, C!Insert, PN!K!Insert, C!Toggle, PN!K!Toggle,
           C!Detached, PN!K!Detached, C!Delete, PN!K!Delete, C!GrantRead, PN!K!GrantRead,
           C!Grant, PN!K!Grant, C!Buy, PN!K!Buy, C!Pay, PN!K!Pay, C!CancelOrder,
           PN!K!CancelOrder, C!Close, PN!K!Close, C!Init, PN!K!Init, C!Next, PN!K!Next,
           C!Spec, PN!K!Spec, C!TypeOK, PN!K!TypeOK, C!CardsMatchLists,
           PN!K!CardsMatchLists, C!OffersStayPrivate, PN!K!OffersStayPrivate,
           C!LinksAreLive, PN!K!LinksAreLive, C!DeletedIsNotRenewed,
           PN!K!DeletedIsNotRenewed, C!OffersAreConsistent, PN!K!OffersAreConsistent

\* What PanelProofs shows of dialogs.
LEMMA OfDialogs ==
    ASSUME D!DialogsAssumption
    PROVE  /\ D!Spec => []D!AnswersFindTheirPrompt
           /\ D!Spec => D!NobodyFinishesWithoutRights
  BY PN!AnswersFind, PN!RightsHeld, PTL
       DEF D!DialogsAssumption, PN!D!DialogsAssumption, D!vars, PN!D!vars, D!Section,
           PN!D!Section, D!KindsAssumption, PN!D!KindsAssumption, D!LevelOf, PN!D!LevelOf,
           D!NoPrompt, PN!D!NoPrompt, D!NoTap, PN!D!NoTap, D!NoMessage, PN!D!NoMessage,
           D!AnyStaff, PN!D!AnyStaff, D!can, PN!D!can, D!HasRights, PN!D!HasRights,
           D!Ended, PN!D!Ended, D!clear_for, PN!D!clear_for, D!OpenRead, PN!D!OpenRead,
           D!OpenSet, PN!D!OpenSet, D!OpenTell, PN!D!OpenTell, D!Leave, PN!D!Leave,
           D!ReadWhatever, PN!D!ReadWhatever, D!Receive, PN!D!Receive, D!Drop, PN!D!Drop,
           D!Goes, PN!D!Goes, D!Accept, PN!D!Accept, D!ClearsFirst, PN!D!ClearsFirst,
           D!KeepsIfBad, PN!D!KeepsIfBad, D!TwoSteps, PN!D!TwoSteps, D!Check, PN!D!Check,
           D!Lookup, PN!D!Lookup, D!Write, PN!D!Write, D!Expire, PN!D!Expire, D!Sweep,
           PN!D!Sweep, D!ProfileChanges, PN!D!ProfileChanges, D!Restart, PN!D!Restart,
           D!Init, PN!D!Init, D!Next, PN!D!Next, D!Spec, PN!D!Spec, D!TypeOK, PN!D!TypeOK,
           D!NobodyFinishesWithoutRightsStep, PN!D!NobodyFinishesWithoutRightsStep,
           D!NobodyFinishesWithoutRights, PN!D!NobodyFinishesWithoutRights, D!OverIsOver,
           PN!D!OverIsOver, D!LeavingEndsTheFlow, PN!D!LeavingEndsTheFlow,
           D!AnswersFindTheirPrompt, PN!D!AnswersFindTheirPrompt

\* What PanelProofs shows of lists in pages.
LEMMA OfPaging ==
    ASSUME P!PagingAssumption
    PROVE  P!Spec => []P!PagesAreTheList
  <1>1. PN!G!PagingAssumption
    BY DEF P!PagingAssumption, PN!G!PagingAssumption
  <1>2. P!Init => PN!G!Init
    BY
       DEF P!Kinds, PN!G!Kinds, P!NoScreen, PN!G!NoScreen, P!Init, PN!G!Init
  <1>3. P!Next => PN!G!Next
    <2>1. ASSUME NEW list, NEW page, NEW size
          PROVE  P!Paginate(list, page, size) = PN!G!Paginate(list, page, size)
      <3>1. P!TotalPages(Len(list), size) = PN!G!TotalPages(Len(list), size)
        BY Zenon DEF P!AtLeast, PN!G!AtLeast, P!TotalPages, PN!G!TotalPages
      <3>2. P!Clamp(Len(list), size, page) = PN!G!Clamp(Len(list), size, page)
        BY <3>1, Zenon
           DEF P!AtLeast, PN!G!AtLeast, P!AtMost, PN!G!AtMost, P!Clamp, PN!G!Clamp
      <3>3. ASSUME NEW n
            PROVE  P!Slice(list, n, size) = PN!G!Slice(list, n, size)
        BY DEF P!AtMost, PN!G!AtMost, P!Slice, PN!G!Slice
      <3>4. ASSUME NEW n, NEW t
            PROVE  P!Nav(n, t) = PN!G!Nav(n, t)
        BY DEF P!Nav, PN!G!Nav
      <3>5. QED
        BY <3>1, <3>2, <3>3, <3>4, Zenon DEF P!Paginate, PN!G!Paginate
    <2>2. ASSUME NEW kind, NEW page
          PROVE  P!Screen(kind, page) = PN!G!Screen(kind, page)
      BY <2>1
         DEF P!AtLeast, PN!G!AtLeast, P!AtMost, PN!G!AtMost, P!TotalPages, PN!G!TotalPages,
             P!Clamp, PN!G!Clamp, P!Slice, PN!G!Slice, P!PageSlice, PN!G!PageSlice, P!Nav,
             PN!G!Nav, P!Paginate, PN!G!Paginate, P!CatalogSize, PN!G!CatalogSize,
             P!CatalogScreen, PN!G!CatalogScreen, P!PanelScreen, PN!G!PanelScreen,
             P!ProductsScreen, PN!G!ProductsScreen, P!QueueScreen, PN!G!QueueScreen,
             P!Screen, PN!G!Screen
    <2>3. ASSUME NEW list, NEW i, NEW id
          PROVE  /\ P!InsertAt(list, i, id) = PN!G!InsertAt(list, i, id)
                 /\ P!RemoveAt(list, i) = PN!G!RemoveAt(list, i)
                 /\ P!ToSet(list) = PN!G!ToSet(list)
      BY DEF P!InsertAt, PN!G!InsertAt, P!RemoveAt, PN!G!RemoveAt, P!ToSet, PN!G!ToSet
    <2>4. ASSUME NEW k \in P!Kinds, NEW p, P!Show(k, p)
          PROVE  PN!G!Show(k, p)
      BY <2>2, <2>4, Zenon DEF P!Show, PN!G!Show
    <2>5. ASSUME NEW id, NEW i, P!Add(id, i)
          PROVE  PN!G!Add(id, i)
      BY <2>3, <2>5, Zenon DEF P!Add, PN!G!Add
    <2>6. ASSUME NEW i, P!Drop(i)
          PROVE  PN!G!Drop(i)
      BY <2>3, <2>6, Zenon DEF P!Drop, PN!G!Drop
    <2>7. ASSUME NEW n, P!SetPerPage(n)
          PROVE  PN!G!SetPerPage(n)
      BY <2>7, Zenon DEF P!SetPerPage, PN!G!SetPerPage
    <2>8. P!Cardinality(Clients \cup {"id"}) = PN!G!Cardinality(Clients \cup {"id"})
      BY DEF P!Cardinality, PN!G!Cardinality
    <2>9. QED
      BY <2>4, <2>5, <2>6, <2>7, <2>8, Zenon DEF P!Kinds, PN!G!Kinds, P!Next, PN!G!Next
  <1>4. PN!G!PagesAreTheList => P!PagesAreTheList
    BY
       DEF P!Kinds, PN!G!Kinds, P!AtLeast, PN!G!AtLeast, P!AtMost, PN!G!AtMost,
           P!TotalPages, PN!G!TotalPages, P!Clamp, PN!G!Clamp, P!Slice, PN!G!Slice, P!Nav,
           PN!G!Nav, P!Paginate, PN!G!Paginate, P!Shown, PN!G!Shown, P!TypeOK,
           PN!G!TypeOK, P!LinesAreTheButtons, PN!G!LinesAreTheButtons, P!Pages,
           PN!G!Pages, P!Reached, PN!G!Reached, P!EverythingIsReached,
           PN!G!EverythingIsReached, P!PagesAreTheList, PN!G!PagesAreTheList, P!ToSet,
           PN!G!ToSet, P!IsInjective, PN!G!IsInjective, P!FlattenSeq, PN!G!FlattenSeq
  <1>5. [P!Next]_(P!vars) => [PN!G!Next]_(PN!G!vars)
    BY <1>3 DEF P!vars, PN!G!vars
  <1>6. P!Spec => PN!G!Spec
    BY <1>2, <1>5, PTL DEF P!Spec, PN!G!Spec
  <1>7. QED
    BY <1>1, <1>4, <1>6, PN!PagesKept, PTL

\* A broadcast sends the text under the tapped button, to a client once, although staff
\* preview, tap and tap again while the clients are read one by one.
THEOREM BroadcastsKept == RecordsSpec => []SentOnceAsShown
  <1> DEFINE Here == part = "broadcast"
  <1>1. RecordsInit => (Here => W!Init)
    BY DEF RecordsInit
  <1>2. [RecordsNext]_recordsVars => (Here => Here' /\ [W!Next]_(W!vars)) /\ (~Here => ~Here')
    BY DEF RecordsNext, recordsVars, others, W!vars
  <1>3. W!Spec => []W!SentOnceAsShown
    BY OfBroadcast, RecordsAssumption
  <1>4. QED
    BY <1>1, <1>2, <1>3, PTL DEF RecordsSpec, W!Spec, SentOnceAsShown

\* An account has one profile and the owners are those on the environment's list, whatever
\* old buttons staff press.
THEOREM OwnersKept == RecordsSpec => []RolesFollowTheList
  <1> DEFINE Here == part = "roles"
  <1>1. RecordsInit => (Here => R!Init)
    BY DEF RecordsInit
  <1>2. [RecordsNext]_recordsVars => (Here => Here' /\ [R!Next]_(R!vars)) /\ (~Here => ~Here')
    BY DEF RecordsNext, recordsVars, others, R!vars
  <1>3. R!Spec => []R!RolesFollowTheList
    BY OfRoles, RecordsAssumption
  <1>4. QED
    BY <1>1, <1>2, <1>3, PTL DEF RecordsSpec, R!Spec, RolesFollowTheList

\* While staff edit products, a client's list and cards agree, offers stay private and nothing
\* points at a product that is gone.
THEOREM OffersKept == RecordsSpec => []OffersAreConsistent
  <1> DEFINE Here == part = "catalog"
  <1>1. RecordsInit => (Here => C!Init)
    BY DEF RecordsInit
  <1>2. [RecordsNext]_recordsVars => (Here => Here' /\ [C!Next]_(C!vars)) /\ (~Here => ~Here')
    BY DEF RecordsNext, recordsVars, others, C!vars, C!salesVars
  <1>3. C!Spec => []C!OffersAreConsistent
    BY OfCatalog, RecordsAssumption
  <1>4. QED
    BY <1>1, <1>2, <1>3, PTL DEF RecordsSpec, C!Spec, OffersAreConsistent

\* Whatever page an old button asks for, the list on the screen can be read to its end: its
\* arrows lead to every page, and the pages in a row are the list.
THEOREM ListsKept == RecordsSpec => []PagesAreTheList
  <1> DEFINE Here == part = "paging"
  <1>1. RecordsInit => (Here => P!Init)
    BY DEF RecordsInit
  <1>2. [RecordsNext]_recordsVars => (Here => Here' /\ [P!Next]_(P!vars)) /\ (~Here => ~Here')
    BY DEF RecordsNext, recordsVars, others, P!vars
  <1>3. P!Spec => []P!PagesAreTheList
    BY OfPaging, RecordsAssumption
  <1>4. QED
    BY <1>1, <1>2, <1>3, PTL DEF RecordsSpec, P!Spec, PagesAreTheList

\* Readers of settings get values in range and well formed, whatever the table holds.
THEOREM ReadersKept == RecordsSpec => []ReadersAreSafe
  <1> DEFINE Numbers == part = "numbers"
             Words == part = "texts"
  <1>1. RecordsInit => (Numbers => V!Init) /\ (Words => O!Init)
    BY DEF RecordsInit
  <1>2. [RecordsNext]_recordsVars =>
          /\ (Numbers => Numbers' /\ [V!Next]_(V!vars)) /\ (~Numbers => ~Numbers')
          /\ (Words => Words' /\ [O!Next]_(O!vars)) /\ (~Words => ~Words')
    BY DEF RecordsNext, recordsVars, others, V!vars, O!vars
  <1>3. V!Spec => []V!ReadersAreSafe
    BY OfNumbers, RecordsAssumption
  <1>4. O!Spec => []O!ReadersAreSafe
    BY OfTexts, RecordsAssumption
  <1>5. QED
    BY <1>1, <1>2, <1>3, <1>4, PTL DEF RecordsSpec, V!Spec, O!Spec, ReadersAreSafe

\* A prompt nobody ended is in the store, and no message writes its value for a prompt that
\* was over when it came.
THEOREM AnswersKept == RecordsSpec => []AnswersFindTheirPrompt
  <1> DEFINE Here == part = "dialogs"
  <1>1. RecordsInit => (Here => D!Init)
    BY DEF RecordsInit
  <1>2. [RecordsNext]_recordsVars => (Here => Here' /\ [D!Next]_(D!vars)) /\ (~Here => ~Here')
    BY DEF RecordsNext, recordsVars, others, D!vars
  <1>3. D!Spec => []D!AnswersFindTheirPrompt
    BY OfDialogs, RecordsAssumption
  <1>4. QED
    BY <1>1, <1>2, <1>3, PTL DEF RecordsSpec, D!Spec, AnswersFindTheirPrompt

\* What SubscriptionsProofs shows of the books.
LEMMA OfBooks ==
    ASSUME B!BooksAssumption
    PROVE  B!Spec => []B!BooksAgree
<1>1. SP!B!BooksAssumption
  BY DEF B!BooksAssumption, SP!B!BooksAssumption
<1>2. SP!SubscriptionsAssumption
  BY DEF SP!SubscriptionsAssumption
<1>3. B!Init => SP!B!Init
  BY DEF B!Init, SP!B!Init, B!NoRow, SP!B!NoRow, B!Never, SP!B!Never
<1>4. B!Next => SP!B!Next
  BY Zenon
     DEF B!Never, SP!B!Never, B!MonthAt, SP!B!MonthAt, B!Today, SP!B!Today, B!Before,
         SP!B!Before, B!NoRow, SP!B!NoRow, B!ReversedStatuses, SP!B!ReversedStatuses,
         B!MonthBounds, SP!B!MonthBounds, B!Within, SP!B!Within, B!Sum, SP!B!Sum,
         B!RevenueForMonth, SP!B!RevenueForMonth, B!Collected, SP!B!Collected,
         B!Dashboard, SP!B!Dashboard, B!Create, SP!B!Create, B!Transfer, SP!B!Transfer,
         B!StarsPaid, SP!B!StarsPaid, B!Granted, SP!B!Granted, B!Claims, SP!B!Claims,
         B!Confirm, SP!B!Confirm, B!Fulfil, SP!B!Fulfil, B!Park, SP!B!Park, B!Serve,
         SP!B!Serve, B!Reject, SP!B!Reject, B!CancelUnpaid, SP!B!CancelUnpaid, B!Refund,
         SP!B!Refund, B!Revoke, SP!B!Revoke, B!Close, SP!B!Close, B!NextMonth,
         SP!B!NextMonth, B!MonthlyReport, SP!B!MonthlyReport, B!Next, SP!B!Next,
         B!SumFunction, SP!B!SumFunction, B!SumFunctionOnSet, SP!B!SumFunctionOnSet,
         B!FoldFunctionOnSet, SP!B!FoldFunctionOnSet, B!MapThenFoldSet,
         SP!B!MapThenFoldSet, B!Cardinality, SP!B!Cardinality
<1>5. SP!B!BooksAgree => B!BooksAgree
  BY
     DEF B!TypeOK, SP!B!TypeOK, B!BooksBalance, SP!B!BooksBalance, B!ReportsStand,
         SP!B!ReportsStand, B!EveryPaymentHasItsMonth, SP!B!EveryPaymentHasItsMonth,
         B!BooksAgree, SP!B!BooksAgree, B!Months, SP!B!Months, B!Statuses,
         SP!B!Statuses, B!Never, SP!B!Never, B!MonthAt, SP!B!MonthAt, B!Today,
         SP!B!Today, B!Before, SP!B!Before, B!ReversedStatuses, SP!B!ReversedStatuses,
         B!MonthBounds, SP!B!MonthBounds, B!Within, SP!B!Within, B!Sum, SP!B!Sum,
         B!RevenueForMonth, SP!B!RevenueForMonth, B!Collected, SP!B!Collected,
         B!Dashboard, SP!B!Dashboard, B!SumFunction, SP!B!SumFunction,
         B!SumFunctionOnSet, SP!B!SumFunctionOnSet, B!FoldFunctionOnSet,
         SP!B!FoldFunctionOnSet, B!MapThenFoldSet, SP!B!MapThenFoldSet, B!Cardinality,
         SP!B!Cardinality
<1>6. [B!Next]_(B!vars) => [SP!B!Next]_(SP!B!vars)
  BY <1>4 DEF B!vars, SP!B!vars
<1>7. SP!B!Spec => []SP!B!BooksAgree
  BY <1>1, <1>2, SP!BooksKept
<1>8. QED
  BY <1>3, <1>5, <1>6, <1>7, PTL DEF B!Spec, SP!B!Spec

\* Every payment lies in one month, the months add up to the dashboard, and a report that
\* went out stays right.
THEOREM BooksInOrder == RecordsSpec => []BooksAgree
  <1> DEFINE Here == part = "books"
  <1>1. RecordsInit => (Here => B!Init)
    BY DEF RecordsInit
  <1>2. [RecordsNext]_recordsVars => (Here => Here' /\ [B!Next]_(B!vars)) /\ (~Here => ~Here')
    BY DEF RecordsNext, recordsVars, others, B!vars
  <1>3. B!Spec => []B!BooksAgree
    BY OfBooks, RecordsAssumption
  <1>4. QED
    BY <1>1, <1>2, <1>3, PTL DEF RecordsSpec, B!Spec, BooksAgree

\* What ended has no effect and what is saved stays: deleted bank details are shown to nobody
\* and handed the default on, an erased client gets no more of a broadcast and an erased
\* profile stays as it is, only owners make administrators, a value is written only with the
\* rights, and a restart changes no setting.
THEOREM Entitled == RecordsSpec => OnlyAsEntitled
  <1> DEFINE Sending == part = "broadcast"
             Talking == part = "dialogs"
             Ruling == part = "roles"
             Numbers == part = "numbers"
             Words == part = "texts"
  <1>1. RecordsInit => /\ IInv
                       /\ Sending => W!Init
                       /\ Talking => D!Init
                       /\ Ruling => R!Init
                       /\ Numbers => V!Init
                       /\ Words => O!Init
    BY InitialTypes, RecordsAssumption DEF RecordsInit
  <1>2. [RecordsNext]_recordsVars =>
          /\ (Sending => Sending' /\ [W!Next]_(W!vars)) /\ (~Sending => ~Sending')
          /\ (Talking => Talking' /\ [D!Next]_(D!vars)) /\ (~Talking => ~Talking')
          /\ (Ruling => Ruling' /\ [R!Next]_(R!vars)) /\ (~Ruling => ~Ruling')
          /\ (Numbers => Numbers' /\ [V!Next]_(V!vars)) /\ (~Numbers => ~Numbers')
          /\ (Words => Words' /\ [O!Next]_(O!vars)) /\ (~Words => ~Words')
    BY DEF RecordsNext, recordsVars, others, W!vars, D!vars, R!vars, V!vars, O!vars
  <1>3. IInv /\ [RecordsNext]_recordsVars =>
          IInv' /\ DefaultIsHandedOnStep /\ DeletedIsNotShownStep
    <2>1. [RecordsNext]_recordsVars => [Next]_vars
      BY DEF RecordsNext, recordsVars
    <2>2. QED
      BY <2>1, Inductive, DefaultHandedOn, DeletedNotShown, RecordsAssumption
  <1>4. W!Spec => [][W!NothingToTheErasedStep]_(W!vars)
    BY OfBroadcast, RecordsAssumption DEF W!NothingToTheErased
  <1>5. D!Spec => [][D!NobodyFinishesWithoutRightsStep]_(D!vars)
    BY OfDialogs, RecordsAssumption DEF D!NobodyFinishesWithoutRights
  <1>6. /\ R!Spec => [][R!AdminsComeFromOwnersStep]_(R!vars)
        /\ R!Spec => [][R!ErasedRowsAreInertStep]_(R!vars)
    BY OfRoles, RecordsAssumption DEF R!AdminsComeFromOwners, R!ErasedRowsAreInert
  <1>7. V!Spec => [][V!RestartChangesNothingStep]_(V!vars)
    BY OfNumbers, RecordsAssumption DEF V!RestartChangesNothing
  <1>8. O!Spec => [][O!RestartChangesNothingStep]_(O!vars)
    BY OfTexts, RecordsAssumption DEF O!RestartChangesNothing
  <1>9. /\ IInv /\ [RecordsNext]_recordsVars
        /\ Sending => [W!NothingToTheErasedStep]_(W!vars)
        /\ Talking => [D!NobodyFinishesWithoutRightsStep]_(D!vars)
        /\ Ruling => [R!AdminsComeFromOwnersStep]_(R!vars) /\ [R!ErasedRowsAreInertStep]_(R!vars)
        /\ Numbers => [V!RestartChangesNothingStep]_(V!vars)
        /\ Words => [O!RestartChangesNothingStep]_(O!vars)
        => [OnlyAsEntitledStep]_recordsVars
    <2> SUFFICES ASSUME IInv, RecordsNext, recordsVars' # recordsVars,
                        Sending => [W!NothingToTheErasedStep]_(W!vars),
                        Talking => [D!NobodyFinishesWithoutRightsStep]_(D!vars),
                        Ruling => /\ [R!AdminsComeFromOwnersStep]_(R!vars)
                                  /\ [R!ErasedRowsAreInertStep]_(R!vars),
                        Numbers => [V!RestartChangesNothingStep]_(V!vars),
                        Words => [O!RestartChangesNothingStep]_(O!vars)
                 PROVE  OnlyAsEntitledStep
      OBVIOUS
    <2>1. /\ Sending => W!vars' # W!vars
          /\ Talking => D!vars' # D!vars
          /\ Ruling => R!vars' # R!vars
          /\ Numbers => V!vars' # V!vars
          /\ Words => O!vars' # O!vars
      BY DEF RecordsNext, recordsVars, others, W!vars, D!vars, R!vars, V!vars, O!vars
    <2>2. QED
      BY <1>3, <2>1 DEF OnlyAsEntitledStep
  <1>10. QED
    BY <1>1, <1>2, <1>3, <1>4, <1>5, <1>6, <1>7, <1>8, <1>9, PTL
       DEF RecordsSpec, W!Spec, D!Spec, R!Spec, V!Spec, O!Spec, OnlyAsEntitled
=============================================================================
