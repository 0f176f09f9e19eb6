------------------------------ MODULE Settings ------------------------------
(***************************************************************************)
(* Runtime settings: db/settings.py.  A value typed by staff is validated, *)
(* cleaned, stored and cached; a start fills the cache from the table,     *)
(* which may hold what an older version or a hand wrote.  Readers see the  *)
(* cache only.                                                             *)
(*                                                                         *)
(* A text is what validation can tell of it:                               *)
(*   a number, by its halves, spelled as an integer, as a decimal, or in   *)
(*     another way (a comma, spaces around it);                            *)
(*   a word for yes or no;                                                 *)
(*   a username behind a number of at signs, well formed or not;           *)
(*   prose, of a length that Telegram takes or not.                        *)
(***************************************************************************)
EXTENDS Integers

CONSTANTS
    Keys,           \* the settings, of the kinds below
    Kind,           \* of each key: whole, decimal, switch, username or prose
    Low, High,      \* LIMITS, in halves
    MaxHalves,      \* bound on numbers typed
    MaxSigns        \* bound on the at signs before a username

SettingsAssumption ==
    /\ Kind \in [Keys -> {"whole", "decimal", "switch", "username", "prose"}]
    /\ Low \in [Keys -> Int] /\ High \in [Keys -> Int] /\ \A k \in Keys : Low[k] <= High[k]
    /\ MaxHalves \in Nat /\ MaxHalves > 1 /\ MaxSigns \in Nat
    /\ \A k \in Keys : Low[k] \in (-1)..MaxHalves /\ (Kind[k] = "whole" => Low[k] % 2 = 0)

VARIABLES
    table,      \* the rows of settings
    cache       \* _cache

vars == <<table, cache>>

\* An integer's spelling has no half.
Numbers == {n \in [is : {"number"}, halves : (-1)..MaxHalves,
                   as : {"integer", "decimal", "loose"}] :
               n.as = "integer" => n.halves % 2 = 0}
Words == [is : {"word"}, yes : BOOLEAN]
Usernames == [is : {"username"}, signs : 0..MaxSigns, formed : BOOLEAN]
Prose == [is : {"prose"}, short : BOOLEAN]

\* What validation tells apart for a key.
Texts(k) ==
    CASE Kind[k] = "username" -> Usernames
      [] Kind[k] = "prose" -> Prose
      [] Kind[k] = "switch" -> Numbers \cup Words \cup Prose
      [] OTHER -> Numbers \cup Prose

None == [is |-> "none"]     \* no row, and the error of validate

Number(halves, as) == [is |-> "number", halves |-> halves, as |-> as]

-----------------------------------------------------------------------------
(* Validation *)

Digit(yes) == Number(IF yes THEN 2 ELSE 0, "integer")

\* DEFAULTS.
Default(k) ==
    CASE Kind[k] = "whole" -> Number(Low[k], "integer")
      [] Kind[k] = "decimal" -> Number(Low[k], "decimal")
      [] Kind[k] = "switch" -> Digit(FALSE)
      [] Kind[k] = "username" -> [is |-> "username", signs |-> 0, formed |-> TRUE]
      [] Kind[k] = "prose" -> [is |-> "prose", short |-> TRUE]

\* manager_username: at signs are dropped, and the rest is judged.
CleanUsername(t) ==
    IF t.is = "username" /\ t.formed THEN [t EXCEPT !.signs = 0] ELSE None

\* BOOLEAN_KEYS: a word or its digit becomes the digit.
CleanSwitch(t) ==
    IF t.is = "word" THEN Digit(t.yes)
    ELSE IF t \in {Digit(TRUE), Digit(FALSE)} THEN t ELSE None

CleanProse(t) == IF t.is = "prose" /\ t.short THEN t ELSE None

\* LIMITS: a number in range; a whole one where the limits are.
CleanNumber(k, t) ==
    IF t.is # "number" \/ ~(Low[k] <= t.halves /\ t.halves <= High[k]) THEN None
    ELSE IF Kind[k] = "decimal" THEN Number(t.halves, "decimal")
    ELSE IF t.halves % 2 = 0 THEN Number(t.halves, "integer") ELSE None

\* validate: the cleaned text, or None for an error.
Validate(k, t) ==
    CASE Kind[k] = "username" -> CleanUsername(t)
      [] Kind[k] = "switch" -> CleanSwitch(t)
      [] Kind[k] = "prose" -> CleanProse(t)
      [] OTHER -> CleanNumber(k, t)

\* Mutant: a stored text is taken as it is.
LoadedAsIs(k, t) == IF t = None THEN Default(k) ELSE t

\* load, for one key: a row that is missing or not valid leaves the default.
Loaded(k, t) ==
    IF t = None \/ Validate(k, t) = None THEN Default(k) ELSE Validate(k, t)

-----------------------------------------------------------------------------
(* Steps *)

\* save_setting and set_value: nothing is awaited between the row and the cache.
Save(k, t) ==
    LET value == Validate(k, t) IN
    /\ value # None
    /\ table' = [table EXCEPT ![k] = value]
    /\ cache' = [cache EXCEPT ![k] = value]

\* A start of the process, at any time: load.
Restart ==
    /\ cache' = [k \in Keys |-> Loaded(k, table[k])]
    /\ UNCHANGED table

\* A start that finds a row as an older version or a hand left it.
StartOver(k, t) ==
    /\ table' = [table EXCEPT ![k] = t]
    /\ cache' = [j \in Keys |-> Loaded(j, table'[j])]

Init ==
    /\ table = [k \in Keys |-> None]
    /\ cache = [k \in Keys |-> Loaded(k, None)]

Next ==
    \/ Restart
    \/ \E k \in Keys : \/ \E t \in Texts(k) : Save(k, t)
                      \/ \E t \in Texts(k) \cup {None} : StartOver(k, t)

Spec == Init /\ [][Next]_vars

-----------------------------------------------------------------------------
(* Readers *)

\* get_int, in halves: int(float(...)) cuts a half.
GetInt(k) == 2 * (cache[k].halves \div 2)

\* get_bool.
GetBool(k) == cache[k] = Digit(TRUE)

-----------------------------------------------------------------------------
(* Properties *)

\* Types.
TypeOK ==
    /\ DOMAIN table = Keys /\ DOMAIN cache = Keys
    /\ \A k \in Keys : table[k] \in Texts(k) \cup {None} /\ cache[k] \in Texts(k)

\* What reaches the scheduler, the keyboards and the texts is in range and well formed,
\* whatever the table holds: a bad row never stops the bot or makes a screen impossible.
ReadersAreSafe ==
    \A k \in Keys :
       /\ Kind[k] = "whole" => /\ cache[k].is = "number" /\ cache[k].as = "integer"
                               /\ cache[k].halves % 2 = 0
                               /\ Low[k] <= GetInt(k) /\ GetInt(k) <= High[k]
       /\ Kind[k] = "decimal" => /\ cache[k].is = "number"
                                 /\ Low[k] <= cache[k].halves /\ cache[k].halves <= High[k]
       /\ Kind[k] = "switch" => cache[k] \in {Digit(TRUE), Digit(FALSE)}
       /\ Kind[k] = "username" => /\ cache[k].is = "username" /\ cache[k].formed
                                  /\ cache[k].signs = 0
       /\ Kind[k] = "prose" => cache[k].is = "prose" /\ cache[k].short

\* A restart changes no setting: what staff were told is stored passes validation again,
\* and comes out of it as it went in.
RestartChangesNothingStep ==
    Restart => cache' = cache
RestartChangesNothing == [][RestartChangesNothingStep]_vars
=============================================================================
