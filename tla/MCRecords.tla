------------------------------ MODULE MCRecords ------------------------------
(* What staff edit and what is shown of it, for TLC: bank details, the
   catalog, the books, the broadcast, the dialogs of the panel, the pages of
   lists, roles, settings.  They share no state here: in a behaviour one of them
   takes steps.  Requisites is extended, because proofs speak of it; the
   others are instances that share variables to keep the states short. *)
EXTENDS Requisites, TLC

VARIABLES
    part,       \* the component this behaviour is of
    x1, x2, x3, x4, x5, x6, x7, x8      \* the variables of the others

others == <<x1, x2, x3, x4, x5, x6, x7, x8>>
recordsVars == <<part, vars, others>>
Rest == "rest"  \* a variable that the component does not have

\* One setting of each kind, numbers apart from texts: a setting never looks at
\* another one.  An hour is 0 or 1, a rate one half or 1.
NumberKind == [check_hour |-> "whole", star_to_rub |-> "decimal"]
TextKind == [require_username |-> "switch", manager_username |-> "username",
             welcome_text |-> "prose"]
LowOf(kind) == [k \in DOMAIN kind |-> IF k = "star_to_rub" THEN 1 ELSE 0]
HighOf(kind) == [k \in DOMAIN kind |-> 2]

Symmetry == Permutations(Clients) \cup Permutations(Staff)

-----------------------------------------------------------------------------
(* The components *)

C == INSTANCE Catalog WITH
    Clients <- Clients, Staff <- Staff, Names <- {"name"}, MaxProducts <- 2, MaxBought <- 2,
    MaxSubs <- 1, product <- x1, lastProduct <- x2, order <- x3, lastOrder <- x4, sub <- x5,
    lastSub <- x6, task <- x7
B == INSTANCE Books WITH
    Orders <- Clients, Amounts <- {1, 3}, FirstMonth <- 11, MaxMonths <- 3, order <- x1,
    age <- x2, report <- x3
W == INSTANCE Broadcast WITH
    Staff <- Staff, Clients <- Clients, Tasks <- {"t1", "t2"}, MaxPreviews <- 2,
    MaxRestarts <- 1, pending <- x1, author <- x2, stale <- x3, client <- x4, task <- x5,
    got <- x6, told <- x7, restarts <- x8
D == INSTANCE Dialogs WITH
    Senders <- {"sender"}, Messages <- Clients,
    Kinds <- {"setting_value", "product_field", "req_field", "req_new"}, MaxProfiles <- 2,
    MaxPrompts <- 2, MaxChanges <- 2, profile <- x1, slot <- x2, tap <- x3, msg <- x4,
    prompts <- x5, changes <- x6, over <- x7
P == INSTANCE Paging WITH
    Ids <- Clients \cup {"id"}, PageSize <- 1, QueueLimit <- 3, MaxRows <- 3,
    PerPage <- {2, 3}, items <- x1, perPage <- x2, screen <- x3, buttons <- x4
R == INSTANCE Roles WITH
    Accounts <- Staff \cup {"client"}, MaxRows <- 3, Lists <- (SUBSET Staff) \ {{}},
    Taps <- Clients, MaxStarts <- 2, Erased <- "erased", row <- x1, last <- x2,
    owners <- x3, tap <- x4, starts <- x5
V == INSTANCE Settings WITH
    Keys <- DOMAIN NumberKind, Kind <- NumberKind, Low <- LowOf(NumberKind),
    High <- HighOf(NumberKind), MaxHalves <- 3, MaxSigns <- 1, table <- x1, cache <- x2
O == INSTANCE Settings WITH
    Keys <- DOMAIN TextKind, Kind <- TextKind, Low <- LowOf(TextKind),
    High <- HighOf(TextKind), MaxHalves <- 3, MaxSigns <- 1, table <- x1, cache <- x2

ASSUME RecordsAssumption ==
    /\ RequisitesAssumption
    /\ C!CatalogAssumption
    /\ B!BooksAssumption
    /\ W!BroadcastAssumption
    /\ D!DialogsAssumption /\ D!KindsAssumption
    /\ P!PagingAssumption
    /\ R!RolesAssumption
    /\ V!SettingsAssumption
    /\ O!SettingsAssumption

RecordsInit ==
    /\ Init
    /\ \/ /\ part = "requisites"
          /\ x1 = Rest /\ x2 = Rest /\ x3 = Rest /\ x4 = Rest /\ x5 = Rest /\ x6 = Rest
          /\ x7 = Rest /\ x8 = Rest
       \/ /\ part = "catalog" /\ C!Init
          /\ x8 = Rest
       \/ /\ part = "books" /\ B!Init
          /\ x4 = Rest /\ x5 = Rest /\ x6 = Rest /\ x7 = Rest /\ x8 = Rest
       \/ part = "broadcast" /\ W!Init
       \/ /\ part = "dialogs" /\ D!Init
          /\ x8 = Rest
       \/ /\ part = "paging" /\ P!Init
          /\ x5 = Rest /\ x6 = Rest /\ x7 = Rest /\ x8 = Rest
       \/ /\ part = "roles" /\ R!Init
          /\ x6 = Rest /\ x7 = Rest /\ x8 = Rest
       \/ /\ part = "numbers" /\ V!Init
          /\ x3 = Rest /\ x4 = Rest /\ x5 = Rest /\ x6 = Rest /\ x7 = Rest /\ x8 = Rest
       \/ /\ part = "texts" /\ O!Init
          /\ x3 = Rest /\ x4 = Rest /\ x5 = Rest /\ x6 = Rest /\ x7 = Rest /\ x8 = Rest
    /\ part # "requisites" => ~forAll

RecordsNext ==
    \/ part = "requisites" /\ Next /\ UNCHANGED <<part, others>>
    \/ part = "catalog" /\ C!Next /\ UNCHANGED <<part, vars, x8>>
    \/ part = "books" /\ B!Next /\ UNCHANGED <<part, vars, x4, x5, x6, x7, x8>>
    \/ part = "broadcast" /\ W!Next /\ UNCHANGED <<part, vars>>
    \/ part = "dialogs" /\ D!Next /\ UNCHANGED <<part, vars, x8>>
    \/ part = "paging" /\ P!Next /\ UNCHANGED <<part, vars, x5, x6, x7, x8>>
    \/ part = "roles" /\ R!Next /\ UNCHANGED <<part, vars, x6, x7, x8>>
    \/ part = "numbers" /\ V!Next /\ UNCHANGED <<part, vars, x3, x4, x5, x6, x7, x8>>
    \/ part = "texts" /\ O!Next /\ UNCHANGED <<part, vars, x3, x4, x5, x6, x7, x8>>

RecordsSpec == RecordsInit /\ [][RecordsNext]_recordsVars

-----------------------------------------------------------------------------
(* Properties *)

\* While staff add, hide and delete products, a client's list and the cards behind it agree,
\* offers stay with the client they were made for, and no order or term points at a product
\* that is gone.
OffersAreConsistent ==
    part = "catalog" => C!OffersAreConsistent

\* Every payment lies in one month, the months add up to the dashboard, and a report that
\* went out stays right, whatever happens to its orders afterwards.
BooksAgree ==
    part = "books" => B!BooksAgree

\* What goes out is the text the tapped button stands under, and it goes to a client once,
\* although staff preview, tap and tap again while the clients are read one by one.
SentOnceAsShown ==
    part = "broadcast" => W!SentOnceAsShown

\* A prompt nobody ended is in the store, and no message writes its value for a prompt that
\* was over when it came, whatever interleaves between its reads and its write.
AnswersFindTheirPrompt ==
    part = "dialogs" => D!AnswersFindTheirPrompt

\* Whatever page an old button asks for, the screen shows lines if there are any, its buttons
\* are those lines, and its arrows lead through the whole list, each item once.
PagesAreTheList ==
    part = "paging" => P!PagesAreTheList

\* An account has one profile and the owners are those on the environment's list, whatever
\* buttons staff press that they were shown before a change of roles, an erasure or a start.
RolesFollowTheList ==
    part = "roles" => R!RolesFollowTheList

\* What reaches the scheduler, the keyboards and the texts is in range and well formed,
\* whatever the table holds: a bad row never stops the bot or makes a screen impossible.
ReadersAreSafe ==
    /\ part = "numbers" => V!ReadersAreSafe
    /\ part = "texts" => O!ReadersAreSafe

\* What ended has no effect and what is saved stays: deleted bank details are shown to nobody
\* and handed the default on, an erased client gets no more of a broadcast and an erased
\* profile stays as it is, nobody becomes an administrator but by somebody who is an owner at
\* that moment, a value is written only if its author held the rights at some moment since
\* the message came, and a restart changes no setting.
OnlyAsEntitledStep ==
    /\ DefaultIsHandedOnStep /\ DeletedIsNotShownStep
    /\ part = "broadcast" => W!NothingToTheErasedStep
    /\ part = "dialogs" => D!NobodyFinishesWithoutRightsStep
    /\ part = "roles" => R!AdminsComeFromOwnersStep /\ R!ErasedRowsAreInertStep
    /\ part = "numbers" => V!RestartChangesNothingStep
    /\ part = "texts" => O!RestartChangesNothingStep
OnlyAsEntitled == [][OnlyAsEntitledStep]_recordsVars
=============================================================================
