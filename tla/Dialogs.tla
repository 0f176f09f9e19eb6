------------------------------ MODULE Dialogs ------------------------------
(***************************************************************************)
(* Step by step input: the prompts of utils/states.py, how staff buttons   *)
(* open them (handlers/admin/base.py ask), and how typed answers find them *)
(* (handlers/admin/input.py and the handlers registered with on_state).    *)
(*                                                                         *)
(* The store holds one prompt per sender and lives in memory. Updates are  *)
(* handled concurrently: between a message's look into the store and its   *)
(* handler lies an await, in which the same person may press buttons and   *)
(* send messages, and other staff may change who that person is.           *)
(***************************************************************************)
EXTENDS Naturals

CONSTANTS
    Senders,        \* Telegram accounts of staff, each with its private chat
    Messages,       \* messages that may be in hand at the same time
    Kinds,          \* the prompts that are opened, of those in Section
    MaxProfiles,    \* bound on profiles an account has over time
    MaxPrompts,     \* bound on prompts
    MaxChanges      \* bound on changes of roles and profiles

DialogsAssumption ==
    /\ MaxProfiles \in Nat \ {0} /\ MaxPrompts \in Nat /\ MaxChanges \in Nat

VARIABLES
    profile,    \* the profile of an account: its number (0 for none), role, block
    slot,       \* the store
    tap,        \* the button a sender has pressed to open a prompt
    msg,        \* messages in hand
    prompts,    \* the number of the last prompt
    changes,
    over        \* history: prompts answered, left, cleared, replaced or expired

vars == <<profile, slot, tap, msg, prompts, changes, over>>

\* SECTION_ROLES, for the section each prompt is opened from.
Section == [setting_value |-> "admin", broadcast |-> "admin", product_new |-> "admin",
            product_field |-> "admin", req_field |-> "admin", req_new |-> "admin",
            offer_search |-> "admin", user_search |-> "manager", write_user |-> "manager"]

KindsAssumption == Kinds \subseteq DOMAIN Section

LevelOf == [user |-> 0, manager |-> 1, admin |-> 2]
NoPrompt == [id |-> 0]
NoTap == [step |-> "none"]
NoMessage == [step |-> "none"]

\* Mutant: any member of staff may finish any prompt.
AnyStaff(u, kind) == ~u.blocked /\ LevelOf[u.role] >= LevelOf["manager"]

\* access.can.
can(u, kind) == ~u.blocked /\ LevelOf[u.role] >= LevelOf[Section[kind]]

\* The profile that opened prompt p is the sender's, and may do what it asks.
HasRights(u, p) == u.id = p.actor /\ ~u.blocked /\ LevelOf[u.role] >= LevelOf[Section[p.kind]]

\* History: the prompts that are over when the store holds q in place of slot[s].
Ended(s, q) == over \cup ({slot[s].id} \ {0, q.id})

\* clear_for: whatever prompt the sender has by now.
clear_for(s) ==
    /\ slot' = [slot EXCEPT ![s] = NoPrompt]
    /\ over' = Ended(s, NoPrompt)

-----------------------------------------------------------------------------
(* Opening *)

\* base.actor for the button.
OpenRead(s, kind) ==
    /\ tap[s] = NoTap /\ profile[s].id # 0 /\ can(profile[s], kind)
    /\ tap' = [tap EXCEPT ![s] = [step |-> "set", kind |-> kind, actor |-> profile[s].id]]
    /\ UNCHANGED <<profile, slot, msg, prompts, changes, over>>

\* ask: set_for replaces any prompt the sender had.
OpenSet(s) ==
    /\ tap[s].step = "set" /\ prompts < MaxPrompts
    /\ prompts' = prompts + 1
    /\ LET p == [id |-> prompts', kind |-> tap[s].kind, actor |-> tap[s].actor,
                 step |-> 0, old |-> FALSE] IN
       /\ slot' = [slot EXCEPT ![s] = p]
       /\ over' = Ended(s, p)
    /\ tap' = [tap EXCEPT ![s].step = "tell"]
    /\ UNCHANGED <<profile, msg, changes>>

\* ask: the question is shown to the profile that asked for it, or the prompt cleared.
OpenTell(s) ==
    /\ tap[s].step = "tell"
    /\ tap' = [tap EXCEPT ![s] = NoTap]
    /\ IF profile[s].id = tap[s].actor THEN UNCHANGED <<slot, over>> ELSE clear_for(s)
    /\ UNCHANGED <<profile, msg, prompts, changes>>

\* /start, /admin and the Cancel button: the prompt is cleared.
Leave(s) ==
    /\ slot[s] # NoPrompt
    /\ clear_for(s)
    /\ UNCHANGED <<profile, tap, msg, prompts, changes>>

-----------------------------------------------------------------------------
(* Answers *)

\* Mutant: prompts do not expire.
ReadWhatever(m, s, text) ==
    /\ msg[m] = NoMessage /\ slot[s] # NoPrompt
    /\ msg' = [msg EXCEPT ![m] = [step |-> "asked", from |-> s, text |-> text,
                                  prompt |-> slot[s], late |-> slot[s].id \in over,
                                  held |-> HasRights(profile[s], slot[s])]]
    /\ UNCHANGED <<profile, slot, tap, prompts, changes, over>>

\* text_input up to its first await: the prompt as it is in the store; one that has
\* expired is dropped and the message is nobody's answer.
Receive(m, s, text) ==
    /\ msg[m] = NoMessage /\ slot[s] # NoPrompt
    /\ IF slot[s].old
       THEN UNCHANGED msg /\ clear_for(s)
       ELSE /\ msg' = [msg EXCEPT ![m] =
                         [step |-> "asked", from |-> s, text |-> text, prompt |-> slot[s],
                          late |-> slot[s].id \in over,
                          held |-> HasRights(profile[s], slot[s])]]
            /\ UNCHANGED <<slot, over>>
    /\ UNCHANGED <<profile, tap, prompts, changes>>

Drop(m) == msg' = [msg EXCEPT ![m] = NoMessage]
Goes(m, step) == msg' = [msg EXCEPT ![m].step = step]

\* The value is taken: the handler clears the store and goes on to its first write.
Accept(m) ==
    /\ Goes(m, "write")
    /\ slot' = [slot EXCEPT ![msg[m].from] = NoPrompt]
    /\ over' = Ended(msg[m].from, NoPrompt) \cup {msg[m].prompt.id}

\* save_method_field, write_user_message: cleared first, a bad value ends the prompt.
ClearsFirst(m) ==
    \/ msg[m].text = "value" /\ Accept(m)
    \/ msg[m].text = "bad" /\ Drop(m) /\ clear_for(msg[m].from)

\* save_setting, prepare_broadcast, create_product: a bad value may be typed again.
KeepsIfBad(m) ==
    \/ msg[m].text = "value" /\ Accept(m)
    \/ msg[m].text = "bad" /\ Drop(m) /\ UNCHANGED <<slot, over>>

\* create_method: the first answer is kept and the second asked for, under set_for.
TwoSteps(m) ==
    IF msg[m].prompt.step = 0
    THEN LET s == msg[m].from
             p == [msg[m].prompt EXCEPT !.step = 1, !.actor = profile[s].id] IN
         /\ Drop(m)
         /\ slot' = [slot EXCEPT ![s] = p]
         /\ over' = Ended(s, p)
    ELSE Accept(m)

\* text_input from access.actor on, into the handler as far as its first await.
Check(m) ==
    /\ msg[m].step = "asked"
    /\ LET s == msg[m].from
           p == msg[m].prompt IN
       IF profile[s].id # p.actor \/ msg[m].text = "cancel" \/ ~can(profile[s], p.kind)
       THEN Drop(m) /\ clear_for(s)
       ELSE \/ p.kind \in {"req_field", "write_user"} /\ ClearsFirst(m)
            \/ p.kind \in {"setting_value", "broadcast", "product_new"} /\ KeepsIfBad(m)
            \/ p.kind = "req_new" /\ TwoSteps(m)
            \/ /\ p.kind \in {"product_field", "user_search", "offer_search"}
               /\ Goes(m, "lookup") /\ UNCHANGED <<slot, over>>
    /\ UNCHANGED <<profile, tap, prompts, changes>>

\* save_product_field after the product is read, the searches after the search: a bad
\* value leaves the prompt open, a missing product or a failure ends it.
Lookup(m) ==
    /\ msg[m].step = "lookup"
    /\ \/ KeepsIfBad(m)
       \/ Drop(m) /\ clear_for(msg[m].from)
    /\ UNCHANGED <<profile, tap, prompts, changes>>

\* The handler's write.
Write(m) ==
    /\ msg[m].step = "write"
    /\ Drop(m)
    /\ UNCHANGED <<profile, slot, tap, prompts, changes, over>>

-----------------------------------------------------------------------------
(* What happens meanwhile *)

\* TTL_SECONDS pass.
Expire(s) ==
    /\ slot[s] # NoPrompt /\ ~slot[s].old
    /\ slot' = [slot EXCEPT ![s].old = TRUE]
    /\ over' = over \cup {slot[s].id}
    /\ UNCHANGED <<profile, tap, msg, prompts, changes>>

\* sweep, hourly.
Sweep ==
    /\ \E s \in Senders : slot[s] # NoPrompt /\ slot[s].old
    /\ slot' = [s \in Senders |->
                  IF slot[s] # NoPrompt /\ slot[s].old THEN NoPrompt ELSE slot[s]]
    /\ UNCHANGED <<profile, tap, msg, prompts, changes, over>>

\* Other staff change a role or a block or erase the profile (module Roles), or the
\* account of an erased one writes to the bot again.
ProfileChanges(s) ==
    /\ changes < MaxChanges /\ changes' = changes + 1
    /\ LET u == profile[s] IN
       \E v \in {[u EXCEPT !.role = role] : role \in DOMAIN LevelOf} \cup
                {[u EXCEPT !.blocked = ~u.blocked],
                 [id |-> 0, last |-> u.last, role |-> "user", blocked |-> TRUE],
                 [id |-> u.last + 1, last |-> u.last + 1, role |-> "user",
                  blocked |-> FALSE]} :
        /\ v # u /\ v.last <= MaxProfiles
        /\ (u.id = 0) = (v.last # u.last)
        /\ profile' = [profile EXCEPT ![s] = v]
        /\ msg' = [m \in Messages |->
             IF msg[m] # NoMessage /\ msg[m].from = s
             THEN [msg[m] EXCEPT !.held = @ \/ HasRights(v, msg[m].prompt)]
             ELSE msg[m]]
    /\ UNCHANGED <<slot, tap, prompts, over>>

\* The process ends and starts again.
Restart ==
    /\ slot' = [s \in Senders |-> NoPrompt]
    /\ tap' = [s \in Senders |-> NoTap]
    /\ msg' = [m \in Messages |-> NoMessage]
    /\ over' = 1..prompts
    /\ UNCHANGED <<profile, prompts, changes>>

Init ==
    /\ profile = [s \in Senders |-> [id |-> 1, last |-> 1, role |-> "admin",
                                     blocked |-> FALSE]]
    /\ slot = [s \in Senders |-> NoPrompt]
    /\ tap = [s \in Senders |-> NoTap]
    /\ msg = [m \in Messages |-> NoMessage]
    /\ prompts = 0 /\ changes = 0 /\ over = {}

Next ==
    \/ \E s \in Senders :
        \/ \E kind \in Kinds : OpenRead(s, kind)
        \/ OpenSet(s) \/ OpenTell(s) \/ Leave(s) \/ Expire(s) \/ ProfileChanges(s)
        \/ \E m \in Messages, text \in {"value", "bad", "cancel"} : Receive(m, s, text)
    \/ \E m \in Messages : Check(m) \/ Lookup(m) \/ Write(m)
    \/ Sweep \/ Restart

Spec == Init /\ [][Next]_vars

-----------------------------------------------------------------------------
(* Properties *)

\* The store holds prompts that were opened, messages carry one they have read, and a
\* prompt nobody has ended is in the store.
TypeOK ==
    /\ prompts \in 0..MaxPrompts /\ changes \in 0..MaxChanges
    /\ over \subseteq 1..prompts
    /\ \A s \in Senders :
        /\ profile[s].id \in {0, profile[s].last} /\ profile[s].last \in 1..MaxProfiles
        /\ tap[s] # NoTap => tap[s].step \in {"set", "tell"}
        /\ slot[s] # NoPrompt => slot[s].id \in 1..prompts /\ slot[s].kind \in Kinds
    /\ \A m \in Messages : msg[m] # NoMessage =>
        /\ msg[m].step \in {"asked", "lookup", "write"}
        /\ msg[m].prompt.id \in 1..prompts
    /\ \A p \in (1..prompts) \ over : \E s \in Senders : slot[s].id = p

\* "Checking only for staff let a demoted or blocked admin finish a flow they no longer may
\* run" (input.py:63-64): a value is written only if, at some moment between the arrival of
\* its message and the write, the profile that opened the prompt was the sender's and held
\* the role its section asks for - through demotions, blocks, erasure and registration anew.
NobodyFinishesWithoutRightsStep ==
    \A m \in Messages :
      msg[m].step = "write" /\ msg'[m] # msg[m] => msg[m].held
NobodyFinishesWithoutRights == [][NobodyFinishesWithoutRightsStep]_vars

\* A message that arrives when its prompt is over - answered, cancelled, left for the menu,
\* replaced, expired or of an earlier process - is not its answer, whatever of the prompt is
\* still under way. The two questions of req_new are set apart by LeavingEndsTheFlow.
OverIsOver ==
    \A m \in Messages : msg[m].step = "write" /\ msg[m].prompt.kind # "req_new" => ~msg[m].late

\* "Leaving to the main menu ends whatever flow was open" (handlers/start.py:17): a prompt
\* that is over, because its sender left for one, is not in the store again.
\* The code does not keep it: see Disagreements in README.md.
LeavingEndsTheFlow == \A s \in Senders : slot[s].id \in over => slot[s].old

\* A prompt nobody ended is in the store, and no message writes its value for a prompt that
\* was over when it came, whatever interleaves between its reads and its write.
AnswersFindTheirPrompt ==
    /\ TypeOK /\ OverIsOver
=============================================================================
