----------------------------- MODULE Broadcast -----------------------------
(***************************************************************************)
(* Broadcasts: a member of staff types a text, is shown a preview with a   *)
(* Send and a Cancel button, and one of them is tapped, perhaps twice,     *)
(* perhaps long after (handlers/admin/settings_panel.py).  What is sent is *)
(* kept in memory, one preview for each member of staff, and its buttons   *)
(* carry its nonce.  Clients are blocked and erased while it goes out.     *)
(*                                                                         *)
(* A tap waits for the database to say who tapped it (base.actor) and then *)
(* goes on at once: that is its second step.                               *)
(***************************************************************************)
EXTENDS Naturals, FiniteSets

CONSTANTS
    Staff,
    Clients,
    Tasks,          \* taps under way at one time
    MaxPreviews,    \* bound on previews
    MaxRestarts     \* bound on restarts of the process

VARIABLES
    pending,    \* the preview kept for each member of staff, 0 for none
    author,     \* whose preview a nonce is
    stale,      \* previews older than BROADCAST_PREVIEW_TTL
    client,     \* here, blocked, or erased
    task,       \* where each tap stands
    got,        \* how often a client was sent a text
    told,       \* previews staff were told are cancelled
    restarts

vars == <<pending, author, stale, client, task, got, told, restarts>>

Previews == 1..MaxPreviews
Nobody == "nobody"
BroadcastAssumption == MaxPreviews \in Nat /\ MaxRestarts \in Nat /\ Nobody \notin Staff

Made == {n \in Previews : author[n] # Nobody}
Idle == [at |-> "idle", nonce |-> 0, text |-> 0, left |-> {}]

Moves(t, step) == task' = [task EXCEPT ![t] = step]

-----------------------------------------------------------------------------
(* The dialogue *)

\* prepare_broadcast: the new preview takes the place of an older one.
Prepare(s) ==
    /\ \E n \in Previews : /\ n = Cardinality(Made) + 1
                           /\ author' = [author EXCEPT ![n] = s]
                           /\ pending' = [pending EXCEPT ![s] = n]
    /\ UNCHANGED <<stale, client, task, got, told, restarts>>

\* A button of a preview is tapped by its author.
Tap(t, n, button) ==
    /\ task[t] = Idle /\ n \in Made
    /\ Moves(t, [Idle EXCEPT !.at = button, !.nonce = n])
    /\ UNCHANGED <<pending, author, stale, client, got, told, restarts>>

Mine(t) == pending[author[task[t].nonce]]
Forget(t) == pending' = [pending EXCEPT ![author[task[t].nonce]] = 0]

\* Mutant: the button's nonce is not compared.
StartAny(t) ==
    /\ task[t].at = "send"
    /\ IF Mine(t) # 0 /\ Mine(t) \notin stale
       THEN Moves(t, [task[t] EXCEPT !.at = "list", !.text = Mine(t)]) /\ Forget(t)
       ELSE Moves(t, Idle) /\ UNCHANGED pending
    /\ UNCHANGED <<author, stale, client, got, told, restarts>>

\* broadcast_send takes the preview before its first await.
Start(t) ==
    /\ task[t].at = "send"
    /\ IF Mine(t) = task[t].nonce /\ task[t].nonce \notin stale
       THEN Moves(t, [task[t] EXCEPT !.at = "list", !.text = Mine(t)]) /\ Forget(t)
       ELSE Moves(t, Idle) /\ UNCHANGED pending
    /\ UNCHANGED <<author, stale, client, got, told, restarts>>

\* broadcast_cancel says so whatever became of the preview.
CancelTap(t) ==
    /\ task[t].at = "cancel"
    /\ IF Mine(t) = task[t].nonce THEN Forget(t) ELSE UNCHANGED pending
    /\ told' = told \cup {task[t].nonce}
    /\ Moves(t, Idle)
    /\ UNCHANGED <<author, stale, client, got, restarts>>

-----------------------------------------------------------------------------
(* Sending *)

\* all_recipients.
List(t) ==
    /\ task[t].at = "list"
    /\ Moves(t, [task[t] EXCEPT !.at = "next",
                                !.left = {c \in Clients : client[c] = "here"}])
    /\ UNCHANGED <<pending, author, stale, client, got, told, restarts>>

\* to_user, for the next of the list: under the client's lifecycle lock it sees that the
\* client was not erased; whether it was blocked it does not ask.  Telegram may refuse.
Send(t, c) ==
    /\ task[t].at = "next" /\ c \in task[t].left
    /\ Moves(t, [task[t] EXCEPT !.left = @ \ {c}])
    /\ \/ client[c] # "erased" /\ got' = [got EXCEPT ![c][task[t].text] = @ + 1]
       \/ UNCHANGED got
    /\ UNCHANGED <<pending, author, stale, client, told, restarts>>

Finish(t) ==
    /\ task[t].at = "next" /\ task[t].left = {} /\ Moves(t, Idle)
    /\ UNCHANGED <<pending, author, stale, client, got, told, restarts>>

-----------------------------------------------------------------------------
(* What happens meanwhile *)

Expire(n) ==
    /\ n \in Made \ stale /\ stale' = stale \cup {n}
    /\ UNCHANGED <<pending, author, client, task, got, told, restarts>>

\* set_blocked and erase of db/users.py.
Change(c, new) ==
    /\ client[c] # "erased" /\ client[c] # new
    /\ client' = [client EXCEPT ![c] = new]
    /\ UNCHANGED <<pending, author, stale, task, got, told, restarts>>

\* Previews and broadcasts under way are lost.
Restart ==
    /\ restarts < MaxRestarts /\ restarts' = restarts + 1
    /\ pending' = [s \in Staff |-> 0] /\ task' = [t \in Tasks |-> Idle]
    /\ UNCHANGED <<author, stale, client, got, told>>

-----------------------------------------------------------------------------

Init ==
    /\ pending = [s \in Staff |-> 0] /\ author = [n \in Previews |-> Nobody] /\ stale = {}
    /\ client = [c \in Clients |-> "here"] /\ task = [t \in Tasks |-> Idle]
    /\ got = [c \in Clients |-> [n \in Previews |-> 0]] /\ told = {} /\ restarts = 0

Next ==
    \/ \E s \in Staff : Prepare(s)
    \/ \E t \in Tasks :
          \/ \E n \in Previews, button \in {"send", "cancel"} : Tap(t, n, button)
          \/ \E c \in Clients : Send(t, c)
          \/ Start(t) \/ CancelTap(t) \/ List(t) \/ Finish(t)
    \/ \E n \in Previews : Expire(n)
    \/ \E c \in Clients, new \in {"here", "blocked", "erased"} : Change(c, new)
    \/ Restart

Spec == Init /\ [][Next]_vars

-----------------------------------------------------------------------------
(* Properties *)

\* Types; what is kept for a member of staff is a preview of their own.
TypeOK ==
    /\ pending \in [Staff -> 0..MaxPreviews] /\ author \in [Previews -> Staff \cup {Nobody}]
    /\ \A s \in Staff : pending[s] # 0 => author[pending[s]] = s
    /\ stale \subseteq Made /\ told \subseteq Made /\ restarts \in 0..MaxRestarts
    /\ client \in [Clients -> {"here", "blocked", "erased"}]
    /\ got \in [Clients -> [Previews -> Nat]]
    /\ task \in [Tasks -> [at : {"idle", "send", "cancel", "list", "next"},
                           nonce : 0..MaxPreviews, text : 0..MaxPreviews,
                           left : SUBSET Clients]]

\* The text that goes out is the one the tapped button stands under, whatever was typed
\* and previewed since.
WhatWasShownIsSent ==
    \A t \in Tasks : task[t].at \in {"list", "next"} => task[t].text = task[t].nonce

\* Taps on Send, by impatience or from two devices, send a text once.
NobodyGetsItTwice == \A c \in Clients, n \in Previews : got[c][n] <= 1

\* A client who was erased while the broadcast went out gets no more of it.
NothingToTheErasedStep ==
    \A c \in Clients : client[c] = "erased" => got'[c] = got[c]
NothingToTheErased == [][NothingToTheErasedStep]_vars

\* "Broadcast cancelled."
\* The code does not keep it: see Disagreements in README.md.
CancelledIsNotSent ==
    [][\A n \in told, c \in Clients : got'[c][n] = got[c][n]]_vars

\* What goes out is the text the tapped button stands under, and it goes to a client once,
\* although staff preview, tap and tap again while the clients are read one by one.
SentOnceAsShown ==
    /\ TypeOK /\ WhatWasShownIsSent /\ NobodyGetsItTwice
=============================================================================
