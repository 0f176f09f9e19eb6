------------------------------ MODULE Reminders ------------------------------
(***************************************************************************)
(* The reminders of services/scheduler.py and the flags of                 *)
(* db/subscriptions.py they stand on, for one subscription.                *)
(*                                                                         *)
(* A run has a pass for those that end by tomorrow and a pass for those    *)
(* that end within the days of the setting.  Each reads its list, claims a *)
(* flag by compare and swap on the date it read, sends, and gives the flag *)
(* back when the message was not delivered.  Renewals, gifts and refunds   *)
(* move the date in between.                                               *)
(***************************************************************************)
EXTENDS Naturals

CONSTANTS
    Before,         \* notify_days_before
    Periods,        \* lengths in days of what can be bought or given
    LastDay,        \* bound on the clock and on the dates
    MaxRenewals,    \* bound on periods added
    MaxDoubts,      \* bound on messages that arrive and are reported as failed
    MaxCancels,     \* bound on shutdowns that cancel the run
    MaxKills,       \* bound on kills of the process
    Refunds         \* whether periods are taken back

RemindersAssumption ==
    /\ Before \in Nat \ {0} /\ LastDay \in Nat /\ Periods \subseteq 1..LastDay
    /\ MaxRenewals \in Nat \ {0} /\ MaxDoubts \in Nat /\ MaxCancels \in Nat /\ MaxKills \in Nat
    /\ Refunds \in BOOLEAN

VARIABLES
    sub,        \* the row: active, until, and the flags that are set
    added,      \* periods added and not taken back
    renewals,
    now,
    job,        \* the run of notify_expiring
    told,       \* reminders the customer got of this term, by pass
    moved,      \* a refund moved the date under a run
    doubts, cancels, kills

vars == <<sub, added, renewals, now, job, told, moved, doubts, cancels, kills>>
faults == <<doubts, cancels, kills>>

Passes == {"1d", "3d"}
Days(pass) == IF pass = "1d" THEN 1 ELSE Before

\* flags_to_set: the one day pass closes the earlier reminder too.
Flags(pass) == IF pass = "1d" THEN {"1d", "3d"} ELSE {"3d"}

\* fresh: the term was not renewed since the flag was claimed.
Idle == [at |-> "idle"]
Run(at, pass, tried) ==
    [at |-> at, pass |-> pass, tried |-> tried, saw |-> 0, claimed |-> {}, fresh |-> TRUE,
     sent |-> 0]

NoneTold == [p \in Passes |-> 0]

-----------------------------------------------------------------------------
(* A run *)

\* notify_expiring, from the cron, the hourly job or the start; _reminders_lock.
Begin ==
    /\ job = Idle
    /\ job' = Run("read", "1d", FALSE)
    /\ UNCHANGED <<sub, added, renewals, now, told, moved, faults>>

\* What follows this subscription in this pass.
NextPass ==
    job' = IF job.pass = "1d" /\ Before > 1
           THEN [Run("read", "3d", job.tried) EXCEPT !.sent = job.sent]
           ELSE Idle

\* expiring_in.
Due ==
    /\ sub.active /\ job.pass \notin sub.flags
    /\ sub.until > now /\ sub.until <= now + Days(job.pass)

ReadDue ==
    /\ job.at = "read"
    /\ IF Due /\ ~job.tried
       THEN job' = [job EXCEPT !.at = "claim", !.saw = sub.until, !.fresh = TRUE]
       ELSE NextPass
    /\ UNCHANGED <<sub, added, renewals, now, told, moved, faults>>

\* claim_notification: whether it changes the row.
Claimable(flag) == sub.active /\ sub.until = job.saw /\ flag \notin sub.flags

Claim ==
    /\ job.at = "claim"
    /\ IF Claimable(job.pass)
       THEN /\ sub' = [sub EXCEPT !.flags = @ \cup {job.pass}]
            /\ job' = [job EXCEPT !.at = IF job.pass = "1d" THEN "other" ELSE "send",
                                  !.claimed = {job.pass}, !.tried = TRUE,
                                  !.fresh = TRUE]
       ELSE NextPass /\ UNCHANGED sub
    /\ UNCHANGED <<added, renewals, now, told, moved, faults>>

\* The other flag of the one day pass.
ClaimOther ==
    /\ job.at = "other"
    /\ LET more == {f \in Flags(job.pass) : Claimable(f)} IN
       /\ sub' = [sub EXCEPT !.flags = @ \cup more]
       /\ job' = [job EXCEPT !.at = "send", !.claimed = @ \cup more]
    /\ UNCHANGED <<added, renewals, now, told, moved, faults>>

Arrives ==
    told' = IF job.fresh \/ job.saw = sub.until THEN [told EXCEPT ![job.pass] = @ + 1] ELSE told

\* Mutant: the flags are given back whether the message was delivered or not.
DeliveredReleases ==
    /\ job.at = "send" /\ Arrives
    /\ job' = [job EXCEPT !.at = "release", !.sent = @ + 1]
    /\ UNCHANGED <<sub, added, renewals, now, moved, faults>>

Delivered ==
    /\ job.at = "send" /\ Arrives
    /\ job' = IF job.pass = "1d" /\ Before > 1
              THEN [Run("read", "3d", TRUE) EXCEPT !.sent = job.sent + 1]
              ELSE Idle
    /\ UNCHANGED <<sub, added, renewals, now, moved, faults>>

\* Refused by Telegram, or suppressed because the profile is gone; and a message
\* that arrived all the same.
NotDelivered ==
    /\ job.at = "send"
    /\ \/ UNCHANGED <<told, doubts>>
       \/ doubts < MaxDoubts /\ doubts' = doubts + 1 /\ Arrives
    /\ job' = [job EXCEPT !.at = "release", !.sent = @ + 1]
    /\ UNCHANGED <<sub, added, renewals, now, moved, cancels, kills>>

\* release_notifications.
Given ==
    IF sub.active /\ sub.until = job.saw
    THEN sub' = [sub EXCEPT !.flags = @ \ job.claimed]
    ELSE UNCHANGED sub

Release ==
    /\ job.at = "release" /\ Given /\ NextPass
    /\ UNCHANGED <<added, renewals, now, told, moved, faults>>

\* stop() cancels the run after its grace.  A statement under way is carried out or
\* not; from the send on the flags are given back on the way out.
Cancel ==
    /\ job # Idle /\ cancels < MaxCancels /\ cancels' = cancels + 1
    /\ \/ job.at \in {"read", "claim", "other", "release"} /\ UNCHANGED <<sub, told, doubts>>
       \/ /\ job.at = "claim" /\ Claimable(job.pass)
          /\ sub' = [sub EXCEPT !.flags = @ \cup {job.pass}]
          /\ UNCHANGED <<told, doubts>>
       \/ job.at \in {"send", "release"} /\ Given /\ UNCHANGED <<told, doubts>>
       \/ job.at = "send" /\ Given /\ Arrives /\ doubts < MaxDoubts /\ doubts' = doubts + 1
    /\ job' = Idle
    /\ UNCHANGED <<added, renewals, now, moved, kills>>

\* The process ends without unwinding.
Kill ==
    /\ job # Idle /\ kills < MaxKills /\ kills' = kills + 1
    /\ job' = Idle
    /\ UNCHANGED <<sub, added, renewals, now, told, moved, doubts, cancels>>

-----------------------------------------------------------------------------
(* Who moves the date *)

\* extend, for a payment or a gift: a new term, and flags that start again.
Extend(days) ==
    /\ sub.active /\ renewals < MaxRenewals
    /\ LET from == IF sub.until > now THEN sub.until ELSE now IN
       /\ from + days <= LastDay
       /\ sub' = [sub EXCEPT !.until = from + days, !.flags = {}]
    /\ added' = added \cup {<<renewals, days>>} /\ renewals' = renewals + 1
    /\ told' = NoneTold
    /\ job' = IF job = Idle THEN Idle ELSE [job EXCEPT !.fresh = FALSE]
    /\ UNCHANGED <<now, moved, faults>>

\* revoke_payment: set_expiry leaves the flags, close ends the row.
TakeBack ==
    /\ Refunds
    /\ \E one \in added :
          /\ added' = added \ {one}
          /\ IF sub.active /\ sub.until <= now + one[2]
             THEN sub' = [sub EXCEPT !.active = FALSE]
             ELSE sub' = [sub EXCEPT !.until = IF @ > one[2] THEN @ - one[2] ELSE 0]
    /\ moved' = (moved \/ job # Idle)
    /\ UNCHANGED <<renewals, now, job, told, faults>>

\* claim_expired, close_subscription, erase.
End ==
    /\ sub.active
    /\ sub' = [sub EXCEPT !.active = FALSE]
    /\ UNCHANGED <<added, renewals, now, job, told, moved, faults>>

Tick ==
    /\ now < LastDay /\ now' = now + 1
    /\ UNCHANGED <<sub, added, renewals, job, told, moved, faults>>

-----------------------------------------------------------------------------

\* A first period was bought.
Init ==
    /\ now = 0
    /\ \E days \in Periods :
          /\ sub = [active |-> TRUE, until |-> days, flags |-> {}]
          /\ added = {<<0, days>>}
    /\ renewals = 1
    /\ job = Idle /\ told = NoneTold /\ moved = FALSE
    /\ doubts = 0 /\ cancels = 0 /\ kills = 0

Next ==
    \/ Begin \/ ReadDue \/ Claim \/ ClaimOther \/ Delivered \/ NotDelivered \/ Release
    \/ Cancel \/ Kill
    \/ \E days \in Periods : Extend(days)
    \/ TakeBack \/ End \/ Tick

Spec == Init /\ [][Next]_vars

-----------------------------------------------------------------------------
(* Properties *)

TypeOK ==
    /\ sub \in [active : BOOLEAN, until : 0..LastDay, flags : SUBSET Passes]
    /\ now \in 0..LastDay /\ renewals \in 0..MaxRenewals
    /\ job = Idle \/
          /\ job \in [at : {"read", "claim", "other", "send", "release"}, pass : Passes,
                      tried : BOOLEAN, saw : 0..LastDay, claimed : SUBSET Passes,
                      fresh : BOOLEAN, sent : Nat]
          /\ job.claimed \subseteq Flags(job.pass)
    /\ told \in [Passes -> Nat]
    /\ doubts \in 0..MaxDoubts /\ cancels \in 0..MaxCancels /\ kills \in 0..MaxKills

\* "The flags are a delivery record, not merely an attempt record.  A Telegram error
\* or forced shutdown leaves this eligible for retry": while no run is at work, a
\* flag that is set means that the customer was told.
\* The code does not keep it: see Disagreements in README.md.
FlagsAreDeliveries ==
    sub.active /\ job = Idle =>
        /\ "1d" \in sub.flags => told["1d"] > 0
        /\ "3d" \in sub.flags => told["1d"] + told["3d"] > 0

\* This holds as long as no run was broken off and no refund moved the date under
\* one, however often Telegram fails and the term is renewed.
FlagsHoldUndisturbed ==
    cancels = 0 /\ kills = 0 /\ ~moved => FlagsAreDeliveries

\* A term has each of its reminders once, but for a message that arrived and was
\* reported as failed, and a date that a refund brought back under a run.
OncePerTerm ==
    ~moved => \A pass \in Passes : told[pass] <= 1 + doubts

\* "Gets one message, not two": a run tries one message for a subscription, also
\* when the first failed and left it due in the second pass.
OnePerRun ==
    job # Idle => job.sent <= 1

\* Who was told that the end is tomorrow is not told afterwards that it is near,
\* undisturbed as above.
NearAfterTomorrowStep ==
    cancels' = 0 /\ kills' = 0 /\ ~moved' /\ told["1d"] > 0
         => told'["3d"] <= told["3d"]
NearAfterTomorrow == [][NearAfterTomorrowStep]_vars

\* A term has each reminder once and a run sends one message, although flags are claimed
\* before the message and given back after a failure, while renewals and refunds move the
\* date; what may disturb it is named in the parts.
RemindedOnce ==
    /\ TypeOK /\ FlagsHoldUndisturbed /\ OncePerTerm /\ OnePerRun
=============================================================================
