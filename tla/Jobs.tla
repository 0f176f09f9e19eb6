-------------------------------- MODULE Jobs --------------------------------
(***************************************************************************)
(* The scheduler's jobs from start to stop: services/scheduler.py and the  *)
(* order of start-up and shutdown in bot.py. The daily checks run once at  *)
(* each start and then at the hour the settings name; the hour may be      *)
(* moved while the bot runs (settings_panel.py); the monthly report is the *)
(* last of the checks, sent first and recorded after.                      *)
(*                                                                         *)
(* A run of the checks is a task of its own. At shutdown the running tasks *)
(* have a time to finish in and are cancelled after it, all before the     *)
(* database is closed. A kill ends everything where it stands.             *)
(***************************************************************************)
EXTENDS Integers

CONSTANTS
    Admins,         \* staff who move the hour of the daily checks
    HoursPerDay, DaysPerMonth,
    ReportDay,      \* monthly_report_day
    MaxClock,       \* bound on hours that pass
    MaxStarts,      \* bound on starts of the process
    MaxSaves,       \* bound on changes of the hour
    MaxFailures     \* bound on writes that raise

JobsAssumption ==
    /\ HoursPerDay \in Nat \ {0} /\ DaysPerMonth \in Nat \ {0}
    /\ ReportDay \in 1..DaysPerMonth
    /\ MaxClock \in Nat /\ MaxStarts \in Nat /\ MaxSaves \in Nat /\ MaxFailures \in Nat

VARIABLES
    phase,      \* of the process
    online,     \* the client is connected
    clock,      \* hours
    hour,       \* check_hour in the settings, on disk and in memory
    trigger,    \* the hour the scheduler's daily jobs have
    due,        \* the daily slot has come and its jobs are yet to be submitted
    task,       \* the tasks: the checks at start, and the scheduled jobs
    holder,     \* of _checks_lock
    stamp,      \* last_monthly_report, a month
    saving,     \* what an admin between set_value and reschedule has set
    starts, saves, failures,
    sent,       \* history: reports delivered for a month
    cut,        \* history: deliveries whose record an interruption or a failure prevented
    lastCheck,  \* history: when the checks last began
    moved,      \* history: the hour was moved since
    skipped     \* history: the last change of the hour did not get to the scheduler

vars == <<phase, online, clock, hour, trigger, due, task, holder, stamp, saving,
          starts, saves, failures, sent, cut, lastCheck, moved, skipped>>

time == <<clock, starts>>
changed == <<moved, skipped>>
schedule == <<hour, trigger, due, saving, saves, changed>>
report == <<stamp, sent, cut>>

HourOf(t) == t % HoursPerDay
Month(t) == t \div (HoursPerDay * DaysPerMonth) + 1
DayOf(t) == ((t \div HoursPerDay) % DaysPerMonth) + 1
Months == 1..Month(MaxClock)

Scheduled == {"daily", "maintenance", "hourly"}     \* those in _active_jobs
Checks == {"startup", "daily"}                      \* those that run run_checks
Runs == Scheduled \cup {"startup"}
NotSaving == -1
NoRun == [step |-> "none", month |-> 0]
At(step) == [step |-> step, month |-> 0]
AllDone == [t \in Runs |-> NoRun]
Running == phase \in {"starting", "up"}

-----------------------------------------------------------------------------
(* The runs *)

\* Mutant: two runs of the checks are not serialized.
AcquireAtOnce(t) ==
    /\ t \in Checks /\ task[t].step = "wait"
    /\ holder' = t
    /\ task' = [task EXCEPT ![t] = At("work")]
    /\ lastCheck' = clock /\ moved' = FALSE
    /\ UNCHANGED <<phase, online, time, hour, trigger, due, saving, saves, failures, report,
                   skipped>>

\* run_checks takes _checks_lock.
Acquire(t) ==
    /\ t \in Checks /\ task[t].step = "wait" /\ holder = "none"
    /\ holder' = t
    /\ task' = [task EXCEPT ![t] = At("work")]
    /\ lastCheck' = clock /\ moved' = FALSE
    /\ UNCHANGED <<phase, online, time, hour, trigger, due, saving, saves, failures, report,
                   skipped>>

\* The end of a task. The checks at start are part of main: with them the start is over.
Ends(t) ==
    /\ task' = [task EXCEPT ![t] = NoRun]
    /\ holder' = IF holder = t THEN "none" ELSE holder
    /\ phase' = IF t = "startup" THEN "up" ELSE phase

\* The checks before the report, each of which may fail without stopping the next; the
\* other jobs, run_maintenance and run_hourly, are no more than this.
Work(t) ==
    /\ task[t].step = "work"
    /\ IF t \in Checks
       THEN task' = [task EXCEPT ![t] = At("due")] /\ UNCHANGED <<holder, phase>>
       ELSE Ends(t)
    /\ UNCHANGED <<online, time, schedule, report, failures, lastCheck>>

\* monthly_report_if_due: the month is fixed before anything is sent.
Due(t) ==
    /\ task[t].step = "due"
    /\ IF stamp = Month(clock) \/ DayOf(clock) < ReportDay
       THEN Ends(t)
       ELSE /\ task' = [task EXCEPT ![t] = [step |-> "send", month |-> Month(clock)]]
            /\ UNCHANGED <<holder, phase>>
    /\ UNCHANGED <<online, time, schedule, report, failures, lastCheck>>

\* monthly_report reaches a member of staff, or nobody and is left for the next run.
Send(t) ==
    /\ task[t].step = "send"
    /\ \/ /\ online
          /\ sent' = [sent EXCEPT ![task[t].month] = @ + 1]
          /\ task' = [task EXCEPT ![t].step = "stamp"]
          /\ UNCHANGED <<holder, phase>>
       \/ Ends(t) /\ UNCHANGED sent
    /\ UNCHANGED <<online, time, schedule, stamp, cut, failures, lastCheck>>

\* set_value("last_monthly_report"), which may raise: _run_task logs it.
Stamp(t) ==
    /\ task[t].step = "stamp"
    /\ Ends(t)
    /\ \/ stamp' = task[t].month /\ UNCHANGED <<cut, failures>>
       \/ /\ failures < MaxFailures /\ failures' = failures + 1
          /\ cut' = [cut EXCEPT ![task[t].month] = @ + 1]
          /\ UNCHANGED stamp
    /\ UNCHANGED <<online, time, schedule, sent, lastCheck>>

-----------------------------------------------------------------------------
(* The schedule *)

\* The slot comes: both daily jobs are submitted, each unless its last run goes on.
FireDaily ==
    /\ Running /\ due
    /\ due' = FALSE
    /\ task' = [task EXCEPT !.daily = IF @ = NoRun THEN At("wait") ELSE @,
                            !.maintenance = IF @ = NoRun THEN At("work") ELSE @]
    /\ UNCHANGED <<phase, online, time, hour, trigger, saving, saves, changed, holder, report,
                   failures, lastCheck>>

FireHourly ==
    /\ Running /\ task.hourly = NoRun
    /\ task' = [task EXCEPT !.hourly = At("work")]
    /\ UNCHANGED <<phase, online, time, schedule, holder, report, failures, lastCheck>>

\* An hour passes. A job is submitted within the hour of its slot (MISFIRE_GRACE), and a
\* run of the checks is taken to end before the next one is due.
Tick ==
    /\ clock < MaxClock /\ clock' = clock + 1
    /\ ~due
    /\ task.daily # NoRun => HourOf(clock') # trigger
    /\ due' = (Running /\ HourOf(clock') = trigger)
    /\ UNCHANGED <<phase, online, hour, trigger, task, holder, stamp, saving, starts, saves,
                   failures, sent, cut, lastCheck, changed>>

\* save_setting: the value goes to the disk and into memory; the journal is next.
Save(a, h) ==
    /\ Running /\ online /\ saving[a] = NotSaving /\ saves < MaxSaves
    /\ hour' = h /\ saves' = saves + 1
    /\ saving' = [saving EXCEPT ![a] = h]
    /\ UNCHANGED <<phase, online, time, trigger, due, task, holder, report, failures,
                   lastCheck, changed>>

\* reschedule: the trigger is built from the settings as they are by now; a slot of this
\* hour may be over or yet to come.
Rescheduled(h) ==
    /\ trigger' = h
    /\ due' \in {FALSE, HourOf(clock) = h}

\* save_setting after the journal's write.
Reschedule(a) ==
    /\ Running /\ saving[a] # NotSaving
    /\ saving' = [saving EXCEPT ![a] = NotSaving]
    /\ Rescheduled(hour)
    /\ moved' = TRUE /\ skipped' = FALSE
    /\ UNCHANGED <<phase, online, time, hour, saves, task, holder, report, failures, lastCheck>>

\* The journal's write raises: text_input reports that the action was cancelled.
JournalFails(a) ==
    /\ Running /\ saving[a] # NotSaving /\ failures < MaxFailures
    /\ failures' = failures + 1
    /\ skipped' = TRUE
    /\ saving' = [saving EXCEPT ![a] = NotSaving]
    /\ UNCHANGED <<phase, online, time, hour, trigger, due, saves, task, holder, report,
                   lastCheck, moved>>

-----------------------------------------------------------------------------
(* The process *)

\* main: the client starts, the scheduler starts, run_checks is called.
Boot ==
    /\ phase = "down" /\ starts < MaxStarts
    /\ starts' = starts + 1
    /\ phase' = "starting" /\ online' = TRUE
    /\ trigger' = hour /\ due' \in {FALSE, HourOf(clock) = hour}
    /\ task' = [AllDone EXCEPT !.startup = At("wait")]
    /\ skipped' = FALSE
    /\ UNCHANGED <<clock, hour, saving, saves, moved, holder, report, failures, lastCheck>>

\* SIGTERM: the client disconnects; main goes on to where it waits for that.
Sigterm ==
    /\ Running /\ online
    /\ online' = FALSE
    /\ UNCHANGED <<phase, time, schedule, task, holder, report, failures, lastCheck>>

\* run_until_disconnected returns and stop shuts the scheduler down; the handlers of the
\* client ended with its connection.
StopBegins ==
    /\ phase = "up" /\ ~online
    /\ phase' = "stopping"
    /\ due' = FALSE /\ saving' = [a \in Admins |-> NotSaving]
    /\ UNCHANGED <<online, time, hour, trigger, saves, changed, task, holder, report, failures,
                   lastCheck>>

\* STOP_GRACE_SECONDS are over.
GraceEnds ==
    /\ phase = "stopping" /\ \E t \in Scheduled : task[t] # NoRun
    /\ phase' = "cancelling"
    /\ UNCHANGED <<online, time, schedule, task, holder, report, failures, lastCheck>>

\* A task receives its cancellation at the await it is in, whose effect it may have had.
Cancelled(t) ==
    /\ phase = "cancelling" /\ t \in Scheduled /\ task[t] # NoRun
    /\ task' = [task EXCEPT ![t] = NoRun]
    /\ holder' = IF holder = t THEN "none" ELSE holder
    /\ \/ task[t].step # "stamp" /\ UNCHANGED report
       \/ task[t].step = "stamp" /\ stamp' = task[t].month /\ UNCHANGED <<sent, cut>>
       \/ /\ task[t].step = "stamp"
          /\ cut' = [cut EXCEPT ![task[t].month] = @ + 1]
          /\ UNCHANGED <<stamp, sent>>
    /\ UNCHANGED <<phase, online, time, schedule, failures, lastCheck>>

\* stop returns and the database is closed.
Closes ==
    /\ phase \in {"stopping", "cancelling"}
    /\ \A t \in Scheduled : task[t] = NoRun
    /\ phase' = "closed"
    /\ UNCHANGED <<online, time, schedule, task, holder, report, failures, lastCheck>>

\* The process ends: after closing, or killed at any point.
ProcessEnds ==
    /\ phase # "down" /\ phase' = "down"
    /\ task' = AllDone /\ holder' = "none"
    /\ due' = FALSE /\ saving' = [a \in Admins |-> NotSaving]
    /\ cut' = [m \in Months |->
                 IF \E t \in Runs : task[t] = [step |-> "stamp", month |-> m]
                 THEN cut[m] + 1 ELSE cut[m]]
    /\ UNCHANGED <<online, time, hour, trigger, saves, changed, stamp, sent, failures, lastCheck>>

Init ==
    /\ phase = "down" /\ online = FALSE
    /\ clock = 0 /\ hour \in 0..HoursPerDay-1
    /\ trigger = hour /\ due = FALSE
    /\ task = AllDone /\ holder = "none"
    /\ stamp = 0 /\ saving = [a \in Admins |-> NotSaving]
    /\ starts = 0 /\ saves = 0 /\ failures = 0
    /\ sent = [m \in Months |-> 0] /\ cut = [m \in Months |-> 0]
    /\ lastCheck = 0 /\ moved = FALSE /\ skipped = FALSE

TaskStep(t) == Acquire(t) \/ Work(t) \/ Due(t) \/ Send(t) \/ Stamp(t)

Next ==
    \/ \E t \in Runs : phase \in {"starting", "up", "stopping"} /\ TaskStep(t)
    \/ \E t \in Runs : Cancelled(t)
    \/ FireDaily \/ FireHourly \/ Tick
    \/ \E a \in Admins, h \in 0..HoursPerDay-1 : Save(a, h)
    \/ \E a \in Admins : Reschedule(a) \/ JournalFails(a)
    \/ Boot \/ Sigterm \/ StopBegins \/ GraceEnds \/ Closes \/ ProcessEnds

Spec == Init /\ [][Next]_vars

-----------------------------------------------------------------------------
(* Properties *)

\* Types, and the lock is held by a run of the checks that has begun.
TypeOK ==
    /\ phase \in {"down", "starting", "up", "stopping", "cancelling", "closed"}
    /\ hour \in 0..HoursPerDay-1 /\ trigger \in 0..HoursPerDay-1 /\ stamp \in Months \cup {0}
    /\ \A t \in Runs : /\ task[t].step \in {"none", "wait", "work", "due", "send", "stamp"}
                       /\ task[t].month \in Months \cup {0}
    /\ holder \in Checks \cup {"none"}
    /\ holder # "none" => task[holder].step \notin {"none", "wait"}
    /\ task.startup # NoRun => phase = "starting"

\* "The startup catch-up can coincide with the cron slot" (scheduler.py:339): however they
\* coincide, and whatever restarts between, a month's report is delivered once, and once
\* more only for each delivery whose record was prevented.
ReportedOnce == \A m \in Months : sent[m] <= 1 + cut[m]

\* "The panel's promise that changes apply immediately" (scheduler.py:468): however two
\* changes of the hour overlap, the scheduler ends up with the hour the settings have.
TriggerFollowsSettings ==
    Running /\ (\A a \in Admins : saving[a] = NotSaving) /\ ~skipped => trigger = hour

\* "Changes apply immediately, the daily checks included." (settings_panel.py:65)
\* The code does not keep it: see Disagreements in README.md.
ChangesApply == Running /\ (\A a \in Admins : saving[a] = NotSaving) => trigger = hour

\* No job is left when the database is closed (scheduler.py:331-333), whether it finished in
\* its time, was cancelled, or was submitted as the shutdown began.
NothingAfterClose == phase = "closed" => \A t \in Runs : task[t] = NoRun

\* Whatever restarts and misses, a bot that is up has run its checks in the last day, unless
\* the hour was moved meanwhile.
CheckedEveryDay ==
    phase = "up" /\ ~moved /\ ~due /\ task.daily = NoRun => clock - lastCheck <= HoursPerDay

\* Over restarts, misfires and two ways to start the checks: a month is reported once, a bot
\* that is up was checked within the day, the trigger has the hour of the settings, and no job
\* outlives the database.
JobsKeepTheirDays ==
    /\ TypeOK /\ ReportedOnce /\ TriggerFollowsSettings /\ NothingAfterClose
    /\ CheckedEveryDay
=============================================================================
