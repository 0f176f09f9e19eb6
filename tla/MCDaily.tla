------------------------------- MODULE MCDaily -------------------------------
(* What the scheduler starts, for TLC: the refunds it retries, and the daily
   jobs.  The two share no state here: in a behaviour one of them takes steps,
   and the variables of the other stay as they are. *)
EXTENDS Refunds, TLC

CONSTANT Admins     \* staff who move the hour of the daily checks

VARIABLES
    part,       \* the component this behaviour is of
    j1, j2, j3, j4, j5, j6, j7, j8, j9, j10, j11, j12, j13, j14, j15, j16, j17, j18

jobVars ==
    <<j1, j2, j3, j4, j5, j6, j7, j8, j9, j10, j11, j12, j13, j14, j15, j16, j17, j18>>
dailyVars == <<vars, part, jobVars>>
Rest == "rest"  \* a variable of a component that takes no steps

Symmetry == Permutations(Tasks) \cup Permutations(Admins)

J == INSTANCE Jobs WITH
    HoursPerDay <- 2, DaysPerMonth <- 2, ReportDay <- 2, MaxClock <- 5, MaxStarts <- 2,
    MaxSaves <- 2, MaxFailures <- 1, phase <- j1, online <- j2, clock <- j3, hour <- j4,
    trigger <- j5, due <- j6, task <- j7, holder <- j8, stamp <- j9, saving <- j10,
    starts <- j11, saves <- j12, failures <- j13, sent <- j14, cut <- j15,
    lastCheck <- j16, moved <- j17, skipped <- j18

ASSUME DailyAssumption == J!JobsAssumption

JobsAtRest ==
    /\ j1 = Rest /\ j2 = Rest /\ j3 = Rest /\ j4 = Rest /\ j5 = Rest /\ j6 = Rest
    /\ j7 = Rest /\ j8 = Rest /\ j9 = Rest /\ j10 = Rest /\ j11 = Rest /\ j12 = Rest
    /\ j13 = Rest /\ j14 = Rest /\ j15 = Rest /\ j16 = Rest /\ j17 = Rest /\ j18 = Rest

DailyInit ==
    /\ Init
    /\ \/ part = "refunds" /\ JobsAtRest
       \/ part = "jobs" /\ J!Init

DailyNext ==
    \/ part = "refunds" /\ Next /\ UNCHANGED <<part, jobVars>>
    \/ part = "jobs" /\ J!Next /\ UNCHANGED <<vars, part>>

DailySpec == DailyInit /\ [][DailyNext]_dailyVars

-----------------------------------------------------------------------------
(* Properties *)

\* Over restarts, misfires and two ways to start the checks: a month is reported once, a bot
\* that is up was checked within the day, the trigger has the hour of the settings, and no job
\* outlives the database.
JobsKeepTheirDays ==
    part = "jobs" => J!JobsKeepTheirDays
=============================================================================
