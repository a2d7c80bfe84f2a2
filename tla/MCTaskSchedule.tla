---------------------------- MODULE MCTaskSchedule ----------------------------
(***************************************************************************)
(* Schedules of every kind and policy on a clock of a few minutes.         *)
(***************************************************************************)
EXTENDS TaskScheduleProperties

T(kind, policy, every, runAt, cron, maxRuns) ==
    [kind |-> kind, policy |-> policy, every |-> every, runAt |-> runAt, cron |-> cron,
     maxRuns |-> maxRuns]

\* A cron schedule and an interval whose first due time is not the first minute.
MCSmall == {"cron", "late"}
MCSmallPlace == [cron |-> 1, late |-> 2]
MCSmallTrigger == [cron |-> T("cron", "catch_up", 1, Never, {0, 1, 3}, 2),
                   late |-> T("interval", "catch_up", 2, 1, {}, 1)]

\* Firings as far apart as the window, and farther.
MCCron == {"cron", "date"}
MCCronPlace == [cron |-> 1, date |-> 2]
MCCronTrigger == [cron |-> T("cron", "run_once", 1, Never, {0, 4, 8}, 1),
                  date |-> T("date", "run_once", 1, 3, {}, 1)]
===============================================================================
