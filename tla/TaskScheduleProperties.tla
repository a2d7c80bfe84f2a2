------------------------ MODULE TaskScheduleProperties ------------------------
(***************************************************************************)
(* What the task schedules promise: when a schedule fires, how often, and  *)
(* what the store may say about it.                                        *)
(***************************************************************************)
EXTENDS TaskSchedule

FiredAt(s) == {t \in Times : fired[s][t] > 0}

\* A schedule fires only when it is due: a date at its time, cron at its
\* minutes, an interval on the grid that starts at its run_at, however late the
\* ticks were and whatever was skipped or caught up in between.
FiresOnlyWhenDue ==
    \A s \in Schedules :
        CASE Trigger[s].kind = "date" -> FiredAt(s) \subseteq {Trigger[s].runAt}
          [] Trigger[s].kind = "cron" -> FiredAt(s) \subseteq Trigger[s].cron
          [] Trigger[s].kind = "interval" ->
               Trigger[s].runAt # Never =>
                   \A t \in FiredAt(s) :
                       t >= Trigger[s].runAt /\ (t - Trigger[s].runAt) % Trigger[s].every = 0

\* With one tick loop, a due time is enqueued once, and once more for every
\* tick that died or failed between its enqueue and its save, and twice more for
\* every edit, which may rename away the temporary file of the tick, whose saves
\* then end, and write what it read long ago over the file the tick has saved.
FiresOncePerDueTime ==
    \A s \in Schedules : \A t \in Times : fired[s][t] <= 1 + faults + 2 * edits

\* Whatever ticks, edits and lost updates of the file are interleaved, the
\* store never names a last run that was not enqueued, and an interval that
\* catches up skips nothing: every due time up to it was enqueued as well.
SavedRunsWereEnqueued ==
    \A s \in DOMAIN store.runs :
        LET spec == Trigger[s]
            last == store.runs[s]
        IN  /\ spec.policy # "skip" /\ last # Never => last \in FiredAt(s)
            /\ spec.kind = "interval" /\ spec.policy = "catch_up" /\ spec.runAt # Never
                 => \A t \in spec.runAt..last :
                       (t - spec.runAt) % spec.every = 0 => t \in FiredAt(s)

\* The file is not a JSON text, and nobody is writing it or about to replace
\* it: since every save reads it first, nobody ever will.
Lost == ~Readable /\ \A p \in Procs : proc[p].pc \notin {"open", "fill", "rename"}

\* A cron schedule that has run once goes on: every later minute of it is
\* handled, fired or skipped, as long as somebody ticks, unless it is edited
\* (which forgets the run) or deleted, or saves that shared the temporary file
\* have left one that nobody can read.
CronGoesOn ==
    \A s \in {x \in Schedules : Trigger[x].kind = "cron"} : \A m \in Trigger[s].cron :
        s \in DOMAIN store.runs /\ store.runs[s] # Never /\ now >= m
            ~> \/ Readable /\ s \notin DOMAIN store.runs
               \/ Readable /\ store.runs[s] \in {Never} \cup m..MaxTime
               \/ Lost
===============================================================================
