SPECIFICATION FairSpec
CONSTANTS
    Schedules <- MCSmall
    Place <- MCSmallPlace
    Trigger <- MCSmallTrigger
    Window = 2
    Procs = {"a", "b"}
    Tickers = {"a"}
    MaxTime = 3
    MaxEdits = 1
    MaxFaults = 1
INVARIANTS
    FiresOnlyWhenDue FiresOncePerDueTime SavedRunsWereEnqueued
PROPERTY CronGoesOn
