SPECIFICATION FairSpec
CONSTANTS
    Schedules <- MCCron
    Place <- MCCronPlace
    Trigger <- MCCronTrigger
    Window = 3
    Procs = {"a"}
    Tickers = {"a"}
    MaxTime = 9
    MaxEdits = 0
    MaxFaults = 0
PROPERTY CronGoesOn
