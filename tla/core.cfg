CONSTANTS
  a = a  b = b  c = c  plan = plan  g1 = g1  g2 = g2
  MaxTurns = 14  MaxWorkerCalls = 4  MaxReplans = 1  MaxRetriesPerStep = 1
  Nodes = {a, b, c}  Preds <- JoinPreds
  PlanGates = {plan}  VerifyGates = {g1, g2}  DeclaredQualityGate = TRUE
  StepMaxAttempts = 2  ApprovalNodes = {b}
  Reports = {"succeeded", "retryable", "fatal", "blocked", "indeterminate", "waiting_approval", "llm_halt"}
  MaxNodeActivations = 3  MaxActiveNodes = 2  MaxParallelism = 1
  MaxCrashes = 2  CrashPoints <- AnyPoint
SPECIFICATION FairSpec
INVARIANTS
    TypeOK ActivitiesAreBounded OneCallPerAttempt DecisionProjectable
    ResultProjectable CompletionIsSound UninterruptedDrive
PROPERTY KeepsRunContract RunEnds
