CONSTANTS
  a = a  b = b  c = c  plan = plan  g1 = g1  g2 = g2
  MaxTurns = 9  MaxWorkerCalls = 3  MaxReplans = 1  MaxRetriesPerStep = 1
  Nodes = {a}  Preds <- SinglePreds
  PlanGates = {plan}  VerifyGates = {g1, g2}  DeclaredQualityGate = TRUE
  StepMaxAttempts = 2  ApprovalNodes = {}
  Reports = {"succeeded", "retryable", "fatal", "blocked", "indeterminate"}
  MaxNodeActivations = 2  MaxActiveNodes = 2  MaxParallelism = 1
  MaxCrashes = 1  CrashPoints <- AnyPoint
SPECIFICATION Spec
PROPERTY PlanGatesGuardExecution
