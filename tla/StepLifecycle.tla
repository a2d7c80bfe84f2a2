--------------------------- MODULE StepLifecycle ---------------------------
(***************************************************************************)
(* The pure part of one executable node's life: the Step state machine of  *)
(* framework/harness/control_plane/step_lifecycle.py, which proposes the   *)
(* next transition, and the reducer rules of graph_application.py, which   *)
(* say when the decision made from a transition may be applied, what it    *)
(* costs and what it makes of the node.  GraphRun drives a run with them.  *)
(*                                                                         *)
(* A node is a record [st, step, attempt, replans]; its observations are   *)
(* [worker, gates, verdict, approved], gates being [seen, failed]; used is *)
(* the record of the run's consumed budget counters.                       *)
(***************************************************************************)
EXTENDS Integers

CONSTANTS MaxTurns, MaxWorkerCalls, MaxReplans, MaxRetriesPerStep

ASSUME BudgetAssumption ==
    /\ MaxTurns \in Nat \ {0}
    /\ MaxWorkerCalls \in Nat \ {0}
    /\ MaxReplans \in Nat
    /\ MaxRetriesPerStep \in Nat

\* What an accepted Worker result says of the attempt.  "retryable" and
\* "fatal" split a failure by the Step's retry policy, "llm_halt" is a result
\* whose cumulative LLM budget fact is invalid, indeterminate or denied.
WorkerReports ==
    {"succeeded", "retryable", "fatal", "blocked", "waiting_approval", "llm_halt"}

StepStatuses ==
    {"pending", "planning", "plan_verified", "running", "retrying", "verifying",
     "replanning", "waiting_approval", "succeeded", "failed", "halted"}

NodeStatuses ==
    {"absent", "ready", "running", "waiting", "succeeded", "failed", "halted",
     "cancel_requested"}

LowerOf(a, b) == IF a < b THEN a ELSE b

\* A transition carries evidence when the observations it was given hold any:
\* the scheduler arbitrates such a transition as a reconciliation.
HasEvidence(obs) ==
    \/ obs.worker # "none"
    \/ obs.gates.seen # {}
    \/ obs.verdict # "none"
    \/ obs.approved

Proposal(type, why, evidence) == [type |-> type, why |-> why, evidence |-> evidence]

\* Variant: a call is still granted when the counter stands at its limit.
WorkerCallsExhaustedLate(used) == used.worker_calls > MaxWorkerCalls

TurnsExhausted(used)       == used.turns >= MaxTurns
WorkerCallsExhausted(used) == used.worker_calls >= MaxWorkerCalls

CanReplan(node, used) == used.replans < MaxReplans /\ node.replans < MaxReplans

\* Variant: one retry too many.
CanRetryOnceMore(policy, node, worker) ==
    /\ worker = "retryable"
    /\ node.attempt <= LowerOf(policy.maxAttempts, MaxRetriesPerStep + 1)

CanRetry(policy, node, worker) ==
    /\ worker = "retryable"
    /\ node.attempt < LowerOf(policy.maxAttempts, MaxRetriesPerStep + 1)

AllGatesPassed(gates) == gates.failed = {}

PlanOrHalt(used) ==
    IF TurnsExhausted(used) THEN Proposal("HALT", "turn_budget_exhausted", FALSE)
    ELSE Proposal("PLAN", "plan_requested", FALSE)

ExecuteOrHalt(used, evidence) ==
    CASE TurnsExhausted(used) -> Proposal("HALT", "turn_budget_exhausted", evidence)
      [] ~TurnsExhausted(used) /\ WorkerCallsExhausted(used) ->
            Proposal("HALT", "worker_call_budget_exhausted", evidence)
      [] OTHER -> Proposal("EXECUTE", "execution_requested", evidence)

VerifyOrHalt(used, evidence) ==
    IF TurnsExhausted(used) THEN Proposal("HALT", "turn_budget_exhausted", evidence)
    ELSE Proposal("VERIFY", "verification_requested", evidence)

\* No plan-gate observation counts as a passed plan: passing plan gates are
\* never projected, so their absence is how the controller reports success.
AfterPlan(node, obs, used) ==
    IF obs.gates.seen = {} \/ AllGatesPassed(obs.gates)
    THEN ExecuteOrHalt(used, HasEvidence(obs))
    ELSE IF CanReplan(node, used)
         THEN Proposal("REPLAN", "plan_gate_failed", HasEvidence(obs))
         ELSE Proposal("HALT", "plan_gate_failed_replans_exhausted", HasEvidence(obs))

AfterExecute(policy, node, obs, used) ==
    LET Say(type, why) == Proposal(type, why, HasEvidence(obs))
        unapproved == policy.approvalRequired /\ ~obs.approved
    IN  CASE obs.worker = "none"      -> Say("EXECUTE", "worker_result_pending")
          [] obs.worker = "llm_halt"  -> Say("HALT", "cumulative_llm_budget")
          [] obs.worker \in {"succeeded", "waiting_approval"} /\ unapproved ->
                Say("WAIT", "harness_approval_required")
          [] obs.worker = "succeeded" /\ ~unapproved -> VerifyOrHalt(used, TRUE)
          [] obs.worker = "waiting_approval" /\ ~unapproved ->
                Say("HALT", "worker_approval_request_untrusted")
          [] obs.worker = "blocked"   -> Say("BLOCK", "worker_blocked")
          [] CanRetry(policy, node, obs.worker) -> Say("RETRY", "worker_failure_retry")
          [] OTHER -> Say("FAIL", "worker_failure_terminal")

AfterVerify(node, obs, used) ==
    LET Say(type, why) == Proposal(type, why, HasEvidence(obs))
        passed == /\ obs.gates.seen # {} /\ AllGatesPassed(obs.gates)
                  /\ obs.verdict # "failed"
    IN  IF obs.gates.seen = {} /\ obs.verdict = "none"
        THEN VerifyOrHalt(used, HasEvidence(obs))
        ELSE CASE passed -> Say("COMPLETE", "verification_passed")
               [] ~passed /\ CanReplan(node, used) -> Say("REPLAN", "verification_failed")
               [] OTHER  -> Say("HALT", "verification_failed_replans_exhausted")

AfterWait(obs, used) ==
    IF obs.approved THEN VerifyOrHalt(used, TRUE)
    ELSE Proposal("WAIT", "step_waiting_for_approval", HasEvidence(obs))

\* StepLifecycleStateMachine.next_transition for a step that is not finished;
\* repair routes need a repair edge in the graph and are not modelled.
NextTransition(policy, node, obs, used) ==
    CASE node.step \in {"pending", "replanning"}      -> PlanOrHalt(used)
      [] node.step = "planning"                       -> AfterPlan(node, obs, used)
      [] node.step \in {"plan_verified", "retrying"}  -> ExecuteOrHalt(used, FALSE)
      [] node.step = "running"          -> AfterExecute(policy, node, obs, used)
      [] node.step = "verifying"        -> AfterVerify(node, obs, used)
      [] node.step = "waiting_approval" -> AfterWait(obs, used)
      [] OTHER -> Proposal("NONE", "step_finished", FALSE)

-----------------------------------------------------------------------------
(* From a transition to a decision, and what the decision does to a node.  *)

DecisionOf(transition) ==
    [PLAN |-> "ENTER", EXECUTE |-> "DISPATCH", VERIFY |-> "VERIFY",
     COMPLETE |-> "COMPLETE", RETRY |-> "RETRY", REPLAN |-> "REPLAN",
     WAIT |-> "WAIT", FAIL |-> "FAIL", BLOCK |-> "HALT_RUN",
     HALT |-> "HALT_RUN"][transition]

StepDecisions ==
    {"ENTER", "DISPATCH", "VERIFY", "COMPLETE", "RETRY", "REPLAN", "WAIT", "FAIL"}

\* The (node status, step status) pairs from which the reducer accepts a
\* Step decision; any other pair is rejected as a state mismatch.
DecisionSources ==
    [ENTER    |-> {<<"ready", "pending">>, <<"running", "replanning">>},
     DISPATCH |-> {"running"} \X {"planning", "plan_verified", "retrying", "running"},
     VERIFY   |-> {<<"running", "running">>, <<"waiting", "waiting_approval">>},
     COMPLETE |-> {<<"running", "verifying">>},
     FAIL     |-> {"running"} \X {"running", "verifying"},
     RETRY    |-> {"running"} \X {"running", "verifying"},
     REPLAN   |-> {"running"} \X {"planning", "verifying"},
     WAIT     |-> {"running"} \X {"running", "verifying"}]

\* What each decision takes from the run's budget counters.
Cost(type) ==
    [turns        |-> IF type \in {"ENTER", "DISPATCH", "VERIFY"} THEN 1 ELSE 0,
     worker_calls |-> IF type = "DISPATCH" THEN 1 ELSE 0,
     replans      |-> IF type = "REPLAN" THEN 1 ELSE 0,
     retries      |-> IF type = "RETRY" THEN 1 ELSE 0,
     activations  |-> IF type = "ACTIVATE" THEN 1 ELSE 0]

\* Variant: a debit booked as a credit.
Refund(used, type) == [c \in DOMAIN used |-> used[c] - Cost(type)[c]]

Spend(used, type) == [c \in DOMAIN used |-> used[c] + Cost(type)[c]]

\* A dispatch opens a new attempt unless it re-issues the current one.
DispatchAttempt(node) ==
    IF node.step \in {"planning", "plan_verified", "retrying"}
    THEN node.attempt + 1 ELSE node.attempt

ApplyToNode(node, type) ==
    CASE type = "ENTER"    -> [node EXCEPT !.st = "running", !.step = "planning"]
      [] type = "DISPATCH" -> [node EXCEPT !.st = "running", !.step = "running",
                                           !.attempt = DispatchAttempt(node)]
      [] type = "VERIFY"   -> [node EXCEPT !.st = "running", !.step = "verifying"]
      [] type = "COMPLETE" -> [node EXCEPT !.st = "succeeded", !.step = "succeeded"]
      [] type = "FAIL"     -> [node EXCEPT !.st = "failed", !.step = "failed"]
      [] type = "RETRY"    -> [node EXCEPT !.st = "running", !.step = "retrying"]
      [] type = "REPLAN"   -> [node EXCEPT !.st = "running", !.step = "replanning",
                                           !.replans = @ + 1]
      [] type = "WAIT"     -> [node EXCEPT !.st = "waiting", !.step = "waiting_approval"]
=============================================================================
