------------------------ MODULE GraphCompletionProofs ------------------------
(***************************************************************************)
(* What GraphRun's scheduler, evaluator and reducer make of a graph, for   *)
(* every graph, budget, retry policy and crash bound: a committed decision *)
(* can always be projected, activities stay within their slots and         *)
(* budgets, and a node or run completes only on its own evidence.          *)
(*                                                                         *)
(* The decision is the hinge: it is chosen in one write and applied by a   *)
(* later one, possibly after crashes.  DecisionFits says what the choice   *)
(* established and every step in between preserves.  GateWork follows the  *)
(* gates of a PLAN or VERIFY phase from their evaluation, in memory, to    *)
(* the projection of each observation.  Smooth is what holds of a drive    *)
(* that was never interrupted.  At the end, a run implements RunContract.  *)
(***************************************************************************)
EXTENDS GraphRunProofs

\* The attempts the retry policy allows a node; every replan adds one.
AttemptCap == LowerOf(StepMaxAttempts, MaxRetriesPerStep + 1)

\* The retries a node's attempts can stand for: one before each later attempt.
Retried ==
    {r \in Nodes \X (1..MaxRetriesPerStep) :
        \/ r[2] < node[r[1]].attempt
        \/ r[2] = node[r[1]].attempt /\ node[r[1]].step \in {"retrying", "halted"}}

\* Activities in flight are the current attempts of executing nodes, have no
\* result yet, and were all paid for, as were the marked ones.
Ownership ==
    /\ IsFiniteSet(active) /\ IsFiniteSet(marked)
    /\ Cardinality(active \cup marked) <= used.worker_calls
    /\ Cardinality(active) <= MaxParallelism
    /\ \A act \in active :
          /\ act[2] = node[act[1]].attempt
          /\ ~RunEnded => /\ node[act[1]].st = "running" /\ node[act[1]].step = "running"
                          /\ result[act[1]].attempt # act[2]
    /\ \A n \in Nodes : result[n].attempt <= node[n].attempt

\* The run's counters against what the nodes have used of them.
Counters ==
    /\ \A k \in DOMAIN NoUse : used[k] <= Limit[k]
    /\ used.activations = Cardinality(Instances)
    /\ used.retries <= Cardinality(Retried)
    /\ Cardinality(LiveNodes) <= MaxActiveNodes

\* A step that may still be dispatched has an attempt left.
AttemptsLeft ==
    \A n \in Nodes :
        /\ node[n].attempt <= AttemptCap + node[n].replans
        /\ node[n].step \in {"pending", "planning", "replanning", "retrying"} =>
              node[n].attempt < AttemptCap + node[n].replans

\* The execution of n's attempt succeeded, and was approved where it must be.
Executed(n) ==
    /\ result[n] = [attempt |-> node[n].attempt, report |-> "succeeded"]
    /\ n \in ApprovalNodes => n \in approved

StepDecisionFits(type, n) ==
    /\ <<node[n].st, node[n].step>> \in DecisionSources[type]
    /\ node[n].st \in {"ready", "running"}
    /\ \A act \in active : act[1] # n
    /\ type = "DISPATCH" => Cardinality(active) < MaxParallelism
    /\ type = "RETRY"    => node[n].step = "running" /\ node[n].attempt < AttemptCap
    /\ type = "VERIFY"   => Executed(n)
    /\ type = "COMPLETE" => Verified(n)

RunDecisionFits(type, n, why) ==
    /\ type = "ACTIVATE" =>
          /\ node[n].st = "absent"
          /\ \A p \in Preds[n] : node[p].st = "succeeded"
          /\ Cardinality(LiveNodes) < MaxActiveNodes
    /\ type = "HALT_RUN" /\ n \in Nodes => node[n].st \in {"ready", "running", "waiting"}
    /\ type = "COMPLETE_RUN" =>
          /\ active = {} /\ LiveNodes = {}
          /\ (why = "succeeded") <=> TerminalsSucceeded

\* The open decision is one the scheduler could choose in this very state.
DecisionFits ==
    pending.kind = "decision" =>
        /\ Affordable(pending.type)
        /\ pending.type \in StepDecisions => StepDecisionFits(pending.type, pending.n)
        /\ RunDecisionFits(pending.type, pending.n, pending.why)

InPlan(n)   == node[n].st = "running" /\ node[n].step = "planning"
InVerify(n) == node[n].st = "running" /\ node[n].step = "verifying"

\* The gates of n on record, or in the open record.
Evaluated(n) ==
    gates[n].seen \cup
        {g \in AllGates : /\ pending.kind = "observation" /\ pending.n = n
                          /\ pending.what = "gate" /\ pending.gate = g}

\* While gates are evaluated the node stays in the phase they belong to, and
\* the verdict comes after all the gates of VERIFY.
GateWork ==
    /\ ctl.pc \in {"plan_entry", "plan_gates", "verify_entry", "verify_gates"} =>
          pending = NoPending
    /\ ctl.pc \in {"gates", "verdict"} => pending.kind \in {"none", "observation"}
    /\ ctl.pc \in {"plan_entry", "plan_gates"} => InPlan(ctl.n)
    /\ ctl.pc \in {"verify_entry", "verify_gates"} => InVerify(ctl.n)
    /\ ctl.pc = "gates" /\ ctl.back = "plan_exit" => InPlan(ctl.n)
    /\ ctl.pc = "gates" /\ ctl.back # "plan_exit" =>
          /\ InVerify(ctl.n) /\ ctl.todo \subseteq VerifyGates
          /\ VerifyGates \ ctl.todo \subseteq Evaluated(ctl.n)
    /\ ctl.pc = "verdict" => InVerify(ctl.n) /\ VerifyGates \subseteq Evaluated(ctl.n)

\* An open observation is about a node in the phase it was made in.
ObservationFits ==
    pending.kind = "observation" =>
        /\ pending.what \in {"gate", "verdict", "approval"}
        /\ pending.what = "gate" =>
              InPlan(pending.n) \/ (InVerify(pending.n) /\ pending.gate \in VerifyGates)
        /\ pending.what = "verdict" =>
              InVerify(pending.n) /\ VerifyGates \subseteq gates[pending.n].seen

\* A verifying node has a successful execution and gate results of its own
\* attempt only; a complete one is verified; one that exists has complete
\* predecessors.
Evidence ==
    /\ \A n \in Nodes : InVerify(n) =>
          /\ Executed(n) /\ gates[n].attempt = node[n].attempt
          /\ gates[n].seen \subseteq VerifyGates
    /\ \A n \in Nodes :
          /\ node[n].st = "succeeded" => Verified(n)
          /\ node[n].st # "absent" => \A p \in Preds[n] : node[p].st = "succeeded"
    /\ VerdictAfterGates

CInv ==
    /\ IInv /\ Ownership /\ Counters /\ AttemptsLeft /\ DecisionFits /\ GateWork
    /\ ObservationFits /\ Evidence /\ CompletedRunIsQuiet

-----------------------------------------------------------------------------
(* What the Step machine requires for each transition it proposes.         *)

\* A transition is proposed from the steps the reducer takes its decision
\* from, within the budget it costs, and on the evidence it claims.
LEMMA TransitionNeeds ==
    ASSUME NEW policy, NEW nd, NEW obs, NEW u, NEW type, nd.step \in OpenSteps,
           type = NextTransition(policy, nd, obs, u).type
    PROVE  /\ type = "PLAN" => nd.step \in {"pending", "replanning"} /\ ~TurnsExhausted(u)
           /\ type = "EXECUTE" =>
                \/ nd.step \in {"planning", "retrying"} /\ ~TurnsExhausted(u)
                   /\ ~WorkerCallsExhausted(u)
                \/ nd.step = "running" /\ obs.worker = "none"
           /\ type = "VERIFY" =>
                /\ ~TurnsExhausted(u)
                /\ \/ nd.step = "running" /\ obs.worker = "succeeded"
                      /\ (policy.approvalRequired => obs.approved)
                   \/ nd.step = "verifying" /\ obs.gates.seen = {}
           /\ type = "COMPLETE" =>
                /\ nd.step = "verifying" /\ obs.gates.failed = {}
                /\ obs.verdict # "failed"
           /\ type = "RETRY" =>
                /\ nd.step = "running"
                /\ nd.attempt < LowerOf(policy.maxAttempts, MaxRetriesPerStep + 1)
           /\ type = "REPLAN" => nd.step \in {"planning", "verifying"} /\ CanReplan(nd, u)
           /\ type \in {"WAIT", "FAIL"} => nd.step = "running"
<1> USE DEF Proposal
<1>1. CASE nd.step \in {"pending", "replanning"}
  BY <1>1 DEF NextTransition, PlanOrHalt
<1>2. CASE nd.step = "planning"
  BY <1>2 DEF NextTransition, AfterPlan, ExecuteOrHalt
<1>3. CASE nd.step = "retrying"
  BY <1>3 DEF NextTransition, ExecuteOrHalt
<1>4. CASE nd.step = "running"
  BY <1>4 DEF NextTransition, AfterExecute, VerifyOrHalt, CanRetry
<1>5. CASE nd.step = "verifying"
  BY <1>5 DEF NextTransition, AfterVerify, VerifyOrHalt, AllGatesPassed
<1> QED BY <1>1, <1>2, <1>3, <1>4, <1>5 DEF OpenSteps

\* An executing step without a Worker result waits for it.
LEMMA ExecutingWaits ==
    ASSUME NEW policy, NEW nd, NEW obs, NEW u, nd.step = "running", obs.worker = "none"
    PROVE  NextTransition(policy, nd, obs, u).type = "EXECUTE"
BY DEF NextTransition, AfterExecute, CanRetry, Proposal

-----------------------------------------------------------------------------
(* Budgets.                                                                *)

LEMMA ConstantTypes ==
    /\ MaxTurns \in Nat \ {0} /\ MaxWorkerCalls \in Nat \ {0} /\ MaxReplans \in Nat
    /\ MaxRetriesPerStep \in Nat /\ StepMaxAttempts \in Nat \ {0}
    /\ MaxNodeActivations \in Nat \ {0} /\ MaxActiveNodes \in Nat \ {0}
    /\ MaxParallelism \in Nat \ {0} /\ IsFiniteSet(Nodes)
    /\ AttemptCap \in Nat \ {0} /\ AttemptCap <= MaxRetriesPerStep + 1
BY GraphAssumption, BudgetAssumption DEF AttemptCap, LowerOf

\* The counters a decision draws on are the only ones that need room.
LEMMA AffordableIf ==
    ASSUME TypeOK, \A k \in DOMAIN NoUse : used[k] <= Limit[k], NEW type,
           type \in {"ENTER", "DISPATCH", "VERIFY"} => used.turns < MaxTurns,
           type = "DISPATCH" => used.worker_calls < MaxWorkerCalls,
           type = "REPLAN" => used.replans < MaxReplans,
           type = "RETRY" => used.retries < MaxRetriesPerStep * MaxNodeActivations,
           type = "ACTIVATE" => used.activations < MaxNodeActivations
    PROVE  Affordable(type)
<1>1. used \in [DOMAIN NoUse -> Nat]
  BY DEF TypeOK
<1>2. DOMAIN NoUse = {"turns", "worker_calls", "replans", "retries", "activations"}
  BY DEF NoUse
<1> DEFINE retries == MaxRetriesPerStep * MaxNodeActivations
<1>3. retries \in Nat
  BY ConstantTypes
<1>4. /\ Limit.turns = MaxTurns /\ Limit.worker_calls = MaxWorkerCalls
      /\ Limit.replans = MaxReplans /\ Limit.retries = retries
      /\ Limit.activations = MaxNodeActivations
  BY DEF Limit
<1>5. type = "RETRY" => used.retries < retries
  OBVIOUS
<1> HIDE DEF retries
<1>6. /\ used.turns + Cost(type).turns <= MaxTurns
      /\ used.worker_calls + Cost(type).worker_calls <= MaxWorkerCalls
      /\ used.replans + Cost(type).replans <= MaxReplans
      /\ used.retries + Cost(type).retries <= retries
      /\ used.activations + Cost(type).activations <= MaxNodeActivations
  BY <1>1, <1>2, <1>3, <1>4, <1>5, ConstantTypes DEF Cost
<1> QED BY <1>1, <1>2, <1>4, <1>6 DEF Affordable

\* What the nodes show of the counters is finite.
LEMMA NodeSetsFinite ==
    /\ IsFiniteSet(Instances) /\ Cardinality(Instances) \in Nat
    /\ IsFiniteSet(LiveNodes) /\ Cardinality(LiveNodes) \in Nat
    /\ IsFiniteSet(Retried) /\ Cardinality(Retried) \in Nat
<1>1. Instances \subseteq Nodes /\ LiveNodes \subseteq Nodes
  BY DEF Instances, LiveNodes
<1>2. IsFiniteSet(Nodes) /\ IsFiniteSet(1..MaxRetriesPerStep)
  BY ConstantTypes, FS_Interval
<1>3. IsFiniteSet(Nodes \X (1..MaxRetriesPerStep))
  BY <1>2, FS_Product
<1>4. Retried \subseteq Nodes \X (1..MaxRetriesPerStep)
  BY DEF Retried
<1> QED BY <1>1, <1>2, <1>3, <1>4, FS_Subset, FS_CardinalityType

\* A node that may retry finds room in the run's retry counter: each retry so
\* far stands for an earlier attempt of a node that was activated.
LEMMA RetryHasRoom ==
    ASSUME TypeOK, Attempts, Counters, NEW n \in Nodes,
           node[n].st = "running", node[n].step = "running", node[n].attempt < AttemptCap
    PROVE  /\ used.retries < MaxRetriesPerStep * MaxNodeActivations
           /\ <<n, node[n].attempt>> \in Nodes \X (1..MaxRetriesPerStep)
           /\ <<n, node[n].attempt>> \notin Retried
<1> DEFINE k == node[n].attempt
           Room == Instances \X (1..MaxRetriesPerStep)
<1>1. k \in 1..MaxRetriesPerStep
  BY ConstantTypes DEF TypeOK, Attempts
<1>2. <<n, k>> \notin Retried
  BY <1>1 DEF Retried
<1>3. \A m \in Nodes : node[m].st = "absent" => node[m].attempt = 0
  BY DEF Attempts
<1>4. ASSUME NEW r \in Retried PROVE r \in Room
  BY <1>3 DEF Retried, Instances
<1>5. Retried \cup {<<n, k>>} \subseteq Room
  BY <1>1, <1>4 DEF Instances
<1>6. /\ IsFiniteSet(Room)
      /\ Cardinality(Room) = Cardinality(Instances) * MaxRetriesPerStep
  <2>1. IsFiniteSet(1..MaxRetriesPerStep) /\ Cardinality(1..MaxRetriesPerStep) = MaxRetriesPerStep
    BY ConstantTypes, FS_Interval
  <2> QED BY <2>1, NodeSetsFinite, FS_Product
<1>7. Cardinality(Retried \cup {<<n, k>>}) = Cardinality(Retried) + 1
  BY <1>2, NodeSetsFinite, FS_AddElement
<1>8. Cardinality(Retried) + 1 <= Cardinality(Room)
  <2> HIDE DEF Room, k
  <2> QED BY <1>5, <1>6, <1>7, FS_Subset
<1>9. used.retries + 1 <= Cardinality(Instances) * MaxRetriesPerStep
  <2>1. used.retries \in Nat /\ used.retries <= Cardinality(Retried)
    BY DEF TypeOK, NoUse, Counters
  <2> HIDE DEF Room
  <2> QED BY <1>6, <1>8, <2>1, NodeSetsFinite, ConstantTypes
<1>10. Cardinality(Instances) <= MaxNodeActivations
  BY DEF Counters, Limit, NoUse
<1>11. Cardinality(Instances) * MaxRetriesPerStep <= MaxRetriesPerStep * MaxNodeActivations
  <2>1. \A x, y, z \in Nat : x <= y => x * z <= z * y
    OBVIOUS
  <2> QED BY <1>10, <2>1, NodeSetsFinite, ConstantTypes
<1> QED BY <1>1, <1>2, <1>9, <1>11, NodeSetsFinite, ConstantTypes DEF TypeOK, NoUse

-----------------------------------------------------------------------------
(* Every option of the scheduler is a decision that fits.                  *)

\* A step with an activity in flight waits for it: it is no option.
LEMMA ScheduledIsIdle ==
    ASSUME TypeOK, Ownership, ~RunEnded, NEW n \in Schedulable, NEW act \in active
    PROVE  act[1] # n
<1> SUFFICES ASSUME act[1] = n PROVE FALSE
  OBVIOUS
<1>1. n \in Nodes /\ act \in Nodes \X Nat
  BY DEF Schedulable, TypeOK
<1>2. /\ act[2] = node[n].attempt /\ node[n].step = "running"
      /\ result[n].attempt # node[n].attempt
  BY DEF Ownership
<1>3. ActivityOf(n) \in active
  BY <1>1, <1>2 DEF ActivityOf
<1>4. Observations(n).worker = "none"
  BY <1>2 DEF Observations
<1>5. Transition(n).type = "EXECUTE"
  BY <1>2, <1>4, ExecutingWaits DEF Transition
<1> QED BY <1>3, <1>5 DEF Schedulable, DispatchBlocked

\* The evidence a transition claims is the node's own, of its last attempt.
LEMMA ObservedEvidence ==
    ASSUME TypeOK, NEW n \in Nodes
    PROVE  /\ node[n].step = "running" /\ Observations(n).worker = "succeeded" =>
                result[n] = [attempt |-> node[n].attempt, report |-> "succeeded"]
           /\ Observations(n).approved => n \in approved
           /\ node[n].step = "verifying" /\ gates[n].attempt = node[n].attempt =>
                Observations(n).gates = gates[n]
           /\ node[n].step = "verifying" => Observations(n).verdict = verdict[n]
<1>1. result[n] \in [attempt : Nat,
                     report : WorkerReports \cup {"none", "indeterminate"}]
  BY DEF TypeOK
<1>2. ASSUME Observations(n).worker = "succeeded"
      PROVE  result[n].attempt = node[n].attempt /\ result[n].report = "succeeded"
  BY <1>2 DEF Observations
<1> QED BY <1>1, <1>2 DEF Observations

LEMMA DecisionSourcesHold ==
    ASSUME NEW type \in StepDecisions, NEW st, NEW step,
           type = "ENTER" => \/ st = "ready" /\ step = "pending"
                             \/ st = "running" /\ step = "replanning",
           type # "ENTER" => st = "running",
           type = "DISPATCH" => step \in {"planning", "retrying"},
           type \in {"VERIFY", "RETRY", "WAIT", "FAIL"} => step = "running",
           type = "COMPLETE" => step = "verifying",
           type = "REPLAN" => step \in {"planning", "verifying"}
    PROVE  <<st, step>> \in DecisionSources[type]
<1>1. CASE type = "ENTER"
  BY <1>1 DEF DecisionSources
<1>2. CASE type = "DISPATCH"
  BY <1>2 DEF DecisionSources
<1>3. CASE type = "VERIFY"
  BY <1>3 DEF DecisionSources
<1>4. CASE type = "COMPLETE"
  BY <1>4 DEF DecisionSources
<1>5. CASE type = "FAIL"
  BY <1>5 DEF DecisionSources
<1>6. CASE type = "RETRY"
  BY <1>6 DEF DecisionSources
<1>7. CASE type = "REPLAN"
  BY <1>7 DEF DecisionSources
<1>8. CASE type = "WAIT"
  BY <1>8 DEF DecisionSources
<1> QED BY <1>1, <1>2, <1>3, <1>4, <1>5, <1>6, <1>7, <1>8 DEF StepDecisions

\* A decision of type d comes from the transition t it was made of.
LEMMA DecisionOfTransition ==
    ASSUME NEW t \in TransitionTypes, NEW d, d = DecisionOf(t)
    PROVE  /\ d \in StepDecisions \cup {"HALT_RUN"}
           /\ d = "ENTER" => t = "PLAN"
           /\ d = "DISPATCH" => t = "EXECUTE"
           /\ d = "VERIFY" => t = "VERIFY"
           /\ d = "COMPLETE" => t = "COMPLETE"
           /\ d = "RETRY" => t = "RETRY"
           /\ d = "REPLAN" => t = "REPLAN"
           /\ d = "WAIT" => t = "WAIT"
           /\ d = "FAIL" => t = "FAIL"
BY DEF DecisionOf, TransitionTypes, StepDecisions

LEMMA StepOptionFits ==
    ASSUME CInv, ReadyToSchedule, NEW n \in Schedulable, NEW type,
           type = DecisionOf(Transition(n).type)
    PROVE  /\ type \in StepDecisions \cup {"HALT_RUN"} /\ Affordable(type)
           /\ type \in StepDecisions => StepDecisionFits(type, n)
           /\ n \in Nodes /\ node[n].st \in {"ready", "running"}
<1>0. /\ TypeOK /\ StepOpen /\ Attempts /\ Ownership /\ Counters /\ Evidence
      /\ ~RunEnded /\ Unverified = {}
  BY DEF CInv, IInv, Shapes, ReadyToSchedule
<1> DEFINE obs == Observations(n)
<1>1. /\ n \in Nodes /\ node[n].st \in {"ready", "running"}
      /\ node[n].step \in OpenSteps
      /\ node[n].st = "ready" <=> node[n].step = "pending"
  BY <1>0 DEF Schedulable, StepOpen, OpenSteps
<1> DEFINE u == Transition(n).type
<1>2. u \in TransitionTypes
  BY <1>1, TransitionIsKnown DEF Transition
<1>a. PICK t \in TransitionTypes : t = Transition(n).type
  BY <1>2
<1>3. /\ type \in StepDecisions \cup {"HALT_RUN"}
      /\ type = "ENTER" => t = "PLAN"
      /\ type = "DISPATCH" => t = "EXECUTE"
      /\ type = "VERIFY" => t = "VERIFY"
      /\ type = "COMPLETE" => t = "COMPLETE"
      /\ type = "RETRY" => t = "RETRY"
      /\ type = "REPLAN" => t = "REPLAN"
      /\ type = "WAIT" => t = "WAIT"
      /\ type = "FAIL" => t = "FAIL"
  BY <1>a, DecisionOfTransition
<1>4. \A act \in active : act[1] # n
  BY <1>0, ScheduledIsIdle
<1>b. /\ t = "PLAN" => node[n].step \in {"pending", "replanning"} /\ ~TurnsExhausted(used)
      /\ t = "EXECUTE" =>
            \/ node[n].step \in {"planning", "retrying"} /\ ~TurnsExhausted(used)
               /\ ~WorkerCallsExhausted(used)
            \/ node[n].step = "running" /\ obs.worker = "none"
      /\ t = "VERIFY" =>
            /\ ~TurnsExhausted(used)
            /\ \/ node[n].step = "running" /\ obs.worker = "succeeded"
                  /\ (Policy(n).approvalRequired => obs.approved)
               \/ node[n].step = "verifying" /\ obs.gates.seen = {}
      /\ t = "COMPLETE" =>
            /\ node[n].step = "verifying" /\ obs.gates.failed = {}
            /\ obs.verdict # "failed"
      /\ t = "RETRY" =>
            /\ node[n].step = "running"
            /\ node[n].attempt < LowerOf(Policy(n).maxAttempts, MaxRetriesPerStep + 1)
      /\ t = "REPLAN" => node[n].step \in {"planning", "verifying"} /\ CanReplan(node[n], used)
      /\ t \in {"WAIT", "FAIL"} => node[n].step = "running"
  <2>1. t = NextTransition(Policy(n), node[n], obs, used).type
    BY <1>a DEF Transition
  <2> HIDE DEF obs
  <2> QED BY <1>1, <2>1, TransitionNeeds
<1> HIDE DEF u, obs
<1>5. /\ t = "VERIFY" =>
            /\ ~TurnsExhausted(used)
            /\ \/ node[n].step = "running" /\ obs.worker = "succeeded"
                  /\ (n \in ApprovalNodes => obs.approved)
               \/ node[n].step = "verifying" /\ obs.gates.seen = {}
      /\ t = "RETRY" => node[n].step = "running" /\ node[n].attempt < AttemptCap
  BY <1>b DEF Policy, AttemptCap
<1> USE DEF obs
<1>6. t = "EXECUTE" =>
         /\ node[n].step \in {"planning", "retrying"} /\ ~TurnsExhausted(used)
         /\ ~WorkerCallsExhausted(used)
  <2> SUFFICES ASSUME t = "EXECUTE", node[n].step = "running", obs.worker = "none" PROVE FALSE
    BY <1>b
  <2>1. node[n].st = "running" /\ ActivityOf(n) \notin active
    BY <1>1, <1>a DEF Schedulable, DispatchBlocked
  <2>2. HasResult(n) /\ node[n].attempt > 0
    BY <1>0, <1>1, <2>1 DEF Attempts
  <2> QED BY <2>2 DEF Observations, HasResult
<1>7. ASSUME node[n].step = "verifying"
      PROVE  /\ InVerify(n) /\ gates[n].seen = VerifyGates /\ obs.gates = gates[n]
             /\ obs.verdict = verdict[n]
             /\ DeclaredQualityGate => verdict[n] # "none"
  <2>1. InVerify(n)
    BY <1>1, <1>7 DEF InVerify
  <2>2. gates[n].attempt = node[n].attempt /\ gates[n].seen \subseteq VerifyGates
    BY <1>0, <1>1, <2>1 DEF Evidence
  <2>3. n \notin Unverified /\ n \in Verifying
    BY <1>0, <1>1, <2>1 DEF Verifying, InVerify
  <2>4. VerifyGates \subseteq gates[n].seen
    BY <2>3 DEF Unverified, MissingGates
  <2> QED BY <1>0, <1>1, <1>7, <2>1, <2>2, <2>3, <2>4, ObservedEvidence DEF Unverified
<1>8. t = "VERIFY" => node[n].step = "running" /\ Executed(n)
  <2>1. VerifyGates # {}
    BY GraphAssumption
  <2>2. t = "VERIFY" => node[n].step = "running"
    BY <1>5, <1>7, <2>1
  <2> QED BY <1>0, <1>1, <1>5, <2>2, ObservedEvidence DEF Executed
<1>9. t = "COMPLETE" => Verified(n)
  <2> SUFFICES ASSUME t = "COMPLETE" PROVE Verified(n)
    OBVIOUS
  <2>1. /\ node[n].step = "verifying" /\ gates[n].failed = {} /\ verdict[n] # "failed"
    BY <1>b, <1>7
  <2>2. gates[n] \in [attempt : Nat, seen : SUBSET (PlanGates \cup VerifyGates),
                      failed : SUBSET (PlanGates \cup VerifyGates)]
    BY <1>0, <1>1 DEF TypeOK
  <2>3. Executed(n) /\ gates[n].attempt = node[n].attempt
    BY <1>0, <1>1, <1>7, <2>1 DEF Evidence
  <2>4. gates[n] = [attempt |-> node[n].attempt, seen |-> VerifyGates, failed |-> {}]
    BY <1>7, <2>1, <2>2, <2>3
  <2>5. DeclaredQualityGate => verdict[n] = "passed"
    BY <1>0, <1>1, <1>7, <2>1 DEF TypeOK
  <2> QED BY <2>3, <2>4, <2>5 DEF Verified, Executed
<1> HIDE DEF obs
<1>10. ASSUME type \in StepDecisions PROVE StepDecisionFits(type, n)
  <2>1. <<node[n].st, node[n].step>> \in DecisionSources[type]
    <3> DEFINE st == node[n].st
               step == node[n].step
    <3>1. /\ type = "ENTER" => \/ st = "ready" /\ step = "pending"
                               \/ st = "running" /\ step = "replanning"
          /\ type = "DISPATCH" => step \in {"planning", "retrying"}
          /\ type \in {"VERIFY", "RETRY", "WAIT", "FAIL"} => step = "running"
          /\ type = "COMPLETE" => step = "verifying"
          /\ type = "REPLAN" => step \in {"planning", "verifying"}
      BY <1>1, <1>3, <1>b, <1>6, <1>8
    <3>2. type # "ENTER" => st = "running"
      BY <1>1, <1>10, <3>1 DEF StepDecisions
    <3> HIDE DEF st, step
    <3>3. <<st, step>> \in DecisionSources[type]
      BY <1>10, <3>1, <3>2, DecisionSourcesHold
    <3> QED BY <3>3 DEF st, step
  <2>2. type = "DISPATCH" => Cardinality(active) < MaxParallelism
    <3> SUFFICES ASSUME type = "DISPATCH" PROVE Cardinality(active) < MaxParallelism
      OBVIOUS
    <3>1. ~DispatchBlocked(n)
      BY <1>3, <1>a DEF Schedulable
    <3>2. Cardinality(active) \in Nat
      BY <1>0, FS_CardinalityType DEF Ownership
    <3> QED BY <3>1, <3>2, ConstantTypes DEF DispatchBlocked
  <2>3. type = "RETRY" => node[n].step = "running" /\ node[n].attempt < AttemptCap
    BY <1>3, <1>5
  <2> QED BY <1>1, <1>3, <1>4, <1>8, <1>9, <2>1, <2>2, <2>3 DEF StepDecisionFits
<1>11. Affordable(type)
  <2>1. used.turns \in Nat /\ used.worker_calls \in Nat
    BY <1>0 DEF TypeOK, NoUse
  <2>2. /\ t \in {"PLAN", "EXECUTE", "VERIFY"} => used.turns < MaxTurns
        /\ t = "EXECUTE" => used.worker_calls < MaxWorkerCalls
        /\ t = "REPLAN" => used.replans < MaxReplans
    BY <1>b, <1>6, <2>1, ConstantTypes DEF TurnsExhausted, WorkerCallsExhausted, CanReplan
  <2>3. t = "RETRY" => used.retries < MaxRetriesPerStep * MaxNodeActivations
    <3>1. t = "RETRY" => node[n].st = "running"
      BY <1>1, <1>5
    <3> QED BY <1>0, <1>1, <1>5, <3>1, RetryHasRoom
  <2>4. type \in {"ENTER", "DISPATCH", "VERIFY"} => used.turns < MaxTurns
    BY <1>3, <2>2
  <2>5. type # "ACTIVATE"
    BY <1>3 DEF StepDecisions
  <2>6. \A k \in DOMAIN NoUse : used[k] <= Limit[k]
    BY <1>0 DEF Counters
  <2> QED BY <1>0, <1>3, <2>2, <2>3, <2>4, <2>5, <2>6, AffordableIf
<1> QED BY <1>1, <1>3, <1>10, <1>11

LEMMA OptionFits ==
    ASSUME CInv, ReadyToSchedule, NEW o \in Options
    PROVE  /\ Affordable(o.type)
           /\ o.type \in StepDecisions => StepDecisionFits(o.type, o.n)
           /\ RunDecisionFits(o.type, o.n, o.why)
<1> USE DEF CInv, IInv, Shapes
<1>1. CASE o \in StepOptions
  <2>1. PICK n \in Schedulable :
           o = Option(StepRank(Transition(n)), DecisionOf(Transition(n).type), n,
                      Transition(n).why)
    BY <1>1 DEF StepOptions
  <2>2. o.n = n /\ o.type = DecisionOf(Transition(n).type)
    BY <2>1 DEF Option
  <2> QED BY <2>2, StepOptionFits DEF RunDecisionFits, StepDecisions
<1>2. CASE o \in MissingInputOptions
  <2>1. o.type = "HALT_RUN" /\ node[o.n].st = "waiting"
    BY <1>2 DEF MissingInputOptions, Option
  <2>2. Affordable(o.type)
    BY <2>1, AffordableIf DEF Counters
  <2> QED BY <2>1, <2>2 DEF RunDecisionFits, StepDecisions
<1>3. CASE o \in ActivationOptions
  <2>1. CASE o = Option(1, "HALT_RUN", "none", "node_activation_budget_exhausted")
    <3>1. o.type = "HALT_RUN" /\ o.n \notin Nodes
      BY <2>1, GraphAssumption DEF Option
    <3>2. Affordable(o.type)
      BY <3>1, AffordableIf DEF Counters
    <3> QED BY <3>1, <3>2 DEF RunDecisionFits, StepDecisions
  <2>2. CASE /\ ~(Activatable # {} /\ used.activations >= MaxNodeActivations)
             /\ \E n \in Activatable : /\ o = Option(5, "ACTIVATE", n, "graph_edge_ready")
                                       /\ Cardinality(LiveNodes) < MaxActiveNodes
    <3>1. PICK n \in Activatable : o = Option(5, "ACTIVATE", n, "graph_edge_ready")
      BY <2>2
    <3>2. o.type = "ACTIVATE" /\ o.n = n
      BY <3>1 DEF Option
    <3>3. used.activations < MaxNodeActivations
      BY <2>2, ConstantTypes DEF TypeOK, NoUse
    <3>4. Affordable(o.type)
      BY <3>2, <3>3, AffordableIf DEF Counters
    <3> QED BY <2>2, <3>2, <3>4 DEF RunDecisionFits, StepDecisions, Activatable
  <2> QED BY <1>3, <2>1, <2>2 DEF ActivationOptions
<1>4. CASE o \in RunOptions
  <2>1. \/ o = Option(6, "PROJECT_RUN_WAITING", "none", "only_unresolved_waits_remain")
        \/ /\ LiveNodes = {} /\ TerminalsSucceeded
           /\ o = Option(7, "COMPLETE_RUN", "none", "succeeded")
        \/ /\ LiveNodes = {} /\ ~TerminalsSucceeded
           /\ o = Option(7, "COMPLETE_RUN", "none", "failed")
    BY <1>4 DEF RunOptions
  <2>2. o.type \in {"PROJECT_RUN_WAITING", "COMPLETE_RUN"}
    BY <2>1 DEF Option
  <2>3. ASSUME o.type = "COMPLETE_RUN"
        PROVE  LiveNodes = {} /\ ((o.why = "succeeded") <=> TerminalsSucceeded)
    BY <2>1, <2>3 DEF Option
  <2>4. LiveNodes = {} => active = {}
    <3> SUFFICES ASSUME LiveNodes = {}, NEW act \in active PROVE FALSE
      OBVIOUS
    <3>1. act[1] \in Nodes /\ node[act[1]].st = "running"
      BY DEF TypeOK, Ownership, ReadyToSchedule
    <3> QED BY <3>1 DEF LiveNodes, Instances, NodeEnded
  <2>5. Affordable(o.type)
    BY <2>2, AffordableIf DEF Counters
  <2> QED BY <2>2, <2>3, <2>4, <2>5 DEF RunDecisionFits, StepDecisions
<1> QED BY <1>1, <1>2, <1>3, <1>4 DEF Options

-----------------------------------------------------------------------------
(* What the projections do to nodes and counters.                          *)

NodeRecords == [st : NodeStatuses, step : StepStatuses, attempt : Nat, replans : Nat]

\* The node a decision makes, field by field.
LEMMA ApplyToNodeFields ==
    ASSUME NEW nd \in NodeRecords, NEW type \in StepDecisions, NEW after,
           after = ApplyToNode(nd, type)
    PROVE  /\ after \in NodeRecords
           /\ after.replans = IF type = "REPLAN" THEN nd.replans + 1 ELSE nd.replans
           /\ after.attempt = IF type = "DISPATCH" THEN DispatchAttempt(nd) ELSE nd.attempt
           /\ type \in {"ENTER", "DISPATCH", "VERIFY", "RETRY", "REPLAN"} => after.st = "running"
           /\ type = "ENTER"    => after.step = "planning"
           /\ type = "DISPATCH" => after.step = "running"
           /\ type = "VERIFY"   => after.step = "verifying"
           /\ type = "RETRY"    => after.step = "retrying"
           /\ type = "REPLAN"   => after.step = "replanning"
           /\ type = "COMPLETE" => after.st = "succeeded" /\ after.step = "succeeded"
           /\ type = "FAIL"     => after.st = "failed" /\ after.step = "failed"
           /\ type = "WAIT"     => after.st = "waiting" /\ after.step = "waiting_approval"
<1>1. after \in NodeRecords
  BY ApplyToNodeType DEF NodeRecords
<1>2. after.replans = IF type = "REPLAN" THEN nd.replans + 1 ELSE nd.replans
  BY DEF ApplyToNode, StepDecisions, NodeRecords
<1>3. after.attempt = IF type = "DISPATCH" THEN DispatchAttempt(nd) ELSE nd.attempt
  BY ApplyToNodeAttempt DEF NodeRecords
<1> QED BY <1>1, <1>2, <1>3 DEF ApplyToNode, StepDecisions, NodeRecords

\* A decision moves one node, within what its choice established.
LEMMA StepDecisionMoves ==
    ASSUME CInv, ProjectStepDecision
    PROVE  /\ pending.kind = "decision" /\ pending.type \in StepDecisions /\ pending.n \in Nodes
           /\ ~RunEnded /\ ~RunEnded' /\ pending' = NoPending
           /\ StepDecisionFits(pending.type, pending.n) /\ Affordable(pending.type)
           /\ node[pending.n] \in NodeRecords
           /\ node' = [node EXCEPT ![pending.n] = ApplyToNode(node[pending.n], pending.type)]
           /\ used' = Spend(used, pending.type)
           /\ pending.type = "DISPATCH" =>
                /\ node[pending.n].step \in {"planning", "retrying"}
                /\ DispatchAttempt(node[pending.n]) = node[pending.n].attempt + 1
                /\ active' = active \cup {<<pending.n, node[pending.n].attempt + 1>>}
           /\ pending.type # "DISPATCH" => active' = active
           /\ UNCHANGED <<result, marked>>
<1> USE DEF CInv, IInv, Shapes
<1>1. /\ pending.kind = "decision" /\ pending.type \in StepDecisions /\ pending.n \in Nodes
      /\ pending' = NoPending
  BY DEF ProjectStepDecision, Projecting, PendingShape, NodeDecisions
<1>2. ~RunEnded
  BY <1>1 DEF Quiescence, NoPending
<1>3. ~RunEnded'
  BY <1>2 DEF ProjectStepDecision, RunEnded, TypeOK
<1>4. StepDecisionFits(pending.type, pending.n) /\ Affordable(pending.type)
  BY <1>1 DEF DecisionFits
<1>5. node[pending.n] \in NodeRecords
  BY <1>1 DEF TypeOK, NodeRecords
<1>6. pending.type = "DISPATCH" =>
        /\ node[pending.n].step \in {"planning", "retrying"}
        /\ DispatchAttempt(node[pending.n]) = node[pending.n].attempt + 1
  BY <1>1 DEF Attempts, DispatchAttempt
<1>7. ASSUME pending.type = "DISPATCH"
      PROVE  active' = active \cup {<<pending.n, node[pending.n].attempt + 1>>}
  <2>1. ApplyToNode(node[pending.n], "DISPATCH").attempt = node[pending.n].attempt + 1
    BY <1>1, <1>5, <1>6, <1>7, ApplyToNodeFields
  <2>2. active' = active \cup {<<pending.n, ApplyToNode(node[pending.n], "DISPATCH").attempt>>}
    BY <1>7 DEF ProjectStepDecision
  <2> QED BY <2>1, <2>2
<1>8. /\ node' = [node EXCEPT ![pending.n] = ApplyToNode(node[pending.n], pending.type)]
      /\ used' = Spend(used, pending.type)
      /\ pending.type # "DISPATCH" => active' = active
      /\ UNCHANGED <<result, marked>>
  BY DEF ProjectStepDecision
<1> QED BY <1>1, <1>2, <1>3, <1>4, <1>5, <1>6, <1>7, <1>8

\* An activation makes a ready node of an absent one.
LEMMA ActivationMoves ==
    ASSUME CInv, ProjectActivation
    PROVE  /\ pending.kind = "decision" /\ pending.type = "ACTIVATE" /\ pending.n \in Nodes
           /\ ~RunEnded /\ ~RunEnded' /\ pending' = NoPending
           /\ RunDecisionFits("ACTIVATE", pending.n, pending.why) /\ Affordable("ACTIVATE")
           /\ node[pending.n].st = "absent"
           /\ node' = [node EXCEPT ![pending.n] = [Absent EXCEPT !.st = "ready"]]
           /\ used' = Spend(used, "ACTIVATE")
           /\ UNCHANGED <<run, active, result, gates, verdict, approved, marked>>
<1> USE DEF CInv, IInv, Shapes
<1>1. /\ pending.kind = "decision" /\ pending.type = "ACTIVATE" /\ pending.n \in Nodes
      /\ pending' = NoPending
  BY DEF ProjectActivation, Projecting, PendingShape, NodeDecisions
<1>2. ~RunEnded
  BY <1>1 DEF Quiescence, NoPending
<1>3. RunDecisionFits("ACTIVATE", pending.n, pending.why) /\ Affordable("ACTIVATE")
  BY <1>1 DEF DecisionFits
<1>4. ~RunEnded'
  BY <1>2 DEF ProjectActivation, RunEnded
<1>5. node[pending.n].st = "absent"
  BY <1>3 DEF RunDecisionFits
<1> QED BY <1>1, <1>2, <1>3, <1>4, <1>5 DEF ProjectActivation

\* A halt or a result stops a live node, and then the run with it, or moves
\* no node at all.
LEMMA StopMoves ==
    ASSUME CInv, ProjectHalt \/ ProjectResult, NEW n \in Nodes
    PROVE  /\ ~RunEnded /\ pending' = NoPending /\ used' = used /\ marked' = marked
           /\ UNCHANGED <<gates, verdict, approved>>
           /\ node'[n].attempt = node[n].attempt /\ node'[n].replans = node[n].replans
           /\ \/ node'[n] = node[n]
              \/ /\ node[n].st \in {"ready", "running", "waiting"}
                 /\ node'[n].st \in {"cancel_requested", "halted"}
                 /\ node'[n].step \in {node[n].step, "halted"}
                 /\ RunEnded'
<1> USE DEF CInv, IInv, Shapes
<1>1. ~RunEnded
  <2>1. pending.kind # "none"
    BY DEF ProjectHalt, ProjectResult, Projecting
  <2> QED BY <2>1 DEF Quiescence, NoPending
<1>2. /\ pending' = NoPending /\ used' = used /\ marked' = marked
      /\ UNCHANGED <<gates, verdict, approved>>
  BY DEF ProjectHalt, ProjectResult
<1>3. node[n] \in NodeRecords
  BY DEF TypeOK, NodeRecords
<1>4. CASE ProjectHalt
  <2>1. \/ node'[n] = node[n]
        \/ n = pending.n /\ node'[n] = [node[n] EXCEPT !.st = "cancel_requested"]
        \/ n = pending.n /\ node'[n] = [node[n] EXCEPT !.st = "halted", !.step = "halted"]
    BY <1>4 DEF ProjectHalt
  <2>2. n = pending.n => node[n].st \in {"ready", "running", "waiting"}
    BY <1>4 DEF ProjectHalt, Projecting, DecisionFits, RunDecisionFits
  <2>3. RunEnded'
    BY <1>4 DEF ProjectHalt, RunEnded
  <2> QED BY <1>1, <1>2, <1>3, <2>1, <2>2, <2>3 DEF NodeRecords
<1>5. CASE ProjectResult
  <2>1. pending.kind = "result" /\ pending.n \in Nodes
    BY <1>5 DEF ProjectResult, Projecting, PendingShape
  <2>2. ActivityOf(pending.n) \in active
    BY <2>1 DEF Calls, ResultProjectable
  <2>3. node[pending.n].st = "running"
    BY <1>1, <2>2 DEF Ownership, ActivityOf
  <2>4. \/ node' = node
        \/ /\ node' = [node EXCEPT ![pending.n].st = "halted", ![pending.n].step = "halted"]
           /\ RunEnded'
    BY <1>5 DEF ProjectResult, RunEnded
  <2>5. \/ node'[n] = node[n]
        \/ /\ n = pending.n /\ RunEnded'
           /\ node'[n] = [node[n] EXCEPT !.st = "halted", !.step = "halted"]
    BY <2>1, <2>4, ZenonT(90) DEF TypeOK
  <2> QED BY <1>1, <1>2, <1>3, <2>3, <2>5 DEF NodeRecords
<1> QED BY <1>4, <1>5

\* What a decision takes from the counters stays within their limits.
LEMMA SpendFields ==
    ASSUME TypeOK, NEW type, used' = Spend(used, type)
    PROVE  /\ used'.worker_calls = used.worker_calls + (IF type = "DISPATCH" THEN 1 ELSE 0)
           /\ used'.retries = used.retries + (IF type = "RETRY" THEN 1 ELSE 0)
           /\ used'.activations = used.activations + (IF type = "ACTIVATE" THEN 1 ELSE 0)
           /\ Affordable(type) => \A k \in DOMAIN NoUse : used'[k] <= Limit[k]
<1>1. used \in [DOMAIN NoUse -> Nat] /\ DOMAIN used = DOMAIN NoUse
  BY DEF TypeOK
<1>2. \A k \in DOMAIN NoUse : used'[k] = used[k] + Cost(type)[k]
  BY <1>1 DEF Spend
<1>3. Affordable(type) => \A k \in DOMAIN NoUse : used'[k] <= Limit[k]
  BY <1>1, <1>2 DEF Affordable
<1> QED BY <1>2, <1>3 DEF NoUse, Cost

\* Markers are written for activities in flight only.
LEMMA MarkedMoves ==
    ASSUME CInv, [Next]_vars
    PROVE  \/ marked' = marked
           \/ UNCHANGED active /\ \E act \in active : marked' = marked \cup {act}
<1> USE DEF CInv, IInv, Shapes
<1>1. CASE RecoverDispatch
  BY <1>1 DEF RecoverDispatch, Undispatched
<1>2. CASE Mark
  BY <1>2 DEF Mark, At, Calls
<1>3. marked' = marked \/ RecoverDispatch \/ Mark
  BY NextCases, ProjectionForm DEF Recovery, ReconcileGates, Decide, NoDecision,
     ReturnResult, Dispatch, CallWorker, AcceptResult, Phase, RecordPhase, RunPlanGates,
     RunVerifyGates, AcceptGate, AcceptVerdict, Resume, Crash, AcceptApproval, vars, journal
<1> QED BY <1>1, <1>2, <1>3

-----------------------------------------------------------------------------
(* Ownership.                                                              *)

\* The counting part: nothing is in flight or marked that was not paid for.
LEMMA OwnershipCountsStep ==
    ASSUME CInv, [Next]_vars
    PROVE  /\ IsFiniteSet(active') /\ IsFiniteSet(marked')
           /\ Cardinality(active' \cup marked') <= used'.worker_calls
           /\ Cardinality(active') <= MaxParallelism
<1>0. /\ TypeOK /\ IsFiniteSet(active) /\ IsFiniteSet(marked)
      /\ Cardinality(active \cup marked) <= used.worker_calls
      /\ Cardinality(active) <= MaxParallelism
      /\ used.worker_calls \in Nat
  BY DEF CInv, IInv, Shapes, Ownership, TypeOK, NoUse
<1>1. /\ Cardinality(active) \in Nat /\ IsFiniteSet(active \cup marked)
      /\ Cardinality(active \cup marked) \in Nat
  BY <1>0, FS_CardinalityType, FS_Union
<1>2. CASE ProjectStepDecision
  <2>1. /\ StepDecisionFits(pending.type, pending.n) /\ used' = Spend(used, pending.type)
        /\ pending.type # "DISPATCH" => active' = active
        /\ marked' = marked
    BY <1>2, StepDecisionMoves
  <2>2. used'.worker_calls =
          used.worker_calls + (IF pending.type = "DISPATCH" THEN 1 ELSE 0)
    BY <1>0, <2>1, SpendFields
  <2>3. CASE pending.type # "DISPATCH"
    <3>1. Cardinality(active' \cup marked') = Cardinality(active \cup marked)
      BY <2>1, <2>3, Zenon
    <3>2. active' = active /\ marked' = marked
      BY <2>1, <2>3
    <3>3. used'.worker_calls = used.worker_calls
      BY <1>0, <2>2, <2>3
    <3> QED BY <1>0, <3>1, <3>2, <3>3
  <2>4. CASE pending.type = "DISPATCH"
    <3>1. PICK act : active' = active \cup {act}
      BY <1>2, <2>4, StepDecisionMoves
    <3>2. Cardinality(active) < MaxParallelism
      BY <2>1, <2>4 DEF StepDecisionFits
    <3>3. /\ IsFiniteSet(active \cup {act})
          /\ Cardinality(active \cup {act}) <= Cardinality(active) + 1
      <4>1. /\ IsFiniteSet(active \cup {act})
            /\ Cardinality(active \cup {act}) = IF act \in active THEN Cardinality(active)
                                                ELSE Cardinality(active) + 1
        BY <1>0, FS_AddElement, Zenon
      <4>2. Cardinality(active \cup {act}) \in {Cardinality(active), Cardinality(active) + 1}
        BY <4>1, Zenon
      <4> DEFINE more == Cardinality(active \cup {act})
      <4> HIDE DEF more
      <4>3. more <= Cardinality(active) + 1
        BY <1>1, <4>2 DEF more
      <4> QED BY <4>1, <4>3 DEF more
    <3>4. Cardinality((active \cup marked) \cup {act}) <= Cardinality(active \cup marked) + 1
      BY <1>1, FS_AddElement
    <3>5. (active \cup marked) \cup {act} = active' \cup marked'
      BY <2>1, <3>1
    <3>6. Cardinality(active' \cup marked') <= Cardinality(active \cup marked) + 1
      BY <3>4, <3>5, Zenon
    <3>7. IsFiniteSet(active') /\ Cardinality(active') <= Cardinality(active) + 1
      BY <3>1, <3>3, Zenon
    <3>8. Cardinality(active') \in Nat /\ Cardinality(active' \cup marked') \in Nat
      BY <1>0, <2>1, <3>7, FS_CardinalityType, FS_Union
    <3> QED BY <1>0, <1>1, <2>1, <2>2, <2>4, <3>2, <3>6, <3>7, <3>8, ConstantTypes
  <2> QED BY <2>3, <2>4
<1>3. CASE ProjectActivation
  <2>1. used' = Spend(used, "ACTIVATE") /\ UNCHANGED <<active, marked>>
    BY <1>3, ActivationMoves
  <2>2. used'.worker_calls = used.worker_calls
    BY <1>0, <2>1, SpendFields
  <2> QED BY <1>0, <2>1, <2>2
<1>4. CASE \/ ProjectHalt \/ ProjectResult \/ ProjectRunDecision \/ ProjectObservation
  <2>1. marked' = marked /\ used' = used /\ active' \subseteq active
    BY <1>4 DEF ProjectHalt, ProjectResult, ProjectRunDecision, ProjectObservation
  <2>2. IsFiniteSet(active') /\ Cardinality(active') <= Cardinality(active)
    BY <1>0, <2>1, FS_Subset
  <2>3. active' \cup marked' \subseteq active \cup marked
    BY <2>1
  <2>4. /\ IsFiniteSet(active' \cup marked')
        /\ Cardinality(active' \cup marked') <= Cardinality(active \cup marked)
    BY <1>1, <2>3, FS_Subset
  <2>5. Cardinality(active') \in Nat /\ Cardinality(active' \cup marked') \in Nat
    BY <2>2, <2>4, FS_CardinalityType
  <2> QED BY <1>0, <1>1, <2>1, <2>2, <2>4, <2>5, ConstantTypes
<1>5. CASE UNCHANGED <<active, used>>
  <2>1. IsFiniteSet(marked') /\ active \cup marked' = active \cup marked
    <3>1. CASE marked' = marked
      BY <1>0, <3>1
    <3>2. CASE \E act \in active : marked' = marked \cup {act}
      <4>1. PICK act \in active : marked' = marked \cup {act}
        BY <3>2
      <4>2. IsFiniteSet(marked')
        BY <1>0, <4>1, FS_AddElement, Zenon
      <4> QED BY <4>1, <4>2
    <3> QED BY <3>1, <3>2, MarkedMoves
  <2>2. Cardinality(active' \cup marked') = Cardinality(active \cup marked)
    BY <1>5, <2>1, Zenon
  <2> QED BY <1>0, <1>5, <2>1, <2>2
<1> QED BY <1>2, <1>3, <1>4, <1>5, OnlyProjectionsMove DEF Projection

LEMMA OwnershipStep == ASSUME CInv, [Next]_vars PROVE Ownership'
<1>0. /\ TypeOK /\ Shapes /\ Calls
      /\ \A n \in Nodes : node[n] \in NodeRecords
      /\ \A act \in active :
            /\ act \in Nodes \X Nat /\ act[2] = node[act[1]].attempt
            /\ ~RunEnded => /\ node[act[1]].st = "running" /\ node[act[1]].step = "running"
                            /\ result[act[1]].attempt # act[2]
      /\ \A n \in Nodes : result[n].attempt \in Nat /\ result[n].attempt <= node[n].attempt
  BY DEF CInv, IInv, Shapes, Ownership, TypeOK, NodeRecords
<1> DEFINE Owned == \A act \in active :
                       /\ act[2] = node[act[1]].attempt
                       /\ ~RunEnded => /\ node[act[1]].st = "running"
                                       /\ node[act[1]].step = "running"
                                       /\ result[act[1]].attempt # act[2]
           Reported == \A n \in Nodes : result[n].attempt <= node[n].attempt
<1> SUFFICES Owned' /\ Reported'
  BY OwnershipCountsStep DEF Ownership
<1>1. CASE ProjectStepDecision
  <2> DEFINE n == pending.n
             after == ApplyToNode(node[n], pending.type)
  <2>1. /\ n \in Nodes /\ pending.type \in StepDecisions /\ ~RunEnded /\ result' = result
        /\ StepDecisionFits(pending.type, n)
        /\ node' = [node EXCEPT ![n] = after]
        /\ pending.type # "DISPATCH" => active' = active
    BY <1>1, StepDecisionMoves
  <2>2. \A act \in active : act[1] # n
    BY <2>1 DEF StepDecisionFits
  <2>3. \A m \in Nodes : m # n => node'[m] = node[m]
    BY <2>1
  <2>4. node'[n] = after
    BY <1>0, <2>1 DEF TypeOK
  <2>5. after.attempt = IF pending.type = "DISPATCH" THEN DispatchAttempt(node[n])
                        ELSE node[n].attempt
    BY <1>0, <2>1, ApplyToNodeFields
  <2>6. CASE pending.type # "DISPATCH"
    <3> HIDE DEF n, after
    <3>1. \A m \in Nodes : node'[m].attempt = node[m].attempt
      BY <2>3, <2>4, <2>5, <2>6
    <3>2. Owned'
      BY <1>0, <2>1, <2>2, <2>3, <2>6
    <3> QED BY <1>0, <2>1, <3>1, <3>2
  <2>7. CASE pending.type = "DISPATCH"
    <3>1. /\ DispatchAttempt(node[n]) = node[n].attempt + 1
          /\ active' = active \cup {<<n, node[n].attempt + 1>>}
      BY <1>1, <2>7, StepDecisionMoves
    <3>2. after.st = "running" /\ after.step = "running"
      BY <1>0, <2>1, <2>7, ApplyToNodeFields
    <3>3. node[n].attempt \in Nat /\ result[n].attempt \in Nat
          /\ result[n].attempt <= node[n].attempt
      BY <1>0, <2>1 DEF NodeRecords
    <3> HIDE DEF n, after
    <3>4. after.attempt = node[n].attempt + 1
      BY <2>5, <2>7, <3>1
    <3>5. Owned'
      <4> SUFFICES ASSUME NEW act \in active'
                   PROVE  /\ act[2] = node'[act[1]].attempt
                          /\ node'[act[1]].st = "running" /\ node'[act[1]].step = "running"
                          /\ result'[act[1]].attempt # act[2]
        OBVIOUS
      <4>1. CASE act \in active
        BY <1>0, <2>1, <2>2, <2>3, <4>1
      <4>2. CASE act = <<n, node[n].attempt + 1>>
        <5>1. act[1] = n /\ act[2] = node[n].attempt + 1
          BY <4>2
        <5> QED BY <2>1, <2>4, <3>2, <3>3, <3>4, <5>1
      <4> QED BY <3>1, <4>1, <4>2
    <3>6. Reported'
      <4> SUFFICES ASSUME NEW m \in Nodes PROVE result'[m].attempt <= node'[m].attempt
        OBVIOUS
      <4>1. CASE m = n
        BY <2>1, <2>4, <3>3, <3>4, <4>1
      <4>2. CASE m # n
        BY <1>0, <2>1, <2>3, <4>2
      <4> QED BY <4>1, <4>2
    <3> QED BY <3>5, <3>6
  <2> QED BY <2>6, <2>7
<1>2. CASE ProjectActivation
  <2> DEFINE n == pending.n
             new == [Absent EXCEPT !.st = "ready"]
  <2>1. /\ n \in Nodes /\ node[n].st = "absent" /\ ~RunEnded
        /\ node' = [node EXCEPT ![n] = new] /\ UNCHANGED <<active, result>>
    BY <1>2, ActivationMoves
  <2>2. node[n].attempt = 0 /\ new.attempt = 0
    BY <2>1 DEF CInv, IInv, Attempts, Absent
  <2> HIDE DEF n, new
  <2>3. \A m \in Nodes : node'[m].attempt = node[m].attempt /\ (m # n => node'[m] = node[m])
    BY <1>0, <2>1, <2>2 DEF TypeOK
  <2>4. \A act \in active : act[1] # n
    BY <1>0, <2>1
  <2>5. Owned'
    BY <1>0, <2>1, <2>3, <2>4
  <2> QED BY <1>0, <2>1, <2>3, <2>5
<1>3. CASE ProjectHalt
  <2>1. RunEnded' /\ UNCHANGED <<active, result>>
    BY <1>3 DEF ProjectHalt, RunEnded
  <2>2. \A m \in Nodes : node'[m].attempt = node[m].attempt
    BY <1>3, StopMoves
  <2> QED BY <1>0, <2>1, <2>2
<1>4. CASE ProjectResult
  <2> DEFINE n == pending.n
  <2>1. n \in Nodes /\ ~RunEnded
    BY <1>0, <1>4, StopMoves DEF ProjectResult, Projecting, Shapes, PendingShape
  <2>2. \A m \in Nodes : node'[m].attempt = node[m].attempt
    BY <1>4, StopMoves
  <2>3. result' = [result EXCEPT ![n] = [attempt |-> node[n].attempt, report |-> pending.report]]
    BY <1>4 DEF ProjectResult
  <2> HIDE DEF n
  <2>4. \A m \in Nodes : result'[m].attempt = IF m = n THEN node[n].attempt
                                              ELSE result[m].attempt
    BY <1>0, <2>1, <2>3 DEF TypeOK
  <2>5. Reported'
    BY <1>0, <2>2, <2>4 DEF NodeRecords
  <2>6. CASE RunEnded' /\ active' = active
    BY <1>0, <2>2, <2>5, <2>6
  <2>7. CASE active' = active \ {ActivityOf(n)} /\ UNCHANGED <<node, run>>
    <3>1. ASSUME NEW act \in active' PROVE act[1] # n
      BY <1>0, <2>7, <3>1 DEF ActivityOf
    <3> QED BY <1>0, <2>4, <2>5, <2>7, <3>1 DEF RunEnded
  <2>8. \/ RunEnded' /\ active' = active
        \/ active' = active \ {ActivityOf(n)} /\ UNCHANGED <<node, run>>
    BY <1>4 DEF ProjectResult, RunEnded, n
  <2> QED BY <2>6, <2>7, <2>8
<1>5. CASE ProjectRunDecision
  <2>1. UNCHANGED <<node, active, result>>
    BY <1>5 DEF ProjectRunDecision
  <2>2. ~RunEnded
    <3>1. pending.kind # "none"
      BY <1>5 DEF ProjectRunDecision, Projecting
    <3> QED BY <3>1 DEF CInv, IInv, Quiescence, NoPending
  <2> QED BY <1>0, <2>1, <2>2
<1>6. CASE UNCHANGED <<run, node, active, result>>
  BY <1>0, <1>6 DEF RunEnded
<1>7. CASE ProjectObservation
  BY <1>6, <1>7 DEF ProjectObservation
<1> QED BY <1>1, <1>2, <1>3, <1>4, <1>5, <1>6, <1>7, OnlyProjectionsMove DEF Projection

-----------------------------------------------------------------------------
(* Counters and attempts.                                                  *)

NodeSets ==
    /\ IsFiniteSet(Instances) /\ Cardinality(Instances) \in Nat
    /\ IsFiniteSet(LiveNodes) /\ Cardinality(LiveNodes) \in Nat
    /\ IsFiniteSet(Retried) /\ Cardinality(Retried) \in Nat

LEMMA NodeSetsAlways == NodeSets
BY NodeSetsFinite DEF NodeSets

LEMMA NodeSetsFiniteNext == NodeSets'
BY NodeSetsAlways, PTL

\* Nodes that only stop, or stay, keep the counters' bounds.
LEMMA CountersKept ==
    ASSUME CInv, used' = used,
           \A n \in Nodes :
              /\ node'[n].attempt = node[n].attempt
              /\ \/ node'[n] = node[n]
                 \/ /\ node[n].st \in {"ready", "running", "waiting"}
                    /\ node'[n].st \in {"cancel_requested", "halted"}
                    /\ node'[n].step \in {node[n].step, "halted"}
    PROVE  Counters'
<1>1. \A n \in Nodes : node'[n].st = "absent" <=> node[n].st = "absent"
  OBVIOUS
<1>2. Instances' = Instances
  BY <1>1 DEF Instances
<1>3. LiveNodes' \subseteq LiveNodes
  BY <1>1 DEF LiveNodes, Instances, NodeEnded
<1>4. Retried \subseteq Retried'
  <2> SUFFICES ASSUME NEW r \in Retried PROVE r \in Retried'
    OBVIOUS
  <2>1. /\ r \in Nodes \X (1..MaxRetriesPerStep) /\ r[1] \in Nodes
        /\ \/ r[2] < node[r[1]].attempt
           \/ r[2] = node[r[1]].attempt /\ node[r[1]].step \in {"retrying", "halted"}
    BY DEF Retried
  <2>2. \/ r[2] < node'[r[1]].attempt
        \/ r[2] = node'[r[1]].attempt /\ node'[r[1]].step \in {"retrying", "halted"}
    BY <2>1
  <2> QED BY <2>1, <2>2 DEF Retried
<1>5. /\ \A k \in DOMAIN NoUse : used[k] <= Limit[k]
      /\ used.activations = Cardinality(Instances) /\ used.retries \in Nat
      /\ used.retries <= Cardinality(Retried) /\ Cardinality(LiveNodes) <= MaxActiveNodes
  BY DEF CInv, IInv, Shapes, TypeOK, NoUse, Counters
<1>6. Cardinality(LiveNodes') <= Cardinality(LiveNodes)
  BY <1>3, NodeSetsFinite, FS_Subset
<1>7. Cardinality(Retried) <= Cardinality(Retried')
  BY <1>4, NodeSetsFiniteNext, FS_Subset DEF NodeSets
<1>8. Cardinality(Instances') = Cardinality(Instances)
  BY <1>2, Zenon
<1>9. /\ Cardinality(LiveNodes') <= MaxActiveNodes
      /\ used.retries <= Cardinality(Retried')
  BY <1>5, <1>6, <1>7, NodeSetsFinite, NodeSetsFiniteNext, ConstantTypes DEF NodeSets
<1> QED BY <1>5, <1>8, <1>9 DEF Counters, Limit

\* Where each decision may come from, read off its sources.
LEMMA SourcesOf ==
    ASSUME NEW type \in StepDecisions, NEW st, NEW step, <<st, step>> \in DecisionSources[type]
    PROVE  /\ step # "halted"
           /\ step = "retrying" => type = "DISPATCH"
           /\ type = "ENTER" => step \in {"pending", "replanning"}
           /\ type = "COMPLETE" => step = "verifying"
           /\ st \in {"ready", "running", "waiting"}
<1>1. CASE type \in {"ENTER", "DISPATCH"}
  BY <1>1 DEF DecisionSources
<1>2. CASE type \in {"VERIFY", "COMPLETE", "FAIL"}
  BY <1>2 DEF DecisionSources
<1>3. CASE type \in {"RETRY", "REPLAN", "WAIT"}
  BY <1>3 DEF DecisionSources
<1> QED BY <1>1, <1>2, <1>3 DEF StepDecisions

LEMMA StepDecisionKeepsCounters == ASSUME CInv, ProjectStepDecision PROVE Counters'
<1> DEFINE n == pending.n
           type == pending.type
           nd == node[pending.n]
           after == ApplyToNode(node[pending.n], pending.type)
<1>0. /\ TypeOK /\ Attempts /\ Counters
      /\ used.retries \in Nat /\ used.retries <= Cardinality(Retried)
      /\ used.activations = Cardinality(Instances) /\ Cardinality(LiveNodes) <= MaxActiveNodes
  BY DEF CInv, IInv, Shapes, TypeOK, NoUse, Counters
<1>1. /\ n \in Nodes /\ type \in StepDecisions /\ StepDecisionFits(type, n) /\ Affordable(type)
      /\ nd \in NodeRecords /\ node' = [node EXCEPT ![n] = after]
      /\ used' = Spend(used, type)
      /\ type = "DISPATCH" => DispatchAttempt(nd) = nd.attempt + 1
  BY StepDecisionMoves
<1>2. /\ <<nd.st, nd.step>> \in DecisionSources[type] /\ nd.st \in {"ready", "running"}
      /\ type = "RETRY" => nd.step = "running" /\ nd.attempt < AttemptCap
  BY <1>1 DEF StepDecisionFits
<1>3. /\ nd.step # "halted"
      /\ nd.step = "retrying" => type = "DISPATCH"
  BY <1>1, <1>2, SourcesOf
<1>4. /\ after.st # "absent" /\ after \in NodeRecords
      /\ after.attempt = IF type = "DISPATCH" THEN nd.attempt + 1 ELSE nd.attempt
      /\ type = "RETRY" => after.step = "retrying"
  BY <1>1, ApplyToNodeFields, ApplyToNodeAttempt DEF NodeRecords
<1>5. /\ \A k \in DOMAIN NoUse : used'[k] <= Limit[k]
      /\ used'.activations = used.activations
      /\ used'.retries = used.retries + (IF type = "RETRY" THEN 1 ELSE 0)
  <2>1. type # "ACTIVATE"
    BY <1>1 DEF StepDecisions
  <2>2. used' = Spend(used, type) /\ Affordable(type)
    BY <1>1
  <2>3. /\ used'.retries = used.retries + (IF type = "RETRY" THEN 1 ELSE 0)
        /\ used'.activations = used.activations + (IF type = "ACTIVATE" THEN 1 ELSE 0)
        /\ Affordable(type) => \A k \in DOMAIN NoUse : used'[k] <= Limit[k]
    <3> HIDE DEF type, nd, after
    <3> QED BY <1>0, <2>2, SpendFields
  <2>4. used.activations \in Nat
    BY <1>0 DEF TypeOK, NoUse
  <2> HIDE DEF type
  <2> QED BY <2>1, <2>2, <2>3, <2>4
<1>6. nd.st # "absent" /\ nd.st \notin {"succeeded", "failed", "halted"} /\ nd = node[n]
  BY <1>2
<1> HIDE DEF n, type, nd, after
<1>7. \A m \in Nodes : node'[m] = IF m = n THEN after ELSE node[m]
  BY <1>0, <1>1 DEF TypeOK
<1>8. Instances' = Instances
  BY <1>1, <1>4, <1>6, <1>7 DEF Instances
<1>9. LiveNodes' \subseteq LiveNodes
  BY <1>1, <1>6, <1>7, <1>8 DEF LiveNodes, NodeEnded, Instances
<1>10. Retried \subseteq Retried'
  <2> SUFFICES ASSUME NEW r \in Retried PROVE r \in Retried'
    OBVIOUS
  <2>1. /\ r \in Nodes \X (1..MaxRetriesPerStep) /\ r[1] \in Nodes /\ r[2] \in Nat
        /\ \/ r[2] < node[r[1]].attempt
           \/ r[2] = node[r[1]].attempt /\ node[r[1]].step \in {"retrying", "halted"}
    BY DEF Retried
  <2>2. CASE r[1] = n
    <3>1. nd.attempt \in Nat /\ after.attempt \in Nat
      BY <1>1, <1>4 DEF NodeRecords
    <3>2. r[2] < after.attempt
      BY <1>3, <1>4, <1>6, <2>1, <2>2, <3>1
    <3>3. node'[r[1]] = after
      BY <1>7, <2>1, <2>2
    <3> QED BY <2>1, <3>2, <3>3 DEF Retried
  <2>3. CASE r[1] # n
    <3>1. node'[r[1]] = node[r[1]]
      BY <1>7, <2>1, <2>3
    <3> QED BY <2>1, <3>1 DEF Retried
  <2> QED BY <2>2, <2>3
<1>11. used'.retries <= Cardinality(Retried')
  <2>1. CASE type # "RETRY"
    <3>1. Cardinality(Retried) <= Cardinality(Retried')
      BY <1>10, NodeSetsFiniteNext, FS_Subset DEF NodeSets
    <3> QED BY <1>0, <1>5, <2>1, <3>1, NodeSetsFinite, NodeSetsFiniteNext DEF NodeSets
  <2>2. CASE type = "RETRY"
    <3> DEFINE pair == <<n, nd.attempt>>
    <3>1. node[n].st = "running" /\ node[n].step = "running" /\ node[n].attempt < AttemptCap
      BY <1>2, <1>6, <2>2 DEF DecisionSources
    <3>2. pair \in Nodes \X (1..MaxRetriesPerStep) /\ pair \notin Retried
      BY <1>0, <1>1, <1>6, <3>1, RetryHasRoom
    <3>3. node'[n] = after /\ after.attempt = nd.attempt /\ after.step = "retrying"
      BY <1>1, <1>4, <1>7, <2>2
    <3>4. pair \in Retried'
      BY <3>2, <3>3 DEF Retried
    <3> HIDE DEF pair
    <3>5. Retried \cup {pair} \subseteq Retried'
      BY <1>10, <3>4
    <3>6. Cardinality(Retried \cup {pair}) = Cardinality(Retried) + 1
      BY <3>2, NodeSetsFinite, FS_AddElement
    <3>7. Cardinality(Retried \cup {pair}) <= Cardinality(Retried')
      BY <3>5, NodeSetsFiniteNext, FS_Subset DEF NodeSets
    <3>8. Cardinality(Retried) + 1 <= Cardinality(Retried')
      BY <3>6, <3>7, Zenon
    <3> QED BY <1>0, <1>5, <2>2, <3>8, NodeSetsFinite, NodeSetsFiniteNext DEF NodeSets
  <2> QED BY <2>1, <2>2
<1>12. Cardinality(LiveNodes') <= MaxActiveNodes
  <2>1. Cardinality(LiveNodes') <= Cardinality(LiveNodes)
    BY <1>9, NodeSetsFinite, FS_Subset
  <2> QED BY <1>0, <2>1, NodeSetsFinite, NodeSetsFiniteNext, ConstantTypes DEF NodeSets
<1>13. used'.activations = Cardinality(Instances')
  <2>1. Cardinality(Instances') = Cardinality(Instances)
    BY <1>8, Zenon
  <2> QED BY <1>0, <1>5, <2>1
<1> QED BY <1>5, <1>11, <1>12, <1>13 DEF Counters, Limit

LEMMA ActivationKeepsCounters == ASSUME CInv, ProjectActivation PROVE Counters'
<1> DEFINE n == pending.n
           new == [Absent EXCEPT !.st = "ready"]
<1>0. /\ TypeOK /\ Attempts /\ Counters
      /\ used.retries \in Nat /\ used.retries <= Cardinality(Retried)
      /\ used.activations = Cardinality(Instances)
  BY DEF CInv, IInv, Shapes, TypeOK, NoUse, Counters
<1>1. /\ n \in Nodes /\ node[n].st = "absent" /\ Affordable("ACTIVATE")
      /\ RunDecisionFits("ACTIVATE", n, pending.why)
      /\ node' = [node EXCEPT ![n] = new] /\ used' = Spend(used, "ACTIVATE")
  BY ActivationMoves
<1>2. new.st = "ready" /\ new.attempt = 0 /\ node[n].attempt = 0
  BY <1>0, <1>1 DEF Attempts, Absent
<1>3. /\ \A k \in DOMAIN NoUse : used'[k] <= Limit[k]
      /\ used'.activations = used.activations + 1 /\ used'.retries = used.retries
  BY <1>0, <1>1, SpendFields
<1>4. Cardinality(LiveNodes) < MaxActiveNodes
  BY <1>1 DEF RunDecisionFits
<1> HIDE DEF n, new
<1>5. \A m \in Nodes : node'[m] = IF m = n THEN new ELSE node[m]
  BY <1>0, <1>1 DEF TypeOK
<1>6. Instances' = Instances \cup {n} /\ n \notin Instances
  BY <1>1, <1>2, <1>5 DEF Instances
<1>7. LiveNodes' = LiveNodes \cup {n} /\ n \notin LiveNodes
  BY <1>1, <1>2, <1>5 DEF LiveNodes, Instances, NodeEnded
<1>8. Retried \subseteq Retried'
  <2> SUFFICES ASSUME NEW r \in Retried PROVE r \in Retried'
    OBVIOUS
  <2>1. /\ r \in Nodes \X (1..MaxRetriesPerStep) /\ r[1] \in Nodes /\ r[2] \in 1..MaxRetriesPerStep
        /\ \/ r[2] < node[r[1]].attempt
           \/ r[2] = node[r[1]].attempt /\ node[r[1]].step \in {"retrying", "halted"}
    BY DEF Retried
  <2>2. r[1] # n
    BY <1>2, <2>1, ConstantTypes
  <2>3. node'[r[1]] = node[r[1]]
    BY <1>5, <2>1, <2>2
  <2> QED BY <2>1, <2>3 DEF Retried
<1>9. used'.retries <= Cardinality(Retried')
  <2>1. Cardinality(Retried) <= Cardinality(Retried')
    BY <1>8, NodeSetsFiniteNext, FS_Subset DEF NodeSets
  <2> QED BY <1>0, <1>3, <2>1, NodeSetsFinite, NodeSetsFiniteNext DEF NodeSets
<1>10. used'.activations = Cardinality(Instances')
  <2>1. Cardinality(Instances \cup {n}) = Cardinality(Instances) + 1
    BY <1>6, NodeSetsFinite, FS_AddElement
  <2>2. Cardinality(Instances') = Cardinality(Instances \cup {n})
    BY <1>6, Zenon
  <2>3. Cardinality(Instances') = Cardinality(Instances) + 1
    BY <2>1, <2>2, Zenon
  <2> QED BY <1>0, <1>3, <2>3
<1>11. Cardinality(LiveNodes') <= MaxActiveNodes
  <2>1. Cardinality(LiveNodes \cup {n}) = Cardinality(LiveNodes) + 1
    BY <1>7, NodeSetsFinite, FS_AddElement
  <2>2. Cardinality(LiveNodes') = Cardinality(LiveNodes \cup {n})
    BY <1>7, Zenon
  <2>3. Cardinality(LiveNodes') = Cardinality(LiveNodes) + 1
    BY <2>1, <2>2, Zenon
  <2> QED BY <1>4, <2>3, NodeSetsFinite, ConstantTypes
<1> QED BY <1>3, <1>9, <1>10, <1>11 DEF Counters, Limit

LEMMA CountersStep == ASSUME CInv, [Next]_vars PROVE Counters'
<1>1. CASE ProjectHalt \/ ProjectResult
  <2>1. used' = used
    BY <1>1 DEF ProjectHalt, ProjectResult
  <2> QED BY <1>1, <2>1, StopMoves, CountersKept
<1>2. CASE UNCHANGED <<node, used>>
  BY <1>2, CountersKept
<1>3. CASE ProjectRunDecision \/ ProjectObservation
  BY <1>2, <1>3 DEF ProjectRunDecision, ProjectObservation
<1> QED BY <1>1, <1>2, <1>3, StepDecisionKeepsCounters, ActivationKeepsCounters,
           OnlyProjectionsMove DEF Projection

LEMMA AttemptsLeftStep == ASSUME CInv, [Next]_vars PROVE AttemptsLeft'
<1> DEFINE Open == {"pending", "planning", "replanning", "retrying"}
<1>0. /\ TypeOK /\ Attempts
      /\ \A n \in Nodes :
            /\ node[n] \in NodeRecords
            /\ node[n].attempt <= AttemptCap + node[n].replans
            /\ node[n].step \in Open => node[n].attempt < AttemptCap + node[n].replans
  BY DEF CInv, IInv, Shapes, TypeOK, NodeRecords, AttemptsLeft
<1>1. CASE ProjectStepDecision
  <2> DEFINE n == pending.n
             type == pending.type
             nd == node[pending.n]
             after == ApplyToNode(node[pending.n], pending.type)
  <2>1. /\ n \in Nodes /\ type \in StepDecisions /\ StepDecisionFits(type, n)
        /\ nd \in NodeRecords /\ node' = [node EXCEPT ![n] = after] /\ nd = node[n]
        /\ type = "DISPATCH" => /\ DispatchAttempt(nd) = nd.attempt + 1
                                /\ nd.step \in {"planning", "retrying"}
    BY <1>1, StepDecisionMoves
  <2>2. /\ type = "RETRY" => nd.attempt < AttemptCap
        /\ type = "ENTER" => nd.step \in {"pending", "replanning"}
    BY <2>1, SourcesOf DEF StepDecisionFits
  <2>3. /\ after.attempt = IF type = "DISPATCH" THEN nd.attempt + 1 ELSE nd.attempt
        /\ after.replans = IF type = "REPLAN" THEN nd.replans + 1 ELSE nd.replans
        /\ after.step \in Open => type \in {"ENTER", "RETRY", "REPLAN"}
    BY <2>1, ApplyToNodeFields DEF StepDecisions
  <2> HIDE DEF n, type, nd, after
  <2>4. \A m \in Nodes : node'[m] = IF m = n THEN after ELSE node[m]
    BY <1>0, <2>1 DEF TypeOK
  <2>5. nd.attempt \in Nat /\ nd.replans \in Nat
    BY <2>1 DEF NodeRecords
  <2>6. /\ nd.attempt <= AttemptCap + nd.replans
        /\ nd.step \in Open => nd.attempt < AttemptCap + nd.replans
    BY <1>0, <2>1
  <2>7. /\ after.attempt <= AttemptCap + after.replans
        /\ after.step \in Open => after.attempt < AttemptCap + after.replans
    <3>1. CASE type = "DISPATCH"
      BY <2>1, <2>3, <2>5, <2>6, <3>1, ConstantTypes
    <3>2. CASE type = "REPLAN"
      BY <2>3, <2>5, <2>6, <3>2, ConstantTypes
    <3>3. CASE type \notin {"DISPATCH", "REPLAN"}
      BY <2>2, <2>3, <2>5, <2>6, <3>3, ConstantTypes
    <3> QED BY <3>1, <3>2, <3>3
  <2> QED BY <1>0, <2>4, <2>7 DEF AttemptsLeft
<1>2. CASE ProjectActivation
  <2> DEFINE new == [Absent EXCEPT !.st = "ready"]
  <2>1. pending.n \in Nodes /\ node' = [node EXCEPT ![pending.n] = new]
    BY <1>2, ActivationMoves
  <2>2. new.attempt = 0 /\ new.replans = 0
    BY DEF Absent
  <2> HIDE DEF new
  <2>3. \A m \in Nodes : node'[m] = IF m = pending.n THEN new ELSE node[m]
    BY <1>0, <2>1 DEF TypeOK
  <2> QED BY <1>0, <2>2, <2>3, ConstantTypes DEF AttemptsLeft
<1>3. CASE ProjectHalt \/ ProjectResult
  <2>1. \A n \in Nodes : /\ node'[n].attempt = node[n].attempt
                         /\ node'[n].replans = node[n].replans
                         /\ node'[n].step \in {node[n].step, "halted"}
    BY <1>3, StopMoves
  <2> QED BY <1>0, <2>1 DEF AttemptsLeft
<1>4. CASE UNCHANGED node
  BY <1>0, <1>4 DEF AttemptsLeft
<1>5. CASE ProjectRunDecision \/ ProjectObservation
  BY <1>4, <1>5 DEF ProjectRunDecision, ProjectObservation
<1> QED BY <1>1, <1>2, <1>3, <1>4, <1>5, OnlyProjectionsMove DEF Projection

-----------------------------------------------------------------------------
(* The open decision.                                                      *)

\* The journal but for the open record, the markers and the phase log.
projected == <<run, node, used, active, result, gates, verdict, approved>>

\* Whether a decision fits depends on the projections only.
LEMMA FitsFrame ==
    ASSUME UNCHANGED projected, NEW type, NEW n, NEW why
    PROVE  /\ Affordable(type) => Affordable(type)'
           /\ StepDecisionFits(type, n) => StepDecisionFits(type, n)'
           /\ RunDecisionFits(type, n, why) => RunDecisionFits(type, n, why)'
<1> USE DEF projected
<1>1. Affordable(type) => Affordable(type)'
  BY DEF Affordable
<1>2. Executed(n) => Executed(n)'
  BY DEF Executed
<1>3. Verified(n) => Verified(n)'
  BY DEF Verified
<1>4. StepDecisionFits(type, n) => StepDecisionFits(type, n)'
  BY <1>2, <1>3 DEF StepDecisionFits
<1>5. LiveNodes' = LiveNodes
  BY DEF LiveNodes, Instances, NodeEnded
<1>6. Cardinality(LiveNodes') = Cardinality(LiveNodes)
  BY <1>5, Zenon
<1>7. TerminalsSucceeded' <=> TerminalsSucceeded
  BY DEF TerminalsSucceeded
<1>8. RunDecisionFits(type, n, why) => RunDecisionFits(type, n, why)'
  BY <1>5, <1>6, <1>7 DEF RunDecisionFits
<1> QED BY <1>1, <1>4, <1>8

LEMMA DecisionFitsStep == ASSUME CInv, [Next]_vars PROVE DecisionFits'
<1>1. CASE Decide
  <2>1. PICK o \in Chosen :
           pending' = [kind |-> "decision", type |-> o.type, n |-> o.n, why |-> o.why]
    BY <1>1 DEF Decide
  <2>2. o \in Options /\ ReadyToSchedule /\ UNCHANGED projected
    BY <1>1 DEF Chosen, Decide, projected
  <2>3. PICK type, n, why : type = o.type /\ n = o.n /\ why = o.why
    OBVIOUS
  <2>4. /\ Affordable(type)
        /\ type \in StepDecisions => StepDecisionFits(type, n)
        /\ RunDecisionFits(type, n, why)
    BY <2>2, <2>3, OptionFits
  <2>5. /\ Affordable(type)'
        /\ type \in StepDecisions => StepDecisionFits(type, n)'
        /\ RunDecisionFits(type, n, why)'
    BY <2>2, <2>4, FitsFrame
  <2>6. pending'.type = type /\ pending'.n = n /\ pending'.why = why
    BY <2>1, <2>3
  <2> QED BY <2>5, <2>6 DEF DecisionFits
<1>2. CASE pending' = pending /\ pending.kind = "decision"
  <2>1. UNCHANGED projected
    BY <1>2, ProjectionForm, OnlyProjectionsMove DEF projected, NoPending
  <2>2. PICK type, n, why : type = pending.type /\ n = pending.n /\ why = pending.why
    OBVIOUS
  <2>3. /\ Affordable(type)
        /\ type \in StepDecisions => StepDecisionFits(type, n)
        /\ RunDecisionFits(type, n, why)
    BY <1>2, <2>2 DEF CInv, DecisionFits
  <2>4. /\ Affordable(type)'
        /\ type \in StepDecisions => StepDecisionFits(type, n)'
        /\ RunDecisionFits(type, n, why)'
    BY <2>1, <2>3, FitsFrame
  <2>5. pending'.type = type /\ pending'.n = n /\ pending'.why = why
    BY <1>2, <2>2
  <2> QED BY <2>4, <2>5 DEF DecisionFits
<1>3. CASE pending'.kind # "decision"
  BY <1>3 DEF DecisionFits
<1> QED BY <1>1, <1>2, <1>3, PendingMoves

-----------------------------------------------------------------------------
(* Gates in the controller's memory, and open observations.                *)

\* Outside the places where gates are evaluated GateWork says nothing.
Evaluating ==
    {"plan_entry", "plan_gates", "verify_entry", "verify_gates", "gates", "verdict"}

LEMMA NoGateWork == ASSUME ctl'.pc \notin Evaluating PROVE GateWork'
BY DEF GateWork, Evaluating

LEMMA RecoveryGates == ASSUME CInv, Recovery PROVE GateWork'
<1>1. CASE ReconcileGates
  <2>1. PICK n \in Unverified, bad \in SUBSET VerifyGates :
           ctl' = [Idle(IF MissingGates(n) = {} THEN "verdict" ELSE "gates")
                     EXCEPT !.n = n, !.todo = MissingGates(n), !.bad = bad,
                            !.back = "recover"]
    BY <1>1 DEF ReconcileGates
  <2>2. pending' = NoPending /\ UNCHANGED <<node, gates, pending>>
    BY <1>1 DEF ReconcileGates, At, journal
  <2>3. /\ ctl'.pc = IF MissingGates(n) = {} THEN "verdict" ELSE "gates"
        /\ ctl'.n = n /\ ctl'.todo = MissingGates(n) /\ ctl'.back = "recover"
    BY <2>1 DEF Idle
  <2>4. InVerify(n)'
    BY <2>2 DEF Unverified, Verifying, InVerify
  <2>5. VerifyGates \ MissingGates(n) \subseteq gates[n].seen
    BY DEF MissingGates
  <2>6. MissingGates(n) \subseteq VerifyGates
    BY DEF MissingGates
  <2> QED BY <2>2, <2>3, <2>4, <2>5, <2>6 DEF GateWork, Evaluated, InVerify, NoPending
<1>2. CASE RecoverDispatch \/ Decide \/ NoDecision \/ ReturnResult
  <2>1. ctl'.pc \in {"call", "decided", "down", "done"}
    <3>1. CASE RecoverDispatch
      BY <3>1 DEF RecoverDispatch, Idle
    <3>2. CASE Decide
      BY <3>2 DEF Decide, Idle
    <3>3. CASE NoDecision \/ ReturnResult
      BY <3>3 DEF NoDecision, ReturnResult, Raise, Idle
    <3> QED BY <1>2, <3>1, <3>2, <3>3
  <2> QED BY <2>1, NoGateWork DEF Evaluating
<1> QED BY <1>1, <1>2 DEF Recovery

LEMMA ProjectionGates == ASSUME CInv, Projection PROVE GateWork'
<1> USE DEF CInv, IInv, Shapes
<1>0. /\ pending' = NoPending
      /\ pending.kind = "decision" => ctl' = AfterDecision(pending.type)
      /\ pending.kind # "decision" => ctl' = ctl
      /\ pending.kind \in {"decision", "result", "observation"} /\ ctl.pc \in DrivePoints
  BY ProjectionForm
<1>1. CASE pending.kind = "decision"
  <2>1. CASE AfterDecision(pending.type) = Idle("recover")
    <3>1. ctl'.pc = "recover"
      BY <1>0, <1>1, <2>1 DEF Idle
    <3> QED BY <3>1, NoGateWork DEF Evaluating
  <2>2. CASE /\ ctl.pc = "decided" /\ pending.type \in {"ENTER", "DISPATCH", "VERIFY"}
             /\ AfterDecision(pending.type) =
                  [ctl EXCEPT !.pc = [ENTER |-> "plan_entry", DISPATCH |-> "mark",
                                      VERIFY |-> "verify_entry"][pending.type],
                              !.back = "execute_entry"]
    <3>1. pending.type \in StepDecisions /\ ProjectStepDecision
      BY <1>1, <2>2 DEF StepDecisions, Projection, Projecting, ProjectStepDecision,
         ProjectActivation, ProjectHalt, ProjectRunDecision, ProjectResult, ProjectObservation
    <3>2. /\ pending.n \in Nodes /\ pending.n = ctl.n /\ ctl'.n = ctl.n
          /\ node'[ctl.n] = ApplyToNode(node[ctl.n], pending.type)
      <4>1. pending.n \in Nodes /\ pending.n = ctl.n
        BY <2>2, <3>1 DEF CtlShape, PendingShape, NodeDecisions
      <4>2. node' = [node EXCEPT ![pending.n] = ApplyToNode(node[pending.n], pending.type)]
        BY <3>1 DEF ProjectStepDecision
      <4>3. ctl'.n = ctl.n
        BY <1>0, <1>1, <2>2, ZenonT(60) DEF CtlShape
      <4> QED BY <4>1, <4>2, <4>3 DEF TypeOK
    <3>3. ctl'.pc = [ENTER |-> "plan_entry", DISPATCH |-> "mark",
                     VERIFY |-> "verify_entry"][pending.type]
      BY <1>0, <1>1, <2>2, ZenonT(60) DEF CtlShape
    <3>4. CASE pending.type = "ENTER"
      <4>1. ctl'.pc = "plan_entry" /\ node'[ctl.n].st = "running"
            /\ node'[ctl.n].step = "planning"
        BY <3>1, <3>2, <3>3, <3>4, ApplyToNodeFields DEF TypeOK, NodeRecords
      <4> QED BY <1>0, <3>2, <4>1 DEF GateWork, InPlan
    <3>5. CASE pending.type = "VERIFY"
      <4>1. ctl'.pc = "verify_entry" /\ node'[ctl.n].st = "running"
            /\ node'[ctl.n].step = "verifying"
        BY <3>1, <3>2, <3>3, <3>5, ApplyToNodeFields DEF TypeOK, NodeRecords
      <4> QED BY <1>0, <3>2, <4>1 DEF GateWork, InVerify
    <3>6. CASE pending.type = "DISPATCH"
      <4>1. ctl'.pc = "mark"
        BY <3>3, <3>6
      <4> QED BY <4>1, NoGateWork DEF Evaluating
    <3> QED BY <2>2, <3>4, <3>5, <3>6
  <2>3. CASE /\ ctl.pc # "decided" /\ pending.type = "DISPATCH"
             /\ AfterDecision(pending.type) =
                  [Idle("mark") EXCEPT !.n = pending.n, !.back = "recover"]
    <3>1. ctl'.pc = "mark"
      BY <1>0, <1>1, <2>3 DEF Idle
    <3> QED BY <3>1, NoGateWork DEF Evaluating
  <2> QED BY <2>1, <2>2, <2>3, AfterDecisionForm
<1>2. CASE pending.kind = "result"
  <2>1. ctl'.pc \in {"recover", "down", "execute_entry"}
    BY <1>0, <1>2 DEF Quiescence
  <2> QED BY <2>1, NoGateWork DEF Evaluating
<1>3. CASE pending.kind = "observation"
  <2>1. ProjectObservation /\ ctl' = ctl
    BY <1>0, <1>3 DEF Projection, Projecting, ProjectStepDecision, ProjectActivation,
       ProjectHalt, ProjectRunDecision, ProjectResult
  <2>2. node' = node /\ pending.n \in Nodes
    BY <1>3, <2>1 DEF ProjectObservation, PendingShape
  <2>3. ctl.pc \notin {"plan_entry", "plan_gates", "verify_entry", "verify_gates"}
    BY <1>3 DEF GateWork, NoPending
  <2>4. CASE ctl.pc \notin {"gates", "verdict"}
    BY <2>1, <2>3, <2>4, NoGateWork DEF Evaluating
  <2>5. CASE ctl.pc \in {"gates", "verdict"}
    <3>1. ctl.n \in Nodes
      BY <2>5 DEF CtlShape
    <3>2. Evaluated(ctl.n) \subseteq gates'[ctl.n].seen
      <4>1. CASE pending.what = "gate"
        <5>1. gates' = [gates EXCEPT ![pending.n].seen = @ \cup {pending.gate},
                                     ![pending.n].failed = IF pending.passed THEN @
                                                           ELSE @ \cup {pending.gate}]
          BY <2>1, <4>1 DEF ProjectObservation
        <5>2. /\ gates'[pending.n].seen = gates[pending.n].seen \cup {pending.gate}
              /\ \A m \in Nodes : m # pending.n => gates'[m] = gates[m]
          BY <2>2, <5>1 DEF TypeOK
        <5> QED BY <3>1, <5>2 DEF Evaluated
      <4>2. CASE pending.what # "gate"
        <5>1. gates' = gates
          BY <2>1, <4>2 DEF ProjectObservation
        <5> QED BY <4>2, <5>1 DEF Evaluated
      <4> QED BY <4>1, <4>2
    <3>3. Evaluated(ctl.n) \subseteq Evaluated(ctl.n)'
      BY <2>1, <3>2 DEF Evaluated
    <3> QED BY <1>0, <2>1, <2>2, <2>3, <2>5, <3>3 DEF GateWork, InPlan, InVerify, NoPending
  <2> QED BY <2>4, <2>5
<1> QED BY <1>0, <1>1, <1>2, <1>3

LEMMA PhaseGates == ASSUME CInv, Phase PROVE GateWork'
<1> USE DEF CInv, IInv, Shapes
<1>0. UNCHANGED <<node, gates>> /\ pending = NoPending
  BY DEF Phase, RecordPhase, RunPlanGates, RunVerifyGates, AcceptGate, AcceptVerdict, At,
         journal
<1>1. CASE RecordPhase
  <2>1. ctl.pc \in PhasePoints /\ pending' = pending
    BY <1>1 DEF RecordPhase
  <2>2. CASE Raise
    <3>1. ctl'.pc = "down"
      BY <2>2 DEF Raise, Idle
    <3> QED BY <3>1, NoGateWork DEF Evaluating
  <2>3. CASE Goto(AfterPhase[ctl.pc])
    <3>1. ctl'.pc = AfterPhase[ctl.pc] /\ ctl'.n = ctl.n
      BY <2>3 DEF Goto, CtlShape
    <3>2. CASE ctl.pc = "plan_entry"
      <4>1. ctl'.pc = "plan_gates"
        BY <3>1, <3>2 DEF AfterPhase
      <4> QED BY <1>0, <2>1, <3>1, <3>2, <4>1 DEF GateWork, InPlan
    <3>3. CASE ctl.pc = "verify_entry"
      <4>1. ctl'.pc = "verify_gates"
        BY <3>1, <3>3 DEF AfterPhase
      <4> QED BY <1>0, <2>1, <3>1, <3>3, <4>1 DEF GateWork, InVerify
    <3>4. CASE ctl.pc \notin {"plan_entry", "verify_entry"}
      <4>1. ctl'.pc \in {"recover", "execute_exit"}
        BY <2>1, <3>1, <3>4 DEF AfterPhase, PhasePoints
      <4> QED BY <4>1, NoGateWork DEF Evaluating
    <3> QED BY <3>2, <3>3, <3>4
  <2> QED BY <1>1, <2>2, <2>3 DEF RecordPhase
<1>2. CASE RunPlanGates
  <2>1. InPlan(ctl.n) /\ pending' = NoPending
    BY <1>0, <1>2 DEF RunPlanGates, At, GateWork, journal
  <2>2. PICK bad \in SUBSET PlanGates :
           ctl' = IF bad = {} THEN [ctl EXCEPT !.pc = "plan_exit"]
                  ELSE [ctl EXCEPT !.pc = "gates", !.todo = PlanGates, !.bad = bad,
                                   !.back = "plan_exit"]
    BY <1>2 DEF RunPlanGates
  <2>3. CASE bad = {}
    <3>1. ctl'.pc = "plan_exit"
      BY <2>2, <2>3 DEF CtlShape
    <3> QED BY <3>1, NoGateWork DEF Evaluating
  <2>4. CASE bad # {}
    <3>1. ctl'.pc = "gates" /\ ctl'.back = "plan_exit" /\ ctl'.n = ctl.n
      BY <2>2, <2>4 DEF CtlShape
    <3> QED BY <1>0, <2>1, <3>1 DEF GateWork, InPlan, NoPending
  <2> QED BY <2>3, <2>4
<1>3. CASE RunVerifyGates
  <2>1. InVerify(ctl.n) /\ pending' = NoPending
    BY <1>0, <1>3 DEF RunVerifyGates, At, GateWork, journal
  <2>2. ctl'.pc = "gates" /\ ctl'.back = "verify_exit" /\ ctl'.n = ctl.n
        /\ ctl'.todo = VerifyGates
    BY <1>3 DEF RunVerifyGates, CtlShape
  <2> QED BY <1>0, <2>1, <2>2 DEF GateWork, InVerify, NoPending
<1>4. CASE AcceptGate
  <2>1. PICK g \in ctl.todo :
           /\ pending' = [kind |-> "observation", n |-> ctl.n, what |-> "gate",
                          gate |-> g, passed |-> g \notin ctl.bad]
           /\ ctl' = [ctl EXCEPT !.pc = IF ctl.todo \ {g} # {} THEN "gates"
                                        ELSE IF ctl.back = "plan_exit" \/ ~DeclaredQualityGate
                                        THEN ctl.back ELSE "verdict",
                                 !.todo = ctl.todo \ {g}, !.bad = @ \ {g}]
    BY <1>4 DEF AcceptGate
  <2>2. /\ ctl'.pc = IF ctl.todo \ {g} # {} THEN "gates"
                     ELSE IF ctl.back = "plan_exit" \/ ~DeclaredQualityGate
                     THEN ctl.back ELSE "verdict"
        /\ ctl'.n = ctl.n /\ ctl'.todo = ctl.todo \ {g} /\ ctl'.back = ctl.back
    BY <2>1 DEF CtlShape
  <2>3. ctl.pc = "gates" /\ ctl.back \in {"recover", "plan_exit", "verify_exit"}
        /\ g \in AllGates
    BY <1>4 DEF AcceptGate, At, CtlShape
  <2>4. CASE ctl'.pc \notin {"gates", "verdict"}
    <3>1. ctl'.pc \in {"recover", "plan_exit", "verify_exit"}
      BY <2>2, <2>3, <2>4
    <3> QED BY <3>1, NoGateWork DEF Evaluating
  <2>5. CASE ctl'.pc \in {"gates", "verdict"} /\ ctl.back = "plan_exit"
    <3>1. InPlan(ctl.n) /\ ctl'.pc = "gates"
      BY <2>2, <2>3, <2>5 DEF GateWork
    <3> QED BY <1>0, <2>1, <2>2, <2>5, <3>1 DEF GateWork, InPlan
  <2>6. CASE ctl'.pc \in {"gates", "verdict"} /\ ctl.back # "plan_exit"
    <3>1. /\ InVerify(ctl.n) /\ ctl.todo \subseteq VerifyGates
          /\ VerifyGates \ ctl.todo \subseteq Evaluated(ctl.n)
      BY <2>3, <2>6 DEF GateWork
    <3>2. Evaluated(ctl.n) = gates[ctl.n].seen
      BY <1>0 DEF Evaluated, NoPending
    <3>3. Evaluated(ctl.n)' = gates[ctl.n].seen \cup {g}
      BY <1>0, <2>1, <2>2, <2>3 DEF Evaluated
    <3>4. VerifyGates \ ctl'.todo \subseteq Evaluated(ctl.n)'
      BY <2>2, <3>1, <3>2, <3>3
    <3>5. ctl'.pc = "verdict" => VerifyGates \subseteq Evaluated(ctl.n)'
      BY <2>2, <3>4
    <3>6. InVerify(ctl.n)' /\ ctl'.todo \subseteq VerifyGates
      BY <1>0, <2>2, <3>1 DEF InVerify
    <3>7. pending'.kind = "observation"
      BY <2>1
    <3> QED BY <2>2, <2>6, <3>4, <3>5, <3>6, <3>7 DEF GateWork
  <2> QED BY <2>4, <2>5, <2>6
<1>5. CASE AcceptVerdict
  <2>1. ctl.pc = "verdict" /\ ctl'.pc \in {"recover", "plan_exit", "verify_exit"}
    BY <1>5 DEF AcceptVerdict, At, Goto, CtlShape
  <2> QED BY <2>1, NoGateWork DEF Evaluating
<1> QED BY <1>1, <1>2, <1>3, <1>4, <1>5 DEF Phase

LEMMA GateWorkStep == ASSUME CInv, [Next]_vars PROVE GateWork'
<1> USE DEF CInv, IInv, Shapes
<1>1. CASE Dispatch
  <2>1. ctl'.pc \in {"call", "called", "recover", "execute_entry"}
    BY <1>1 DEF Dispatch, Mark, CallWorker, AcceptResult, At, Goto, CtlShape
  <2> QED BY <2>1, NoGateWork DEF Evaluating
<1>2. CASE Resume \/ Crash \/ AcceptApproval
  <2>1. ctl'.pc \in {"recover", "down"}
    BY <1>2 DEF Resume, Crash, AcceptApproval, Idle
  <2> QED BY <2>1, NoGateWork DEF Evaluating
<1>3. CASE UNCHANGED vars
  BY <1>3 DEF vars, journal, GateWork, InPlan, InVerify, Evaluated
<1> QED BY <1>1, <1>2, <1>3, RecoveryGates, ProjectionGates, PhaseGates, NextCases

LEMMA ObservationFitsStep == ASSUME CInv, [Next]_vars PROVE ObservationFits'
<1> USE DEF CInv, IInv, Shapes
<1>1. CASE pending'.kind # "observation"
  BY <1>1 DEF ObservationFits
<1>2. CASE pending' = pending /\ pending.kind = "observation"
  <2>1. UNCHANGED <<node, gates>>
    BY <1>2, ProjectionForm, OnlyProjectionsMove DEF NoPending
  <2> QED BY <1>2, <2>1 DEF ObservationFits, InPlan, InVerify
<1>3. CASE AcceptGate
  <2>1. PICK g \in ctl.todo :
           pending' = [kind |-> "observation", n |-> ctl.n, what |-> "gate",
                       gate |-> g, passed |-> g \notin ctl.bad]
    BY <1>3 DEF AcceptGate
  <2>2. InPlan(ctl.n) \/ (InVerify(ctl.n) /\ g \in VerifyGates)
    BY <1>3 DEF AcceptGate, At, GateWork
  <2> QED BY <1>3, <2>1, <2>2 DEF AcceptGate, ObservationFits, InPlan, InVerify
<1>4. CASE AcceptVerdict
  <2>1. InVerify(ctl.n) /\ VerifyGates \subseteq gates[ctl.n].seen
    BY <1>4 DEF AcceptVerdict, At, GateWork, Evaluated, NoPending
  <2>2. pending'.n = ctl.n /\ pending'.what = "verdict" /\ UNCHANGED <<node, gates>>
    BY <1>4 DEF AcceptVerdict
  <2> QED BY <2>1, <2>2 DEF ObservationFits, InVerify
<1>5. CASE AcceptApproval
  BY <1>5 DEF AcceptApproval, ObservationFits
<1>6. \/ pending' = pending \/ pending'.kind \in {"none", "decision", "result"}
      \/ AcceptGate \/ AcceptVerdict \/ AcceptApproval
  <2>1. CASE Recovery
    <3>1. CASE Decide
      BY <3>1 DEF Decide
    <3> QED BY <2>1, <3>1 DEF Recovery, RecoverDispatch, ReconcileGates, NoDecision,
               ReturnResult, journal
  <2>2. CASE Projection
    BY <2>2, ProjectionForm DEF NoPending
  <2>3. CASE Dispatch
    BY <2>3 DEF Dispatch, Mark, CallWorker, AcceptResult, journal
  <2>4. CASE Phase \/ Resume \/ Crash \/ AcceptApproval \/ UNCHANGED vars
    BY <2>4 DEF Phase, RecordPhase, RunPlanGates, RunVerifyGates, Resume, Crash, vars, journal
  <2> QED BY <2>1, <2>2, <2>3, <2>4, NextCases
<1> QED BY <1>1, <1>2, <1>3, <1>4, <1>5, <1>6

-----------------------------------------------------------------------------
(* The evidence of verifying and completed nodes.                          *)

\* Evidence of a node is kept when the node, its result, its gates and its
\* verdict are, and no approval of it is lost.
LEMMA EvidenceOfNode ==
    ASSUME NEW n \in Nodes, node'[n] = node[n], result'[n] = result[n],
           n \in approved => n \in approved'
    PROVE  /\ Executed(n) => Executed(n)'
           /\ gates'[n] = gates[n] /\ verdict'[n] = verdict[n] =>
                (Verified(n) => Verified(n)')
BY DEF Executed, Verified

LEMMA StepDecisionEvidence == ASSUME CInv, ProjectStepDecision PROVE Evidence'
<1> DEFINE n == pending.n
           type == pending.type
           nd == node[pending.n]
           after == ApplyToNode(node[pending.n], pending.type)
<1>0. TypeOK /\ Evidence
  BY DEF CInv, IInv, Shapes
<1>1. /\ n \in Nodes /\ type \in StepDecisions /\ StepDecisionFits(type, n)
      /\ nd \in NodeRecords /\ nd = node[n] /\ node' = [node EXCEPT ![n] = after]
      /\ result' = result
  BY StepDecisionMoves
<1>2. /\ nd.st \in {"ready", "running"}
      /\ type = "VERIFY" => Executed(n)
      /\ type = "COMPLETE" => Verified(n)
  BY <1>1 DEF StepDecisionFits
<1>3. /\ after \in NodeRecords /\ after.st # "absent"
      /\ after.attempt = IF type = "DISPATCH" THEN DispatchAttempt(nd) ELSE nd.attempt
      /\ after.st = "running" /\ after.step = "verifying" => type = "VERIFY"
      /\ after.st = "succeeded" => type = "COMPLETE"
  BY <1>1, ApplyToNodeFields DEF StepDecisions
<1>4. /\ approved' = IF after.attempt # nd.attempt THEN approved \ {n} ELSE approved
      /\ gates' = IF type \in {"ENTER", "VERIFY"}
                  THEN [gates EXCEPT ![n] = [NoGates EXCEPT !.attempt = after.attempt]]
                  ELSE gates
      /\ verdict' = IF type \in {"ENTER", "VERIFY"} THEN [verdict EXCEPT ![n] = "none"]
                    ELSE verdict
  BY DEF ProjectStepDecision
<1> HIDE DEF n, type, nd, after
<1>5. \A m \in Nodes : node'[m] = IF m = n THEN after ELSE node[m]
  BY <1>0, <1>1 DEF TypeOK
<1>6. ASSUME NEW m \in Nodes, m # n
      PROVE  /\ node'[m] = node[m] /\ result'[m] = result[m] /\ gates'[m] = gates[m]
             /\ verdict'[m] = verdict[m] /\ (m \in approved => m \in approved')
  BY <1>0, <1>1, <1>4, <1>5, <1>6 DEF TypeOK
<1>7. ASSUME NEW m \in Nodes, InVerify(m)'
      PROVE  /\ Executed(m)' /\ gates'[m].attempt = node'[m].attempt
             /\ gates'[m].seen \subseteq VerifyGates
  <2>1. CASE m # n
    <3>1. InVerify(m)
      BY <1>6, <1>7, <2>1 DEF InVerify
    <3>2. /\ Executed(m) /\ gates[m].attempt = node[m].attempt
          /\ gates[m].seen \subseteq VerifyGates
      BY <1>0, <3>1 DEF Evidence
    <3> QED BY <1>6, <2>1, <3>2, EvidenceOfNode
  <2>2. CASE m = n
    <3>1. node'[n] = after /\ type = "VERIFY" /\ after.attempt = nd.attempt
      BY <1>1, <1>3, <1>5, <1>7, <2>2 DEF InVerify
    <3>2. gates'[n] = [NoGates EXCEPT !.attempt = after.attempt] /\ approved' = approved
      BY <1>0, <1>1, <1>4, <3>1 DEF TypeOK
    <3>3. gates'[n].attempt = after.attempt /\ gates'[n].seen = {}
      BY <3>2 DEF NoGates
    <3>4. /\ Executed(m) /\ result'[m] = result[m] /\ (m \in approved => m \in approved')
          /\ node'[m].attempt = node[m].attempt
      BY <1>1, <1>2, <2>2, <3>1, <3>2
    <3>5. Executed(m)'
      BY <3>4 DEF Executed
    <3> QED BY <2>2, <3>1, <3>3, <3>5
  <2> QED BY <2>1, <2>2
<1>8. ASSUME NEW m \in Nodes, node'[m].st = "succeeded" PROVE Verified(m)'
  <2>1. CASE m # n
    <3>1. Verified(m)
      BY <1>0, <1>6, <1>8, <2>1 DEF Evidence
    <3> QED BY <1>6, <2>1, <3>1, EvidenceOfNode
  <2>2. CASE m = n
    <3>1. node'[n] = after /\ type = "COMPLETE" /\ after.attempt = nd.attempt
      BY <1>1, <1>3, <1>5, <1>8, <2>2
    <3>2. Verified(n) /\ UNCHANGED <<gates, verdict, approved, result>>
      BY <1>1, <1>2, <1>4, <3>1
    <3> QED BY <1>1, <2>2, <3>1, <3>2 DEF Verified
  <2> QED BY <2>1, <2>2
<1>9. ASSUME NEW m \in Nodes, node'[m].st # "absent", NEW p \in Preds[m]
      PROVE  node'[p].st = "succeeded"
  <2>1. p \in Nodes
    BY GraphAssumption
  <2>2. node[m].st # "absent"
    BY <1>1, <1>2, <1>5, <1>9
  <2>3. node[p].st = "succeeded"
    BY <1>0, <2>2 DEF Evidence
  <2>4. p # n
    BY <1>1, <1>2, <2>3
  <2> QED BY <1>5, <2>1, <2>3, <2>4
<1>10. VerdictAfterGates'
  <2> SUFFICES ASSUME NEW m \in Nodes, verdict'[m] # "none"
               PROVE  VerifyGates \subseteq gates'[m].seen
    BY DEF VerdictAfterGates
  <2>1. verdict[m] # "none" /\ gates'[m] = gates[m]
    BY <1>0, <1>1, <1>4, <1>6 DEF TypeOK
  <2> QED BY <1>0, <2>1 DEF Evidence, VerdictAfterGates
<1> QED BY <1>7, <1>8, <1>9, <1>10 DEF Evidence

LEMMA ObservationEvidence == ASSUME CInv, ProjectObservation PROVE Evidence'
<1> DEFINE n == pending.n
<1>0. /\ TypeOK /\ Evidence /\ n \in Nodes /\ pending.kind = "observation"
      /\ pending.what \in {"gate", "verdict", "approval"}
      /\ pending.what = "gate" => InPlan(n) \/ (InVerify(n) /\ pending.gate \in VerifyGates)
      /\ pending.what = "verdict" => InVerify(n) /\ VerifyGates \subseteq gates[n].seen
  BY DEF CInv, IInv, Shapes, ObservationFits, ProjectObservation, Projecting, PendingShape
<1>1. UNCHANGED <<node, result>>
  BY DEF ProjectObservation
<1>2. \A m \in Nodes : m \in approved => m \in approved'
  BY DEF ProjectObservation
<1>3. ASSUME NEW m \in Nodes
      PROVE  /\ gates'[m].attempt = gates[m].attempt /\ gates[m].seen \subseteq gates'[m].seen
             /\ InVerify(m) /\ gates[m].seen \subseteq VerifyGates =>
                   gates'[m].seen \subseteq VerifyGates
             /\ ~InPlan(m) /\ ~InVerify(m) =>
                   gates'[m] = gates[m] /\ verdict'[m] = verdict[m]
             /\ verdict'[m] # "none" =>
                   verdict[m] # "none" \/ VerifyGates \subseteq gates[m].seen
  <2>1. CASE pending.what = "gate"
    <3>1. verdict' = verdict
      BY <2>1 DEF ProjectObservation
    <3>2. gates' = [gates EXCEPT ![n].seen = @ \cup {pending.gate},
                                 ![n].failed = IF pending.passed THEN @
                                               ELSE @ \cup {pending.gate}]
      BY <2>1 DEF ProjectObservation
    <3>3. /\ gates'[n].seen = gates[n].seen \cup {pending.gate}
          /\ gates'[n].attempt = gates[n].attempt
          /\ \A k \in Nodes : k # n => gates'[k] = gates[k]
      BY <1>0, <3>2 DEF TypeOK
    <3> HIDE DEF n
    <3>4. CASE m = n
      BY <1>0, <2>1, <3>1, <3>3, <3>4 DEF InPlan, InVerify
    <3>5. CASE m # n
      BY <3>1, <3>3, <3>5
    <3> QED BY <3>4, <3>5
  <2>2. CASE pending.what # "gate"
    <3>1. /\ gates' = gates
          /\ verdict' = IF pending.what = "verdict"
                        THEN [verdict EXCEPT ![n] = IF pending.passed THEN "passed"
                                                    ELSE "failed"]
                        ELSE verdict
      BY <2>2 DEF ProjectObservation
    <3> HIDE DEF n
    <3>2. \A k \in Nodes : k # n \/ pending.what # "verdict" => verdict'[k] = verdict[k]
      BY <1>0, <3>1 DEF TypeOK
    <3> QED BY <1>0, <3>1, <3>2
  <2> QED BY <2>1, <2>2
<1>4. ASSUME NEW m \in Nodes, InVerify(m)'
      PROVE  /\ Executed(m)' /\ gates'[m].attempt = node'[m].attempt
             /\ gates'[m].seen \subseteq VerifyGates
  <2>1. InVerify(m)
    BY <1>1, <1>4 DEF InVerify
  <2>2. /\ Executed(m) /\ gates[m].attempt = node[m].attempt
        /\ gates[m].seen \subseteq VerifyGates
    BY <1>0, <2>1 DEF Evidence
  <2> QED BY <1>1, <1>2, <1>3, <2>1, <2>2, EvidenceOfNode
<1>5. ASSUME NEW m \in Nodes, node'[m].st = "succeeded" PROVE Verified(m)'
  <2>1. Verified(m) /\ ~InPlan(m) /\ ~InVerify(m)
    BY <1>0, <1>1, <1>5 DEF Evidence, InPlan, InVerify
  <2> QED BY <1>1, <1>2, <1>3, <2>1, EvidenceOfNode
<1>6. VerdictAfterGates'
  <2> SUFFICES ASSUME NEW m \in Nodes, verdict'[m] # "none"
               PROVE  VerifyGates \subseteq gates'[m].seen
    BY DEF VerdictAfterGates
  <2>1. VerifyGates \subseteq gates[m].seen
    BY <1>0, <1>3 DEF Evidence, VerdictAfterGates
  <2> QED BY <1>3, <2>1
<1>7. \A m \in Nodes : node'[m].st # "absent" => \A p \in Preds[m] : node'[p].st = "succeeded"
  BY <1>0, <1>1 DEF Evidence
<1> QED BY <1>4, <1>5, <1>6, <1>7 DEF Evidence

\* A halt, or a Worker result, leaves verifying and completed nodes alone.
LEMMA StopEvidence == ASSUME CInv, ProjectHalt \/ ProjectResult PROVE Evidence'
<1>0. /\ TypeOK /\ Evidence
  BY DEF CInv, IInv, Shapes
<1>1. /\ UNCHANGED <<gates, verdict, approved>>
      /\ \A n \in Nodes :
            \/ node'[n] = node[n]
            \/ /\ node[n].st \in {"ready", "running", "waiting"}
               /\ node'[n].st \in {"cancel_requested", "halted"}
  <2>1. UNCHANGED <<gates, verdict, approved>>
    BY DEF ProjectHalt, ProjectResult
  <2> QED BY <2>1, StopMoves
<1>2. ASSUME NEW n \in Nodes, InVerify(n) \/ node[n].st = "succeeded"
      PROVE  result'[n] = result[n]
  <2>1. CASE ProjectHalt
    BY <2>1 DEF ProjectHalt
  <2>2. CASE ProjectResult
    <3>1. pending.kind = "result" /\ pending.n \in Nodes
      BY <2>2 DEF ProjectResult, Projecting, CInv, IInv, Shapes, PendingShape
    <3>2. ActivityOf(pending.n) \in active /\ ~RunEnded
      BY <2>2, <3>1, StopMoves DEF CInv, IInv, Calls, ResultProjectable
    <3>3. node[pending.n].st = "running" /\ node[pending.n].step = "running"
      BY <3>2 DEF CInv, Ownership, ActivityOf
    <3>4. n # pending.n
      BY <1>2, <3>3 DEF InVerify
    <3>5. result' = [result EXCEPT ![pending.n] = [attempt |-> node[pending.n].attempt,
                                                   report |-> pending.report]]
      BY <2>2 DEF ProjectResult
    <3> QED BY <1>0, <3>1, <3>4, <3>5 DEF TypeOK
  <2> QED BY <2>1, <2>2
<1>3. ASSUME NEW m \in Nodes, InVerify(m)'
      PROVE  /\ Executed(m)' /\ gates'[m].attempt = node'[m].attempt
             /\ gates'[m].seen \subseteq VerifyGates
  <2>1. InVerify(m) /\ node'[m] = node[m]
    BY <1>1, <1>3 DEF InVerify
  <2>2. /\ Executed(m) /\ gates[m].attempt = node[m].attempt
        /\ gates[m].seen \subseteq VerifyGates
    BY <1>0, <2>1 DEF Evidence
  <2> QED BY <1>1, <1>2, <2>1, <2>2, EvidenceOfNode
<1>4. ASSUME NEW m \in Nodes, node'[m].st = "succeeded" PROVE Verified(m)'
  <2>1. node'[m] = node[m] /\ Verified(m)
    BY <1>0, <1>1, <1>4 DEF Evidence
  <2> QED BY <1>1, <1>2, <1>4, <2>1, EvidenceOfNode
<1>5. ASSUME NEW m \in Nodes, node'[m].st # "absent", NEW p \in Preds[m]
      PROVE  node'[p].st = "succeeded"
  <2>1. p \in Nodes /\ node[m].st # "absent"
    BY <1>1, <1>5, GraphAssumption
  <2> QED BY <1>0, <1>1, <2>1 DEF Evidence
<1>6. VerdictAfterGates'
  BY <1>0, <1>1 DEF Evidence, VerdictAfterGates
<1> QED BY <1>3, <1>4, <1>5, <1>6 DEF Evidence

LEMMA EvidenceStep == ASSUME CInv, [Next]_vars PROVE Evidence'
<1>0. TypeOK /\ Evidence
  BY DEF CInv, IInv, Shapes
<1>1. CASE ProjectActivation
  <2> DEFINE new == [Absent EXCEPT !.st = "ready"]
  <2>1. /\ pending.n \in Nodes /\ node[pending.n].st = "absent"
        /\ RunDecisionFits("ACTIVATE", pending.n, pending.why)
        /\ node' = [node EXCEPT ![pending.n] = new]
        /\ UNCHANGED <<result, gates, verdict, approved>>
    BY <1>1, ActivationMoves
  <2>2. new.st = "ready"
    BY DEF Absent
  <2> HIDE DEF new
  <2>3. \A m \in Nodes : node'[m] = IF m = pending.n THEN new ELSE node[m]
    BY <1>0, <2>1 DEF TypeOK
  <2>4. ASSUME NEW m \in Nodes, InVerify(m)'
        PROVE  /\ Executed(m)' /\ gates'[m].attempt = node'[m].attempt
               /\ gates'[m].seen \subseteq VerifyGates
    <3>1. InVerify(m) /\ node'[m] = node[m]
      BY <2>2, <2>3, <2>4 DEF InVerify
    <3> QED BY <1>0, <2>1, <3>1, EvidenceOfNode DEF Evidence
  <2>5. ASSUME NEW m \in Nodes, node'[m].st = "succeeded" PROVE Verified(m)'
    <3>1. node'[m] = node[m] /\ Verified(m)
      BY <1>0, <2>2, <2>3, <2>5 DEF Evidence
    <3> QED BY <2>1, <3>1, EvidenceOfNode
  <2>6. ASSUME NEW m \in Nodes, node'[m].st # "absent", NEW p \in Preds[m]
        PROVE  node'[p].st = "succeeded"
    <3>1. p \in Nodes
      BY GraphAssumption
    <3>2. node[p].st = "succeeded"
      BY <1>0, <2>1, <2>3, <2>6 DEF Evidence, RunDecisionFits
    <3> QED BY <2>1, <2>3, <3>1, <3>2
  <2>7. VerdictAfterGates'
    BY <1>0, <2>1 DEF Evidence, VerdictAfterGates
  <2> QED BY <2>4, <2>5, <2>6, <2>7 DEF Evidence
<1>2. CASE UNCHANGED <<node, result, gates, verdict, approved>>
  BY <1>0, <1>2 DEF Evidence, InVerify, Executed, Verified, VerdictAfterGates
<1>3. CASE ProjectRunDecision
  BY <1>2, <1>3 DEF ProjectRunDecision
<1> QED BY <1>1, <1>2, <1>3, StepDecisionEvidence, ObservationEvidence, StopEvidence,
           OnlyProjectionsMove DEF Projection

LEMMA QuietStep == ASSUME CInv, [Next]_vars PROVE CompletedRunIsQuiet'
<1>1. CASE ProjectRunDecision /\ pending.type = "COMPLETE_RUN"
  <2>1. /\ run' = [life |-> "completed", outcome |-> pending.why]
        /\ UNCHANGED <<node, active>>
    BY <1>1 DEF ProjectRunDecision
  <2>2. /\ active = {} /\ LiveNodes = {}
        /\ (pending.why = "succeeded") <=> TerminalsSucceeded
    BY <1>1 DEF ProjectRunDecision, Projecting, CInv, DecisionFits, RunDecisionFits
  <2>3. LiveNodes' = {} /\ (TerminalsSucceeded' <=> TerminalsSucceeded)
    BY <2>1, <2>2 DEF LiveNodes, Instances, NodeEnded, TerminalsSucceeded
  <2> QED BY <2>1, <2>2, <2>3 DEF CompletedRunIsQuiet, TerminalsSucceeded
<1>2. CASE Projection /\ ~(ProjectRunDecision /\ pending.type = "COMPLETE_RUN")
  <2>1. run.life # "completed"
    BY <1>2, ProjectionForm DEF CInv, IInv, Quiescence, RunEnded, NoPending
  <2>2. run'.life # "completed"
    <3>1. CASE ProjectStepDecision
      BY <3>1, StepDecisionMoves DEF RunEnded
    <3>2. CASE ProjectRunDecision
      BY <1>2, <3>2 DEF ProjectRunDecision, CInv, IInv, Shapes, TypeOK
    <3>3. CASE ProjectActivation \/ ProjectObservation
      BY <2>1, <3>3 DEF ProjectActivation, ProjectObservation
    <3>4. CASE ProjectHalt
      <4>1. run' = [life |-> "halted", outcome |-> "none"]
        BY <3>4 DEF ProjectHalt
      <4> QED BY <4>1
    <3>5. CASE ProjectResult
      <4>1. run' = [life |-> "halted", outcome |-> "indeterminate"] \/ run' = run
        BY <3>5 DEF ProjectResult
      <4> QED BY <2>1, <4>1
    <3> QED BY <1>2, <3>1, <3>2, <3>3, <3>4, <3>5 DEF Projection
  <2> QED BY <2>2 DEF CompletedRunIsQuiet
<1>3. CASE UNCHANGED <<run, node, active>>
  BY <1>3 DEF CInv, CompletedRunIsQuiet, LiveNodes, Instances, NodeEnded
<1> QED BY <1>1, <1>2, <1>3, OnlyProjectionsMove

-----------------------------------------------------------------------------
(* The theorems.                                                           *)

LEMMA InitCompletion == Init => CInv
<1> SUFFICES ASSUME Init PROVE CInv
  OBVIOUS
<1>1. IInv
  BY InitInv
<1>2. Instances = {} /\ LiveNodes = {}
  BY DEF Init, Instances, LiveNodes, Absent
<1>3. Ownership
  <2>1. active = {} /\ marked = {} /\ used.worker_calls = 0
    BY DEF Init, NoUse
  <2>2. Cardinality(active) = 0 /\ Cardinality(active \cup marked) = 0
    <3>1. active \cup marked = {}
      BY <2>1
    <3> QED BY <2>1, <3>1, FS_EmptySet, Zenon
  <2>3. \A n \in Nodes : result[n].attempt = 0 /\ node[n].attempt = 0
    BY DEF Init, NoResult, Absent
  <2> QED BY <2>1, <2>2, <2>3, FS_EmptySet, ConstantTypes DEF Ownership
<1>4. Counters
  <2>1. MaxRetriesPerStep * MaxNodeActivations \in Nat
    BY ConstantTypes
  <2>2. \A k \in DOMAIN NoUse : used[k] = 0 /\ Limit[k] \in Nat
    BY <2>1, ConstantTypes DEF Init, NoUse, Limit
  <2>3. Cardinality(Instances) = 0 /\ Cardinality(LiveNodes) = 0
    BY <1>2, FS_EmptySet, Zenon
  <2> QED BY <2>2, <2>3, NodeSetsFinite, ConstantTypes DEF Counters, NoUse
<1>5. AttemptsLeft
  BY ConstantTypes DEF Init, AttemptsLeft, Absent
<1>6. DecisionFits /\ ObservationFits
  BY DEF Init, DecisionFits, ObservationFits, NoPending
<1>7. GateWork
  BY DEF Init, GateWork, Idle
<1>8. Evidence
  BY DEF Init, Evidence, InVerify, Absent, VerdictAfterGates
<1>9. CompletedRunIsQuiet
  BY DEF Init, CompletedRunIsQuiet
<1> QED BY <1>1, <1>3, <1>4, <1>5, <1>6, <1>7, <1>8, <1>9 DEF CInv

LEMMA CompletionInvariance == Spec => []CInv
<1>1. CInv /\ [Next]_vars => CInv'
  <2> SUFFICES ASSUME CInv, [Next]_vars PROVE CInv'
    OBVIOUS
  <2>1. IInv'
    BY TypesStep, PendingStep, CtlStep, OpenStep, AttemptsStep, CallsStep, QuiescenceStep
       DEF CInv, IInv, Shapes
  <2> QED BY <2>1, OwnershipStep, CountersStep, AttemptsLeftStep, DecisionFitsStep,
             GateWorkStep, ObservationFitsStep, EvidenceStep, QuietStep DEF CInv
<1> QED BY InitCompletion, <1>1, PTL DEF Spec

\* Whatever decision is committed, the reducer accepts it from the state it is
\* applied to, however many crashes and recoveries lie between the two writes:
\* budget, slot, source phase and the absence of a concurrent activity hold.
\* In particular the run's retry counter cannot run out before a node's
\* retries do: each debit is an attempt of one of at most
\* MaxNodeActivations nodes.
THEOREM DecisionsProject == Spec => []DecisionProjectable
<1>1. CInv => DecisionProjectable
  <2> SUFFICES ASSUME CInv, pending.kind = "decision" PROVE DecisionProjectable
    BY DEF DecisionProjectable
  <2>1. /\ Affordable(pending.type)
        /\ pending.type \in StepDecisions => StepDecisionFits(pending.type, pending.n)
        /\ RunDecisionFits(pending.type, pending.n, pending.why)
    BY DEF CInv, DecisionFits
  <2>2. ASSUME pending.type \in StepDecisions
        PROVE  <<node[pending.n].st, node[pending.n].step>> \in DecisionSources[pending.type]
    BY <2>1, <2>2 DEF StepDecisionFits
  <2>3. ASSUME pending.type = "DISPATCH"
        PROVE  /\ Cardinality(active) < MaxParallelism
               /\ \A act \in active : act[1] # pending.n
    <3>1. "DISPATCH" \in StepDecisions
      BY DEF StepDecisions
    <3>2. StepDecisionFits(pending.type, pending.n)
      BY <2>1, <2>3, <3>1
    <3> QED BY <2>3, <3>2 DEF StepDecisionFits
  <2>4. ASSUME pending.type = "COMPLETE_RUN" PROVE active = {}
    BY <2>1, <2>4 DEF RunDecisionFits
  <2> QED BY <2>1, <2>2, <2>3, <2>4 DEF DecisionProjectable
<1> QED BY CompletionInvariance, <1>1, PTL

\* Activities in flight are the attempts their nodes are executing, within the
\* physical slots and the Worker-call budget, crash or not; nodes in flight
\* stay within the policy; and no node gets more attempts than its retry
\* policy and its replans allow.
THEOREM ActivitiesBounded == Spec => []ActivitiesAreBounded
<1>1. CInv => ActivitiesAreBounded
  <2> SUFFICES ASSUME CInv PROVE ActivitiesAreBounded
    OBVIOUS
  <2>1. ASSUME NEW act \in active
        PROVE  /\ act[2] = node[act[1]].attempt
               /\ \/ node[act[1]].st = "running" /\ node[act[1]].step = "running"
                  \/ run.life = "halted"
    BY <2>1 DEF CInv, Ownership, CompletedRunIsQuiet, RunEnded
  <2>2. Cardinality(active) <= MaxParallelism /\ Cardinality(LiveNodes) <= MaxActiveNodes
    BY DEF CInv, Ownership, Counters
  <2>3. calls <= MaxWorkerCalls
    <3>1. /\ called \subseteq active \cup marked /\ calls = Cardinality(called)
          /\ IsFiniteSet(active \cup marked)
          /\ Cardinality(active \cup marked) <= used.worker_calls
      BY FS_Union DEF CInv, IInv, Calls, Ownership
    <3>2. Cardinality(called) <= Cardinality(active \cup marked)
      BY <3>1, FS_Subset
    <3>3. used.worker_calls \in Nat /\ used.worker_calls <= MaxWorkerCalls
      BY DEF CInv, IInv, Shapes, TypeOK, NoUse, Counters, Limit
    <3>4. Cardinality(called) \in Nat /\ Cardinality(active \cup marked) \in Nat
      BY <3>1, FS_Subset, FS_CardinalityType
    <3> QED BY <3>1, <3>2, <3>3, <3>4, ConstantTypes
  <2>4. \A n \in Nodes : node[n].attempt <= AttemptCap + node[n].replans
    BY DEF CInv, AttemptsLeft
  <2> QED BY <2>1, <2>2, <2>3, <2>4 DEF ActivitiesAreBounded, AttemptCap
<1> QED BY CompletionInvariance, <1>1, PTL

\* A node is complete only on a successful, approved execution of its last
\* attempt with every verify gate passed for that attempt, its predecessors
\* complete in the same sense; no verdict precedes the gates it sums up; and
\* a completed run has nothing left in flight and reports what its terminal
\* nodes did.
THEOREM CompletionSound == Spec => []CompletionIsSound
<1>1. CInv => CompletionIsSound
  <2> SUFFICES ASSUME CInv PROVE CompletionIsSound
    OBVIOUS
  <2>1. CompletedIsVerified
    BY DEF CInv, Evidence, CompletedIsVerified, Instances
  <2>2. VerdictAfterGates /\ CompletedRunIsQuiet
    BY DEF CInv, Evidence
  <2> QED BY <2>1, <2>2 DEF CompletionIsSound
<1> QED BY CompletionInvariance, <1>1, PTL

-----------------------------------------------------------------------------
(* The uninterrupted drive: without a crash nothing is found half done.    *)

\* Every nonempty set of nodes has one without predecessors in the set: the
\* graph has no cycle, which its validation sees to before it is compiled.
Acyclic ==
    \A some \in SUBSET Nodes : some # {} => \E n \in some : Preds[n] \cap some = {}

Uncertain == run.outcome = "indeterminate"

\* The controller is between the dispatch of ctl.n and the projection of its
\* result.
InFlight == ctl.pc \in {"mark", "call", "called"} \/ pending.kind = "result"

\* The phase record the controller is on its way to, if it is on one.
NextRecord ==
    CASE ctl.pc = "plan_gates"   -> "plan_exit"
      [] ctl.pc = "verify_gates" -> "verify_exit"
      [] ctl.pc \in {"mark", "call", "called", "gates", "verdict"} -> ctl.back
      [] OTHER -> ctl.pc

Recording == NextRecord \in PhasePoints

RecordDue ==
    /\ node[ctl.n].st = "running"
    /\ PhaseAccepted(ctl.n, PhaseRecord(NextRecord, node[ctl.n].attempt))

\* The phase log of a node the controller is not in a phase of: it ends with
\* the exit of the phase the node's step comes from.
Logged(n) ==
    LET Exit(pc) == PhaseRecord(pc, node[n].attempt)
    IN  /\ node[n].st = "absent" \/ node[n].step = "pending" =>
              phases[n] = NoPhase /\ node[n].attempt = 0
        /\ node[n].step = "planning" => phases[n] = Exit("plan_exit")
        /\ node[n].step \in {"running", "retrying"} => phases[n] = Exit("execute_exit")
        /\ node[n].step = "verifying" => phases[n] = Exit("verify_exit")
        /\ node[n].st = "succeeded" => phases[n] = Exit("verify_exit")
        /\ node[n].step = "replanning" =>
              phases[n] = Exit("plan_exit") \/ phases[n] = Exit("verify_exit")

\* The controller projects its own records, and dispatches within its drive.
OwnRecords ==
    /\ pending.kind = "decision" => ctl.pc = "decided"
    /\ pending.kind = "result" => ctl.pc = "execute_entry" /\ pending.n = ctl.n
    /\ ctl.pc \in {"mark", "call", "called"} => ctl.back = "execute_entry"

StopsOnlyStuck ==
    /\ Uncertain => RunEnded /\ ctl.pc \in {"execute_entry", "down"}
    /\ ctl.pc = "down" => Uncertain \/ run.life = "waiting"

\* Nothing is in flight, and no result outstanding, but what the controller
\* has in hand.
InHand ==
    /\ Uncertain \/ active \subseteq (IF InFlight THEN {ActivityOf(ctl.n)} ELSE {})
    /\ \A n \in Nodes :
          /\ result[n].attempt # node[n].attempt => InFlight /\ n = ctl.n
          /\ node[n].st # "cancel_requested"

\* The record the controller is on its way to is due, unless an uncertain
\* outcome ended the node; every other node's log is up to date.
Transcribed ==
    /\ Recording => IF Uncertain THEN NodeEnded(ctl.n) ELSE RecordDue
    /\ \A n \in Nodes : ~(Recording /\ n = ctl.n) \/ NodeEnded(n) => Logged(n)

Smooth == OwnRecords /\ StopsOnlyStuck /\ InHand /\ Transcribed

\* The grammar of the phase log, record by record.
LEMMA PhaseGrammar ==
    ASSUME NEW k \in Nat
    PROVE  /\ PhaseRecord("plan_entry", 0) \in PhaseSuccessors(NoPhase)
           /\ PhaseRecord("plan_entry", k) \in PhaseSuccessors(PhaseRecord("plan_exit", k))
           /\ PhaseRecord("plan_entry", k) \in PhaseSuccessors(PhaseRecord("verify_exit", k))
           /\ PhaseRecord("plan_exit", k) \in PhaseSuccessors(PhaseRecord("plan_entry", k))
           /\ PhaseRecord("execute_entry", k + 1) \in PhaseSuccessors(PhaseRecord("plan_exit", k))
           /\ PhaseRecord("execute_entry", k + 1) \in PhaseSuccessors(PhaseRecord("execute_exit", k))
           /\ PhaseRecord("execute_exit", k) \in PhaseSuccessors(PhaseRecord("execute_entry", k))
           /\ PhaseRecord("verify_entry", k) \in PhaseSuccessors(PhaseRecord("execute_exit", k))
           /\ PhaseRecord("verify_exit", k) \in PhaseSuccessors(PhaseRecord("verify_entry", k))
<1> DEFINE Entry(phase, a) == [phase |-> phase, bound |-> "entry", attempt |-> a]
           Exit(phase, a)  == [phase |-> phase, bound |-> "exit", attempt |-> a]
<1>1. \A a \in Nat :
        /\ PhaseRecord("plan_entry", a) = Entry("plan", a)
        /\ PhaseRecord("plan_exit", a) = Exit("plan", a)
        /\ PhaseRecord("execute_entry", a) = Entry("execute", a)
        /\ PhaseRecord("execute_exit", a) = Exit("execute", a)
        /\ PhaseRecord("verify_entry", a) = Entry("verify", a)
        /\ PhaseRecord("verify_exit", a) = Exit("verify", a)
  BY DEF PhaseRecord
<1>2. Entry("plan", 0) \in PhaseSuccessors(NoPhase)
  BY ConstantTypes DEF PhaseSuccessors, NoPhase
<1>3. \A phase : Exit(phase, k) \in PhaseSuccessors(Entry(phase, k))
  BY DEF PhaseSuccessors
<1>4. /\ Entry("execute", k + 1) \in PhaseSuccessors(Exit("plan", k))
      /\ Entry("plan", k) \in PhaseSuccessors(Exit("plan", k))
      /\ Entry("execute", k + 1) \in PhaseSuccessors(Exit("execute", k))
      /\ Entry("verify", k) \in PhaseSuccessors(Exit("execute", k))
      /\ Entry("plan", k) \in PhaseSuccessors(Exit("verify", k))
  BY DEF PhaseSuccessors
<1>5. k + 1 \in Nat /\ 0 \in Nat
  OBVIOUS
<1> HIDE DEF Entry, Exit
<1> QED BY <1>1, <1>2, <1>3, <1>4, <1>5

\* The step each record is written against.
LEMMA PhaseSteps ==
    ASSUME NEW k
    PROVE  /\ \A pc \in {"plan_entry", "plan_exit"} :
                 PhaseStep[PhaseRecord(pc, k).phase] = "planning"
           /\ \A pc \in {"execute_entry", "execute_exit"} :
                 PhaseStep[PhaseRecord(pc, k).phase] = "running"
           /\ \A pc \in {"verify_entry", "verify_exit"} :
                 PhaseStep[PhaseRecord(pc, k).phase] = "verifying"
BY DEF PhaseStep, PhaseRecord

\* Where nothing is in flight, every step that may continue is an option.
LEMMA StepsAreSchedulable ==
    ASSUME active = {}, NEW n \in Nodes, node[n].st \in {"ready", "running"}
    PROVE  StepOptions # {}
<1>1. ActivityOf(n) \notin active
  OBVIOUS
<1>2. Cardinality(active) = 0
  BY FS_EmptySet, Zenon
<1>3. ~DispatchBlocked(n)
  BY <1>1, <1>2, ConstantTypes DEF DispatchBlocked
<1>4. n \in Schedulable
  BY <1>3 DEF Schedulable
<1> QED BY <1>4 DEF StepOptions

\* Where nothing lives, a node can be activated, or the run be completed: of
\* the nodes that did not succeed, one waits for none of the others.
LEMMA QuietGraphHasOption ==
    ASSUME TypeOK, Acyclic, LiveNodes = {}, run.life # "waiting"
    PROVE  ActivationOptions # {} \/ RunOptions # {}
<1>1. SUFFICES ASSUME ActivationOptions = {} PROVE RunOptions # {}
  OBVIOUS
<1>2. ~AllWaiting
  BY DEF AllWaiting
<1>3. CASE TerminalsSucceeded
  BY <1>1, <1>2, <1>3 DEF RunOptions
<1>4. CASE ~TerminalsSucceeded
  <2> DEFINE Undone == {n \in Nodes : node[n].st # "succeeded"}
  <2>1. Undone # {} /\ Undone \in SUBSET Nodes
    BY <1>4 DEF TerminalsSucceeded, TerminalNodes
  <2>2. PICK n \in Undone : Preds[n] \cap Undone = {}
    BY <2>1 DEF Acyclic
  <2>3. n \in Nodes /\ node[n].st # "succeeded" /\ Preds[n] \subseteq Nodes
    BY <2>2, GraphAssumption
  <2>4. \A p \in Preds[n] : node[p].st = "succeeded"
    BY <2>2, <2>3
  <2>5. Activatable = {}
    <3> SUFFICES ASSUME Activatable # {} PROVE FALSE
      OBVIOUS
    <3>1. Cardinality(LiveNodes) = 0
      BY FS_EmptySet, Zenon
    <3>2. Cardinality(LiveNodes) < MaxActiveNodes
      BY <3>1, ConstantTypes
    <3> QED BY <1>1, <3>2 DEF ActivationOptions
  <2>6. node[n].st # "absent"
    BY <2>3, <2>4, <2>5 DEF Activatable
  <2>7. node[n].st \in {"failed", "halted"}
    BY <2>3, <2>6 DEF LiveNodes, Instances, NodeEnded
  <2>8. SomeNodeFailed
    BY <2>3, <2>7 DEF SomeNodeFailed
  <2> QED BY <1>1, <1>2, <1>4, <2>8 DEF RunOptions
<1> QED BY <1>3, <1>4

LEMMA OptionIn ==
    ASSUME StepOptions # {} \/ ActivationOptions # {} \/ RunOptions # {}
    PROVE  Options # {}
<1>1. /\ StepOptions \subseteq Options
      /\ ActivationOptions \subseteq Options
      /\ RunOptions \subseteq Options
  BY Zenon DEF Options
<1> QED BY <1>1

\* A drive that finds nothing half done always has a decision to make, but
\* for a run that waits.
LEMMA DecisionExists ==
    ASSUME CInv, Smooth, Acyclic, ReadyToSchedule, run.life # "waiting"
    PROVE  Options # {} /\ \A n \in Nodes : ~StaleWorkerResult(n)
<1> USE DEF CInv, IInv, Shapes
<1>1. ~InFlight /\ ~Uncertain
  BY DEF ReadyToSchedule, At, InFlight, NoPending, Smooth, StopsOnlyStuck
<1>2. active = {}
  BY <1>1 DEF Smooth, InHand
<1>3. \A n \in Nodes : ~StaleWorkerResult(n)
  BY <1>1 DEF Smooth, InHand, StaleWorkerResult
<1>4. CASE \E n \in Nodes : node[n].st \in {"ready", "running"}
  BY <1>2, <1>3, <1>4, StepsAreSchedulable, OptionIn
<1>5. CASE ~\E n \in Nodes : node[n].st \in {"ready", "running"}
  <2>1. \A n \in LiveNodes : node[n].st = "waiting"
    <3> SUFFICES ASSUME NEW n \in LiveNodes PROVE node[n].st = "waiting"
      OBVIOUS
    <3>1. n \in Nodes /\ node[n].st \in NodeStatuses /\ node[n].st # "cancel_requested"
      BY DEF LiveNodes, Instances, TypeOK, Smooth, InHand
    <3> QED BY <1>5, <3>1 DEF LiveNodes, Instances, NodeEnded, NodeStatuses
  <2>2. CASE LiveNodes = {}
    BY <1>3, <2>2, QuietGraphHasOption, OptionIn
  <2>3. CASE LiveNodes # {}
    <3>1. AllWaiting
      BY <2>1, <2>3 DEF AllWaiting
    <3>2. ActivationOptions # {} \/ RunOptions # {}
      BY <3>1 DEF RunOptions
    <3> QED BY <1>3, <3>2, OptionIn
  <2> QED BY <2>2, <2>3
<1> QED BY <1>3, <1>4, <1>5

\* A step that moves neither nodes nor their logs keeps what the drive has in
\* hand and is about to record.
LEMMA SmoothFrame ==
    ASSUME Smooth, UNCHANGED <<run, node, active, result, phases>>, OwnRecords',
           InFlight' <=> InFlight, InFlight => ctl'.n = ctl.n,
           Recording' <=> Recording,
           Recording => NextRecord' = NextRecord /\ ctl'.n = ctl.n,
           Uncertain => ctl'.pc \in {"execute_entry", "down"},
           ctl'.pc = "down" => Uncertain \/ run.life = "waiting"
    PROVE  Smooth'
<1> USE DEF Smooth
<1>1. (Uncertain' <=> Uncertain) /\ (RunEnded' <=> RunEnded)
  BY DEF Uncertain, RunEnded
<1>2. StopsOnlyStuck'
  BY <1>1 DEF StopsOnlyStuck
<1>3. InHand'
  <2>1. \A n \in Nodes :
          /\ result'[n].attempt # node'[n].attempt => InFlight' /\ n = ctl'.n
          /\ node'[n].st # "cancel_requested"
    BY DEF InHand
  <2>2. InFlight => ActivityOf(ctl.n)' = ActivityOf(ctl.n)
    BY DEF ActivityOf
  <2>3. Uncertain \/ active' \subseteq (IF InFlight' THEN {ActivityOf(ctl.n)'} ELSE {})
    BY <2>2 DEF InHand
  <2> QED BY <1>1, <2>1, <2>3 DEF InHand
<1>4. Transcribed'
  <2>1. \A n : NodeEnded(n)' <=> NodeEnded(n)
    BY DEF NodeEnded
  <2>2. \A n \in Nodes : Logged(n) => Logged(n)'
    BY DEF Logged
  <2>3. Recording /\ RecordDue => RecordDue'
    BY <2>1 DEF RecordDue, PhaseAccepted
  <2> QED BY <1>1, <2>1, <2>2, <2>3 DEF Transcribed
<1> QED BY <1>2, <1>3, <1>4

\* Where the controller looks for work, nothing is in flight, and no record is
\* due.
LEMMA AtRecover ==
    ASSUME CInv, Smooth, At("recover")
    PROVE  ~InFlight /\ ~Recording /\ ~Uncertain /\ active = {}
<1>1. ctl.pc = "recover" /\ pending.kind # "result"
  BY DEF At, NoPending
<1>2. ~InFlight /\ ~Recording
  BY <1>1 DEF InFlight, Recording, NextRecord, PhasePoints
<1>3. ~Uncertain
  BY <1>1 DEF Smooth, StopsOnlyStuck
<1> QED BY <1>2, <1>3 DEF Smooth, InHand

LEMMA RecoverySmooth == ASSUME CInv, Smooth, Acyclic, Recovery \/ Resume PROVE Smooth'
<1> USE DEF OwnRecords, Recording, NextRecord, PhasePoints, NoPending, InFlight
<1>1. CASE RecoverDispatch
  BY <1>1, AtRecover DEF RecoverDispatch, Undispatched
<1>2. CASE ReconcileGates
  <2>1. /\ ctl'.pc \in {"verdict", "gates"} /\ ctl'.back = "recover"
        /\ pending' = NoPending /\ At("recover")
        /\ UNCHANGED <<run, node, active, result, phases>>
    BY <1>2 DEF ReconcileGates, Idle, At, journal
  <2> QED BY <2>1, AtRecover, SmoothFrame
<1>3. CASE Decide
  <2>1. /\ ctl'.pc = "decided" /\ pending'.kind = "decision" /\ At("recover")
        /\ UNCHANGED <<run, node, active, result, phases>>
    BY <1>3 DEF Decide, Idle, ReadyToSchedule
  <2> QED BY <2>1, AtRecover, SmoothFrame
<1>4. CASE NoDecision
  <2>1. /\ ctl'.pc = "down" /\ pending' = NoPending /\ At("recover")
        /\ UNCHANGED <<run, node, active, result, phases>>
    BY <1>4 DEF NoDecision, Raise, Idle, ReadyToSchedule, At, journal
  <2>2. run.life = "waiting"
    BY <1>4, DecisionExists DEF NoDecision
  <2> QED BY <2>1, <2>2, AtRecover, SmoothFrame
<1>5. CASE ReturnResult
  <2>1. /\ ctl'.pc = "done" /\ pending' = NoPending /\ At("recover")
        /\ UNCHANGED <<run, node, active, result, phases>>
    BY <1>5 DEF ReturnResult, Idle, At, journal
  <2> QED BY <2>1, AtRecover, SmoothFrame
<1>6. CASE Resume
  <2>1. /\ ctl'.pc = "recover" /\ pending' = pending /\ ctl.pc = "down" /\ ~RunEnded
        /\ UNCHANGED <<run, node, active, result, phases>>
    BY <1>6 DEF Resume, Idle, journal
  <2>2. ~Uncertain /\ pending.kind \notin {"decision", "result"}
    BY <2>1 DEF Smooth, StopsOnlyStuck
  <2> QED BY <2>1, <2>2, SmoothFrame DEF Smooth
<1> QED BY <1>1, <1>2, <1>3, <1>4, <1>5, <1>6 DEF Recovery

LEMMA DispatchSmooth == ASSUME CInv, Smooth, Dispatch \/ AcceptApproval PROVE Smooth'
<1> USE DEF OwnRecords, Recording, NextRecord, PhasePoints, NoPending, InFlight
<1>0. ctl \in [pc : DrivePoints \cup {"down", "done"}, n : Nodes \cup {"none"} ,
               todo : SUBSET AllGates, bad : SUBSET AllGates, back : Backs]
  BY DEF CInv, IInv, Shapes, CtlShape
<1>1. CASE Mark \/ CallWorker
  <2>1. /\ ctl.pc \in {"mark", "call"} /\ ctl'.pc \in {"call", "called"}
        /\ ctl'.n = ctl.n /\ ctl'.back = ctl.back
        /\ pending = NoPending /\ pending' = NoPending
        /\ UNCHANGED <<run, node, active, result, phases>>
    BY <1>0, <1>1 DEF Mark, CallWorker, Goto, At, journal
  <2>2. ctl.back = "execute_entry" /\ ~Uncertain
    BY <2>1 DEF Smooth, StopsOnlyStuck
  <2> QED BY <2>1, <2>2, SmoothFrame
<1>2. CASE AcceptResult
  <2>1. ctl.pc = "called" /\ ctl.back = "execute_entry" /\ ~Uncertain
    BY <1>2 DEF AcceptResult, At, Smooth, StopsOnlyStuck
  <2>2. /\ ctl'.pc = "execute_entry" /\ ctl'.n = ctl.n
        /\ pending'.kind = "result" /\ pending'.n = ctl.n
        /\ UNCHANGED <<run, node, active, result, phases>>
    BY <1>0, <1>2, <2>1 DEF AcceptResult, Goto
  <2> QED BY <2>1, <2>2, SmoothFrame
<1>3. CASE AcceptApproval
  <2>1. /\ ctl.pc = "down" /\ ctl' = ctl /\ pending = NoPending
        /\ pending'.kind = "observation"
        /\ UNCHANGED <<run, node, active, result, phases>>
    BY <1>3 DEF AcceptApproval
  <2> QED BY <2>1, SmoothFrame DEF Smooth, StopsOnlyStuck
<1> QED BY <1>1, <1>2, <1>3 DEF Dispatch

LEMMA GatesSmooth ==
    ASSUME CInv, Smooth, RunPlanGates \/ RunVerifyGates \/ AcceptGate \/ AcceptVerdict
    PROVE  Smooth'
<1> USE DEF OwnRecords, Recording, NextRecord, PhasePoints, NoPending, InFlight
<1>0. /\ ctl \in [pc : DrivePoints \cup {"down", "done"}, n : Nodes \cup {"none"} ,
                  todo : SUBSET AllGates, bad : SUBSET AllGates, back : Backs]
      /\ ctl.pc \in {"gates", "verdict"} => ctl.back \in {"recover", "plan_exit", "verify_exit"}
  BY DEF CInv, IInv, Shapes, CtlShape
<1>1. CASE RunPlanGates
  <2>1. PICK bad \in SUBSET PlanGates :
          ctl' = IF bad = {} THEN [ctl EXCEPT !.pc = "plan_exit"]
                 ELSE [ctl EXCEPT !.pc = "gates", !.todo = PlanGates, !.bad = bad,
                                  !.back = "plan_exit"]
    BY <1>1 DEF RunPlanGates
  <2>2. /\ ctl.pc = "plan_gates" /\ ctl'.n = ctl.n /\ pending = NoPending
        /\ pending' = pending
        /\ ctl'.pc = "plan_exit" \/ (ctl'.pc = "gates" /\ ctl'.back = "plan_exit")
        /\ UNCHANGED <<run, node, active, result, phases>>
    BY <1>0, <1>1, <2>1 DEF RunPlanGates, At, journal
  <2> QED BY <2>2, SmoothFrame DEF Smooth, StopsOnlyStuck
<1>2. CASE RunVerifyGates
  <2>2. /\ ctl.pc = "verify_gates" /\ ctl'.n = ctl.n /\ pending = NoPending
        /\ pending' = pending /\ ctl'.pc = "gates" /\ ctl'.back = "verify_exit"
        /\ UNCHANGED <<run, node, active, result, phases>>
    BY <1>0, <1>2 DEF RunVerifyGates, At, journal
  <2> QED BY <2>2, SmoothFrame DEF Smooth, StopsOnlyStuck
<1>3. CASE AcceptGate \/ AcceptVerdict
  <2>1. /\ ctl.pc \in {"gates", "verdict"} /\ ctl'.n = ctl.n /\ ctl'.back = ctl.back
        /\ ctl'.pc \in {"gates", "verdict", ctl.back}
        /\ pending = NoPending /\ pending'.kind = "observation"
        /\ UNCHANGED <<run, node, active, result, phases>>
    <3>1. CASE AcceptGate
      <4>1. /\ ctl'.n = ctl.n /\ ctl'.back = ctl.back
            /\ ctl'.pc \in {"gates", "verdict", ctl.back}
        <5>1. PICK g \in ctl.todo :
                ctl' = [ctl EXCEPT !.pc = IF ctl.todo \ {g} # {} THEN "gates"
                                          ELSE IF ctl.back = "plan_exit" \/ ~DeclaredQualityGate
                                          THEN ctl.back ELSE "verdict",
                                   !.todo = ctl.todo \ {g}, !.bad = ctl.bad \ {g}]
          BY <3>1 DEF AcceptGate
        <5> QED BY <1>0, <5>1
      <4>2. pending'.kind = "observation"
        <5>1. PICK g \in ctl.todo :
                pending' = [kind |-> "observation", n |-> ctl.n, what |-> "gate",
                            gate |-> g, passed |-> g \notin ctl.bad]
          BY <3>1 DEF AcceptGate
        <5> QED BY <5>1
      <4>3. /\ ctl.pc = "gates" /\ pending = NoPending
            /\ UNCHANGED <<run, node, active, result, phases>>
        BY <3>1 DEF AcceptGate, At
      <4> QED BY <4>1, <4>2, <4>3
    <3>2. CASE AcceptVerdict
      BY <1>0, <3>2 DEF AcceptVerdict, Goto, At
    <3> QED BY <1>3, <3>1, <3>2
  <2> QED BY <1>0, <2>1, SmoothFrame DEF Smooth, StopsOnlyStuck
<1> QED BY <1>1, <1>2, <1>3

LEMMA RecordSmooth == ASSUME CInv, Smooth, RecordPhase PROVE Smooth'
<1> USE DEF CInv, IInv, Shapes, Smooth
<1>1. /\ ctl.pc \in PhasePoints /\ pending = NoPending /\ pending' = NoPending
      /\ UNCHANGED <<run, node, active, result>>
  BY DEF RecordPhase
<1>2. /\ ctl.n \in Nodes /\ ~InFlight /\ Recording /\ NextRecord = ctl.pc
  BY <1>1 DEF CtlShape, InFlight, Recording, NextRecord, PhasePoints, NoPending
<1>3. PICK n \in Nodes, p \in PhasePoints, k \in Nat :
        n = ctl.n /\ p = ctl.pc /\ k = node[n].attempt
  BY <1>1, <1>2 DEF TypeOK
<1>4. \A m \in Nodes : NodeEnded(m)' <=> NodeEnded(m)
  BY <1>1 DEF NodeEnded
<1>5. Uncertain' <=> Uncertain
  BY <1>1 DEF Uncertain
<1>6. RunEnded' <=> RunEnded
  BY <1>1 DEF RunEnded
<1>7. ASSUME NEW m \in Nodes, phases'[m] = phases[m], Logged(m) PROVE Logged(m)'
  BY <1>1, <1>7 DEF Logged
<1>8. ASSUME ctl'.pc \notin {"mark", "call", "called"} PROVE InHand'
  <2>1. ~InFlight'
    BY <1>1, <1>8 DEF InFlight, NoPending
  <2> QED BY <1>1, <1>2, <1>5, <2>1 DEF InHand
<1>9. CASE ~PhaseAccepted(n, PhaseRecord(p, k))
  <2>1. ctl' = Idle("down") /\ phases' = phases
    BY <1>3, <1>9 DEF RecordPhase, Raise
  <2>2. Uncertain /\ NodeEnded(n)
    BY <1>2, <1>3, <1>9 DEF Transcribed, RecordDue
  <2>3. ctl'.pc = "down"
    BY <2>1 DEF Idle
  <2>4. OwnRecords' /\ StopsOnlyStuck'
    BY <1>1, <1>5, <1>6, <2>2, <2>3 DEF OwnRecords, StopsOnlyStuck, NoPending
  <2>5. ~Recording'
    BY <2>3 DEF Recording, NextRecord, PhasePoints
  <2>6. \A m \in Nodes : Logged(m)
    BY <1>2, <1>3, <2>2 DEF Transcribed
  <2>7. Transcribed'
    BY <1>7, <2>1, <2>5, <2>6 DEF Transcribed
  <2> QED BY <1>8, <2>3, <2>4, <2>7
<1>10. CASE PhaseAccepted(n, PhaseRecord(p, k))
  <2>1. /\ phases' = [phases EXCEPT ![n] = PhaseRecord(p, k)]
        /\ ctl' = [ctl EXCEPT !.pc = AfterPhase[p]]
    BY <1>3, <1>10 DEF RecordPhase, Goto
  <2>2. ~NodeEnded(n) /\ node[n].step = PhaseStep[PhaseRecord(p, k).phase]
    BY <1>10 DEF PhaseAccepted
  <2>3. ~Uncertain /\ node[n].st = "running"
    BY <1>2, <1>3, <2>2 DEF Transcribed, RecordDue
  <2>4. ctl'.pc = AfterPhase[p] /\ ctl'.n = n
    BY <1>3, <2>1 DEF CtlShape
  <2>5. /\ phases'[n] = PhaseRecord(p, k)
        /\ \A m \in Nodes \ {n} : phases'[m] = phases[m]
    BY <2>1 DEF TypeOK
  <2>6. ctl'.pc \in {"plan_gates", "verify_gates", "execute_exit", "recover"}
    BY <2>4 DEF AfterPhase, PhasePoints
  <2>7. OwnRecords' /\ StopsOnlyStuck'
    BY <1>1, <1>5, <2>3, <2>6 DEF OwnRecords, StopsOnlyStuck, NoPending
  <2>8. \A m \in Nodes \ {n} : Logged(m)'
    BY <1>3, <1>7, <2>5 DEF Transcribed
  <2>9. CASE p \in {"plan_entry", "execute_entry", "verify_entry"}
    <3>1. PICK q : q = [plan_entry |-> "plan_exit", execute_entry |-> "execute_exit",
                        verify_entry |-> "verify_exit"][p]
      OBVIOUS
    <3>2. NextRecord' = q /\ Recording'
      BY <2>4, <2>9, <3>1 DEF Recording, NextRecord, AfterPhase, PhasePoints
    <3>3. PhaseRecord(q, k) \in PhaseSuccessors(PhaseRecord(p, k))
      BY <2>9, <3>1, PhaseGrammar
    <3>4. PhaseStep[PhaseRecord(q, k).phase] = PhaseStep[PhaseRecord(p, k).phase]
      BY <2>9, <3>1, PhaseSteps
    <3>5. PhaseAccepted(n, PhaseRecord(q, k))'
      BY <1>1, <1>4, <2>2, <2>5, <3>3, <3>4 DEF PhaseAccepted
    <3>6. RecordDue'
      BY <1>1, <1>3, <2>3, <2>4, <3>2, <3>5 DEF RecordDue
    <3>7. Transcribed'
      BY <1>4, <1>5, <2>2, <2>3, <2>4, <2>8, <3>2, <3>6 DEF Transcribed
    <3> QED BY <1>8, <2>6, <2>7, <3>7
  <2>10. CASE p \in {"plan_exit", "execute_exit", "verify_exit"}
    <3>1. ctl'.pc = "recover"
      BY <2>4, <2>10 DEF AfterPhase
    <3>2. ~Recording'
      BY <3>1 DEF Recording, NextRecord, PhasePoints
    <3>3. /\ p = "plan_exit" => node[n].step = "planning"
          /\ p = "execute_exit" => node[n].step = "running"
          /\ p = "verify_exit" => node[n].step = "verifying"
      BY <2>2, PhaseSteps
    <3>4. Logged(n)'
      BY <1>1, <1>3, <2>3, <2>5, <2>10, <3>3 DEF Logged
    <3>5. Transcribed'
      BY <2>8, <3>2, <3>4 DEF Transcribed
    <3> QED BY <1>8, <2>6, <2>7, <3>5
  <2> QED BY <2>9, <2>10 DEF PhasePoints
<1> QED BY <1>9, <1>10

\* A decision is projected where nothing is in flight and every log is up to
\* date.
LEMMA AtDecided ==
    ASSUME CInv, Smooth, pending.kind = "decision"
    PROVE  /\ ctl.pc = "decided" /\ pending.n = ctl.n
           /\ ~InFlight /\ ~Recording /\ ~Uncertain /\ active = {}
           /\ \A n \in Nodes : Logged(n) /\ result[n].attempt = node[n].attempt
<1> USE DEF CInv, IInv, Shapes, Smooth
<1>1. ctl.pc = "decided" /\ pending.n = ctl.n
  BY DEF OwnRecords, CtlShape
<1>2. ~InFlight /\ ~Recording /\ ~Uncertain
  BY <1>1 DEF InFlight, Recording, NextRecord, PhasePoints, StopsOnlyStuck
<1> QED BY <1>1, <1>2 DEF InHand, Transcribed

\* What is left to show of a projected decision that moves at most one node
\* and dispatches nothing: its place in the drive and the node's own log.
LEMMA ProjectedSmooth ==
    ASSUME CInv, Smooth, pending.kind = "decision", pending' = NoPending,
           NEW n, UNCHANGED <<result, phases>>,
           \A m \in Nodes : m # n => node'[m] = node[m],
           n \in Nodes => /\ node'[n].attempt = node[n].attempt
                          /\ node'[n].st # "cancel_requested"
                          /\ Recording' \/ Logged(n)',
           active' = {}, ~Uncertain',
           ctl'.pc \in {"recover", "plan_entry", "verify_entry"},
           Recording' => ctl'.n = n /\ RecordDue'
    PROVE  Smooth'
<1> USE DEF Smooth
<1>1. ~InFlight'
  BY DEF InFlight, NoPending
<1>2. OwnRecords' /\ StopsOnlyStuck'
  BY DEF OwnRecords, StopsOnlyStuck, NoPending
<1>3. \A m \in Nodes : m # n => (Logged(m)' <=> Logged(m))
  BY DEF Logged
<1>4. \A m \in Nodes : m # n => Logged(m)'
  BY <1>3, AtDecided
<1>5. InHand'
  <2>1. \A m \in Nodes : result'[m].attempt = node'[m].attempt
    BY AtDecided
  <2>2. \A m \in Nodes : node'[m].st # "cancel_requested"
    BY DEF InHand
  <2> QED BY <1>1, <2>1, <2>2 DEF InHand
<1>6. Transcribed'
  <2>1. Recording' => ~NodeEnded(n)'
    BY DEF RecordDue, NodeEnded
  <2> QED BY <1>4, <2>1 DEF Transcribed
<1> QED BY <1>2, <1>5, <1>6

LEMMA RunDecisionSmooth ==
    ASSUME CInv, Smooth, ProjectActivation \/ ProjectHalt \/ ProjectRunDecision
    PROVE  Smooth'
<1> USE DEF CInv, IInv, Shapes
<1>1. pending.kind = "decision" /\ pending' = NoPending /\ UNCHANGED <<result, phases>>
  BY DEF ProjectActivation, ProjectHalt, ProjectRunDecision, Projecting
<1>2. /\ pending.type \in RunDecisions /\ active = {} /\ ~Uncertain
      /\ \A m \in Nodes : Logged(m) /\ node[m].st # "cancel_requested"
  <2>1. pending.type \in RunDecisions
    BY DEF ProjectActivation, ProjectHalt, ProjectRunDecision, RunDecisions
  <2> QED BY <1>1, <2>1, AtDecided DEF Smooth, InHand
<1>3. ctl' = Idle("recover")
  <2>1. ctl' = AfterDecision(pending.type)
    BY <1>1, ProjectionForm DEF Projection
  <2> QED BY <1>2, <2>1 DEF AfterDecision, RunDecisions
<1>4. ctl'.pc = "recover" /\ ~Recording'
  BY <1>3 DEF Idle, Recording, NextRecord, PhasePoints
<1>5. PICK n : n = pending.n
  OBVIOUS
<1>6. CASE ProjectActivation
  <2>1. n \in Nodes /\ node[n].st = "absent" /\ UNCHANGED <<run, active>>
    BY <1>5, <1>6, ActivationMoves
  <2>2. node' = [node EXCEPT ![n] = [Absent EXCEPT !.st = "ready"]]
    BY <1>5, <1>6, ActivationMoves
  <2>3. /\ node'[n] = [Absent EXCEPT !.st = "ready"]
        /\ \A m \in Nodes : m # n => node'[m] = node[m]
    BY <2>1, <2>2 DEF TypeOK
  <2>4. phases[n] = NoPhase /\ node[n].attempt = 0
    BY <1>2, <2>1 DEF Logged
  <2>5. node'[n].st = "ready" /\ node'[n].step = "pending" /\ node'[n].attempt = 0
    BY <2>3 DEF Absent
  <2>6. Logged(n)'
    BY <1>1, <2>4, <2>5 DEF Logged
  <2>7. ~Uncertain'
    BY <1>2, <2>1 DEF Uncertain
  <2>8. active' = {}
    BY <1>2, <2>1
  <2>9. node'[n].attempt = node[n].attempt /\ node'[n].st # "cancel_requested"
    BY <2>4, <2>5
  <2> QED BY <1>1, <1>4, <2>3, <2>6, <2>7, <2>8, <2>9, ProjectedSmooth
<1>7. CASE ProjectHalt
  <2>1. /\ run' = [life |-> "halted", outcome |-> "none"] /\ active' = {}
        /\ \A m \in Nodes : m # n => node'[m] = node[m]
    BY <1>2, <1>5, <1>7 DEF ProjectHalt
  <2>2. n \in Nodes => node'[n] = [node[n] EXCEPT !.st = "halted", !.step = "halted"]
    BY <1>2, <1>5, <1>7 DEF ProjectHalt
  <2>3. n \in Nodes => node[n] \in NodeRecords
    BY DEF TypeOK, NodeRecords
  <2>4. n \in Nodes => /\ node'[n].st = "halted" /\ node'[n].step = "halted"
                       /\ node'[n].attempt = node[n].attempt
    BY <2>2, <2>3 DEF NodeRecords
  <2>5. n \in Nodes => Logged(n)'
    BY <2>4 DEF Logged
  <2>6. ~Uncertain'
    BY <2>1 DEF Uncertain
  <2> QED BY <1>1, <1>4, <2>1, <2>4, <2>5, <2>6, ProjectedSmooth
<1>8. CASE ProjectRunDecision
  <2>1. node' = node /\ active' = {}
    BY <1>2, <1>8 DEF ProjectRunDecision
  <2>2. ~Uncertain'
    <3>1. \/ run' = [run EXCEPT !.life = "waiting"]
          \/ run' = [life |-> "completed", outcome |-> pending.why]
             /\ pending.why \in {"succeeded", "failed"}
      BY <1>1, <1>8 DEF ProjectRunDecision, PendingShape
    <3> QED BY <1>2, <3>1 DEF Uncertain, TypeOK
  <2>3. n \in Nodes => Logged(n)'
    BY <1>1, <1>2, <2>1 DEF Logged
  <2> QED BY <1>1, <1>2, <1>4, <2>1, <2>2, <2>3, ProjectedSmooth
<1> QED BY <1>6, <1>7, <1>8

\* A result frees the one activity in flight, or halts its node and run.
LEMMA ResultSmooth == ASSUME CInv, Smooth, ProjectResult PROVE Smooth'
<1> USE DEF CInv, IInv, Shapes, Smooth
<1>1. /\ pending.kind = "result" /\ pending' = NoPending /\ ctl' = ctl /\ phases' = phases
      /\ ctl.pc = "execute_entry"
  BY DEF ProjectResult, Projecting, OwnRecords
<1>2. PICK n \in Nodes : n = pending.n
  BY <1>1 DEF PendingShape
<1>3. n = ctl.n /\ n = ctl'.n
  BY <1>1, <1>2 DEF OwnRecords
<1>4. ~Uncertain
  BY <1>1 DEF StopsOnlyStuck, Quiescence, NoPending
<1>5. InFlight /\ ~InFlight'
  BY <1>1 DEF InFlight, NoPending
<1>6. Recording /\ Recording' /\ NextRecord' = NextRecord /\ NextRecord = "execute_entry"
  BY <1>1 DEF Recording, NextRecord, PhasePoints
<1>7. RecordDue
  BY <1>4, <1>6 DEF Transcribed
<1>8. OwnRecords'
  BY <1>1 DEF OwnRecords, NoPending
<1>9. \A m \in Nodes \ {n} : Logged(m)
  BY <1>3 DEF Transcribed
<1>10. /\ result'[n].attempt = node[n].attempt
       /\ \A m \in Nodes \ {n} : result'[m] = result[m]
  <2>1. result' = [result EXCEPT ![n] =
                      [attempt |-> node[n].attempt, report |-> pending.report]]
    BY <1>2 DEF ProjectResult
  <2> QED BY <2>1 DEF TypeOK
<1>11. \A m \in Nodes \ {n} : result[m].attempt = node[m].attempt
  BY <1>3 DEF InHand
<1>12. CASE pending.report # "indeterminate"
  <2>1. active' = active \ {ActivityOf(n)} /\ UNCHANGED <<node, run>>
    BY <1>2, <1>12 DEF ProjectResult
  <2>2. active' = {}
    BY <1>3, <1>4, <1>5, <2>1 DEF InHand
  <2>3. ~Uncertain'
    BY <1>4, <2>1 DEF Uncertain
  <2>4. StopsOnlyStuck'
    BY <1>1, <2>3 DEF StopsOnlyStuck
  <2>5. InHand'
    BY <1>10, <1>11, <2>1, <2>2 DEF InHand
  <2>6. RecordDue' /\ ~NodeEnded(n)'
    BY <1>1, <1>3, <1>6, <1>7, <2>1 DEF RecordDue, PhaseAccepted, NodeEnded
  <2>7. \A m \in Nodes \ {n} : Logged(m)'
    BY <1>1, <1>9, <2>1 DEF Logged
  <2>8. Transcribed'
    BY <1>3, <1>6, <2>3, <2>6, <2>7 DEF Transcribed
  <2> QED BY <1>8, <2>4, <2>5, <2>8
<1>13. CASE pending.report = "indeterminate"
  <2>1. /\ run' = [life |-> "halted", outcome |-> "indeterminate"]
        /\ node' = [node EXCEPT ![n].st = "halted", ![n].step = "halted"]
    BY <1>2, <1>13 DEF ProjectResult
  <2>2. Uncertain' /\ RunEnded'
    BY <2>1 DEF Uncertain, RunEnded
  <2>3. StopsOnlyStuck'
    BY <1>1, <2>2 DEF StopsOnlyStuck
  <2>4. \A m \in Nodes \ {n} : node'[m] = node[m]
    BY <2>1 DEF TypeOK
  <2>5. node[n] \in NodeRecords
    BY DEF TypeOK, NodeRecords
  <2>6. node'[n] = [node[n] EXCEPT !.st = "halted", !.step = "halted"]
    BY <2>1, ZenonT(60) DEF TypeOK
  <2>7. node'[n].st = "halted" /\ node'[n].step = "halted" /\ node'[n].attempt = node[n].attempt
    BY <2>5, <2>6 DEF NodeRecords
  <2>8. InHand'
    BY <1>10, <1>11, <2>2, <2>4, <2>7 DEF InHand
  <2>9. NodeEnded(n)' /\ Logged(n)'
    BY <2>7 DEF NodeEnded, Logged
  <2>10. \A m \in Nodes \ {n} : Logged(m)'
    BY <1>1, <1>9, <2>4 DEF Logged
  <2>11. Transcribed'
    BY <1>3, <2>2, <2>9, <2>10 DEF Transcribed
  <2> QED BY <1>8, <2>3, <2>8, <2>11
<1> QED BY <1>12, <1>13

LEMMA ObservationSmooth == ASSUME CInv, Smooth, ProjectObservation PROVE Smooth'
<1>1. /\ pending.kind = "observation" /\ pending' = NoPending /\ ctl' = ctl
      /\ UNCHANGED <<run, node, active, result, phases>>
  BY DEF ProjectObservation, Projecting
<1>2. OwnRecords'
  BY <1>1 DEF Smooth, OwnRecords, NoPending
<1>3. /\ InFlight' <=> InFlight
      /\ Recording' <=> Recording
      /\ NextRecord' = NextRecord
  BY <1>1 DEF InFlight, Recording, NextRecord, NoPending
<1> QED BY <1>1, <1>2, <1>3, SmoothFrame DEF Smooth, StopsOnlyStuck

LEMMA StepDecisionSmooth == ASSUME CInv, Smooth, ProjectStepDecision PROVE Smooth'
<1> USE DEF CInv, IInv, Shapes
<1>1. /\ pending.kind = "decision" /\ pending' = NoPending /\ UNCHANGED <<result, phases>>
      /\ pending.type \in StepDecisions /\ pending.n \in Nodes
  BY StepDecisionMoves DEF ProjectStepDecision
<1>2. PICK n \in Nodes, type \in StepDecisions : n = pending.n /\ type = pending.type
  BY <1>1
<1>3. /\ ctl.pc = "decided" /\ n = ctl.n /\ ~InFlight /\ ~Uncertain /\ active = {}
      /\ \A m \in Nodes : Logged(m) /\ result[m].attempt = node[m].attempt
  BY <1>1, <1>2, AtDecided
<1>4. /\ node[n] \in NodeRecords /\ StepDecisionFits(type, n)
      /\ node' = [node EXCEPT ![n] = ApplyToNode(node[n], type)]
      /\ type = "DISPATCH" =>
            /\ node[n].step \in {"planning", "retrying"}
            /\ DispatchAttempt(node[n]) = node[n].attempt + 1
            /\ active' = active \cup {<<n, node[n].attempt + 1>>}
      /\ type # "DISPATCH" => active' = active
  BY <1>2, StepDecisionMoves
<1>5. /\ node'[n] = ApplyToNode(node[n], type)
      /\ \A m \in Nodes : m # n => node'[m] = node[m]
  BY <1>4 DEF TypeOK
<1>6. PICK k \in Nat : k = node[n].attempt
  BY <1>4 DEF NodeRecords
<1>7. <<node[n].st, node[n].step>> \in DecisionSources[type] /\ node[n].st # "waiting"
  BY <1>4 DEF StepDecisionFits
<1>8. ~Uncertain'
  <2>1. run' = run \/ run' = [run EXCEPT !.life = "running"]
    BY DEF ProjectStepDecision
  <2> QED BY <1>3, <2>1 DEF Uncertain, TypeOK
<1>9. ctl' = AfterDecision(type)
  BY <1>2 DEF ProjectStepDecision
<1>10. CASE type \in {"ENTER", "VERIFY"}
  <2>0. PICK p : p = IF type = "ENTER" THEN "plan_entry" ELSE "verify_entry"
    OBVIOUS
  <2>1. ctl' = [ctl EXCEPT !.pc = p, !.back = "execute_entry"]
    <3>1. CASE type = "ENTER"
      BY <1>3, <1>9, <2>0, <3>1 DEF AfterDecision
    <3>2. CASE type = "VERIFY"
      BY <1>3, <1>9, <2>0, <3>2 DEF AfterDecision
    <3> QED BY <1>10, <3>1, <3>2
  <2>2. ctl'.pc = p /\ ctl'.n = n
    BY <1>3, <2>1 DEF CtlShape
  <2>3. Recording' /\ NextRecord' = p /\ p \in {"plan_entry", "verify_entry"}
    BY <2>0, <2>2 DEF Recording, NextRecord, PhasePoints
  <2>4. /\ node'[n].st = "running" /\ node'[n].attempt = k
        /\ node'[n].step = IF type = "ENTER" THEN "planning" ELSE "verifying"
    BY <1>4, <1>5, <1>6, <1>10, ApplyToNodeFields
  <2>5. ASSUME type = "ENTER" PROVE PhaseRecord("plan_entry", k) \in PhaseSuccessors(phases[n])
    <3>1. node[n].step \in {"pending", "replanning"}
      BY <1>7, <2>5 DEF DecisionSources
    <3>2. CASE node[n].step = "pending"
      BY <1>3, <1>6, <3>2, PhaseGrammar DEF Logged
    <3>3. CASE node[n].step = "replanning"
      BY <1>3, <1>6, <3>3, PhaseGrammar DEF Logged
    <3> QED BY <3>1, <3>2, <3>3
  <2>6. ASSUME type = "VERIFY" PROVE PhaseRecord("verify_entry", k) \in PhaseSuccessors(phases[n])
    <3>1. node[n].step = "running"
      BY <1>7, <2>6 DEF DecisionSources
    <3> QED BY <1>3, <1>6, <3>1, PhaseGrammar DEF Logged
  <2>7. PhaseStep[PhaseRecord(p, k).phase] = node'[n].step
    BY <1>10, <2>0, <2>4, PhaseSteps
  <2>8. PhaseRecord(p, k) \in PhaseSuccessors(phases'[n])
    BY <1>1, <1>10, <2>0, <2>5, <2>6
  <2>9. ~NodeEnded(n)'
    BY <2>4 DEF NodeEnded
  <2>10. PhaseAccepted(n, PhaseRecord(p, k))'
    BY <2>7, <2>8, <2>9 DEF PhaseAccepted
  <2>11. RecordDue'
    BY <2>2, <2>3, <2>4, <2>10 DEF RecordDue
  <2> QED BY <1>1, <1>3, <1>4, <1>5, <1>6, <1>8, <1>10, <2>2, <2>3, <2>4, <2>11,
             ProjectedSmooth
<1>11. CASE type \notin {"ENTER", "VERIFY", "DISPATCH"}
  <2>1. ctl' = Idle("recover")
    BY <1>3, <1>9, <1>11 DEF AfterDecision
  <2>2. ctl'.pc = "recover" /\ ~Recording'
    BY <2>1 DEF Idle, Recording, NextRecord, PhasePoints
  <2>3. node'[n].attempt = k
    BY <1>4, <1>5, <1>6, <1>11, ApplyToNodeFields
  <2>4. \/ node'[n].st = "succeeded" /\ node'[n].step = "succeeded" /\ type = "COMPLETE"
        \/ node'[n].st = "failed" /\ node'[n].step = "failed"
        \/ node'[n].st = "waiting" /\ node'[n].step = "waiting_approval"
        \/ node'[n].st = "running" /\ node'[n].step = "retrying" /\ type = "RETRY"
        \/ node'[n].st = "running" /\ node'[n].step = "replanning" /\ type = "REPLAN"
    BY <1>4, <1>5, <1>11, ApplyToNodeFields DEF StepDecisions
  <2>5. /\ type = "COMPLETE" => node[n].step = "verifying"
        /\ type = "REPLAN" => node[n].step \in {"planning", "verifying"}
    BY <1>7 DEF DecisionSources
  <2>6. type = "RETRY" => node[n].step = "running"
    BY <1>4 DEF StepDecisionFits
  <2>7. Logged(n)'
    BY <1>1, <1>3, <1>6, <2>3, <2>4, <2>5, <2>6 DEF Logged
  <2> QED BY <1>1, <1>3, <1>4, <1>5, <1>6, <1>8, <1>11, <2>2, <2>3, <2>4, <2>7,
             ProjectedSmooth
<1>12. CASE type = "DISPATCH"
  <2>1. ctl' = [ctl EXCEPT !.pc = "mark", !.back = "execute_entry"]
    BY <1>3, <1>9, <1>12 DEF AfterDecision
  <2>2. ctl'.pc = "mark" /\ ctl'.n = n /\ ctl'.back = "execute_entry"
    BY <1>3, <2>1 DEF CtlShape
  <2>3. Recording' /\ NextRecord' = "execute_entry" /\ InFlight'
    BY <2>2 DEF Recording, NextRecord, PhasePoints, InFlight
  <2>4. node'[n].st = "running" /\ node'[n].attempt = k + 1 /\ node'[n].step = "running"
    BY <1>4, <1>5, <1>6, <1>12, ApplyToNodeFields
  <2>5. active' = {ActivityOf(n)'}
    BY <1>3, <1>4, <1>6, <1>12, <2>4 DEF ActivityOf
  <2>6. phases[n] = PhaseRecord("plan_exit", k) \/ phases[n] = PhaseRecord("execute_exit", k)
    BY <1>3, <1>4, <1>6, <1>12 DEF Logged
  <2>7. PhaseRecord("execute_entry", k + 1) \in PhaseSuccessors(phases'[n])
    BY <1>1, <2>6, PhaseGrammar
  <2>8. ~NodeEnded(n)'
    BY <2>4 DEF NodeEnded
  <2>9. PhaseAccepted(n, PhaseRecord("execute_entry", k + 1))'
    BY <2>4, <2>7, <2>8, PhaseSteps DEF PhaseAccepted
  <2>10. RecordDue'
    BY <2>2, <2>3, <2>4, <2>9 DEF RecordDue
  <2>11. OwnRecords' /\ StopsOnlyStuck'
    BY <1>1, <1>8, <2>2 DEF OwnRecords, StopsOnlyStuck, NoPending
  <2>12. InHand'
    <3>1. \A m \in Nodes : node'[m].st # "cancel_requested"
      BY <1>5, <2>4 DEF Smooth, InHand
    <3>2. \A m \in Nodes : m # n => result'[m].attempt = node'[m].attempt
      BY <1>1, <1>3, <1>5
    <3> QED BY <2>2, <2>3, <2>5, <3>1, <3>2 DEF InHand
  <2>13. \A m \in Nodes \ {n} : Logged(m)'
    BY <1>1, <1>3, <1>5 DEF Logged
  <2>14. Transcribed'
    BY <1>8, <2>2, <2>3, <2>8, <2>10, <2>13 DEF Transcribed
  <2> QED BY <2>11, <2>12, <2>14 DEF Smooth
<1> QED BY <1>10, <1>11, <1>12

LEMMA InitSmooth == Init => Smooth
<1> SUFFICES ASSUME Init PROVE Smooth
  OBVIOUS
<1>1. /\ ctl.pc = "recover" /\ pending = NoPending /\ active = {}
      /\ run.outcome = "none" /\ run.life = "created"
      /\ \A n \in Nodes : /\ node[n] = Absent /\ result[n] = NoResult
                           /\ phases[n] = NoPhase
  BY DEF Init, Idle
<1>2. ~Uncertain /\ ~InFlight /\ ~Recording
  BY <1>1 DEF Uncertain, InFlight, Recording, NextRecord, PhasePoints, NoPending
<1>3. OwnRecords /\ StopsOnlyStuck
  BY <1>1, <1>2 DEF OwnRecords, StopsOnlyStuck, NoPending
<1>4. InHand
  BY <1>1, <1>2 DEF InHand, Absent, NoResult
<1>5. Transcribed
  BY <1>1, <1>2 DEF Transcribed, Logged, Absent
<1> QED BY <1>3, <1>4, <1>5 DEF Smooth

\* While the controller does not crash its drive is never interrupted half
\* way: it stops only where an outcome is uncertain or an approval is awaited,
\* and every complete node has its whole transcript.  The phase log accepts
\* each record the drive writes, because between two of them only the node
\* the controller has in hand moves; and a drive that finds nothing half done
\* finds a decision, the graph being free of cycles.
THEOREM UninterruptedDriven ==
    ASSUME Acyclic
    PROVE  Spec => []UninterruptedDrive
<1> DEFINE Inv == CInv /\ (crashes = 0 => Smooth)
<1>1. Init => Inv
  BY InitCompletion, InitSmooth
<1>2. Inv /\ CInv' /\ [Next]_vars => Inv'
  <2> SUFFICES ASSUME CInv, crashes = 0 => Smooth, [Next]_vars, crashes' = 0
               PROVE  Smooth'
    OBVIOUS
  <2>1. CASE Crash
    <3>1. crashes \in Nat /\ crashes' = crashes + 1
      BY <2>1 DEF Crash, CInv, IInv, Shapes, TypeOK
    <3> QED BY <3>1
  <2>2. CASE crashes' = crashes /\ (Recovery \/ Resume)
    BY <2>2, RecoverySmooth
  <2>3. CASE crashes' = crashes /\ (Dispatch \/ AcceptApproval)
    BY <2>3, DispatchSmooth
  <2>4. CASE crashes' = crashes /\ Phase
    BY <2>4, RecordSmooth, GatesSmooth DEF Phase
  <2>5. CASE crashes' = crashes /\ Projection
    BY <2>5, StepDecisionSmooth, RunDecisionSmooth, ResultSmooth, ObservationSmooth
       DEF Projection
  <2>6. CASE UNCHANGED vars
    <3>1. UNCHANGED <<run, node, active, result, phases, pending, ctl, crashes>>
      BY <2>6 DEF vars, journal
    <3>2. OwnRecords' <=> OwnRecords
      BY <3>1 DEF OwnRecords
    <3>3. /\ InFlight' <=> InFlight
          /\ Recording' <=> Recording
          /\ NextRecord' = NextRecord
      BY <3>1 DEF InFlight, Recording, NextRecord
    <3> QED BY <3>1, <3>2, <3>3, SmoothFrame DEF Smooth, StopsOnlyStuck
  <2>7. Crash \/ crashes' = crashes
    BY NextCases DEF Recovery, RecoverDispatch, ReconcileGates, Decide, NoDecision,
       ReturnResult, Projection, ProjectStepDecision, ProjectActivation, ProjectHalt,
       ProjectRunDecision, ProjectResult, ProjectObservation, Dispatch, Mark, CallWorker,
       AcceptResult, Phase, RecordPhase, RunPlanGates, RunVerifyGates, AcceptGate,
       AcceptVerdict, Resume, AcceptApproval, vars
  <2> QED BY <2>1, <2>2, <2>3, <2>4, <2>5, <2>6, <2>7, NextCases
<1>3. Inv => UninterruptedDrive
  <2> SUFFICES ASSUME CInv, Smooth PROVE TranscriptComplete /\ DriveGivesUpOnlyWhenStuck
    BY DEF UninterruptedDrive
  <2>1. TranscriptComplete
    <3> SUFFICES ASSUME NEW n \in Nodes, node[n].st = "succeeded"
                 PROVE  phases[n] = [phase |-> "verify", bound |-> "exit",
                                     attempt |-> node[n].attempt]
      BY DEF TranscriptComplete
    <3>1. NodeEnded(n)
      BY DEF NodeEnded
    <3> QED BY <3>1 DEF Smooth, Transcribed, Logged, PhaseRecord
  <2>2. DriveGivesUpOnlyWhenStuck
    BY DEF Smooth, StopsOnlyStuck, Uncertain, DriveGivesUpOnlyWhenStuck
  <2> QED BY <2>1, <2>2
<1> QED BY CompletionInvariance, <1>1, <1>2, <1>3, PTL DEF Spec

-----------------------------------------------------------------------------
(* The contract of a run.                                                  *)

\* The last attempt of a node is answered or in flight, as are all before it.
Recorded ==
    \A n \in Nodes :
        \/ result[n].attempt = node[n].attempt
        \/ node[n].attempt = result[n].attempt + 1 /\ ActivityOf(n) \in active

\* A node is declared failed on the answer to its last attempt.
FailureFits ==
    pending.kind = "decision" /\ pending.type = "FAIL" =>
        result[pending.n].report \notin {"none", "succeeded"}

RInv == CInv /\ Recorded /\ FailureFits

\* The Step machine fails a node only on a report of its Worker.
LEMMA FailNeeds ==
    ASSUME NEW policy, NEW nd, NEW obs, NEW u, nd.step \in OpenSteps,
           NextTransition(policy, nd, obs, u).type = "FAIL"
    PROVE  obs.worker \notin {"none", "succeeded"}
<1>1. nd.step = "running"
  BY TransitionNeeds
<1>2. AfterExecute(policy, nd, obs, u).type = "FAIL"
  BY <1>1 DEF NextTransition
<1>3. obs.worker # "none"
  BY <1>2 DEF AfterExecute, Proposal
<1>4. ASSUME obs.worker = "succeeded" PROVE FALSE
  BY <1>2, <1>4 DEF AfterExecute, VerifyOrHalt, Proposal
<1> QED BY <1>3, <1>4

\* So does the scheduler, for the node's last attempt.
LEMMA FailOption ==
    ASSUME Shapes, NEW o \in Options, o.type = "FAIL"
    PROVE  o.n \in Nodes /\ result[o.n].report \notin {"none", "succeeded"}
<1>1. o \in StepOptions
  BY DEF Options, MissingInputOptions, ActivationOptions, RunOptions, Option
<1>2. PICK n \in Schedulable :
         o = Option(StepRank(Transition(n)), DecisionOf(Transition(n).type), n,
                    Transition(n).why)
  BY <1>1 DEF StepOptions
<1>3. o.n = n /\ DecisionOf(Transition(n).type) = "FAIL"
  BY <1>2 DEF Option
<1>4. n \in Nodes /\ node[n].step \in OpenSteps
  BY <1>2 DEF Shapes, Schedulable, StepOpen, OpenSteps
<1>5. Transition(n).type \in TransitionTypes
  BY <1>4, TransitionIsKnown DEF Transition
<1>6. Transition(n).type = "FAIL"
  BY <1>3, <1>5, DecisionOfTransition
<1>7. Observations(n).worker \notin {"none", "succeeded"}
  BY <1>4, <1>6, FailNeeds DEF Transition
<1> QED BY <1>3, <1>4, <1>7 DEF Observations

LEMMA FailureFitsStep == ASSUME CInv, FailureFits, [Next]_vars PROVE FailureFits'
<1>1. CASE Decide
  <2>1. PICK o \in Chosen :
           pending' = [kind |-> "decision", type |-> o.type, n |-> o.n, why |-> o.why]
    BY <1>1 DEF Decide
  <2>2. o \in Options /\ result' = result
    BY <1>1 DEF Chosen, Decide
  <2>3. pending'.type = o.type /\ pending'.n = o.n
    BY <2>1
  <2> QED BY <2>2, <2>3, FailOption DEF FailureFits, CInv, IInv
<1>2. CASE pending' = pending /\ pending.kind = "decision"
  <2>1. result' = result
    BY <1>2, ProjectionForm, OnlyProjectionsMove DEF NoPending
  <2> QED BY <1>2, <2>1 DEF FailureFits
<1>3. CASE pending'.kind # "decision"
  BY <1>3 DEF FailureFits
<1> QED BY <1>1, <1>2, <1>3, PendingMoves

\* A result answers the attempt in flight, and stops its node and the run if
\* its outcome is not known.
LEMMA ResultMoves ==
    ASSUME CInv, ProjectResult, NEW n, n = pending.n
    PROVE  /\ n \in Nodes /\ pending.report \in Reports /\ ~RunEnded
           /\ ActivityOf(n) \in active /\ ActivityOf(n) \in called
           /\ node[n].st = "running"
           /\ result' = [result EXCEPT ![n] =
                            [attempt |-> node[n].attempt, report |-> pending.report]]
           /\ pending.report = "indeterminate" =>
                /\ node' = [node EXCEPT ![n].st = "halted", ![n].step = "halted"]
                /\ run' = [life |-> "halted", outcome |-> "indeterminate"]
                /\ active' = active
           /\ pending.report # "indeterminate" =>
                active' = active \ {ActivityOf(n)} /\ UNCHANGED <<node, run>>
<1> USE DEF CInv, IInv, Shapes
<1>1. pending.kind = "result"
  BY DEF ProjectResult, Projecting
<1>2. n \in Nodes /\ pending.report \in Reports
  BY <1>1 DEF PendingShape
<1>3. ~RunEnded
  BY <1>1 DEF Quiescence, NoPending
<1>4. ActivityOf(n) \in active /\ ActivityOf(n) \in called
  BY <1>1 DEF Calls, ResultProjectable
<1>5. node[n].st = "running"
  BY <1>3, <1>4 DEF Ownership, ActivityOf
<1> QED BY <1>2, <1>3, <1>4, <1>5 DEF ProjectResult

LEMMA RecordedStep == ASSUME CInv, Recorded, [Next]_vars PROVE Recorded'
<1> USE DEF CInv, IInv, Shapes
<1>1. CASE UNCHANGED <<node, result, active>>
  BY <1>1 DEF Recorded, ActivityOf
<1>2. CASE ProjectStepDecision
  <2>1. PICK m, type : m = pending.n /\ type = pending.type
    OBVIOUS
  <2>2. /\ type \in StepDecisions /\ m \in Nodes /\ node[m] \in NodeRecords
        /\ StepDecisionFits(type, m) /\ result' = result
        /\ node' = [node EXCEPT ![m] = ApplyToNode(node[m], type)]
        /\ type = "DISPATCH" =>
             /\ DispatchAttempt(node[m]) = node[m].attempt + 1
             /\ active' = active \cup {<<m, node[m].attempt + 1>>}
        /\ type # "DISPATCH" => active' = active
    BY <1>2, <2>1, StepDecisionMoves
  <2>3. PICK after : after = ApplyToNode(node[m], type)
    OBVIOUS
  <2>4. after.attempt = IF type = "DISPATCH" THEN node[m].attempt + 1 ELSE node[m].attempt
    BY <2>2, <2>3, ApplyToNodeFields
  <2>5. node'[m] = after /\ \A n \in Nodes \ {m} : node'[n] = node[n]
    BY <2>2, <2>3 DEF TypeOK
  <2>6. active \subseteq active' /\ (type = "DISPATCH" => <<m, after.attempt>> \in active')
    BY <2>2, <2>4
  <2>7. ActivityOf(m) \notin active
    BY <2>2 DEF StepDecisionFits, ActivityOf
  <2>8. result[m].attempt = node[m].attempt
    BY <2>2, <2>7 DEF Recorded
  <2>9. \A n \in Nodes \ {m} :
            \/ result'[n].attempt = node'[n].attempt
            \/ node'[n].attempt = result'[n].attempt + 1 /\ <<n, node'[n].attempt>> \in active'
    BY <2>2, <2>5, <2>6 DEF Recorded, ActivityOf
  <2>10. \/ result'[m].attempt = node'[m].attempt
         \/ node'[m].attempt = result'[m].attempt + 1 /\ <<m, node'[m].attempt>> \in active'
    BY <2>2, <2>4, <2>5, <2>6, <2>8
  <2> QED BY <2>9, <2>10 DEF Recorded, ActivityOf
<1>3. CASE ProjectActivation
  <2>1. PICK m \in Nodes :
          /\ node[m].st = "absent" /\ UNCHANGED <<active, result>>
          /\ node' = [node EXCEPT ![m] = [Absent EXCEPT !.st = "ready"]]
    BY <1>3, ActivationMoves
  <2>2. node[m].attempt = 0 /\ node'[m].attempt = 0
    BY <2>1 DEF Attempts, Absent, TypeOK
  <2>3. \A n \in Nodes : node'[n].attempt = node[n].attempt
    BY <2>1, <2>2 DEF TypeOK
  <2> QED BY <2>1, <2>3 DEF Recorded, ActivityOf
<1>4. CASE ProjectHalt
  <2>1. \A n \in Nodes : node'[n].attempt = node[n].attempt
    BY <1>4, StopMoves
  <2>2. UNCHANGED <<active, result>>
    BY <1>4 DEF ProjectHalt
  <2> QED BY <2>1, <2>2 DEF Recorded, ActivityOf
<1>5. CASE ProjectResult
  <2>1. \A n \in Nodes : node'[n].attempt = node[n].attempt
    BY <1>5, StopMoves
  <2>2. PICK m : m = pending.n
    OBVIOUS
  <2>3. /\ m \in Nodes
        /\ result' = [result EXCEPT ![m] =
                        [attempt |-> node[m].attempt, report |-> pending.report]]
        /\ active' = active \/ active' = active \ {ActivityOf(m)}
    BY <1>5, <2>2, ResultMoves
  <2>4. result'[m].attempt = node[m].attempt
    BY <2>3 DEF TypeOK
  <2>5. ASSUME NEW n \in Nodes \ {m}
        PROVE  result'[n] = result[n] /\ (ActivityOf(n) \in active => ActivityOf(n) \in active')
    BY <2>3, <2>5 DEF TypeOK, ActivityOf
  <2> QED BY <2>1, <2>4, <2>5 DEF Recorded, ActivityOf
<1>6. CASE ProjectRunDecision \/ ProjectObservation
  BY <1>1, <1>6 DEF ProjectRunDecision, ProjectObservation
<1> QED BY <1>1, <1>2, <1>3, <1>4, <1>5, <1>6, OnlyProjectionsMove DEF Projection

\* Calls are numbered like attempts, and none is ahead of its node.
LEMMA CallsSoFar ==
    ASSUME CInv, Recorded, NEW n \in Nodes
    PROVE  /\ result[n].attempt = node[n].attempt => Contract!Answered(n)
           /\ ActivityOf(n) \notin called => Contract!Answered(n)
           /\ ActivityOf(n) \in active =>
                /\ Contract!NextAttempt(n) = ActivityOf(n) \/ RunEnded
                /\ node[n].attempt = result[n].attempt + 1 \/ RunEnded
<1> USE DEF CInv, IInv, Shapes
<1>1. ASSUME NEW act \in called, act[1] = n
      PROVE  act = <<n, act[2]>> /\ act[2] \in Nat /\ act[2] <= node[n].attempt
  <2>1. act \in Nodes \X Nat
    BY DEF TypeOK
  <2>2. act \in active \cup marked
    BY DEF Calls
  <2> QED BY <1>1, <2>1, <2>2 DEF Attempts
<1>2. result[n].attempt \in Nat /\ node[n].attempt \in Nat
  BY DEF TypeOK
<1>3. result[n].attempt = node[n].attempt => Contract!Answered(n)
  BY <1>1 DEF Contract!Answered
<1>4. ASSUME ActivityOf(n) \notin called PROVE Contract!Answered(n)
  <2>1. ASSUME NEW act \in called, act[1] = n PROVE act[2] <= result[n].attempt
    <3>1. act = <<n, act[2]>> /\ act[2] \in Nat /\ act[2] <= node[n].attempt
      BY <1>1, <2>1
    <3>2. act[2] # node[n].attempt
      BY <1>4, <3>1 DEF ActivityOf
    <3>3. node[n].attempt <= result[n].attempt + 1
      BY <1>2 DEF Recorded
    <3> QED BY <1>2, <3>1, <3>2, <3>3
  <2> QED BY <2>1 DEF Contract!Answered
<1>5. ASSUME ActivityOf(n) \in active, ~RunEnded
      PROVE  node[n].attempt = result[n].attempt + 1
  <2>1. result[n].attempt # node[n].attempt
    BY <1>5 DEF Ownership, ActivityOf
  <2> QED BY <2>1 DEF Recorded
<1>6. ASSUME ActivityOf(n) \in active, ~RunEnded PROVE Contract!NextAttempt(n) = ActivityOf(n)
  BY <1>5, <1>6 DEF Contract!NextAttempt, ActivityOf
<1> QED BY <1>3, <1>4, <1>5, <1>6

\* How the caller sees a run that goes on, and its nodes.
LEMMA SeenOpen ==
    ASSUME CInv
    PROVE  /\ ~RunEnded => Ending = "open"
           /\ \A n \in Nodes : Standing[n] = Seen(node[n].st)
           /\ DOMAIN Standing = Nodes /\ Standing = [n \in Nodes |-> Standing[n]]
BY DEF CInv, IInv, Shapes, TypeOK, Ending, RunEnded, Standing

LEMMA SameEnding == ASSUME UNCHANGED run PROVE Ending' = Ending
BY DEF Ending

LEMMA SameStanding == ASSUME UNCHANGED node PROVE Standing' = Standing
BY DEF Standing

\* A decision about one node changes how that node stands, and no other.
LEMMA StandingMoves ==
    ASSUME CInv, NEW m \in Nodes, NEW after, node' = [node EXCEPT ![m] = after]
    PROVE  Standing' = [Standing EXCEPT ![m] = Seen(after.st)]
<1>1. node'[m] = after /\ \A n \in Nodes \ {m} : node'[n] = node[n]
  BY DEF CInv, IInv, Shapes, TypeOK
<1>2. \A n \in Nodes : Standing[n] = Seen(node[n].st)
  BY SeenOpen
<1>3. \A n \in Nodes : Seen(node'[n].st) = IF n = m THEN Seen(after.st) ELSE Standing[n]
  BY <1>1, <1>2
<1>4. Standing' = [n \in Nodes |-> IF n = m THEN Seen(after.st) ELSE Standing[n]]
  BY <1>3 DEF Standing
<1> QED BY <1>4, SeenOpen

-----------------------------------------------------------------------------
(* The steps of a run, as its caller sees them.                            *)

\* What the caller sees does not change.
Unseen == Ending' = Ending /\ Standing' = Standing /\ UNCHANGED <<called, result>>

LEMMA ActivationBegins == ASSUME CInv, ProjectActivation PROVE \E n \in Nodes : Contract!Begin(n)
<1>1. PICK m \in Nodes :
        /\ ~RunEnded /\ node[m].st = "absent"
        /\ RunDecisionFits("ACTIVATE", m, pending.why)
        /\ node' = [node EXCEPT ![m] = [Absent EXCEPT !.st = "ready"]]
        /\ UNCHANGED <<run, result>>
  BY ActivationMoves
<1>2. Standing' = [Standing EXCEPT ![m] = "open"]
  <2>1. Seen([Absent EXCEPT !.st = "ready"].st) = "open"
    BY DEF Absent, Seen
  <2>2. Standing' = [Standing EXCEPT ![m] = Seen([Absent EXCEPT !.st = "ready"].st)]
    BY <1>1, StandingMoves
  <2> QED BY <2>1, <2>2
<1>3. Ending = "open" /\ Standing[m] = "absent" /\ Ending' = Ending
  BY <1>1, SeenOpen, SameEnding DEF Seen
<1>4. \A p \in Preds[m] : Standing[p] = "succeeded"
  BY <1>1, SeenOpen, GraphAssumption DEF RunDecisionFits, Seen
<1>5. UNCHANGED <<called, result>>
  BY <1>1 DEF ProjectActivation, history
<1> QED BY <1>2, <1>3, <1>4, <1>5 DEF Contract!Begin

LEMMA StepDecisionSeen ==
    ASSUME RInv, ProjectStepDecision
    PROVE  Unseen \/ \E n \in Nodes : Contract!Succeed(n) \/ Contract!Fail(n)
<1> USE DEF RInv
<1>1. PICK m, type : m = pending.n /\ type = pending.type
  OBVIOUS
<1>2. /\ type \in StepDecisions /\ m \in Nodes /\ node[m] \in NodeRecords
      /\ pending.kind = "decision" /\ ~RunEnded /\ ~RunEnded'
      /\ StepDecisionFits(type, m) /\ result' = result
      /\ node' = [node EXCEPT ![m] = ApplyToNode(node[m], type)]
  BY <1>1, StepDecisionMoves
<1>3. Ending = "open" /\ Ending' = "open" /\ called' = called
  <2>1. Ending' = "open"
    BY <1>2 DEF Ending, RunEnded
  <2> QED BY <1>2, <2>1, SeenOpen DEF ProjectStepDecision
<1>4. PICK after : after = ApplyToNode(node[m], type)
  OBVIOUS
<1>5. /\ type \in {"ENTER", "DISPATCH", "VERIFY", "RETRY", "REPLAN"} => after.st = "running"
      /\ type = "COMPLETE" => after.st = "succeeded"
      /\ type = "FAIL"     => after.st = "failed"
      /\ type = "WAIT"     => after.st = "waiting"
  BY <1>2, <1>4, ApplyToNodeFields
<1>6. Standing[m] = "open"
  BY <1>2, SeenOpen DEF StepDecisionFits, Seen
<1>7. Contract!Answered(m)
  <2>1. ActivityOf(m) \notin active
    BY <1>2 DEF StepDecisionFits, ActivityOf
  <2>2. result[m].attempt = node[m].attempt
    BY <1>2, <2>1 DEF Recorded
  <2> QED BY <1>2, <2>2, CallsSoFar
<1>a. Standing' = [Standing EXCEPT ![m] = Seen(after.st)]
  BY <1>2, <1>4, StandingMoves
<1>8. CASE type = "COMPLETE"
  <2>1. result[m].report = "succeeded"
    BY <1>2, <1>8 DEF StepDecisionFits, Verified
  <2>2. Standing' = [Standing EXCEPT ![m] = "succeeded"]
    BY <1>5, <1>8, <1>a DEF Seen
  <2>3. Contract!Succeed(m)
    BY <1>2, <1>3, <1>6, <1>7, <2>1, <2>2 DEF Contract!Succeed, Contract!IsOpen
  <2> QED BY <1>2, <2>3
<1>9. CASE type = "FAIL"
  <2>1. result[m].report \notin {"none", "succeeded"}
    BY <1>1, <1>2, <1>9 DEF FailureFits
  <2>2. Standing' = [Standing EXCEPT ![m] = "failed"]
    BY <1>5, <1>9, <1>a DEF Seen
  <2>3. Contract!Fail(m)
    BY <1>2, <1>3, <1>6, <1>7, <2>1, <2>2 DEF Contract!Fail, Contract!IsOpen
  <2> QED BY <1>2, <2>3
<1>10. CASE type \notin {"COMPLETE", "FAIL"}
  <2>1. Standing' = [Standing EXCEPT ![m] = "open"]
    BY <1>2, <1>5, <1>10, <1>a DEF Seen, StepDecisions
  <2>2. Standing' = Standing
    BY <1>6, <2>1, SeenOpen
  <2> QED BY <1>2, <1>3, <2>2, SeenOpen DEF Unseen
<1> QED BY <1>8, <1>9, <1>10

LEMMA HaltSeen ==
    ASSUME CInv, ProjectHalt
    PROVE  \E stopped \in {{}} \cup {{n} : n \in Nodes} : Contract!Halt(stopped)
<1>1. /\ pending.kind = "decision" /\ pending.type = "HALT_RUN"
      /\ run' = [life |-> "halted", outcome |-> "none"]
      /\ UNCHANGED <<called, result>>
  BY DEF ProjectHalt, Projecting, history
<1>2. ~RunEnded
  BY <1>1 DEF CInv, IInv, Quiescence, NoPending
<1>3. Ending = "open" /\ Ending' = "halted"
  BY <1>1, <1>2, SeenOpen DEF Ending
<1>4. PICK stopped : stopped = {n \in Nodes : n = pending.n /\ ActivityOf(n) \notin active}
  OBVIOUS
<1>5. stopped \in {{}} \cup {{n} : n \in Nodes}
  <2>1. ASSUME NEW m \in stopped PROVE stopped = {m} /\ m \in Nodes
    BY <1>4, <2>1
  <2> QED BY <2>1
<1>6. ASSUME NEW n \in Nodes, n = pending.n
      PROVE  Standing[n] = "open"
  <2>1. node[n].st \in {"ready", "running", "waiting"}
    BY <1>1, <1>6 DEF CInv, DecisionFits, RunDecisionFits
  <2> QED BY <2>1, SeenOpen DEF Seen
<1>7. ASSUME NEW n \in Nodes
      PROVE  Seen(node'[n].st) = IF n \in stopped THEN "halted" ELSE Standing[n]
  <2>0. node[n] \in NodeRecords
    BY DEF CInv, IInv, Shapes, TypeOK, NodeRecords
  <2>1. CASE n # pending.n
    <3>1. node'[n] = node[n] /\ n \notin stopped
      BY <1>4, <2>1 DEF ProjectHalt
    <3> QED BY <3>1, SeenOpen
  <2>2. CASE n = pending.n /\ ActivityOf(n) \in active
    <3>1. node'[n] = [node[n] EXCEPT !.st = "cancel_requested"] /\ n \notin stopped
      BY <1>4, <2>2 DEF ProjectHalt
    <3>2. Seen(node'[n].st) = "open"
      BY <2>0, <3>1 DEF Seen, NodeRecords
    <3> QED BY <1>6, <2>2, <3>1, <3>2
  <2>3. CASE n = pending.n /\ ActivityOf(n) \notin active
    <3>1. node'[n] = [node[n] EXCEPT !.st = "halted", !.step = "halted"] /\ n \in stopped
      BY <1>4, <2>3 DEF ProjectHalt
    <3>2. node'[n].st = "halted"
      BY <2>0, <3>1 DEF NodeRecords
    <3> QED BY <3>1, <3>2 DEF Seen
  <2> QED BY <2>1, <2>2, <2>3
<1>8. Standing' = [n \in Nodes |-> IF n \in stopped THEN "halted" ELSE Standing[n]]
  BY <1>7 DEF Standing
<1>9. \A n \in stopped : Standing[n] = "open"
  BY <1>4, <1>6
<1>10. Contract!Halt(stopped)
  BY <1>1, <1>3, <1>8, <1>9 DEF Contract!Halt
<1> QED BY <1>5, <1>10

LEMMA RunDecisionSeen ==
    ASSUME RInv, ProjectRunDecision
    PROVE  Unseen \/ Contract!Complete
<1> USE DEF RInv, CInv
<1>1. /\ pending.kind = "decision"
      /\ UNCHANGED <<called, result, node>>
  BY DEF ProjectRunDecision, Projecting, history
<1>2. ~RunEnded /\ Ending = "open" /\ Standing' = Standing
  BY <1>1, SeenOpen, SameStanding DEF IInv, Quiescence, NoPending
<1>3. CASE pending.type = "PROJECT_RUN_WAITING"
  <2>1. run' = [run EXCEPT !.life = "waiting"]
    BY <1>3 DEF ProjectRunDecision
  <2>2. Ending' = "open"
    BY <2>1 DEF Ending, IInv, Shapes, TypeOK
  <2> QED BY <1>1, <1>2, <2>2 DEF Unseen
<1>4. CASE pending.type = "COMPLETE_RUN"
  <2>1. run' = [life |-> "completed", outcome |-> pending.why]
    BY <1>4 DEF ProjectRunDecision
  <2>2. /\ active = {} /\ LiveNodes = {}
        /\ (pending.why = "succeeded") <=> TerminalsSucceeded
    BY <1>1, <1>4 DEF DecisionFits, RunDecisionFits
  <2>3. pending.why \in {"succeeded", "failed"}
    BY <1>1, <1>4 DEF IInv, Shapes, PendingShape
  <2>4. Ending' = pending.why
    BY <2>1 DEF Ending
  <2>5. \A n \in Nodes : Standing[n] # "open" /\ Contract!Answered(n)
    <3>1. ASSUME NEW n \in Nodes PROVE Standing[n] # "open"
      BY <2>2, SeenOpen DEF LiveNodes, Instances, NodeEnded, Seen
    <3>2. ASSUME NEW n \in Nodes PROVE Contract!Answered(n)
      BY <2>2, CallsSoFar DEF Recorded
    <3> QED BY <3>1, <3>2
  <2>6. Contract!Terminals = TerminalNodes
    BY DEF Contract!Terminals, TerminalNodes
  <2>7. TerminalsSucceeded <=> \A n \in TerminalNodes : Standing[n] = "succeeded"
    BY SeenOpen DEF TerminalsSucceeded, TerminalNodes, Seen
  <2>8. Ending' = IF \A n \in Contract!Terminals : Standing[n] = "succeeded"
                  THEN "succeeded" ELSE "failed"
    BY <2>2, <2>3, <2>4, <2>6, <2>7
  <2>9. Contract!Complete
    BY <1>1, <1>2, <2>5, <2>8 DEF Contract!Complete
  <2> QED BY <2>9
<1> QED BY <1>3, <1>4 DEF ProjectRunDecision

LEMMA ResultSeen ==
    ASSUME RInv, ProjectResult
    PROVE  \E n \in Nodes : Contract!Lose(n) \/ \E report \in Reports : Contract!Answer(n, report)
<1> USE DEF RInv
<1>1. PICK m, report : m = pending.n /\ report = pending.report
  OBVIOUS
<1>2. /\ m \in Nodes /\ report \in Reports /\ ~RunEnded
      /\ ActivityOf(m) \in active /\ ActivityOf(m) \in called
      /\ node[m].st = "running"
      /\ result' = [result EXCEPT ![m] = [attempt |-> node[m].attempt, report |-> report]]
      /\ report = "indeterminate" =>
           /\ node' = [node EXCEPT ![m].st = "halted", ![m].step = "halted"]
           /\ run' = [life |-> "halted", outcome |-> "indeterminate"]
      /\ report # "indeterminate" => UNCHANGED <<node, run>>
  BY <1>1, ResultMoves
<1>3. Ending = "open" /\ Standing[m] = "open" /\ called' = called
  BY <1>2, SeenOpen DEF Seen, ProjectResult, history
<1>4. Contract!NextAttempt(m) \in called /\ node[m].attempt = result[m].attempt + 1
  BY <1>2, CallsSoFar
<1>5. result' = [result EXCEPT ![m] = [attempt |-> result[m].attempt + 1, report |-> report]]
  BY <1>2, <1>4
<1>6. CASE report # "indeterminate"
  <2>1. Ending' = Ending /\ Standing' = Standing
    BY <1>2, <1>6, SameEnding, SameStanding
  <2>2. Contract!Answer(m, report)
    BY <1>3, <1>4, <1>5, <1>6, <2>1 DEF Contract!Answer, Contract!IsOpen
  <2> QED BY <1>2, <2>2
<1>7. CASE report = "indeterminate"
  <2>1. Ending' = "uncertain"
    BY <1>2, <1>7 DEF Ending
  <2>2. PICK after : after = [node[m] EXCEPT !.st = "halted", !.step = "halted"]
    OBVIOUS
  <2>3. node' = [node EXCEPT ![m] = after]
    BY <1>2, <1>7, <2>2, Zenon DEF CInv, IInv, Shapes, TypeOK
  <2>4. after.st = "halted"
    BY <1>2, <2>2 DEF CInv, IInv, Shapes, TypeOK
  <2>5. Standing' = [Standing EXCEPT ![m] = "halted"]
    <3>1. Standing' = [Standing EXCEPT ![m] = Seen(after.st)]
      BY <1>2, <2>3, StandingMoves
    <3> QED BY <2>4, <3>1 DEF Seen
  <2>6. Contract!Lose(m)
    BY <1>3, <1>4, <1>5, <1>7, <2>1, <2>5 DEF Contract!Lose, Contract!IsOpen
  <2> QED BY <1>2, <2>6
<1> QED BY <1>6, <1>7

LEMMA CallSeen == ASSUME RInv, CallWorker PROVE \E n \in Nodes : Contract!Call(n)
<1> USE DEF RInv, CInv, IInv, Shapes
<1>1. PICK m : m = ctl.n
  OBVIOUS
<1>2. /\ ctl.pc = "call" /\ called' = called \cup {ActivityOf(m)}
      /\ UNCHANGED <<run, node, result>>
  BY <1>1 DEF CallWorker, At, journal
<1>3. m \in Nodes /\ ActivityOf(m) \in active /\ ActivityOf(m) \notin called
  BY <1>1, <1>2 DEF CtlShape, Calls
<1>4. ~RunEnded
  BY <1>2 DEF Quiescence
<1>5. node[m].st = "running"
  BY <1>3, <1>4 DEF Ownership, ActivityOf
<1>6. Ending = "open" /\ Standing[m] = "open" /\ Ending' = Ending /\ Standing' = Standing
  BY <1>2, <1>3, <1>4, <1>5, SeenOpen, SameEnding, SameStanding DEF Seen
<1>7. Contract!Answered(m) /\ Contract!NextAttempt(m) = ActivityOf(m)
  BY <1>3, <1>4, CallsSoFar
<1> QED BY <1>2, <1>3, <1>6, <1>7 DEF Contract!Call, Contract!IsOpen

\* Nothing else the controller does, no crash and no approval is seen.
LEMMA HiddenSteps ==
    ASSUME [Next]_vars, ~Projection, ~CallWorker
    PROVE  Unseen
<1>1. UNCHANGED <<run, node, result>>
  BY OnlyProjectionsMove
<1>2. called' = called
  BY NextCases DEF Recovery, RecoverDispatch, ReconcileGates, Decide, NoDecision,
     ReturnResult, Dispatch, Mark, CallWorker, AcceptResult, Phase, RecordPhase, RunPlanGates,
     RunVerifyGates, AcceptGate, AcceptVerdict, Resume, Crash, AcceptApproval, vars, journal,
     history
<1> QED BY <1>1, <1>2, SameEnding, SameStanding DEF Unseen

LEMMA ContractStep ==
    ASSUME RInv, [Next]_vars
    PROVE  Contract!Next \/ UNCHANGED Contract!vars
<1> USE DEF Contract!Next, RInv
<1>1. ASSUME Unseen PROVE UNCHANGED Contract!vars
  BY <1>1 DEF Unseen, Contract!vars
<1>2. CASE ProjectStepDecision
  BY <1>1, <1>2, StepDecisionSeen
<1>3. CASE ProjectActivation
  BY <1>3, ActivationBegins
<1>4. CASE ProjectHalt
  BY <1>4, HaltSeen
<1>5. CASE ProjectRunDecision
  BY <1>1, <1>5, RunDecisionSeen
<1>6. CASE ProjectResult
  BY <1>6, ResultSeen
<1>7. CASE ProjectObservation
  <2>1. UNCHANGED <<run, node, result, called>>
    BY <1>7 DEF ProjectObservation, history
  <2> QED BY <1>1, <2>1, SameEnding, SameStanding DEF Unseen
<1>8. CASE CallWorker
  BY <1>8, CallSeen
<1>9. CASE ~Projection /\ ~CallWorker
  BY <1>1, <1>9, HiddenSteps
<1> QED BY <1>2, <1>3, <1>4, <1>5, <1>6, <1>7, <1>8, <1>9 DEF Projection

LEMMA InitContract == Init => RInv /\ Contract!Init
<1> SUFFICES ASSUME Init PROVE RInv /\ Contract!Init
  OBVIOUS
<1>1. CInv /\ FailureFits
  BY InitCompletion DEF Init, FailureFits, NoPending
<1>2. Recorded
  BY DEF Init, Recorded, NoResult, Absent
<1>3. Ending = "open"
  BY DEF Init, Ending
<1>4. Standing = [n \in Nodes |-> "absent"]
  BY DEF Init, Standing, Seen, Absent
<1>5. called = {} /\ result = [n \in Nodes |-> [attempt |-> 0, report |-> "none"]]
  BY DEF Init, NoResult
<1> QED BY <1>1, <1>2, <1>3, <1>4, <1>5 DEF RInv, Contract!Init

\* Whatever the graph and the budgets, and however often the controller crashes
\* between two writes and is resumed, its caller sees nothing but the contract:
\* nodes begin in the order of the graph, each attempt is called once and its
\* answer taken once, before the next is made; a node ends on the answer to its
\* last attempt, and the run ends once, with nothing unanswered if it completes.
THEOREM RunImplements == Spec => KeepsRunContract
<1>1. CInv /\ Recorded /\ FailureFits /\ [Next]_vars => Recorded' /\ FailureFits'
  BY RecordedStep, FailureFitsStep
<1>2. RInv /\ [Next]_vars => [Contract!Next]_(Contract!vars)
  BY ContractStep
<1>3. Init => RInv /\ Contract!Init
  BY InitContract
<1> QED BY CompletionInvariance, <1>1, <1>2, <1>3, PTL
       DEF Spec, RInv, KeepsRunContract, Contract!Spec
=============================================================================
