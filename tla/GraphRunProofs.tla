--------------------------- MODULE GraphRunProofs ---------------------------
(***************************************************************************)
(* Proofs about GraphRun, for every graph, budget and crash bound.         *)
(*                                                                         *)
(* Shapes is what makes type correctness inductive: the form of the open   *)
(* record and of the controller's memory.  Ownership follows an activity   *)
(* from the dispatch decision to its result: it is what makes the durable  *)
(* marker sufficient for at most one physical call.  Quiescence says where *)
(* the controller may be once the run has ended.                           *)
(***************************************************************************)
EXTENDS GraphRunProperties, FiniteSetTheorems, TLAPS

RunDecisions  == {"ACTIVATE", "HALT_RUN", "PROJECT_RUN_WAITING", "COMPLETE_RUN"}
NodeDecisions == StepDecisions \cup {"ACTIVATE"}
AllGates      == PlanGates \cup VerifyGates

PendingShape ==
    /\ pending.kind = "none" => pending = NoPending
    /\ pending.kind = "decision" =>
          /\ pending.type \in StepDecisions \cup RunDecisions
          /\ pending.type \in NodeDecisions => pending.n \in Nodes
          /\ pending.type = "COMPLETE_RUN" => pending.why \in {"succeeded", "failed"}
    /\ pending.kind = "result" => pending.n \in Nodes /\ pending.report \in Reports
    /\ pending.kind = "observation" =>
          /\ pending.n \in Nodes
          /\ pending.what = "gate" => pending.gate \in AllGates

Backs == {"none", "recover", "plan_exit", "verify_exit", "execute_entry"}

CtlShape ==
    /\ ctl \in [pc : DrivePoints \cup {"down", "done"}, n : Nodes \cup {"none"} ,
                todo : SUBSET AllGates, bad : SUBSET AllGates, back : Backs]
    /\ ctl.pc \in PhasePoints \cup {"mark", "call", "called", "plan_gates", "verify_gates",
                                    "gates", "verdict"} => ctl.n \in Nodes
    /\ ctl.pc \in {"gates", "verdict"} => ctl.back \in {"recover", "plan_exit", "verify_exit"}
    /\ ctl.pc \in {"mark", "call", "called"} => ctl.back \in {"recover", "execute_entry"}
    /\ ctl.pc = "decided" => pending.kind = "decision" /\ pending.n = ctl.n

\* A node whose status lets the scheduler consider it has a step to continue.
StepOpen ==
    \A n \in Nodes :
        /\ node[n].st = "ready" => node[n].step = "pending"
        /\ node[n].st = "running" => node[n].step \in
              {"planning", "running", "retrying", "verifying", "replanning"}

Shapes == TypeOK /\ PendingShape /\ CtlShape /\ StepOpen

-----------------------------------------------------------------------------
(* What the scheduler can choose.                                          *)

OpenSteps == {"pending", "planning", "running", "retrying", "verifying", "replanning"}

TransitionTypes ==
    {"PLAN", "EXECUTE", "VERIFY", "COMPLETE", "RETRY", "REPLAN", "WAIT", "FAIL", "BLOCK",
     "HALT"}

\* The Step machine proposes one of its transitions for every open step.
LEMMA TransitionIsKnown ==
    ASSUME NEW policy, NEW nd, NEW obs, NEW u, nd.step \in OpenSteps
    PROVE  NextTransition(policy, nd, obs, u).type \in TransitionTypes
<1>1. CASE nd.step \in {"pending", "replanning"}
  BY <1>1 DEF NextTransition, PlanOrHalt, Proposal, TransitionTypes
<1>2. CASE nd.step = "planning"
  BY <1>2 DEF NextTransition, AfterPlan, ExecuteOrHalt, Proposal, TransitionTypes
<1>3. CASE nd.step = "retrying"
  BY <1>3 DEF NextTransition, ExecuteOrHalt, Proposal, TransitionTypes
<1>4. CASE nd.step = "running"
  BY <1>4 DEF NextTransition, AfterExecute, VerifyOrHalt, Proposal, TransitionTypes
<1>5. CASE nd.step = "verifying"
  BY <1>5 DEF NextTransition, AfterVerify, VerifyOrHalt, Proposal, TransitionTypes
<1> QED BY <1>1, <1>2, <1>3, <1>4, <1>5 DEF OpenSteps

\* It asks for an execution only of a planned or retried step, or again of a
\* running one whose Worker result is not there.
LEMMA ExecuteComesFrom ==
    ASSUME NEW policy, NEW nd, NEW obs, NEW u, nd.step \in OpenSteps,
           NextTransition(policy, nd, obs, u).type = "EXECUTE"
    PROVE  \/ nd.step \in {"planning", "retrying"}
           \/ nd.step = "running" /\ obs.worker = "none"
<1>1. CASE nd.step \in {"pending", "replanning"}
  BY <1>1 DEF NextTransition, PlanOrHalt, Proposal
<1>2. CASE nd.step = "running"
  BY <1>2 DEF NextTransition, AfterExecute, VerifyOrHalt, Proposal
<1>3. CASE nd.step = "verifying"
  BY <1>3 DEF NextTransition, AfterVerify, VerifyOrHalt, Proposal
<1> QED BY <1>1, <1>2, <1>3 DEF OpenSteps

\* The form of every option, whichever is chosen.
LEMMA OptionForm ==
    ASSUME StepOpen, NEW o \in Options
    PROVE  /\ o.type \in StepDecisions \cup RunDecisions
           /\ o.type \in NodeDecisions => o.n \in Nodes
           /\ o.type = "COMPLETE_RUN" => o.why \in {"succeeded", "failed"}
           /\ o.type = "DISPATCH" =>
                 /\ ~DispatchBlocked(o.n) /\ node[o.n].st = "running"
                 /\ \/ node[o.n].step \in {"planning", "retrying"}
                    \/ node[o.n].step = "running" /\ Observations(o.n).worker = "none"
           /\ o.type = "ACTIVATE" => node[o.n].st = "absent"
<1>1. CASE o \in StepOptions
  <2>1. PICK n \in Schedulable :
           o = Option(StepRank(Transition(n)), DecisionOf(Transition(n).type), n,
                      Transition(n).why)
    BY <1>1 DEF StepOptions
  <2>2. n \in Nodes /\ node[n].step \in OpenSteps /\ node[n].st \in {"ready", "running"}
    BY <2>1 DEF Schedulable, StepOpen, OpenSteps
  <2>3. Transition(n).type \in TransitionTypes
    BY <2>2, TransitionIsKnown DEF Transition
  <2>4. o.n = n /\ o.type = DecisionOf(Transition(n).type)
    BY <2>1 DEF Option
  <2>5. o.type \in StepDecisions \cup {"HALT_RUN"}
    BY <2>3, <2>4 DEF DecisionOf, TransitionTypes, StepDecisions
  <2>6. ASSUME o.type = "DISPATCH" PROVE Transition(n).type = "EXECUTE"
    BY <2>3, <2>4, <2>6 DEF DecisionOf, TransitionTypes
  <2>7. ASSUME o.type = "DISPATCH"
        PROVE  /\ ~DispatchBlocked(n) /\ node[n].st = "running"
               /\ \/ node[n].step \in {"planning", "retrying"}
                  \/ node[n].step = "running" /\ Observations(n).worker = "none"
    <3>1. \/ node[n].step \in {"planning", "retrying"}
          \/ node[n].step = "running" /\ Observations(n).worker = "none"
      BY <2>2, <2>6, <2>7, ExecuteComesFrom DEF Transition
    <3> QED BY <2>1, <2>2, <2>6, <2>7, <3>1 DEF Schedulable, StepOpen
  <2> QED BY <2>2, <2>4, <2>5, <2>7 DEF NodeDecisions, RunDecisions, StepDecisions
<1>2. CASE o \in MissingInputOptions
  BY <1>2 DEF MissingInputOptions, Option, NodeDecisions, RunDecisions, StepDecisions
<1>3. CASE o \in ActivationOptions
  BY <1>3 DEF ActivationOptions, Activatable, Option, NodeDecisions, RunDecisions,
              StepDecisions
<1>4. CASE o \in RunOptions
  BY <1>4 DEF RunOptions, Option, NodeDecisions, RunDecisions, StepDecisions
<1> QED BY <1>1, <1>2, <1>3, <1>4 DEF Options

-----------------------------------------------------------------------------
(* Type correctness.                                                       *)

LEMMA InitShapes == Init => Shapes
<1> SUFFICES ASSUME Init PROVE Shapes
  OBVIOUS
<1>1. TypeOK
  BY DEF Init, TypeOK, Absent, NoUse, NoResult, NoGates, NoPending, NoPhase, Idle,
         NodeStatuses, StepStatuses, DrivePoints
<1>2. PendingShape
  BY DEF Init, PendingShape, NoPending
<1>3. CtlShape
  BY DEF Init, CtlShape, Idle, Backs, DrivePoints, PhasePoints
<1>4. StepOpen
  BY DEF Init, StepOpen, Absent
<1> QED BY <1>1, <1>2, <1>3, <1>4 DEF Shapes

\* The decision a node's status and step allow keeps the pair in its types.
LEMMA ApplyToNodeType ==
    ASSUME NEW nd \in [st : NodeStatuses, step : StepStatuses, attempt : Nat, replans : Nat],
           NEW type \in StepDecisions
    PROVE  /\ ApplyToNode(nd, type) \in
                [st : NodeStatuses, step : StepStatuses, attempt : Nat, replans : Nat]
           /\ ApplyToNode(nd, type).st # "ready"
           /\ ApplyToNode(nd, type).st = "running" =>
                ApplyToNode(nd, type).step \in OpenSteps \ {"pending"}
<1> USE DEF ApplyToNode, DispatchAttempt, NodeStatuses, StepStatuses, OpenSteps
<1>1. CASE type = "ENTER"
  BY <1>1
<1>2. CASE type = "DISPATCH"
  <2>1. DispatchAttempt(nd) \in Nat
    OBVIOUS
  <2>2. ApplyToNode(nd, type) = [nd EXCEPT !.st = "running", !.step = "running",
                                           !.attempt = DispatchAttempt(nd)]
    BY <1>2
  <2> HIDE DEF ApplyToNode, DispatchAttempt
  <2> QED BY <2>1, <2>2
<1>3. CASE type = "VERIFY"
  BY <1>3
<1>4. CASE type = "COMPLETE"
  BY <1>4
<1>5. CASE type = "FAIL"
  BY <1>5
<1>6. CASE type = "RETRY"
  BY <1>6
<1>7. CASE type = "REPLAN"
  <2>1. nd.replans + 1 \in Nat
    OBVIOUS
  <2>2. ApplyToNode(nd, type) = [nd EXCEPT !.st = "running", !.step = "replanning",
                                           !.replans = nd.replans + 1]
    BY <1>7
  <2> HIDE DEF ApplyToNode
  <2> QED BY <2>1, <2>2
<1>8. CASE type = "WAIT"
  BY <1>8
<1> QED BY <1>1, <1>2, <1>3, <1>4, <1>5, <1>6, <1>7, <1>8 DEF StepDecisions

LEMMA SpendType ==
    ASSUME used \in [DOMAIN NoUse -> Nat], NEW type
    PROVE  Spend(used, type) \in [DOMAIN NoUse -> Nat]
BY DEF Spend, Cost, NoUse

LEMMA RecoveryKeepsTypes == ASSUME Shapes, Recovery PROVE TypeOK'
<1> USE DEF Shapes, TypeOK, DrivePoints, Idle, journal, history
<1>1. CASE RecoverDispatch
  <2>1. PICK n \in Undispatched :
           /\ marked' = marked \cup {ActivityOf(n)}
           /\ ctl' = [Idle("call") EXCEPT !.n = n, !.back = "recover"]
    BY <1>1 DEF RecoverDispatch
  <2>2. ActivityOf(n) \in Nodes \X Nat
    BY DEF Undispatched
  <2> QED BY <1>1, <2>1, <2>2 DEF RecoverDispatch
<1>2. CASE ReconcileGates
  BY <1>2 DEF ReconcileGates
<1>3. CASE Decide
  BY <1>3 DEF Decide
<1>4. CASE NoDecision
  BY <1>4 DEF NoDecision, Raise
<1>5. CASE ReturnResult
  BY <1>5 DEF ReturnResult
<1> QED BY <1>1, <1>2, <1>3, <1>4, <1>5 DEF Recovery

\* Where the drive goes after a projected decision.
LEMMA AfterDecisionForm ==
    ASSUME CtlShape, NEW type
    PROVE  \/ AfterDecision(type) = Idle("recover")
           \/ /\ ctl.pc = "decided" /\ type \in {"ENTER", "DISPATCH", "VERIFY"}
              /\ AfterDecision(type) =
                   [ctl EXCEPT !.pc = [ENTER |-> "plan_entry", DISPATCH |-> "mark",
                                       VERIFY |-> "verify_entry"][type],
                               !.back = "execute_entry"]
           \/ /\ ctl.pc # "decided" /\ type = "DISPATCH"
              /\ AfterDecision(type) =
                   [Idle("mark") EXCEPT !.n = pending.n, !.back = "recover"]
BY DEF AfterDecision

LEMMA ProjectionKeepsTypes == ASSUME Shapes, Projection PROVE TypeOK'
<1> USE DEF Shapes, TypeOK, history
<1>1. ASSUME NEW type, ctl' = AfterDecision(type) PROVE ctl'.pc \in DrivePoints
  <2>1. CASE AfterDecision(type) = Idle("recover")
    BY <1>1, <2>1 DEF Idle, DrivePoints
  <2>2. CASE /\ ctl.pc = "decided" /\ type \in {"ENTER", "DISPATCH", "VERIFY"}
             /\ AfterDecision(type) =
                   [ctl EXCEPT !.pc = [ENTER |-> "plan_entry", DISPATCH |-> "mark",
                                       VERIFY |-> "verify_entry"][type],
                               !.back = "execute_entry"]
    BY <1>1, <2>2 DEF DrivePoints, PhasePoints, CtlShape
  <2>3. CASE AfterDecision(type) = [Idle("mark") EXCEPT !.n = pending.n, !.back = "recover"]
    BY <1>1, <2>3 DEF Idle, DrivePoints
  <2> QED BY <2>1, <2>2, <2>3, AfterDecisionForm
<1>2. CASE ProjectStepDecision
  <2>1. pending.n \in Nodes /\ pending.type \in StepDecisions
    BY <1>2 DEF ProjectStepDecision, Projecting, PendingShape, NodeDecisions
  <2> DEFINE n == pending.n
             after == ApplyToNode(node[n], pending.type)
  <2>2. after \in [st : NodeStatuses, step : StepStatuses, attempt : Nat, replans : Nat]
    BY <2>1, ApplyToNodeType
  <2>3. used' \in [DOMAIN NoUse -> Nat]
    BY <1>2, SpendType DEF ProjectStepDecision
  <2>4. node' \in [Nodes -> [st : NodeStatuses, step : StepStatuses,
                             attempt : Nat, replans : Nat]]
    BY <1>2, <2>1, <2>2 DEF ProjectStepDecision
  <2>5. active' \subseteq Nodes \X Nat
    BY <1>2, <2>1, <2>2 DEF ProjectStepDecision
  <2>6. gates' \in [Nodes -> [attempt : Nat,
                              seen : SUBSET (PlanGates \cup VerifyGates),
                              failed : SUBSET (PlanGates \cup VerifyGates)]]
    <3>1. NoGates \in [attempt : Nat, seen : SUBSET (PlanGates \cup VerifyGates),
                       failed : SUBSET (PlanGates \cup VerifyGates)]
      BY DEF NoGates
    <3>2. [NoGates EXCEPT !.attempt = after.attempt]
             \in [attempt : Nat, seen : SUBSET (PlanGates \cup VerifyGates),
                  failed : SUBSET (PlanGates \cup VerifyGates)]
      <4> HIDE DEF n, after
      <4> QED BY <2>2, <3>1
    <3>3. \/ gates' = gates
          \/ gates' = [gates EXCEPT ![n] = [NoGates EXCEPT !.attempt = after.attempt]]
      BY <1>2 DEF ProjectStepDecision
    <3> HIDE DEF n, after
    <3> QED BY <2>1, <3>2, <3>3
  <2>7. ctl'.pc \in DrivePoints /\ pending' = NoPending
    BY <1>1, <1>2 DEF ProjectStepDecision
  <2>8. /\ run' \in [life : {"created", "running", "waiting", "completed", "halted"},
                     outcome : {"none", "succeeded", "failed", "indeterminate"}]
        /\ verdict' \in [Nodes -> {"none", "passed", "failed"}]
        /\ approved' \subseteq Nodes /\ planned' \subseteq Nodes
    BY <1>2, <2>1 DEF ProjectStepDecision
  <2>9. UNCHANGED <<result, marked, phases, called, calls, crashes>>
    BY <1>2 DEF ProjectStepDecision
  <2> HIDE DEF n, after
  <2> QED BY <2>3, <2>4, <2>5, <2>6, <2>7, <2>8, <2>9 DEF NoPending, Shapes, TypeOK
<1>3. CASE ProjectActivation
  <2>1. pending.n \in Nodes
    BY <1>3 DEF ProjectActivation, Projecting, PendingShape, NodeDecisions
  <2>2. used' \in [DOMAIN NoUse -> Nat] /\ ctl'.pc \in DrivePoints
    BY <1>1, <1>3, SpendType DEF ProjectActivation
  <2>3. node' \in [Nodes -> [st : NodeStatuses, step : StepStatuses,
                             attempt : Nat, replans : Nat]]
    BY <1>3, <2>1 DEF ProjectActivation, Absent, NodeStatuses, StepStatuses
  <2> QED BY <1>3, <2>2, <2>3 DEF ProjectActivation, NoPending
<1>4. CASE ProjectHalt
  <2>1. ctl'.pc \in DrivePoints
    BY <1>1, <1>4 DEF ProjectHalt
  <2>2. ASSUME NEW n \in Nodes
        PROVE  node'[n] \in [st : NodeStatuses, step : StepStatuses,
                             attempt : Nat, replans : Nat]
    <3>1. \/ node'[n] = node[n]
          \/ node'[n] = [node[n] EXCEPT !.st = "cancel_requested"]
          \/ node'[n] = [node[n] EXCEPT !.st = "halted", !.step = "halted"]
      BY <1>4 DEF ProjectHalt
    <3>2. node[n] \in [st : NodeStatuses, step : StepStatuses,
                       attempt : Nat, replans : Nat]
      OBVIOUS
    <3> QED BY <3>1, <3>2, ZenonT(90) DEF NodeStatuses, StepStatuses
  <2>3. node' \in [Nodes -> [st : NodeStatuses, step : StepStatuses,
                             attempt : Nat, replans : Nat]]
    BY <1>4, <2>2 DEF ProjectHalt
  <2> QED BY <1>4, <2>1, <2>3 DEF ProjectHalt, NoPending
<1>5. CASE ProjectRunDecision
  <2>1. ctl'.pc \in DrivePoints
    BY <1>1, <1>5 DEF ProjectRunDecision
  <2>2. run' \in [life : {"created", "running", "waiting", "completed", "halted"},
                  outcome : {"none", "succeeded", "failed", "indeterminate"}]
    BY <1>5 DEF ProjectRunDecision, Projecting, PendingShape
  <2> QED BY <1>5, <2>1, <2>2 DEF ProjectRunDecision, NoPending
<1>6. CASE ProjectResult
  <2>1. pending.n \in Nodes /\ pending.report \in WorkerReports \cup {"indeterminate"}
    BY <1>6, GraphAssumption DEF ProjectResult, Projecting, PendingShape
  <2>2. result' \in [Nodes -> [attempt : Nat,
                               report : WorkerReports \cup {"none", "indeterminate"}]]
    BY <1>6, <2>1 DEF ProjectResult
  <2>3. /\ run' \in [life : {"created", "running", "waiting", "completed", "halted"},
                     outcome : {"none", "succeeded", "failed", "indeterminate"}]
        /\ active' \subseteq Nodes \X Nat
    BY <1>6 DEF ProjectResult
  <2>4. node' \in [Nodes -> [st : NodeStatuses, step : StepStatuses,
                             attempt : Nat, replans : Nat]]
    <3>1. \/ node' = node
          \/ node' = [node EXCEPT ![pending.n].st = "halted", ![pending.n].step = "halted"]
      BY <1>6 DEF ProjectResult
    <3> DEFINE stopped == [node[pending.n] EXCEPT !.st = "halted", !.step = "halted"]
    <3>2. stopped \in [st : NodeStatuses, step : StepStatuses, attempt : Nat, replans : Nat]
      <4>1. node[pending.n] \in [st : NodeStatuses, step : StepStatuses,
                                 attempt : Nat, replans : Nat]
        BY <2>1
      <4> QED BY <4>1 DEF NodeStatuses, StepStatuses
    <3>3. node' = node \/ node' = [node EXCEPT ![pending.n] = stopped]
      BY <2>1, <3>1
    <3> HIDE DEF stopped
    <3> QED BY <2>1, <3>2, <3>3
  <2> QED BY <1>6, <2>2, <2>3, <2>4 DEF ProjectResult, NoPending
<1>7. CASE ProjectObservation
  <2>1. /\ pending.n \in Nodes
        /\ pending.what = "gate" => pending.gate \in PlanGates \cup VerifyGates
    BY <1>7 DEF ProjectObservation, Projecting, PendingShape, AllGates
  <2>2. gates' \in [Nodes -> [attempt : Nat,
                              seen : SUBSET (PlanGates \cup VerifyGates),
                              failed : SUBSET (PlanGates \cup VerifyGates)]]
    <3> DEFINE G == [attempt : Nat, seen : SUBSET (PlanGates \cup VerifyGates),
                     failed : SUBSET (PlanGates \cup VerifyGates)]
    <3>1. CASE pending.what # "gate"
      BY <1>7, <3>1 DEF ProjectObservation
    <3>2. CASE pending.what = "gate"
      <4>1. PICK f \in SUBSET (PlanGates \cup VerifyGates) :
               gates' = [gates EXCEPT ![pending.n].seen = @ \cup {pending.gate},
                                      ![pending.n].failed = f]
        <5>1. gates[pending.n].failed \in SUBSET (PlanGates \cup VerifyGates)
          BY <2>1
        <5>2. CASE pending.passed
          BY <1>7, <2>1, <3>2, <5>1, <5>2 DEF ProjectObservation
        <5>3. CASE ~pending.passed
          BY <1>7, <2>1, <3>2, <5>1, <5>3 DEF ProjectObservation
        <5> QED BY <5>2, <5>3
      <4>2. gates[pending.n].seen \cup {pending.gate} \in SUBSET (PlanGates \cup VerifyGates)
        BY <2>1, <3>2
      <4> DEFINE g == [gates[pending.n] EXCEPT !.seen = @ \cup {pending.gate}, !.failed = f]
      <4>3. gates' = [gates EXCEPT ![pending.n] = g]
        BY <2>1, <4>1
      <4>4. g \in G
        <5>1. gates[pending.n] \in G
          BY <2>1
        <5> QED BY <4>1, <4>2, <5>1
      <4> HIDE DEF g
      <4> QED BY <2>1, <4>3, <4>4
    <3> QED BY <3>1, <3>2
  <2>3. /\ verdict' \in [Nodes -> {"none", "passed", "failed"}]
        /\ approved' \subseteq Nodes
    BY <1>7, <2>1 DEF ProjectObservation
  <2> QED BY <1>7, <2>2, <2>3 DEF ProjectObservation, NoPending
<1> QED BY <1>2, <1>3, <1>4, <1>5, <1>6, <1>7 DEF Projection

LEMMA DispatchKeepsTypes == ASSUME Shapes, Dispatch PROVE TypeOK'
<1> USE DEF Shapes, TypeOK, DrivePoints, journal
<1>1. CASE Mark
  <2>1. ActivityOf(ctl.n) \in Nodes \X Nat
    BY <1>1 DEF Mark, At, CtlShape, ActivityOf
  <2> QED BY <1>1, <2>1 DEF Mark, Goto, CtlShape, history
<1>2. CASE CallWorker
  <2>1. ActivityOf(ctl.n) \in Nodes \X Nat
    BY <1>2 DEF CallWorker, At, CtlShape, ActivityOf
  <2> QED BY <1>2, <2>1 DEF CallWorker, Goto, CtlShape
<1>3. CASE AcceptResult
  <2>1. ctl'.pc \in DrivePoints
    BY <1>3 DEF AcceptResult, At, Goto, CtlShape, PhasePoints
  <2>2. pending'.kind = "result"
    BY <1>3 DEF AcceptResult
  <2>3. UNCHANGED <<run, node, used, active, result, gates, verdict, approved, marked,
                    phases, called, calls, planned, crashes>>
    BY <1>3 DEF AcceptResult, history
  <2> QED BY <2>1, <2>2, <2>3
<1> QED BY <1>1, <1>2, <1>3 DEF Dispatch

LEMMA PhaseKeepsTypes == ASSUME Shapes, Phase PROVE TypeOK'
<1> USE DEF Shapes, TypeOK, DrivePoints, PhasePoints, journal
<1>1. CASE RecordPhase
  <2>1. ctl.n \in Nodes /\ ctl.pc \in PhasePoints
    BY <1>1 DEF RecordPhase, CtlShape
  <2> DEFINE rec == PhaseRecord(ctl.pc, node[ctl.n].attempt)
  <2>2. rec \in [phase : {"none", "plan", "execute", "verify"},
                 bound : {"entry", "exit"}, attempt : Nat]
    BY <2>1 DEF PhaseRecord
  <2>3. \/ phases' = [phases EXCEPT ![ctl.n] = rec] /\ Goto(AfterPhase[ctl.pc])
        \/ phases' = phases /\ Raise
    BY <1>1 DEF RecordPhase
  <2>4. AfterPhase[ctl.pc] \in DrivePoints
    BY <2>1 DEF AfterPhase
  <2>5. ctl'.pc \in DrivePoints \cup {"down", "done"}
    BY <2>3, <2>4 DEF Goto, Raise, Idle, CtlShape
  <2> HIDE DEF rec
  <2>6. phases' \in [Nodes -> [phase : {"none", "plan", "execute", "verify"},
                               bound : {"entry", "exit"}, attempt : Nat]]
    BY <2>1, <2>2, <2>3
  <2>7. UNCHANGED <<run, node, used, active, result, gates, verdict, approved, pending,
                    marked, called, calls, planned, crashes>>
    BY <1>1 DEF RecordPhase, history
  <2> QED BY <2>5, <2>6, <2>7
<1>2. CASE RunPlanGates
  BY <1>2 DEF RunPlanGates, CtlShape, At
<1>3. CASE RunVerifyGates
  BY <1>3 DEF RunVerifyGates, CtlShape, history
<1>4. CASE AcceptGate
  BY <1>4 DEF AcceptGate, At, CtlShape, history
<1>5. CASE AcceptVerdict
  BY <1>5 DEF AcceptVerdict, At, Goto, CtlShape, history
<1> QED BY <1>1, <1>2, <1>3, <1>4, <1>5 DEF Phase

LEMMA EnvironmentKeepsTypes ==
    ASSUME Shapes, Resume \/ Crash \/ AcceptApproval \/ UNCHANGED vars
    PROVE  TypeOK'
<1> USE DEF Shapes, TypeOK, DrivePoints, journal, history
<1>1. CASE Resume
  BY <1>1 DEF Resume, Idle
<1>2. CASE Crash
  BY <1>2 DEF Crash, Idle
<1>3. CASE AcceptApproval
  BY <1>3 DEF AcceptApproval
<1>4. CASE UNCHANGED vars
  BY <1>4 DEF vars
<1> QED BY <1>1, <1>2, <1>3, <1>4

\* One step of the specification, action by action.
LEMMA NextCases ==
    ASSUME [Next]_vars
    PROVE  \/ Recovery \/ Projection \/ Dispatch \/ Phase
           \/ Resume \/ Crash \/ AcceptApproval \/ UNCHANGED vars
BY DEF Next, Drive, Finished

LEMMA TypesStep == ASSUME Shapes, [Next]_vars PROVE TypeOK'
BY NextCases, RecoveryKeepsTypes, ProjectionKeepsTypes, DispatchKeepsTypes,
   PhaseKeepsTypes, EnvironmentKeepsTypes

-----------------------------------------------------------------------------
(* The form of the open record.                                            *)

\* Every projection closes the record, and leaves a place of the drive.
LEMMA ProjectionForm ==
    ASSUME Projection
    PROVE  /\ pending.kind \in {"decision", "result", "observation"}
           /\ ctl.pc \in DrivePoints
           /\ pending' = NoPending
           /\ pending.kind = "decision" => ctl' = AfterDecision(pending.type)
           /\ pending.kind # "decision" => ctl' = ctl
           /\ UNCHANGED <<marked, called, calls>>
BY DEF Projection, Projecting, ProjectStepDecision, ProjectActivation, ProjectHalt,
       ProjectRunDecision, ProjectResult, ProjectObservation, history

LEMMA PendingStep == ASSUME Shapes, [Next]_vars PROVE PendingShape'
<1> USE DEF Shapes
<1>1. CASE Recovery
  <2>1. CASE Decide
    <3>1. PICK o \in Chosen :
             pending' = [kind |-> "decision", type |-> o.type, n |-> o.n, why |-> o.why]
      BY <2>1 DEF Decide
    <3>2. o \in Options
      BY DEF Chosen
    <3> QED BY <3>1, <3>2, OptionForm DEF PendingShape
  <2> QED BY <1>1, <2>1 DEF Recovery, RecoverDispatch, ReconcileGates, NoDecision,
             ReturnResult, journal, PendingShape, AllGates
<1>2. CASE Projection
  BY <1>2, ProjectionForm DEF PendingShape, NoPending
<1>3. CASE Dispatch
  BY <1>3 DEF Dispatch, Mark, CallWorker, AcceptResult, At, journal, PendingShape, CtlShape,
              AllGates
<1>4. CASE Phase
  <2>1. CASE AcceptGate
    <3>1. ctl.n \in Nodes /\ ctl.todo \subseteq AllGates
      BY <2>1 DEF AcceptGate, At, CtlShape
    <3> QED BY <2>1, <3>1 DEF AcceptGate, PendingShape
  <2>2. CASE AcceptVerdict
    BY <2>2 DEF AcceptVerdict, At, CtlShape, PendingShape
  <2> QED BY <1>4, <2>1, <2>2 DEF Phase, RecordPhase, RunPlanGates, RunVerifyGates, journal,
             PendingShape, AllGates
<1>5. CASE AcceptApproval
  BY <1>5, GraphAssumption DEF AcceptApproval, PendingShape
<1>6. CASE Resume \/ Crash \/ UNCHANGED vars
  BY <1>6 DEF Resume, Crash, vars, journal, PendingShape, AllGates
<1> QED BY <1>1, <1>2, <1>3, <1>4, <1>5, <1>6, NextCases

-----------------------------------------------------------------------------
(* The controller's memory.                                                *)

\* An option is about a node, or about none.
LEMMA OptionNode == ASSUME TypeOK, NEW o \in Options PROVE o.n \in Nodes \cup {"none"}
<1>1. CASE o \in StepOptions
  BY <1>1 DEF StepOptions, Schedulable, Option
<1>2. CASE o \in MissingInputOptions
  BY <1>2 DEF MissingInputOptions, Option, TypeOK
<1>3. CASE o \in ActivationOptions
  BY <1>3 DEF ActivationOptions, Activatable, Option
<1>4. CASE o \in RunOptions
  BY <1>4 DEF RunOptions, Option
<1> QED BY <1>1, <1>2, <1>3, <1>4 DEF Options

LEMMA CtlStep == ASSUME Shapes, [Next]_vars PROVE CtlShape'
<1> USE DEF Shapes
<1> DEFINE Back == [pc : DrivePoints \cup {"down", "done"}, n : Nodes \cup {"none"},
                    todo : SUBSET AllGates, bad : SUBSET AllGates, back : Backs]
<1>0. ctl \in Back
  BY DEF CtlShape
<1>1. CASE Recovery
  <2>1. CASE RecoverDispatch
    <3>1. PICK n \in Nodes : ctl' = [Idle("call") EXCEPT !.n = n, !.back = "recover"]
      BY <2>1 DEF RecoverDispatch, Undispatched
    <3> QED BY <3>1 DEF Idle, CtlShape, DrivePoints, PhasePoints, Backs
  <2>2. CASE ReconcileGates
    <3>1. PICK n \in Nodes, bad \in SUBSET VerifyGates :
             ctl' = [Idle(IF MissingGates(n) = {} THEN "verdict" ELSE "gates")
                       EXCEPT !.n = n, !.todo = MissingGates(n), !.bad = bad,
                              !.back = "recover"]
      BY <2>2 DEF ReconcileGates, Unverified, Verifying
    <3>2. MissingGates(n) \subseteq AllGates /\ bad \subseteq AllGates
      BY DEF MissingGates, AllGates
    <3>3. CASE MissingGates(n) = {}
      BY <3>1, <3>2, <3>3 DEF Idle, CtlShape, DrivePoints, PhasePoints, Backs
    <3>4. CASE MissingGates(n) # {}
      BY <3>1, <3>2, <3>4 DEF Idle, CtlShape, DrivePoints, PhasePoints, Backs
    <3> QED BY <3>3, <3>4
  <2>3. CASE Decide
    <3>1. PICK o \in Chosen :
             /\ pending' = [kind |-> "decision", type |-> o.type, n |-> o.n, why |-> o.why]
             /\ ctl' = [Idle("decided") EXCEPT !.n = o.n]
      BY <2>3 DEF Decide
    <3>2. o.n \in Nodes \cup {"none"}
      BY OptionNode DEF Chosen
    <3> QED BY <3>1, <3>2 DEF Idle, CtlShape, DrivePoints, PhasePoints, Backs
  <2>4. CASE NoDecision \/ ReturnResult
    BY <2>4 DEF NoDecision, ReturnResult, Raise, Idle, CtlShape, DrivePoints, PhasePoints,
                Backs
  <2> QED BY <1>1, <2>1, <2>2, <2>3, <2>4 DEF Recovery
<1>2. CASE Projection
  <2>1. CASE pending.kind # "decision"
    BY <1>2, <2>1, ProjectionForm DEF CtlShape
  <2>2. CASE pending.kind = "decision"
    <3>1. ctl' = AfterDecision(pending.type)
      BY <1>2, <2>2, ProjectionForm
    <3>2. CASE AfterDecision(pending.type) = Idle("recover")
      BY <3>1, <3>2 DEF Idle, CtlShape, DrivePoints, PhasePoints, Backs
    <3>3. CASE /\ ctl.pc = "decided" /\ pending.type \in {"ENTER", "DISPATCH", "VERIFY"}
               /\ AfterDecision(pending.type) =
                    [ctl EXCEPT !.pc = [ENTER |-> "plan_entry", DISPATCH |-> "mark",
                                        VERIFY |-> "verify_entry"][pending.type],
                                !.back = "execute_entry"]
      <4>1. ctl.n \in Nodes
        BY <2>2, <3>3 DEF CtlShape, PendingShape, NodeDecisions, StepDecisions
      <4>2. PICK pc \in {"plan_entry", "mark", "verify_entry"} :
               ctl' = [ctl EXCEPT !.pc = pc, !.back = "execute_entry"]
        <5> DEFINE pc == [ENTER |-> "plan_entry", DISPATCH |-> "mark",
                          VERIFY |-> "verify_entry"][pending.type]
        <5>1. pc \in {"plan_entry", "mark", "verify_entry"}
          BY <3>3
        <5>2. ctl' = [ctl EXCEPT !.pc = pc, !.back = "execute_entry"]
          BY <3>1, <3>3
        <5> HIDE DEF pc
        <5> QED BY <5>1, <5>2
      <4> QED BY <1>0, <4>1, <4>2 DEF CtlShape, DrivePoints, PhasePoints, Backs
    <3>4. CASE /\ ctl.pc # "decided" /\ pending.type = "DISPATCH"
               /\ AfterDecision(pending.type) =
                    [Idle("mark") EXCEPT !.n = pending.n, !.back = "recover"]
      <4>1. pending.n \in Nodes
        BY <2>2, <3>4 DEF PendingShape, NodeDecisions, StepDecisions
      <4> QED BY <3>1, <3>4, <4>1 DEF Idle, CtlShape, DrivePoints, PhasePoints, Backs
    <3> QED BY <3>2, <3>3, <3>4, AfterDecisionForm
  <2> QED BY <2>1, <2>2
<1>3. CASE Dispatch
  <2>1. ctl.n \in Nodes /\ ctl.back \in {"recover", "execute_entry"} /\ ctl' \in Back
    BY <1>0, <1>3 DEF Dispatch, Mark, CallWorker, AcceptResult, At, Goto, CtlShape,
                      DrivePoints, PhasePoints
  <2>2. ctl' = [ctl EXCEPT !.pc = ctl'.pc] /\ ctl'.pc \in {"call", "called", ctl.back}
    BY <1>0, <1>3 DEF Dispatch, Mark, CallWorker, AcceptResult, Goto
  <2> QED BY <1>0, <2>1, <2>2 DEF CtlShape, PhasePoints
<1>4. CASE Phase
  <2>1. CASE RecordPhase
    <3>1. ctl.n \in Nodes /\ ctl.pc \in PhasePoints
      BY <2>1 DEF RecordPhase, CtlShape
    <3>2. Goto(AfterPhase[ctl.pc]) \/ Raise
      BY <2>1 DEF RecordPhase
    <3>3. AfterPhase[ctl.pc] \in {"plan_gates", "recover", "execute_exit", "verify_gates"}
      BY <3>1 DEF AfterPhase, PhasePoints
    <3>4. CASE Raise
      BY <3>4 DEF Raise, Idle, CtlShape, DrivePoints, PhasePoints, Backs
    <3>5. CASE Goto(AfterPhase[ctl.pc])
      BY <1>0, <3>1, <3>3, <3>5 DEF Goto, CtlShape, DrivePoints, PhasePoints
    <3> QED BY <3>2, <3>4, <3>5
  <2>2. CASE RunPlanGates
    BY <1>0, <2>2, ZenonT(90) DEF RunPlanGates, At, CtlShape, DrivePoints, PhasePoints, Backs, AllGates
  <2>3. CASE RunVerifyGates
    BY <1>0, <2>3 DEF RunVerifyGates, At, CtlShape, DrivePoints, PhasePoints, Backs, AllGates
  <2>4. CASE AcceptGate
    <3>1. ctl.n \in Nodes /\ ctl.back \in {"recover", "plan_exit", "verify_exit"}
      BY <2>4 DEF AcceptGate, At, CtlShape
    <3>2. PICK g \in ctl.todo, next \in {"gates", "verdict", ctl.back} :
             ctl' = [ctl EXCEPT !.pc = next, !.todo = ctl.todo \ {g}, !.bad = @ \ {g}]
      BY <2>4 DEF AcceptGate
    <3>3. ctl.todo \ {g} \in SUBSET AllGates /\ ctl.bad \ {g} \in SUBSET AllGates
      BY <1>0
    <3> QED BY <1>0, <3>1, <3>2, <3>3 DEF CtlShape, DrivePoints, PhasePoints
  <2>5. CASE AcceptVerdict
    BY <1>0, <2>5 DEF AcceptVerdict, At, Goto, CtlShape, DrivePoints, PhasePoints
  <2> QED BY <1>4, <2>1, <2>2, <2>3, <2>4, <2>5 DEF Phase
<1>5. CASE Resume \/ Crash
  BY <1>5 DEF Resume, Crash, Idle, CtlShape, DrivePoints, PhasePoints, Backs
<1>6. CASE AcceptApproval
  BY <1>6 DEF AcceptApproval, CtlShape, DrivePoints, PhasePoints
<1>7. CASE UNCHANGED vars
  BY <1>7 DEF vars, journal, CtlShape
<1> QED BY <1>1, <1>2, <1>3, <1>4, <1>5, <1>6, <1>7, NextCases

-----------------------------------------------------------------------------
(* Open steps, and the invariant.                                          *)

LEMMA OpenStep == ASSUME Shapes, [Next]_vars PROVE StepOpen'
<1> USE DEF Shapes
<1>1. CASE UNCHANGED node
  BY <1>1 DEF StepOpen
<1>2. CASE ProjectStepDecision
  <2>1. pending.n \in Nodes /\ pending.type \in StepDecisions
    BY <1>2 DEF ProjectStepDecision, Projecting, PendingShape, NodeDecisions
  <2>2. node' = [node EXCEPT ![pending.n] = ApplyToNode(node[pending.n], pending.type)]
    BY <1>2 DEF ProjectStepDecision
  <2>3. /\ ApplyToNode(node[pending.n], pending.type).st # "ready"
        /\ ApplyToNode(node[pending.n], pending.type).st = "running" =>
              ApplyToNode(node[pending.n], pending.type).step \in OpenSteps \ {"pending"}
    BY <2>1, ApplyToNodeType DEF TypeOK
  <2> QED BY <2>1, <2>2, <2>3 DEF StepOpen, OpenSteps, TypeOK
<1>3. CASE ProjectActivation
  BY <1>3 DEF ProjectActivation, Absent, StepOpen, TypeOK
<1>4. CASE ProjectHalt
  <2>1. ASSUME NEW n \in Nodes
        PROVE  node'[n] = node[n] \/ node'[n].st \in {"cancel_requested", "halted"}
    <3>1. \/ node'[n] = node[n]
          \/ node'[n] = [node[n] EXCEPT !.st = "cancel_requested"]
          \/ node'[n] = [node[n] EXCEPT !.st = "halted", !.step = "halted"]
      BY <1>4 DEF ProjectHalt
    <3>2. node[n] \in [st : NodeStatuses, step : StepStatuses, attempt : Nat, replans : Nat]
      BY DEF TypeOK
    <3> QED BY <3>1, <3>2
  <2> QED BY <2>1 DEF StepOpen
<1>5. CASE ProjectResult
  <2>1. ASSUME NEW n \in Nodes
        PROVE  node'[n] = node[n] \/ node'[n].st = "halted"
    BY <1>5 DEF ProjectResult, TypeOK
  <2> QED BY <2>1 DEF StepOpen
<1>6. CASE Projection
  BY <1>1, <1>2, <1>3, <1>4, <1>5, <1>6 DEF Projection, ProjectRunDecision,
     ProjectObservation
<1>7. UNCHANGED node \/ Projection
  BY NextCases DEF Recovery, RecoverDispatch, ReconcileGates, Decide, NoDecision,
     ReturnResult, Dispatch, Mark, CallWorker, AcceptResult, Phase, RecordPhase,
     RunPlanGates, RunVerifyGates, AcceptGate, AcceptVerdict, Resume, Crash,
     AcceptApproval, vars, journal
<1> QED BY <1>1, <1>6, <1>7

\* Type correctness of every reachable state: the run projection, the open
\* record and the controller's memory keep their types through every write,
\* crash and recovery.
THEOREM TypeCorrect == Spec => []TypeOK
<1>1. Shapes /\ [Next]_vars => Shapes'
  BY TypesStep, PendingStep, CtlStep, OpenStep DEF Shapes
<1>2. Shapes => TypeOK
  BY DEF Shapes
<1> QED BY InitShapes, <1>1, <1>2, PTL DEF Spec

-----------------------------------------------------------------------------
(* Ownership of an activity, from its dispatch to its result.              *)

HasResult(n) == result[n].attempt = node[n].attempt /\ result[n].report # "none"

\* No activity is of an attempt its node has not reached; a node that is
\* executing has its activity in flight or its result on record; and a node
\* that does not exist has no attempt yet.
Attempts ==
    /\ \A act \in active \cup marked : act[2] <= node[act[1]].attempt
    /\ \A n \in Nodes :
          /\ node[n].st = "absent" => node[n].attempt = 0
          /\ node[n].st = "running" /\ node[n].step = "running" =>
                node[n].attempt > 0 /\ (ActivityOf(n) \in active \/ HasResult(n))
    /\ pending.kind = "decision" =>
          /\ pending.type = "DISPATCH" => node[pending.n].step \in {"planning", "retrying"}
          /\ pending.type = "ACTIVATE" => node[pending.n].attempt = 0

\* The marker is written for an activity in flight, then the call is made.
Calls ==
    /\ called \subseteq marked
    /\ IsFiniteSet(called) /\ calls = Cardinality(called)
    /\ ctl.pc = "mark"   => pending = NoPending /\ ActivityOf(ctl.n) \in active \ marked
    /\ ctl.pc = "call"   => /\ pending = NoPending
                            /\ ActivityOf(ctl.n) \in (active \cap marked) \ called
    /\ ctl.pc = "called" => /\ pending = NoPending
                            /\ ActivityOf(ctl.n) \in active \cap marked \cap called
    /\ ResultProjectable

\* Once the run has ended nothing is left to project or to call.
Quiescence ==
    /\ RunEnded => /\ pending = NoPending
                   /\ ctl.pc \in {"recover", "down", "done", "execute_entry", "execute_exit"}
    /\ pending.kind = "result" => ctl.pc \in {"recover", "down", "execute_entry"}

IInv == Shapes /\ Attempts /\ Calls /\ Quiescence

\* What a decision does to the attempt of a node: a dispatch of a planned or
\* retried step opens the next one, and only a dispatch makes a step run.
LEMMA ApplyToNodeAttempt ==
    ASSUME NEW nd \in [st : NodeStatuses, step : StepStatuses, attempt : Nat, replans : Nat],
           NEW type \in StepDecisions
    PROVE  /\ ApplyToNode(nd, type).attempt =
                IF type = "DISPATCH" THEN DispatchAttempt(nd) ELSE nd.attempt
           /\ DispatchAttempt(nd) \in Nat /\ DispatchAttempt(nd) >= nd.attempt
           /\ nd.step \in {"planning", "retrying"} => DispatchAttempt(nd) = nd.attempt + 1
           /\ ApplyToNode(nd, type).st # "absent"
           /\ ApplyToNode(nd, type).step = "running" => type = "DISPATCH"
<1>1. /\ DispatchAttempt(nd) \in Nat /\ DispatchAttempt(nd) >= nd.attempt
      /\ nd.step \in {"planning", "retrying"} => DispatchAttempt(nd) = nd.attempt + 1
  BY DEF DispatchAttempt
<1> QED BY <1>1 DEF ApplyToNode, StepDecisions

LEMMA InitInv == Init => IInv
<1> SUFFICES ASSUME Init PROVE IInv
  OBVIOUS
<1>1. Attempts
  BY DEF Init, Attempts, Absent, NoPending
<1>2. Calls
  <2>1. IsFiniteSet(called) /\ calls = Cardinality(called)
    BY FS_EmptySet DEF Init
  <2> QED BY <2>1 DEF Init, Calls, Idle, ResultProjectable, NoPending
<1>3. Quiescence
  BY DEF Init, Quiescence, Idle, RunEnded, NoPending
<1> QED BY InitShapes, <1>1, <1>2, <1>3 DEF IInv

\* Outside the projections no node, result, or run status moves, and active
\* activities stay what they are.
LEMMA OnlyProjectionsMove ==
    ASSUME [Next]_vars
    PROVE  Projection \/ UNCHANGED <<run, node, used, active, result, gates, verdict, approved>>
BY NextCases DEF Recovery, RecoverDispatch, ReconcileGates, Decide, NoDecision,
   ReturnResult, Dispatch, Mark, CallWorker, AcceptResult, Phase, RecordPhase,
   RunPlanGates, RunVerifyGates, AcceptGate, AcceptVerdict, Resume, Crash,
   AcceptApproval, vars, journal

\* Who writes a causal record, and who leaves the open one alone.
LEMMA PendingMoves ==
    ASSUME [Next]_vars
    PROVE  Decide \/ pending' = pending \/ pending'.kind \in {"none", "result", "observation"}
<1>1. CASE Recovery
  BY <1>1 DEF Recovery, RecoverDispatch, ReconcileGates, NoDecision, ReturnResult, journal
<1>2. CASE Projection
  BY <1>2, ProjectionForm DEF NoPending
<1>3. CASE Dispatch
  BY <1>3 DEF Dispatch, Mark, CallWorker, AcceptResult, journal
<1>4. CASE Phase
  <2>1. CASE AcceptGate
    BY <2>1 DEF AcceptGate
  <2>2. CASE AcceptVerdict
    BY <2>2 DEF AcceptVerdict
  <2>3. CASE RecordPhase \/ RunPlanGates \/ RunVerifyGates
    BY <2>3 DEF RecordPhase, RunPlanGates, RunVerifyGates, journal
  <2> QED BY <1>4, <2>1, <2>2, <2>3 DEF Phase
<1>5. CASE Resume \/ Crash \/ AcceptApproval \/ UNCHANGED vars
  BY <1>5 DEF Resume, Crash, AcceptApproval, vars, journal
<1> QED BY <1>1, <1>2, <1>3, <1>4, <1>5, NextCases

\* A node whose status and step a projection leaves alone or ends keeps its
\* attempt.
LEMMA HaltKeepsAttempts ==
    ASSUME Shapes, ProjectHalt \/ ProjectResult, NEW n \in Nodes
    PROVE  /\ node'[n].attempt = node[n].attempt
           /\ \/ node'[n] = node[n]
              \/ node'[n].st \in {"cancel_requested", "halted"}
<1> USE DEF Shapes
<1>1. node[n] \in [st : NodeStatuses, step : StepStatuses, attempt : Nat, replans : Nat]
  BY DEF TypeOK
<1>2. \/ node'[n] = node[n]
      \/ node'[n] = [node[n] EXCEPT !.st = "cancel_requested"]
      \/ node'[n] = [node[n] EXCEPT !.st = "halted", !.step = "halted"]
  <2>1. CASE ProjectHalt
    BY <2>1 DEF ProjectHalt
  <2>2. CASE ProjectResult
    <3>1. \/ node' = node
          \/ node' = [node EXCEPT ![pending.n].st = "halted", ![pending.n].step = "halted"]
      BY <2>2 DEF ProjectResult
    <3> DEFINE stopped == [node[pending.n] EXCEPT !.st = "halted", !.step = "halted"]
    <3>0. pending.n \in Nodes
      BY <2>2 DEF ProjectResult, Projecting, PendingShape
    <3>2. node' = node \/ node' = [node EXCEPT ![pending.n] = stopped]
      BY <3>0, <3>1 DEF TypeOK
    <3>3. CASE n = pending.n
      BY <3>2, <3>3 DEF TypeOK
    <3>4. CASE n # pending.n
      BY <3>2, <3>4 DEF TypeOK
    <3> QED BY <3>3, <3>4
  <2> QED BY <2>1, <2>2
<1> QED BY <1>1, <1>2

LEMMA AttemptsStep == ASSUME IInv, [Next]_vars PROVE Attempts'
<1> USE DEF IInv, Shapes
<1> DEFINE Reached == \A act \in active \cup marked : act[2] <= node[act[1]].attempt
           Absentees == \A n \in Nodes : node[n].st = "absent" => node[n].attempt = 0
           Running == \A n \in Nodes : node[n].st = "running" /\ node[n].step = "running" =>
                         node[n].attempt > 0 /\ (ActivityOf(n) \in active \/ HasResult(n))
           Sourced == pending.kind = "decision" =>
                         /\ pending.type = "DISPATCH" =>
                               node[pending.n].step \in {"planning", "retrying"}
                         /\ pending.type = "ACTIVATE" => node[pending.n].attempt = 0
<1>0. Reached /\ Absentees /\ Running /\ Sourced
  BY DEF Attempts
<1>1. ASSUME Projection PROVE Attempts'
  <2>0. pending' = NoPending /\ Sourced'
    BY <1>1, ProjectionForm DEF NoPending
  <2>a. marked' = marked
    BY <1>1, ProjectionForm
  <2>1. CASE ProjectStepDecision
    <3> DEFINE n == pending.n
               after == ApplyToNode(node[n], pending.type)
    <3>1. n \in Nodes /\ pending.type \in StepDecisions /\ pending.kind = "decision"
      BY <2>1 DEF ProjectStepDecision, Projecting, PendingShape, NodeDecisions
    <3>2. /\ after.attempt = IF pending.type = "DISPATCH" THEN DispatchAttempt(node[n])
                             ELSE node[n].attempt
          /\ after.attempt \in Nat /\ after.attempt >= node[n].attempt
          /\ after.st # "absent"
          /\ after.step = "running" => pending.type = "DISPATCH"
      BY <3>1, ApplyToNodeAttempt DEF TypeOK
    <3>3. node' = [node EXCEPT ![n] = after] /\ UNCHANGED result
      BY <2>1 DEF ProjectStepDecision
    <3>4. active' = IF pending.type = "DISPATCH" THEN active \cup {<<n, after.attempt>>}
                    ELSE active
      BY <2>1 DEF ProjectStepDecision
    <3>5. pending.type = "DISPATCH" => after.attempt > 0
      BY <1>0, <3>1, <3>2, ApplyToNodeAttempt DEF TypeOK
    <3> HIDE DEF after
    <3>6. Reached'
      BY <1>0, <2>a, <3>1, <3>2, <3>3, <3>4 DEF TypeOK
    <3>7. Absentees'
      BY <1>0, <3>1, <3>2, <3>3 DEF TypeOK
    <3>8. Running'
      <4> SUFFICES ASSUME NEW m \in Nodes, node'[m].st = "running", node'[m].step = "running"
                   PROVE  node'[m].attempt > 0 /\ (ActivityOf(m)' \in active' \/ HasResult(m)')
        OBVIOUS
      <4>1. CASE m = n
        BY <3>1, <3>2, <3>3, <3>4, <3>5, <4>1 DEF ActivityOf, TypeOK
      <4>2. CASE m # n
        BY <1>0, <3>1, <3>3, <3>4, <4>2 DEF ActivityOf, HasResult, TypeOK
      <4> QED BY <4>1, <4>2
    <3> QED BY <2>0, <3>6, <3>7, <3>8 DEF Attempts
  <2>2. CASE ProjectActivation
    <3>1. pending.n \in Nodes /\ pending.kind = "decision" /\ pending.type = "ACTIVATE"
      BY <2>2 DEF ProjectActivation, Projecting, PendingShape, NodeDecisions
    <3> DEFINE new == [Absent EXCEPT !.st = "ready"]
    <3>2. /\ node' = [node EXCEPT ![pending.n] = new] /\ UNCHANGED <<active, result>>
          /\ new.st = "ready" /\ new.attempt = 0
      BY <2>2 DEF ProjectActivation, Absent
    <3> HIDE DEF new
    <3>3. \A m \in Nodes : node'[m].attempt = node[m].attempt
      BY <1>0, <3>1, <3>2 DEF TypeOK
    <3>4. Reached'
      BY <1>0, <2>a, <3>2, <3>3 DEF TypeOK
    <3> QED BY <1>0, <2>0, <3>1, <3>2, <3>3, <3>4 DEF Attempts, ActivityOf, HasResult, TypeOK
  <2>3. CASE ProjectHalt
    <3>1. UNCHANGED <<active, result>>
      BY <2>3 DEF ProjectHalt
    <3>2. Reached'
      BY <1>0, <2>a, <2>3, <3>1, HaltKeepsAttempts DEF TypeOK
    <3>3. Absentees' /\ Running'
      BY <1>0, <2>3, <3>1, HaltKeepsAttempts DEF ActivityOf, HasResult
    <3> QED BY <2>0, <3>2, <3>3 DEF Attempts
  <2>4. CASE ProjectRunDecision \/ ProjectObservation
    <3>1. UNCHANGED <<node, active, result, marked>>
      BY <2>4 DEF ProjectRunDecision, ProjectObservation
    <3> QED BY <1>0, <2>0, <3>1 DEF Attempts, ActivityOf, HasResult
  <2>5. CASE ProjectResult
    <3>1. /\ pending.n \in Nodes
          /\ pending.report \in WorkerReports \cup {"indeterminate"}
      BY <2>5, GraphAssumption DEF ProjectResult, Projecting, PendingShape
    <3>2. result' = [result EXCEPT ![pending.n] = [attempt |-> node[pending.n].attempt,
                                                   report |-> pending.report]]
      BY <2>5 DEF ProjectResult
    <3>3. active' = active \/ active' = active \ {ActivityOf(pending.n)}
      BY <2>5 DEF ProjectResult
    <3>4. Reached'
      BY <1>0, <2>a, <2>5, <3>3, HaltKeepsAttempts DEF TypeOK
    <3>5. Absentees'
      BY <1>0, <2>5, HaltKeepsAttempts
    <3>6. Running'
      <4> SUFFICES ASSUME NEW m \in Nodes, node'[m].st = "running", node'[m].step = "running"
                   PROVE  node'[m].attempt > 0 /\ (ActivityOf(m)' \in active' \/ HasResult(m)')
        OBVIOUS
      <4>1. node'[m] = node[m]
        BY <2>5, HaltKeepsAttempts
      <4>2. CASE m = pending.n
        BY <1>0, <3>1, <3>2, <4>1, <4>2 DEF HasResult, TypeOK, WorkerReports
      <4>3. CASE m # pending.n
        BY <1>0, <3>1, <3>2, <3>3, <4>1, <4>3 DEF ActivityOf, HasResult, TypeOK
      <4> QED BY <4>2, <4>3
    <3> QED BY <2>0, <3>4, <3>5, <3>6 DEF Attempts
  <2> QED BY <1>1, <2>1, <2>2, <2>3, <2>4, <2>5 DEF Projection
<1>2. ASSUME UNCHANGED <<node, active, result>> PROVE Absentees' /\ Running'
  BY <1>0, <1>2 DEF ActivityOf, HasResult
<1>3. ASSUME UNCHANGED <<node, active, result>> PROVE Reached'
  <2>1. CASE marked' = marked
    BY <1>0, <1>3, <2>1
  <2>2. CASE RecoverDispatch \/ Mark
    <3>1. \E n \in Nodes : marked' = marked \cup {<<n, node[n].attempt>>}
      BY <2>2 DEF RecoverDispatch, Undispatched, Mark, At, CtlShape, ActivityOf
    <3> QED BY <1>0, <1>3, <3>1 DEF TypeOK
  <2>3. marked' = marked \/ RecoverDispatch \/ Mark
    BY NextCases, ProjectionForm DEF Recovery, ReconcileGates, Decide, NoDecision,
       ReturnResult, Dispatch, CallWorker, AcceptResult, Phase, RecordPhase, RunPlanGates,
       RunVerifyGates, AcceptGate, AcceptVerdict, Resume, Crash, AcceptApproval, vars, journal
  <2> QED BY <2>1, <2>2, <2>3
<1>4. ASSUME UNCHANGED <<node, active, result>> PROVE Sourced'
  <2>1. CASE Decide
    <3>1. PICK o \in Chosen :
             pending' = [kind |-> "decision", type |-> o.type, n |-> o.n, why |-> o.why]
      BY <2>1 DEF Decide
    <3>2. o \in Options
      BY DEF Chosen
    <3>3. ASSUME o.type = "DISPATCH" PROVE node[o.n].step \in {"planning", "retrying"}
      <4>1. /\ o.n \in Nodes /\ ActivityOf(o.n) \notin active /\ node[o.n].st = "running"
            /\ \/ node[o.n].step \in {"planning", "retrying"}
               \/ node[o.n].step = "running" /\ Observations(o.n).worker = "none"
        BY <3>2, <3>3, OptionForm DEF DispatchBlocked, NodeDecisions, StepDecisions
      <4>2. ASSUME node[o.n].step = "running" PROVE Observations(o.n).worker # "none"
        BY <1>0, <4>1, <4>2 DEF Observations, HasResult
      <4> QED BY <4>1, <4>2
    <3>4. ASSUME o.type = "ACTIVATE" PROVE node[o.n].attempt = 0
      BY <1>0, <3>2, <3>4, OptionForm DEF NodeDecisions
    <3> QED BY <1>4, <3>1, <3>3, <3>4
  <2>2. CASE pending' = pending
    BY <1>0, <1>4, <2>2
  <2>3. Decide \/ pending' = pending \/ pending'.kind \in {"none", "result", "observation"}
    BY PendingMoves
  <2> QED BY <2>1, <2>2, <2>3
<1> QED BY <1>1, <1>2, <1>3, <1>4, OnlyProjectionsMove DEF Attempts

\* Steps that neither mark, nor call, nor accept a result: they leave the
\* controller outside the dispatch, or change nothing it holds.
LEMMA OutsideDispatch ==
    ASSUME Shapes,
           \/ ReconcileGates \/ Decide \/ NoDecision \/ ReturnResult
           \/ Phase \/ Resume \/ Crash \/ AcceptApproval
    PROVE  /\ UNCHANGED <<marked, called, calls>>
           /\ ctl'.pc \notin {"mark", "call", "called"}
           /\ pending' = pending \/ pending'.kind \in {"decision", "observation"}
<1> USE DEF Shapes
<1>1. CASE ReconcileGates
  BY <1>1 DEF ReconcileGates, Idle, journal, history
<1>2. CASE Decide
  BY <1>2 DEF Decide, Idle, history
<1>3. CASE NoDecision \/ ReturnResult \/ Resume \/ Crash
  BY <1>3 DEF NoDecision, ReturnResult, Resume, Crash, Raise, Idle, journal, history
<1>4. CASE AcceptApproval
  BY <1>4 DEF AcceptApproval, history
<1>5. CASE RecordPhase
  <2>1. ctl.pc \in PhasePoints
    BY <1>5 DEF RecordPhase
  <2>2. AfterPhase[ctl.pc] \notin {"mark", "call", "called"}
    BY <2>1 DEF AfterPhase, PhasePoints
  <2>3. Goto(AfterPhase[ctl.pc]) \/ Raise
    BY <1>5 DEF RecordPhase
  <2> QED BY <1>5, <2>2, <2>3 DEF RecordPhase, Goto, Raise, Idle, CtlShape, history
<1>6. CASE RunPlanGates \/ RunVerifyGates
  BY <1>6 DEF RunPlanGates, RunVerifyGates, CtlShape, journal, history
<1>7. CASE AcceptGate
  <2>1. ctl.back \in {"recover", "plan_exit", "verify_exit"}
    BY <1>7 DEF AcceptGate, At, CtlShape
  <2> QED BY <1>7, <2>1 DEF AcceptGate, CtlShape, history
<1>8. CASE AcceptVerdict
  BY <1>8 DEF AcceptVerdict, At, Goto, CtlShape, history
<1> QED BY <1>1, <1>2, <1>3, <1>4, <1>5, <1>6, <1>7, <1>8 DEF Phase

LEMMA CallsStep == ASSUME IInv, [Next]_vars PROVE Calls'
<1> USE DEF IInv, Shapes
<1>1. CASE Projection
  <2>1. /\ UNCHANGED <<marked, called, calls>> /\ pending' = NoPending
        /\ pending.kind \in {"decision", "result", "observation"}
        /\ pending.kind = "decision" => ctl' = AfterDecision(pending.type)
        /\ pending.kind # "decision" => ctl' = ctl
    BY <1>1, ProjectionForm
  <2>2. ctl.pc \notin {"mark", "call", "called"}
    BY <2>1 DEF Calls, NoPending
  <2>3. ASSUME ctl'.pc \in {"mark", "call", "called"}
        PROVE  /\ ctl'.pc = "mark" /\ ctl'.n = pending.n
               /\ pending.kind = "decision" /\ pending.type = "DISPATCH"
    <3>1. pending.kind = "decision" /\ ctl' = AfterDecision(pending.type)
      BY <2>1, <2>2, <2>3
    <3>2. CASE AfterDecision(pending.type) = Idle("recover")
      BY <2>3, <3>1, <3>2 DEF Idle
    <3>3. CASE /\ ctl.pc = "decided" /\ pending.type \in {"ENTER", "DISPATCH", "VERIFY"}
               /\ AfterDecision(pending.type) =
                    [ctl EXCEPT !.pc = [ENTER |-> "plan_entry", DISPATCH |-> "mark",
                                        VERIFY |-> "verify_entry"][pending.type],
                                !.back = "execute_entry"]
      <4>1. /\ ctl'.pc = [ENTER |-> "plan_entry", DISPATCH |-> "mark",
                          VERIFY |-> "verify_entry"][pending.type]
            /\ ctl'.n = ctl.n
        BY <3>1, <3>3 DEF CtlShape
      <4>2. pending.type = "DISPATCH" /\ ctl'.pc = "mark"
        BY <2>3, <3>3, <4>1
      <4> QED BY <3>1, <3>3, <4>1, <4>2 DEF CtlShape
    <3>4. CASE /\ ctl.pc # "decided" /\ pending.type = "DISPATCH"
               /\ AfterDecision(pending.type) =
                    [Idle("mark") EXCEPT !.n = pending.n, !.back = "recover"]
      BY <3>1, <3>4 DEF Idle
    <3> QED BY <3>2, <3>3, <3>4, AfterDecisionForm
  <2>4. ASSUME ctl'.pc = "mark" PROVE ActivityOf(ctl.n)' \in active' \ marked'
    <3>1. ctl'.n = pending.n /\ pending.kind = "decision" /\ pending.type = "DISPATCH"
      BY <2>3, <2>4
    <3>2. pending.n \in Nodes /\ ProjectStepDecision
      BY <1>1, <3>1 DEF PendingShape, NodeDecisions, StepDecisions, Projection, Projecting,
         ProjectActivation, ProjectHalt, ProjectRunDecision, ProjectResult, ProjectObservation
    <3> DEFINE after == ApplyToNode(node[pending.n], "DISPATCH")
    <3>3. node'[pending.n] = after /\ active' = active \cup {<<pending.n, after.attempt>>}
      BY <3>1, <3>2 DEF ProjectStepDecision, TypeOK
    <3>4. after.attempt = node[pending.n].attempt + 1
      BY <3>1, <3>2, ApplyToNodeAttempt DEF Attempts, TypeOK, StepDecisions
    <3>5. node[pending.n].attempt \in Nat
      BY <3>2 DEF TypeOK
    <3>6. <<pending.n, after.attempt>> \notin marked
      <4> HIDE DEF after
      <4>1. \A act \in marked : act[2] <= node[act[1]].attempt
        BY DEF Attempts
      <4> QED BY <3>4, <3>5, <4>1
    <3> HIDE DEF after
    <3> QED BY <2>1, <3>1, <3>3, <3>6 DEF ActivityOf
  <2> QED BY <2>1, <2>3, <2>4 DEF Calls, ResultProjectable, NoPending
<1>2. CASE RecoverDispatch
  <2>1. PICK n \in Nodes :
           /\ ActivityOf(n) \in active \ marked /\ marked' = marked \cup {ActivityOf(n)}
           /\ ctl' = [Idle("call") EXCEPT !.n = n, !.back = "recover"]
    BY <1>2 DEF RecoverDispatch, Undispatched
  <2>2. ctl'.pc = "call" /\ ctl'.n = n
    BY <2>1 DEF Idle
  <2>3. pending = NoPending /\ UNCHANGED <<node, active, pending, called, calls>>
    BY <1>2 DEF RecoverDispatch, At, history
  <2> QED BY <2>1, <2>2, <2>3 DEF Calls, ResultProjectable, ActivityOf, NoPending
<1>3. CASE Mark
  <2>1. /\ ctl'.pc = "call" /\ ctl'.n = ctl.n /\ marked' = marked \cup {ActivityOf(ctl.n)}
        /\ ActivityOf(ctl.n) \in active \ marked /\ pending = NoPending
    BY <1>3 DEF Mark, At, Goto, CtlShape, Calls
  <2>2. UNCHANGED <<node, active, pending, called, calls>>
    BY <1>3 DEF Mark, history
  <2> QED BY <2>1, <2>2 DEF Calls, ResultProjectable, ActivityOf, NoPending
<1>4. CASE CallWorker
  <2>1. /\ ctl'.pc = "called" /\ ctl'.n = ctl.n /\ called' = called \cup {ActivityOf(ctl.n)}
        /\ calls' = calls + 1 /\ pending = NoPending
        /\ ActivityOf(ctl.n) \in (active \cap marked) \ called
    BY <1>4 DEF CallWorker, At, Goto, CtlShape, Calls
  <2>2. UNCHANGED <<node, active, pending, marked>>
    BY <1>4 DEF CallWorker, journal
  <2>3. IsFiniteSet(called') /\ calls' = Cardinality(called')
    BY <2>1, FS_AddElement DEF Calls
  <2> QED BY <2>1, <2>2, <2>3 DEF Calls, ResultProjectable, ActivityOf, NoPending
<1>5. CASE AcceptResult
  <2>1. /\ ActivityOf(ctl.n) \in active \cap marked \cap called
        /\ ctl'.pc \in {"recover", "execute_entry"}
        /\ pending'.kind = "result" /\ pending'.n = ctl.n
    BY <1>5 DEF AcceptResult, At, Goto, CtlShape, Calls
  <2>2. UNCHANGED <<node, active, marked, called, calls>>
    BY <1>5 DEF AcceptResult, history
  <2> QED BY <2>1, <2>2 DEF Calls, ResultProjectable, ActivityOf
<1>6. CASE \/ ReconcileGates \/ Decide \/ NoDecision \/ ReturnResult
           \/ Phase \/ Resume \/ Crash \/ AcceptApproval
  <2>1. Projection \/ UNCHANGED <<node, active>>
    BY OnlyProjectionsMove
  <2>2. CASE UNCHANGED <<node, active>>
    BY <1>6, <2>2, OutsideDispatch DEF Calls, ResultProjectable, ActivityOf
  <2> QED BY <1>1, <2>1, <2>2
<1>7. CASE UNCHANGED vars
  BY <1>7 DEF vars, journal, history, Calls, ResultProjectable, ActivityOf
<1> QED BY <1>1, <1>2, <1>3, <1>4, <1>5, <1>6, <1>7, NextCases DEF Recovery, Dispatch

LEMMA QuiescenceStep == ASSUME IInv, [Next]_vars PROVE Quiescence'
<1> USE DEF IInv, Shapes
<1>1. CASE Projection
  <2>1. /\ pending.kind \in {"decision", "result", "observation"} /\ pending' = NoPending
        /\ ctl.pc \in DrivePoints
        /\ pending.kind = "decision" => ctl' = AfterDecision(pending.type)
        /\ pending.kind # "decision" => ctl' = ctl
    BY <1>1, ProjectionForm
  <2>2. ~RunEnded
    BY <2>1 DEF Quiescence, NoPending
  <2>3. CASE ProjectHalt \/ ProjectRunDecision
    <3>1. /\ pending.type \in {"HALT_RUN", "PROJECT_RUN_WAITING", "COMPLETE_RUN"}
          /\ ctl' = AfterDecision(pending.type)
      BY <2>3 DEF ProjectHalt, ProjectRunDecision
    <3>2. ctl' = Idle("recover")
      BY <3>1, AfterDecisionForm
    <3> QED BY <2>1, <3>2 DEF Quiescence, Idle, NoPending
  <2>4. CASE ProjectResult
    <3>1. ctl.pc \in {"recover", "execute_entry"} /\ ctl' = ctl
      BY <2>1, <2>4 DEF ProjectResult, Projecting, Quiescence, DrivePoints, PhasePoints
    <3> QED BY <2>1, <3>1 DEF Quiescence, NoPending
  <2>5. CASE ProjectStepDecision \/ ProjectActivation \/ ProjectObservation
    <3>1. ~RunEnded'
      BY <2>2, <2>5 DEF ProjectStepDecision, ProjectActivation, ProjectObservation, RunEnded,
                        TypeOK
    <3> QED BY <2>1, <3>1 DEF Quiescence, NoPending
  <2> QED BY <1>1, <2>3, <2>4, <2>5 DEF Projection
<1>2. CASE UNCHANGED run
  <2>0. RunEnded' <=> RunEnded
    BY <1>2 DEF RunEnded
  <2>1. CASE Recovery
    <3>1. CASE RecoverDispatch \/ ReconcileGates
      <4>1. ~RunEnded /\ pending' = NoPending
        BY <3>1 DEF RecoverDispatch, ReconcileGates, At, journal
      <4> QED BY <2>0, <4>1 DEF Quiescence, NoPending
    <3>2. CASE Decide
      <4>1. ~RunEnded /\ pending'.kind = "decision"
        BY <3>2 DEF Decide, ReadyToSchedule
      <4> QED BY <2>0, <4>1 DEF Quiescence
    <3>3. CASE NoDecision \/ ReturnResult
      <4>1. pending' = NoPending /\ ctl'.pc \in {"down", "done"}
        BY <3>3 DEF NoDecision, ReturnResult, ReadyToSchedule, At, Raise, Idle, journal
      <4> QED BY <4>1 DEF Quiescence, NoPending
    <3> QED BY <2>1, <3>1, <3>2, <3>3 DEF Recovery
  <2>2. CASE Dispatch
    <3>1. ~RunEnded
      BY <2>2 DEF Dispatch, Mark, CallWorker, AcceptResult, At, Quiescence
    <3>2. CASE AcceptResult
      <4>1. ctl'.pc \in {"recover", "execute_entry"}
        BY <3>2 DEF AcceptResult, At, Goto, CtlShape
      <4> QED BY <2>0, <3>1, <4>1 DEF Quiescence
    <3>3. CASE Mark \/ CallWorker
      <4>1. pending' = NoPending
        BY <3>3 DEF Mark, CallWorker, At, journal
      <4> QED BY <2>0, <3>1, <4>1 DEF Quiescence, NoPending
    <3> QED BY <2>2, <3>2, <3>3 DEF Dispatch
  <2>3. CASE Phase
    <3>1. pending = NoPending /\ pending'.kind # "result"
      <4>1. pending = NoPending
        BY <2>3 DEF Phase, RecordPhase, RunPlanGates, RunVerifyGates, AcceptGate,
                    AcceptVerdict, At
      <4>2. pending' = pending \/ pending'.kind \in {"decision", "observation"}
        BY <2>3, OutsideDispatch
      <4> QED BY <4>1, <4>2 DEF NoPending
    <3>2. ASSUME RunEnded
          PROVE  /\ pending' = NoPending
                 /\ ctl'.pc \in {"recover", "down", "execute_exit"}
      <4>1. ctl.pc \in {"execute_entry", "execute_exit"} /\ RecordPhase
        BY <2>3, <3>2 DEF Phase, RecordPhase, RunPlanGates, RunVerifyGates, AcceptGate,
           AcceptVerdict, At, Quiescence, PhasePoints
      <4>2. AfterPhase[ctl.pc] \in {"recover", "execute_exit"}
        BY <4>1 DEF AfterPhase
      <4>3. Goto(AfterPhase[ctl.pc]) \/ Raise
        BY <4>1 DEF RecordPhase
      <4> QED BY <3>1, <4>1, <4>2, <4>3 DEF RecordPhase, Goto, Raise, Idle, CtlShape
    <3> QED BY <2>0, <3>1, <3>2 DEF Quiescence
  <2>4. CASE Resume \/ Crash
    BY <2>0, <2>4 DEF Resume, Crash, Idle, journal, Quiescence
  <2>5. CASE AcceptApproval
    BY <2>0, <2>5 DEF AcceptApproval, Quiescence
  <2>6. CASE UNCHANGED vars
    BY <2>0, <2>6 DEF vars, journal, Quiescence
  <2> QED BY <1>1, <2>1, <2>2, <2>3, <2>4, <2>5, <2>6, NextCases
<1> QED BY <1>1, <1>2, OnlyProjectionsMove

-----------------------------------------------------------------------------
(* The theorems.                                                           *)

LEMMA Invariance == Spec => []IInv
<1>1. IInv /\ [Next]_vars => IInv'
  BY TypesStep, PendingStep, CtlStep, OpenStep, AttemptsStep, CallsStep, QuiescenceStep
     DEF IInv, Shapes
<1> QED BY InitInv, <1>1, PTL DEF Spec

\* An attempt's Worker is physically called at most once, for any graph, any
\* budget and any number of crashes at any place: mark_activity_dispatched,
\* durable before the call, is enough.
THEOREM AtMostOneCall == Spec => []OneCallPerAttempt
<1>1. IInv => OneCallPerAttempt
  BY DEF IInv, Calls, OneCallPerAttempt
<1> QED BY Invariance, <1>1, PTL

\* Every committed Worker result can be projected: it belongs to an activity
\* in flight that was marked and called, so recovery never raises on it.
THEOREM ResultsProject == Spec => []ResultProjectable
<1>1. IInv => ResultProjectable
  BY DEF IInv, Calls
<1> QED BY Invariance, <1>1, PTL

\* After the run has ended no node, result, budget, activity or Worker call
\* ever changes again, however often the controller crashes or is resumed.
THEOREM EndedIsFrozen == Spec => EndedRunIsFrozen
<1>1. ASSUME IInv, [Next]_vars, RunEnded
      PROVE  UNCHANGED <<run, node, used, result, gates, active, called>>
  <2>1. ~Projection
    BY <1>1, ProjectionForm DEF IInv, Quiescence, NoPending
  <2>2. UNCHANGED <<run, node, used, result, gates, active>>
    BY <1>1, <2>1, OnlyProjectionsMove
  <2>3. called' = called
    BY <1>1, <2>1, NextCases DEF IInv, Quiescence, Recovery, RecoverDispatch, ReconcileGates,
       Decide, NoDecision, ReturnResult, Dispatch, Mark, CallWorker, AcceptResult, At, Phase,
       RecordPhase, RunPlanGates, RunVerifyGates, AcceptGate, AcceptVerdict, Resume, Crash,
       AcceptApproval, vars, journal, history
  <2> QED BY <2>2, <2>3
<1>2. IInv /\ [Next]_vars =>
        [RunEnded => UNCHANGED <<run, node, used, result, gates, active, called>>]_vars
  BY <1>1
<1> QED BY Invariance, <1>2, PTL DEF Spec, EndedRunIsFrozen
=============================================================================
