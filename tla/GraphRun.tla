------------------------------ MODULE GraphRun ------------------------------
(***************************************************************************)
(* One graph run of the Harness control plane: the durable graph journal   *)
(* (state projection, decisions, activities, results, observations, phase  *)
(* log) and the controller that drives it, Harness._drive_graph.  The      *)
(* controller is a process that may crash between any two durable writes   *)
(* and be resumed; everything in ctl is lost with it, everything else is   *)
(* in the store.  Every action is one durable write, or one return from    *)
(* the external Worker.                                                    *)
(*                                                                         *)
(* A causal record (decision, activity result, observation) is committed   *)
(* first and projected onto the run state by a second write; pending holds *)
(* the one record that is committed and not yet projected.                 *)
(***************************************************************************)
EXTENDS StepLifecycle, FiniteSets

CONSTANTS
    Nodes,               \* executable nodes of the compiled graph
    Preds,               \* Preds[n]: the nodes n's incoming edges start from
    PlanGates,           \* gates evaluated in the PLAN phase
    VerifyGates,         \* gates evaluated in the VERIFY phase
    DeclaredQualityGate, \* whether Steps declare a quality gate (a verdict)
    StepMaxAttempts,     \* effective_max_attempts of the Steps' retry policy
    ApprovalNodes,       \* Steps whose metadata says approval_required
    Reports,             \* the Worker reports that may occur, plus "indeterminate"
    MaxNodeActivations, MaxActiveNodes, MaxParallelism,
    MaxCrashes,          \* bound on controller crashes
    CrashPoints          \* the places in the drive where a crash may fall

ASSUME GraphAssumption ==
    /\ IsFiniteSet(Nodes) /\ "none" \notin Nodes
    /\ Preds \in [Nodes -> SUBSET Nodes]
    /\ PlanGates # {} /\ VerifyGates # {}
    /\ DeclaredQualityGate \in BOOLEAN
    /\ ApprovalNodes \subseteq Nodes
    /\ Reports \subseteq WorkerReports \cup {"indeterminate"}
    /\ StepMaxAttempts \in Nat \ {0}
    /\ MaxNodeActivations \in Nat \ {0}
    /\ MaxActiveNodes \in Nat \ {0}
    /\ MaxParallelism \in Nat \ {0}
    /\ MaxCrashes \in Nat

VARIABLES
    run,       \* [life, outcome] of the run projection
    node,      \* the projected node instances
    used,      \* consumed budget counters
    active,    \* active activities: <<node, attempt>>
    result,    \* last accepted Worker report of each node: [attempt, report]
    gates,     \* gate observations since the node's last PLAN/VERIFY decision
    verdict,   \* quality verdict since the node's last VERIFY decision
    approved,  \* nodes whose current attempt has an accepted approval
    pending,   \* the committed record that is not projected yet
    marked,    \* activities with a durable dispatch marker
    phases,    \* last record of each node's phase log
    ctl,       \* the controller: where it is, and what it holds in memory
    called,    \* history: the activities a physical Worker call was started for
    calls,     \* history: how many physical calls were started
    planned,   \* history: nodes whose current plan was evaluated and passed
    crashes

journal == <<run, node, used, active, result, gates, verdict, approved, pending,
             marked, phases>>
history == <<called, calls, planned>>
vars == <<journal, ctl, history, crashes>>

-----------------------------------------------------------------------------
NoGates   == [attempt |-> 0, seen |-> {}, failed |-> {}]
NoResult  == [attempt |-> 0, report |-> "none"]
NoPending == [kind |-> "none"]
NoPhase   == [phase |-> "none", bound |-> "exit", attempt |-> 0]
Absent    == [st |-> "absent", step |-> "pending", attempt |-> 0, replans |-> 0]
NoUse     == [turns |-> 0, worker_calls |-> 0, replans |-> 0, retries |-> 0,
              activations |-> 0]

\* The retries counter is sized for every node activation retrying to its limit.
Limit == [turns |-> MaxTurns, worker_calls |-> MaxWorkerCalls,
          replans |-> MaxReplans,
          retries |-> MaxRetriesPerStep * MaxNodeActivations,
          activations |-> MaxNodeActivations]

Affordable(type) == \A c \in DOMAIN used : used[c] + Cost(type)[c] <= Limit[c]

Policy(n) == [approvalRequired |-> n \in ApprovalNodes, maxAttempts |-> StepMaxAttempts]

RunEnded      == run.life \in {"completed", "halted"}
NodeEnded(n)  == node[n].st \in {"succeeded", "failed", "halted"}
Instances     == {n \in Nodes : node[n].st # "absent"}
LiveNodes     == {n \in Instances : ~NodeEnded(n)}
TerminalNodes == Nodes \ UNION {Preds[n] : n \in Nodes}

\* The activity a dispatch of node n created: its identity is the attempt.
ActivityOf(n) == <<n, node[n].attempt>>

\* Where the controller is.  It projects a pending record before anything else.
Idle(pc)          == [pc |-> pc, n |-> "none", todo |-> {}, bad |-> {}, back |-> "none"]
At(pc)            == ctl.pc = pc /\ pending = NoPending
PhasePoints       == {"plan_entry", "plan_exit", "execute_entry", "execute_exit",
                      "verify_entry", "verify_exit"}
DrivePoints       == PhasePoints \cup
                     {"recover", "decided", "mark", "call", "called", "plan_gates",
                      "verify_gates", "gates", "verdict"}

Goto(pc)          == ctl' = [ctl EXCEPT !.pc = pc]
Raise             == ctl' = Idle("down")   \* an exception leaves _drive_graph

-----------------------------------------------------------------------------
Init ==
    /\ run = [life |-> "created", outcome |-> "none"]
    /\ node = [n \in Nodes |-> Absent]
    /\ used = NoUse
    /\ active = {}
    /\ result = [n \in Nodes |-> NoResult]
    /\ gates = [n \in Nodes |-> NoGates]
    /\ verdict = [n \in Nodes |-> "none"]
    /\ approved = {}
    /\ pending = NoPending
    /\ marked = {}
    /\ phases = [n \in Nodes |-> NoPhase]
    /\ ctl = Idle("recover")
    /\ called = {} /\ calls = 0 /\ planned = {}
    /\ crashes = 0

-----------------------------------------------------------------------------
(* What the scheduler may choose.  An option is a decision with its rank;  *)
(* ties within a rank are broken by ordinals, here by any choice.          *)

\* Gate evidence counts only after the phase's own decision, for this attempt.
Observations(n) ==
    [worker   |-> IF node[n].attempt > 0 /\ result[n].attempt = node[n].attempt
                  THEN result[n].report ELSE "none",
     gates    |-> IF /\ node[n].step \in {"planning", "verifying"}
                     /\ gates[n].attempt = node[n].attempt
                  THEN gates[n] ELSE NoGates,
     verdict  |-> IF node[n].step = "verifying" THEN verdict[n] ELSE "none",
     approved |-> n \in approved]

\* A Worker result hydrated for an attempt the node has left: building the
\* step inputs raises, for every node of the run.
StaleWorkerResult(n) ==
    /\ node[n].st \in {"ready", "running"}
    /\ result[n].attempt > 0 /\ result[n].attempt # node[n].attempt

Option(rank, type, n, why) == [rank |-> rank, type |-> type, n |-> n, why |-> why]

Transition(n) == NextTransition(Policy(n), node[n], Observations(n), used)

StepRank(t) == IF t.evidence THEN 0 ELSE IF t.type = "HALT" THEN 1 ELSE 3

\* A dispatch that is already active, or finds no free slot, is no option.
DispatchBlocked(n) == ActivityOf(n) \in active \/ Cardinality(active) >= MaxParallelism

Schedulable ==
    {n \in Nodes : /\ node[n].st \in {"ready", "running"}
                   /\ Transition(n).type = "EXECUTE" => ~DispatchBlocked(n)}

StepOptions ==
    {Option(StepRank(Transition(n)), DecisionOf(Transition(n).type), n, Transition(n).why)
        : n \in Schedulable}

\* The scheduler takes an approved waiting node for runnable, but the drive
\* builds step inputs for ready and running nodes only.
MissingInputOptions ==
    {Option(1, "HALT_RUN", n, "step_lifecycle_input_missing")
        : n \in {m \in approved : node[m].st = "waiting"}}

Activatable ==
    {n \in Nodes : /\ node[n].st = "absent"
                   /\ \A p \in Preds[n] : node[p].st = "succeeded"}

ActivationOptions ==
    IF Activatable # {} /\ used.activations >= MaxNodeActivations
    THEN {Option(1, "HALT_RUN", "none", "node_activation_budget_exhausted")}
    ELSE {Option(5, "ACTIVATE", n, "graph_edge_ready")
            : n \in {m \in Activatable : Cardinality(LiveNodes) < MaxActiveNodes}}

AllWaiting         == LiveNodes # {} /\ \A n \in LiveNodes : node[n].st = "waiting"
TerminalsSucceeded == \A n \in TerminalNodes : node[n].st = "succeeded"
SomeNodeFailed     == \E n \in Nodes : node[n].st \in {"failed", "halted"}

\* Only when the graph has no other candidate: wait, complete or fail the run.
RunOptions ==
    IF ActivationOptions # {} \/ run.life = "waiting" THEN {}
    ELSE CASE AllWaiting ->
                {Option(6, "PROJECT_RUN_WAITING", "none", "only_unresolved_waits_remain")}
           [] LiveNodes = {} /\ TerminalsSucceeded ->
                {Option(7, "COMPLETE_RUN", "none", "succeeded")}
           [] LiveNodes = {} /\ ~TerminalsSucceeded /\ SomeNodeFailed ->
                {Option(7, "COMPLETE_RUN", "none", "failed")}
           [] OTHER -> {}

Options == StepOptions \cup MissingInputOptions \cup ActivationOptions \cup RunOptions

Chosen == {o \in Options : \A other \in Options : o.rank <= other.rank}

-----------------------------------------------------------------------------
(* Recovery and scheduling: the top of the drive loop.                     *)

\* Variants: recover dispatches every active activity again, or none.
EveryActive     == {n \in Nodes : ActivityOf(n) \in active}
NeverRedispatched == {}

\* Active activities the journal holds no dispatch marker for.  A marked one
\* is never dispatched again: the durable resolver says its call is open.
Undispatched == {n \in Nodes : ActivityOf(n) \in active \ marked}

Verifying     == {n \in Nodes : node[n].st = "running" /\ node[n].step = "verifying"}
MissingGates(n) == VerifyGates \ gates[n].seen
\* Variant: recovery does not look at gate evaluations that were cut off.
NothingUnverified == {}

Unverified    == {n \in Verifying : \/ MissingGates(n) # {}
                                    \/ DeclaredQualityGate /\ verdict[n] = "none"}

Resume ==
    /\ ctl.pc = "down" /\ ~RunEnded
    /\ ctl' = Idle("recover")
    /\ UNCHANGED <<journal, history, crashes>>

\* recover: an active activity without a marker is marked and dispatched.
RecoverDispatch ==
    /\ At("recover") /\ ~RunEnded
    /\ \E n \in Undispatched :
          /\ marked' = marked \cup {ActivityOf(n)}
          /\ ctl' = [Idle("call") EXCEPT !.n = n, !.back = "recover"]
    /\ UNCHANGED <<run, node, used, active, result, gates, verdict, approved, pending,
                   phases, history, crashes>>

\* A verifying node that lost its gate evaluation to a crash gets the missing
\* gates evaluated again, and only those, before anything is scheduled.
ReconcileGates ==
    /\ At("recover") /\ ~RunEnded /\ Undispatched = {}
    /\ \E n \in Unverified, bad \in SUBSET VerifyGates :
          /\ bad \subseteq MissingGates(n)
          /\ ctl' = [Idle(IF MissingGates(n) = {} THEN "verdict" ELSE "gates")
                      EXCEPT !.n = n, !.todo = MissingGates(n), !.bad = bad,
                             !.back = "recover"]
    /\ UNCHANGED <<journal, history, crashes>>

\* Variant: the drive does not stop at a run that has ended.
ReadyEvenWhenEnded == At("recover") /\ Undispatched = {} /\ Unverified = {}

ReadyToSchedule ==
    At("recover") /\ ~RunEnded /\ Undispatched = {} /\ Unverified = {}

Decide ==
    /\ ReadyToSchedule
    /\ \A n \in Nodes : ~StaleWorkerResult(n)
    /\ \E o \in Chosen :
          /\ pending' = [kind |-> "decision", type |-> o.type, n |-> o.n, why |-> o.why]
          /\ ctl' = [Idle("decided") EXCEPT !.n = o.n]
    /\ UNCHANGED <<run, node, used, active, result, gates, verdict, approved, marked,
                   phases, history, crashes>>

\* No decision in a waiting run returns to the caller; any other run without
\* a decision, or with a stale Worker result, raises.
NoDecision ==
    /\ ReadyToSchedule
    /\ Options = {} \/ \E n \in Nodes : StaleWorkerResult(n)
    /\ Raise
    /\ UNCHANGED <<journal, history, crashes>>

ReturnResult ==
    /\ At("recover") /\ RunEnded
    /\ ctl' = Idle("done")
    /\ UNCHANGED <<journal, history, crashes>>

-----------------------------------------------------------------------------
(* Projections: the write that follows the commit of a causal record, made *)
(* by the committing call or, after a crash, by recover.                   *)

\* After its own decision the drive goes on with the decision's phase;
\* recover only dispatches, and then looks for the next record.
AfterDecision(type) ==
    LET next == [ENTER |-> "plan_entry", DISPATCH |-> "mark", VERIFY |-> "verify_entry"]
    IN  CASE ctl.pc = "decided" /\ type \in DOMAIN next ->
                [ctl EXCEPT !.pc = next[type], !.back = "execute_entry"]
          [] ctl.pc # "decided" /\ type = "DISPATCH" ->
                [Idle("mark") EXCEPT !.n = pending.n, !.back = "recover"]
          [] OTHER -> Idle("recover")

Projecting(kind) == ctl.pc \in DrivePoints /\ pending.kind = kind

ProjectStepDecision ==
    /\ Projecting("decision") /\ pending.type \in StepDecisions
    /\ LET n == pending.n
           after == ApplyToNode(node[n], pending.type)
       IN  /\ node' = [node EXCEPT ![n] = after]
           /\ active' = IF pending.type = "DISPATCH"
                        THEN active \cup {<<n, after.attempt>>} ELSE active
           /\ approved' = IF after.attempt # node[n].attempt
                          THEN approved \ {n} ELSE approved
           /\ gates' = IF pending.type \in {"ENTER", "VERIFY"}
                       THEN [gates EXCEPT ![n] = [NoGates EXCEPT !.attempt = after.attempt]]
                       ELSE gates
           /\ verdict' = IF pending.type \in {"ENTER", "VERIFY"}
                         THEN [verdict EXCEPT ![n] = "none"] ELSE verdict
           /\ run' = IF run.life \in {"created", "waiting"} /\ after.st = "running"
                     THEN [run EXCEPT !.life = "running"] ELSE run
           /\ planned' = IF pending.type = "ENTER" THEN planned \ {n} ELSE planned
    /\ used' = Spend(used, pending.type)
    /\ pending' = NoPending
    /\ ctl' = AfterDecision(pending.type)
    /\ UNCHANGED <<result, marked, phases, called, calls, crashes>>

ProjectActivation ==
    /\ Projecting("decision") /\ pending.type = "ACTIVATE"
    /\ node' = [node EXCEPT ![pending.n] = [Absent EXCEPT !.st = "ready"]]
    /\ used' = Spend(used, "ACTIVATE")
    /\ pending' = NoPending
    /\ ctl' = AfterDecision("ACTIVATE")
    /\ UNCHANGED <<run, active, result, gates, verdict, approved, marked, phases,
                   history, crashes>>

\* A halt names the node it is about, or none for an exhausted run budget.
ProjectHalt ==
    /\ Projecting("decision") /\ pending.type = "HALT_RUN"
    /\ run' = [life |-> "halted", outcome |-> "none"]
    /\ node' = [n \in Nodes |->
                  CASE n # pending.n -> node[n]
                    [] n = pending.n /\ ActivityOf(n) \in active ->
                          [node[n] EXCEPT !.st = "cancel_requested"]
                    [] OTHER -> [node[n] EXCEPT !.st = "halted", !.step = "halted"]]
    /\ pending' = NoPending
    /\ ctl' = AfterDecision("HALT_RUN")
    /\ UNCHANGED <<used, active, result, gates, verdict, approved, marked, phases,
                   history, crashes>>

ProjectRunDecision ==
    /\ Projecting("decision") /\ pending.type \in {"PROJECT_RUN_WAITING", "COMPLETE_RUN"}
    /\ run' = IF pending.type = "PROJECT_RUN_WAITING" THEN [run EXCEPT !.life = "waiting"]
              ELSE [life |-> "completed", outcome |-> pending.why]
    /\ pending' = NoPending
    /\ ctl' = AfterDecision(pending.type)
    /\ UNCHANGED <<node, used, active, result, gates, verdict, approved, marked, phases,
                   history, crashes>>

\* An uncertain outcome halts node and run and keeps the activity active;
\* any other result only frees the activity, the Step machine reads it next.
ProjectResult ==
    /\ Projecting("result")
    /\ LET n == pending.n
       IN  /\ result' = [result EXCEPT ![n] =
                            [attempt |-> node[n].attempt, report |-> pending.report]]
           /\ IF pending.report = "indeterminate"
              THEN /\ node' = [node EXCEPT ![n].st = "halted", ![n].step = "halted"]
                   /\ run' = [life |-> "halted", outcome |-> "indeterminate"]
                   /\ active' = active
              ELSE active' = active \ {ActivityOf(n)} /\ UNCHANGED <<node, run>>
    /\ pending' = NoPending
    /\ UNCHANGED <<used, gates, verdict, approved, marked, phases, ctl, history, crashes>>

ProjectObservation ==
    /\ Projecting("observation")
    /\ LET n == pending.n
       IN  /\ gates' = IF pending.what = "gate"
                       THEN [gates EXCEPT ![n].seen = @ \cup {pending.gate},
                                          ![n].failed = IF pending.passed THEN @
                                                        ELSE @ \cup {pending.gate}]
                       ELSE gates
           /\ verdict' = IF pending.what = "verdict"
                         THEN [verdict EXCEPT ![n] = IF pending.passed THEN "passed"
                                                     ELSE "failed"]
                         ELSE verdict
           /\ approved' = IF pending.what = "approval" THEN approved \cup {n} ELSE approved
    /\ pending' = NoPending
    /\ UNCHANGED <<run, node, used, active, result, marked, phases, ctl, history, crashes>>

-----------------------------------------------------------------------------
(* The physical dispatch, inside the call that projected the decision.     *)

\* Variant: the dispatch marker is not written before the call.
MarkSkipped == At("mark") /\ Goto("call") /\ UNCHANGED <<journal, history, crashes>>

Mark ==
    /\ At("mark")
    /\ marked' = marked \cup {ActivityOf(ctl.n)}
    /\ Goto("call")
    /\ UNCHANGED <<run, node, used, active, result, gates, verdict, approved, pending,
                   phases, history, crashes>>

CallWorker ==
    /\ At("call")
    /\ called' = called \cup {ActivityOf(ctl.n)}
    /\ calls' = calls + 1
    /\ Goto("called")
    /\ UNCHANGED <<journal, planned, crashes>>

\* The Worker returns and its graph result is committed.
AcceptResult ==
    /\ At("called")
    /\ \E report \in Reports :
          pending' = [kind |-> "result", n |-> ctl.n, report |-> report]
    /\ Goto(ctl.back)
    /\ UNCHANGED <<run, node, used, active, result, gates, verdict, approved, marked,
                   phases, history, crashes>>

-----------------------------------------------------------------------------
(* The phase log and the gates of the PLAN and VERIFY phases.              *)

PhaseRecord(pc, attempt) ==
    [plan_entry    |-> [phase |-> "plan",    bound |-> "entry", attempt |-> attempt],
     plan_exit     |-> [phase |-> "plan",    bound |-> "exit",  attempt |-> attempt],
     execute_entry |-> [phase |-> "execute", bound |-> "entry", attempt |-> attempt],
     execute_exit  |-> [phase |-> "execute", bound |-> "exit",  attempt |-> attempt],
     verify_entry  |-> [phase |-> "verify",  bound |-> "entry", attempt |-> attempt],
     verify_exit   |-> [phase |-> "verify",  bound |-> "exit",  attempt |-> attempt]][pc]

\* Variant: VERIFY is recorded against the running step.
PhaseStepShifted == [plan |-> "planning", execute |-> "running", verify |-> "running"]

PhaseStep == [plan |-> "planning", execute |-> "running", verify |-> "verifying"]

\* The records that may follow the last one of a node's phase log.
PhaseSuccessors(last) ==
    LET Entry(phase, attempt) == [phase |-> phase, bound |-> "entry", attempt |-> attempt]
    IN  IF last.bound = "entry" THEN {[last EXCEPT !.bound = "exit"]}
        ELSE CASE last.phase = "none"    -> {Entry("plan", a) : a \in 0..MaxWorkerCalls}
               [] last.phase = "plan"    -> {Entry("execute", last.attempt + 1),
                                             Entry("plan", last.attempt)}
               [] last.phase = "execute" -> {Entry("verify", last.attempt),
                                             Entry("execute", last.attempt + 1)}
               [] last.phase = "verify"  -> {Entry("execute", last.attempt + 1),
                                             Entry("plan", last.attempt)}

PhaseAccepted(n, rec) ==
    /\ ~NodeEnded(n)
    /\ node[n].step = PhaseStep[rec.phase]
    /\ rec \in PhaseSuccessors(phases[n])

AfterPhase ==
    [plan_entry |-> "plan_gates", plan_exit |-> "recover",
     execute_entry |-> "execute_exit", execute_exit |-> "recover",
     verify_entry |-> "verify_gates", verify_exit |-> "recover"]

\* A record the log rejects raises out of the drive.
RecordPhase ==
    /\ ctl.pc \in PhasePoints /\ pending = NoPending
    /\ LET n == ctl.n
           rec == PhaseRecord(ctl.pc, node[n].attempt)
       IN  IF PhaseAccepted(n, rec)
           THEN phases' = [phases EXCEPT ![n] = rec] /\ Goto(AfterPhase[ctl.pc])
           ELSE Raise /\ UNCHANGED phases
    /\ UNCHANGED <<run, node, used, active, result, gates, verdict, approved, pending,
                   marked, history, crashes>>

\* Plan gates leave no trace when all of them pass.
RunPlanGates ==
    /\ At("plan_gates")
    /\ \E bad \in SUBSET PlanGates :
          /\ ctl' = IF bad = {} THEN [ctl EXCEPT !.pc = "plan_exit"]
                    ELSE [ctl EXCEPT !.pc = "gates", !.todo = PlanGates, !.bad = bad,
                                     !.back = "plan_exit"]
          /\ planned' = IF bad = {} THEN planned \cup {ctl.n} ELSE planned
    /\ UNCHANGED <<journal, called, calls, crashes>>

RunVerifyGates ==
    /\ At("verify_gates")
    /\ \E bad \in SUBSET VerifyGates :
          ctl' = [ctl EXCEPT !.pc = "gates", !.todo = VerifyGates, !.bad = bad,
                             !.back = "verify_exit"]
    /\ UNCHANGED <<journal, history, crashes>>

\* One observation per gate, each committed and projected by itself.
AcceptGate ==
    /\ At("gates")
    /\ \E g \in ctl.todo :
          LET rest == ctl.todo \ {g}
              next == IF rest # {} THEN "gates"
                      ELSE IF ctl.back = "plan_exit" \/ ~DeclaredQualityGate
                      THEN ctl.back ELSE "verdict"
          IN  /\ pending' = [kind |-> "observation", n |-> ctl.n, what |-> "gate",
                             gate |-> g, passed |-> g \notin ctl.bad]
              /\ ctl' = [ctl EXCEPT !.pc = next, !.todo = rest, !.bad = @ \ {g}]
    /\ UNCHANGED <<run, node, used, active, result, gates, verdict, approved, marked,
                   phases, history, crashes>>

AcceptVerdict ==
    /\ At("verdict")
    /\ pending' = [kind |-> "observation", n |-> ctl.n, what |-> "verdict",
                   passed |-> AllGatesPassed(gates[ctl.n])]
    /\ Goto(ctl.back)
    /\ UNCHANGED <<run, node, used, active, result, gates, verdict, approved, marked,
                   phases, history, crashes>>

-----------------------------------------------------------------------------
(* The environment: a crash of the controller process, an approval.        *)

Crash ==
    /\ ctl.pc \in CrashPoints /\ crashes < MaxCrashes
    /\ crashes' = crashes + 1
    /\ ctl' = Idle("down")
    /\ UNCHANGED <<journal, history>>

\* Nothing in the repository sends this; accept_graph_observation takes it.
AcceptApproval ==
    /\ ctl.pc = "down" /\ pending = NoPending /\ ~RunEnded
    /\ \E n \in ApprovalNodes \ approved :
          /\ node[n].st = "waiting"
          /\ pending' = [kind |-> "observation", n |-> n, what |-> "approval", passed |-> TRUE]
    /\ UNCHANGED <<run, node, used, active, result, gates, verdict, approved, marked,
                   phases, ctl, history, crashes>>

\* The run has ended and its driver has returned.
Finished == RunEnded /\ ctl.pc \in {"down", "done"} /\ UNCHANGED vars

Recovery   == RecoverDispatch \/ ReconcileGates \/ Decide \/ NoDecision \/ ReturnResult
Projection == \/ ProjectStepDecision \/ ProjectActivation \/ ProjectHalt
              \/ ProjectRunDecision \/ ProjectResult \/ ProjectObservation
Dispatch   == Mark \/ CallWorker \/ AcceptResult
Phase      == RecordPhase \/ RunPlanGates \/ RunVerifyGates \/ AcceptGate \/ AcceptVerdict
Drive      == Recovery \/ Projection \/ Dispatch \/ Phase

Next == Resume \/ Drive \/ Crash \/ AcceptApproval \/ Finished

Spec == Init /\ [][Next]_vars

\* The driver keeps going, the Worker call it waits for returns, and a run
\* that lost its driver is resumed.
Fairness == WF_vars(Drive) /\ WF_vars(Resume)
FairSpec == Spec /\ Fairness
=============================================================================
