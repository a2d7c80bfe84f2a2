------------------------- MODULE GraphRunProperties -------------------------
(***************************************************************************)
(* What a graph run promises, over the state of GraphRun.                  *)
(***************************************************************************)
EXTENDS GraphRun

\* Type correctness of the durable run projection, of the journal's open
\* record and of the controller's memory.
TypeOK ==
    /\ run \in [life : {"created", "running", "waiting", "completed", "halted"},
                outcome : {"none", "succeeded", "failed", "indeterminate"}]
    /\ node \in [Nodes -> [st : NodeStatuses, step : StepStatuses,
                           attempt : Nat, replans : Nat]]
    /\ used \in [DOMAIN NoUse -> Nat]
    /\ active \subseteq Nodes \X Nat
    /\ result \in [Nodes -> [attempt : Nat,
                             report : WorkerReports \cup {"none", "indeterminate"}]]
    /\ gates \in [Nodes -> [attempt : Nat,
                            seen : SUBSET (PlanGates \cup VerifyGates),
                            failed : SUBSET (PlanGates \cup VerifyGates)]]
    /\ verdict \in [Nodes -> {"none", "passed", "failed"}]
    /\ approved \subseteq Nodes
    /\ pending.kind \in {"none", "decision", "result", "observation"}
    /\ marked \subseteq Nodes \X Nat
    /\ phases \in [Nodes -> [phase : {"none", "plan", "execute", "verify"},
                             bound : {"entry", "exit"}, attempt : Nat]]
    /\ ctl.pc \in DrivePoints \cup {"down", "done"}
    /\ called \subseteq Nodes \X Nat
    /\ planned \subseteq Nodes
    /\ calls \in Nat /\ crashes \in Nat

-----------------------------------------------------------------------------
(* Activities: ownership, capacity, at most one physical call.             *)

\* Every active activity is the attempt its node is executing right now, or
\* an attempt of a run that has halted; there are never more of them than
\* physical slots, nor more live nodes than the policy admits.  Retries and
\* replans together cannot buy a node more attempts than the retry policy plus
\* its replans, nor the run more calls than worker_calls.
ActivitiesAreBounded ==
    /\ \A act \in active : /\ act[2] = node[act[1]].attempt
                            /\ \/ node[act[1]].st = "running" /\ node[act[1]].step = "running"
                               \/ run.life = "halted"
    /\ Cardinality(active) <= MaxParallelism
    /\ Cardinality(LiveNodes) <= MaxActiveNodes
    /\ calls <= MaxWorkerCalls
    /\ \A n \in Nodes : node[n].attempt <=
          LowerOf(StepMaxAttempts, MaxRetriesPerStep + 1) + node[n].replans

\* An attempt's Worker is physically called at most once, whatever crashes and
\* recoveries happen: the dispatch marker written before the call is enough.
OneCallPerAttempt == calls = Cardinality(called)

-----------------------------------------------------------------------------
(* The journal: whatever is committed can be projected by any recovery.    *)

\* A committed decision is one the reducer accepts from the state it will be
\* applied to: legal source phase, budget left, a free slot for a dispatch.
\* Otherwise recover would raise on it for ever.
DecisionProjectable ==
    pending.kind = "decision" =>
        /\ Affordable(pending.type)
        /\ pending.type \in StepDecisions =>
              <<node[pending.n].st, node[pending.n].step>> \in DecisionSources[pending.type]
        /\ pending.type = "DISPATCH" =>
              /\ Cardinality(active) < MaxParallelism
              /\ \A act \in active : act[1] # pending.n
        /\ pending.type = "COMPLETE_RUN" => active = {}

\* A committed Worker result belongs to an active activity, and no result is
\* committed for an activity that was never marked as dispatched and called.
ResultProjectable ==
    pending.kind = "result" =>
        ActivityOf(pending.n) \in active \cap marked \cap called

-----------------------------------------------------------------------------
(* Verification and order of the graph.                                    *)

Verified(n) ==
    /\ result[n] = [attempt |-> node[n].attempt, report |-> "succeeded"]
    /\ gates[n] = [attempt |-> node[n].attempt, seen |-> VerifyGates, failed |-> {}]
    /\ DeclaredQualityGate => verdict[n] = "passed"
    /\ n \in ApprovalNodes => n \in approved

\* A node is complete only on a successful result of its last attempt, with
\* every verify gate evaluated and passed for that very attempt; and a node
\* exists only once all its predecessors are complete in this sense.
CompletedIsVerified ==
    \A n \in Instances :
        /\ node[n].st = "succeeded" => Verified(n)
        /\ \A p \in Preds[n] : node[p].st = "succeeded"

\* A quality verdict is never on record before the gate results it sums up:
\* reconciliation treats such a history as a corrupted store.
VerdictAfterGates ==
    \A n \in Nodes : verdict[n] # "none" => VerifyGates \subseteq gates[n].seen

\* A run that completes leaves nothing behind: no live node, no activity in
\* flight, every terminal node succeeded exactly when the outcome says so.
CompletedRunIsQuiet ==
    run.life = "completed" =>
        /\ active = {} /\ LiveNodes = {}
        /\ run.outcome = "succeeded" <=> \A n \in TerminalNodes : node[n].st = "succeeded"

\* What evaluator, reducer and gate reconciliation make of a graph: nodes
\* complete in its order, each on the evidence of its last attempt, and the
\* run completes with all of them.
CompletionIsSound == CompletedIsVerified /\ VerdictAfterGates /\ CompletedRunIsQuiet

\* Nothing of an ended run moves any more, in particular no Worker is called.
EndedRunIsFrozen ==
    [][RunEnded => UNCHANGED <<run, node, used, result, gates, active, called>>]_vars

-----------------------------------------------------------------------------
(* Plan gates, phase transcript, approvals.                                *)

\* A planned node executes only if its plan was evaluated and passed.
PlanGatesGuardExecution ==
    [][\A n \in Nodes :
          node[n].step = "planning" /\ node'[n].step = "running" => n \in planned]_vars

\* A completed node's phase log ends with the exit of the VERIFY phase of its
\* last attempt; by its grammar PLAN, EXECUTE and VERIFY were then recorded.
TranscriptComplete ==
    \A n \in Nodes : node[n].st = "succeeded" =>
        phases[n] = [phase |-> "verify", bound |-> "exit", attempt |-> node[n].attempt]

\* The drive only ever gives up on a run that an uncertain Worker outcome has halted, or that waits for approval.
DriveGivesUpOnlyWhenStuck ==
    ctl.pc = "down" => run.outcome = "indeterminate" \/ run.life = "waiting"

\* While the controller does not crash, the phase log is complete and the drive
\* needs no second attempt.
UninterruptedDrive == crashes = 0 => TranscriptComplete /\ DriveGivesUpOnlyWhenStuck

-----------------------------------------------------------------------------
(* What the caller of a run sees.                                          *)

Ending ==
    CASE run.life = "completed" -> run.outcome
      [] run.life = "halted" /\ run.outcome = "indeterminate" -> "uncertain"
      [] run.life = "halted" /\ run.outcome # "indeterminate" -> "halted"
      [] OTHER -> "open"

Seen(st) ==
    IF st \in {"ready", "running", "waiting", "cancel_requested"} THEN "open" ELSE st

Standing == [n \in Nodes |-> Seen(node[n].st)]

Contract ==
    INSTANCE RunContract WITH end <- Ending, status <- Standing, made <- called, answer <- result

\* However often the controller crashes, between whichever two writes, and is
\* resumed: the run goes as its contract says.
KeepsRunContract == Contract!Spec

-----------------------------------------------------------------------------
(* Progress.                                                               *)

\* A crash in the physical call left an activity that is marked as dispatched
\* and has no result: recovery will neither call its Worker again nor end it.
OutcomeUnknown ==
    ctl.pc \notin {"call", "called"} /\ pending.kind # "result" /\ active \cap marked # {}

\* Every run ends, unless it waits for an approval or the outcome of a call
\* was lost: budgets are finite, and no other crash can leave the journal in
\* a state from which the drive makes no progress.
RunEnds == <>[](RunEnded \/ run.life = "waiting" \/ OutcomeUnknown)

\* Every activity that is dispatched and has no result is reconciled.
ActiveIsReconciled ==
    \A n \in Nodes : [](ActivityOf(n) \in active => <>(RunEnded \/ ActivityOf(n) \notin active))
=============================================================================
