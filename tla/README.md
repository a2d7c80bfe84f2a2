# TLA+ verification of the Harness control plane and its services

The repository is a Python platform that runs research and news workloads as
*graph runs*: a compiled graph of Steps is driven by the Harness control plane,
every Step is executed by an external Worker, and deterministic gates decide
whether its result counts. Around it stand services with a state of their own: a
Redis task queue, task schedules, a supervisor of physical attempts, a budget
ledger and a durable event store. This directory models the parts whose
correctness depends on interleavings, crashes, lost replies and time, and leaves
the data transformations around them alone.

Paths below are relative to `src/`.

## Inventory

| Component | State it keeps | Operations | Hard behaviour | What makes it correct |
|---|---|---|---|---|
| Step lifecycle (`framework/harness/control_plane/step_lifecycle.py`) | none, a pure function of node, observations and budget | `next_transition` | budgets at the limit, missing observations | proposes only transitions the reducer accepts |
| Scheduler (`control_plane/scheduler.py`) | none for graph runs | `_next_graph_decision` | arbitration, slots | one admissible decision, or none |
| Evaluator (`control_plane/graph_evaluator.py`) | none | `evaluate` | order of activations, end of a run | no node before its predecessors, no premature completion |
| Applier and runtime (`control_plane/graph_application.py`, `graph_runtime.py`) | the durable journal: decisions, activities, results, observations, projection | `apply_decision`, `accept_activity_result`, `accept_observation`, `recover` | crash between commit and projection | whatever is committed can be projected once |
| Drive loop (`control_plane/harness.py`) | in-memory copies of worker and gate results | `_drive_graph`, gate evaluation and reconciliation, phase records | crash at any write; exceptions | completes only verified nodes; ends |
| Physical dispatcher (`framework/harness/runtime/graph_dispatcher.py`) | live calls, quarantine | `dispatch`, `reconcile` | recovery after a call of unknown outcome | at most one call of an attempt |
| Activity executor and output slot (`runtime/activity_executor.py`, `infrastructure/storage/harness/sqlite_node_output.py`) | one fenced output slot per node, terminal evidence per activity | `execute`, `recover_committed_output`; acquire, stage, commit, discard, revoke | several controllers of one run | newest lease only; successes backed by a committed output |
| Phase log (`control_plane/durable_events.py`) | last phase record of each node | `record_graph_phase_transition` | separate write | PLAN, EXECUTE, VERIFY in order |
| Attempt supervisor (`framework/shared/attempts.py`) | capacity, local budget, retry credits, lifecycle facts | `run` | deadlines, abandoned threads, nested calls, failing sinks | capacity is live work; facts and counters agree |
| Budget ledger (`framework/governance/budget/ledger.py`, `framework/llm/budget/tracker.py`) | reservations, settlements, a stream of facts | reserve, settle, release, mark indeterminate, replay | over-commitment, failed appends | never above a limit; recovery reproduces it |
| Redis task queue (`infrastructure/storage/workers/redis_queue.py`) | streams, pending list, lease hashes, counters, dead letters | enqueue, lease, reclaim, renew, ack, fail, requeue | expiry, slow workers, lost replies | one settlement by the newest lease, no task lost |
| Worker service (`interfaces/services/worker_service.py`) | the lease in hand, a renewer thread | `run_once`, `run_loop` | renewal against expiry, refused tasks | every task is settled |
| Task scheduler (`framework/workers/scheduler/`, `interfaces/services/schedule_service.py`, `infrastructure/storage/local_json/schedule_store.py`) | last run of each schedule, in one JSON file | `evaluate`, `tick`, save, delete | catch-up, whole-file saves of two processes through one temporary file | fires when due, once, and goes on |
| Event store (`infrastructure/storage/events/sqlite.py`, `framework/events/runtime/`) | streams, deliveries, checkpoints, inbox, dead letters | append, register, claim, settle, recover, pause, retire, requeue, redeliver | expired leases, late settlements, repairs | in order per stream, one effect, every delivery settled |
| Graph Waits (`framework/harness/waits/`, `control_plane/graph_wait_*.py`) | registrations, inbox, timers | put and consume signals, poll timers | early signals, timer against signal | each Wait resumes once |
| Side effects (`framework/harness/side_effects/`, `infrastructure/storage/harness/sqlite.py`) | decisions, attempts, outcomes | reserve, acquire, renew, finish, reconcile | lost outcome of an effect | an effect is applied at most once |
| TaskPlan (`framework/harness/task_plan/`) | plan versions, task states, its own ledger | admit, start, settle, reclaim, patch | a second scheduler | only accepted plan versions run |
| Local queue (`framework/workers/queue/in_memory.py`) | queues, in-flight leases | as the Redis queue | pause, reclaim, retry | as the Redis queue, one process |
| Subagents, agent loop, LLM routing, memory, RAG, skills, tools, backend, interfaces | mostly data | | | |

How they interact. The drive loop calls `recover` (runtime), the verify-gate
reconciliation, the evaluator and the scheduler in this order; it commits the
chosen decision through the runtime, whose projection of a dispatch calls the
physical dispatcher *inside the same call*; the dispatcher runs the Worker through
the activity executor, which stages and commits the output in the node's slot, and
commits the result through the control plane; only then does the drive write the
phase record and evaluate gates. Every arrow of this chain is a durable write a
crash can separate from the next one. A Worker's physical calls run under the
attempt supervisor and spend through the budget ledger. Schedules enqueue tasks,
the queue hands them to workers, and a task may start a graph run. The queue and
the control plane share no state: a task that is delivered again while its first
worker is still busy gives the run a second controller, which is what `NodeOutput`
is about.

## Modules

| Module | Models |
|---|---|
| `StepLifecycle` | the Step machine and the reducer rules: proposal, decision, legal source states, cost, effect on a node |
| `GraphRun` | one run and one controller: journal, Worker, phase log, crashes |
| `RunContract` | what a run promises its caller, without journal, controller, phases, gates and crashes |
| `NodeOutput` | one node and several controllers: dispatcher, executor, output slot |
| `AttemptSupervisor` | calls of `run`, their threads, capacity, budgets and facts |
| `BudgetLedger` | the ledger over a tree of scopes, its facts, the threads that spend |
| `TaskLease` | the Redis queue and its workers |
| `TaskContract` | what a task queue promises, without leases, workers and crashes |
| `TaskSchedule` | schedules, their clock, the file and the processes that use it |
| `EventDelivery` | the delivery ledger of one subscription and its workers |
| `*Properties` | the properties of each |
| `GraphRunProofs`, `GraphCompletionProofs` | inductive invariants and theorems of `GraphRun`: calls and results; decisions, activities, completion, the uninterrupted drive and the contract |
| `TaskLeaseProofs` | those of `TaskLease`: settlement and the contract; tokens, conservation and retries |
| `AttemptSupervisorProofs`, `BudgetLedgerProofs`, `NodeOutputProofs`, `TaskScheduleProofs`, `EventDeliveryProofs` | those of the module they name |
| `MC*` | instances for TLC |

Some definitions are preceded by one marked *Variant*. It is the definition with
a plausible mistake and used by nothing: substituting it shows that a property
is sensitive to that piece of the code.

### GraphRun

The journal is `run, node, used, active, result, gates, verdict, approved,
pending, marked, phases`. `pending` is the record that has been committed and
not projected (`recover` raises if there were more than one). `ctl` is everything
the controller holds in memory, including its program counter; a crash erases
it. The names of the program counter follow `_drive_graph`:

    recover -> decided -> (projection) -> plan_entry -> plan_gates -> plan_exit
                                       -> mark -> call -> called -> execute_entry -> execute_exit
                                       -> verify_entry -> verify_gates -> gates -> verdict -> verify_exit

Each action is one durable write, or the return of the Worker. `Raise` is an
exception that leaves `_drive_graph`; the caller may resume (`Resume`,
`recover_and_run`).

Abstracted: ties between options of equal rank and the order in which gates are
committed are arbitrary choices (a superset of the code's ordinals); checksums,
identities and evidence digests are replaced by the attempt they bind; the records
of the activity store and of the LLM budget are folded into the Worker's report
(`llm_halt` for an invalid or exhausted budget fact, `indeterminate` for an
unconfirmed termination). The dispatcher is the production one: it has the durable
resolver.

Left out: control nodes, repair routes, compensation, cancellation, side effects,
the record of verified outputs, a second controller (for one node: `NodeOutput`).

`RunContract` knows how the run and each node stand, which Worker calls were made and
the last answer to each node's calls. `GraphRunProperties` instantiates it: `Ending` is
the public status of the run, `Standing` takes every active node status for open, the
calls are the physical ones, not the dispatches, and an answer counts when it is
projected. `KeepsRunContract` states that a run implements it.

### NodeOutput

`active, tried, result, evidence, callers` is the part of the journal that
concerns one node, `leases, current, staged, committed` its output slot. Every
method of the SQLite resource is one IMMEDIATE transaction and one action; a lease
is its generation, a result and its evidence are a status and the lease whose
candidate they carry. The same result rebuilt from the recorded evidence has
another `evidence_ref` and conflicts with the first one, hence `via`.

There may be several controllers because the queue redelivers a task whose slow
worker still drives the run, and nothing excludes the second one: the dispatch
marker (`GRAPH_WORKER_CALLED`, a stable event id) is appended idempotently. It is
read by `reconcile` before a dispatch, never between marking and calling.

One step where the code has several: commit and projection of a result
(`GraphRun` separates them) and the activity record with its result event. A lost
race on the journal's compare-and-set raises and is a `Crash`. The production
dispatcher passes no event sink, so the terminal fact before `complete` is no step.
Left out: the in-memory slot, receipts, compensation, the business materializer.

### AttemptSupervisor

Each call of `run` has a supervising thread (`pc`) and an attempt thread
(`worker`); an inline call has one for both, a nested call is made by the callable
of its parent. Actions are named after the code's stages: gate, capacity,
reservation of the local attempt under the budget's lock, recheck, start with the
durable fact, waiting, grace, finalize, terminal fact, complete. Sinks, starts,
finalizers and cleanups may fail at each of them. Time is a window that is open or
over; a child's never outlasts its parent's. Left out: soft sinks, cancel events
that belong to execution limits, the arithmetic of deadlines.

### BudgetLedger

`committed` and `reserved` per scope, `record` per operation, `stream` the durable
facts. Every method holds one RLock and is one action; what a thread read between
two of them may be stale: the remaining amount it sizes its request by, and the
revision of the check, which `tracker.py` reads after the lock. Three amounts
(calls, input, output) and the derived total stand for all measures. An append may
fail, or be stored and its reply lost. Left out: expiry (no live caller), preflight,
snapshots, legacy imports.

### TaskLease and TaskContract

A message is a stream entry with its lease hash. Each Lua script is one atomic
action and each Redis reply may be lost, after which the client repeats the
script: `acquire` recognises the lease its own call created, `reclaim` does not,
and the settling scripts answer `complete` without acting again. The lease
identity is represented by the fencing token (`first` marks a lease drawn by the
`lease_one` call that read the entry). `counter` is the per-task hash: token and
attempts survive retries and requeues. Time is `Tick`. A held lease runs out
only by a fault, because its renewer wakes four times per lease; a worker that
was dropped or crashed renews nothing. A task in `Poisoned` has an execution
policy the service refuses: it is dropped without being settled and reclaimed
again. The idle threshold of a reclaim is any choice (`FindNothing`), its window
the oldest `PendingWindow` entries.

`TaskContract` knows tasks, items that wait or are settled, a dead-letter list and
an operator. `TaskLeaseProperties` instantiates it with a refinement mapping that
forgets leases, tokens, workers and the pending list; `KeepsContract` states that
the queue implements it.

### TaskSchedule

A clock of minutes. `store` is the JSON file, `temp` the temporary file beside it, whose
name all processes share, `proc` what each process has read. A tick loads all schedules,
enqueues what is due, then saves schedule by schedule. The save of a run state looks its
schedule up (`Find`), reads the whole file once more (`Load`), truncates the temporary
file (`Open`), writes its text (`Fill`) and renames it (`Rename`), five steps between
which another process may act; an edit or deletion has the last four only.

A file is absent, empty, garbled or a whole JSON text (`File`), and a load of anything but
a whole text raises: a tick does nothing then, a save gives up and the tick's remaining
saves are not made. Files behave as on POSIX: an open file stays open when it is renamed,
so `handle` says which of the two a process is writing by now, or that the file it writes
has been replaced and is gone; and `Rename` publishes what the temporary file holds at
that moment, whoever wrote it, or raises when another process has renamed it. A text is
written by one call (`write_text` hands it to the file when it closes it); over the text of
another process it leaves the end of that one if it was longer, which the model leaves open
(`Written`). A process that dies while it writes leaves nothing, all or a part.

The due times and saves a process holds are sets, and `NextDue` and `NextSave` choose
from them in the order of the listing, which sorts by id (`Place`). Ticks go on in
one process while another edits or deletes. `fired` counts the enqueues of every due
time and saturates at `Many`. The code evaluates in UTC and ignores the timezone
field, so does the model. Left out: manual triggers, disabled schedules, a schedule
file that does not exist yet (it reads as one without schedules).

### EventDelivery

One subscription of the SQLite store. A delivery is an event and a generation (1
from append or registration, higher from redelivery and requeue). A lease is
identified by the attempt number, because recovery clears it; expired and due are
flags that time sets, for each delivery on its own (a superset of the code, where
a batch expires together). `Transactional` chooses between the inbox strategy, in
which effect and inbox row are one transaction (the
`InboxTransactionalEffectRunner` protocol, implemented by tests only), and a target
outside the transaction that ignores a key it has seen. Left out: Postgres (a
second implementation of the port), projections, rebuilds, the backlog other
subscriptions share.

## Runs

| Run | Instance | Question |
|---|---|---|
| `core` | a, b -> c, b needs an approval, 1 slot, 2 live nodes, plan gate, 2 verify gates and a verdict, 1 retry, 1 replan, 14 turns, 4 calls, 2 crashes anywhere | safety, refinement and termination of one run at its limits |
| `f_plan`, `f_dispatch` | one node, 1 crash | disagreements, see below |
| `node_output` | 3 controllers, 2 activities, 1 crash | the slot under racing controllers |
| `attempts` | a call, its nested call, an inline call of the same operation; capacity 2, 2 attempts, 1 credit | the supervisor's accounts, publication and end |
| `budget` | 2 nested scopes with limits, 3 threads, 2 under one operation id, 1 failed or lost append | the ledger's accounts |
| `lease` | 1 task, 2 workers, 2 attempts, lease of 2 ticks, 1 requeue, 2 faults | fencing, conservation, refinement |
| `lease_progress` | 2 tasks, one poisoned, 2 workers, window of 2, 2 faults, fair | the good task is settled |
| `schedule` | cron and interval, window of 2, one ticker and an editor, 1 edit, 1 fault, fair | when and how often schedules fire |
| `f_schedule` | cron minutes 4 apart, window 3, no fault | disagreement, see below |
| `events` | 2 events of a stream, 2 workers, batches of 2, 2 attempts, 1 repair, inbox transactions | order, effects, checkpoints, limits |
| `events_progress` | 2 events, 2 workers, single claims, a pause, a crash, no inbox, fair | every delivery is settled |

Why the bounds are enough. The interesting states of a run are a record between
commit and projection, a gate evaluation cut in two, an attempt lost in a call, and a
counter at its limit; two crashes combine any two of the first three, two verify
gates allow a partial evaluation, four calls for three nodes allow a retry or a
replan to consume what another node needs, and with one slot the second branch waits.
In `node_output` one controller is overtaken by a second while a third, slower one
still works for the earlier activity. In `attempts` a nested call needs its parent's
slot and its own while a call of the same operation competes for the budget's lock.
In `budget` the outer scope is filled from both sides and two threads meet on one
operation. For the queue two workers and one task give every order of one old and one
new lease; two faults combine a lost reply with an expiry, and one requeue meets the
live counter of a task that has failed. A second task matters only for the reclaim
window. In `schedule` the window is shorter than the outage a single fault can cause,
and one edit and one fault give every overlap of two saves and a death in it; one-off
dates, which share nothing with the other kinds but the file, are evaluated in
`f_schedule` and in the proofs. Two events are enough for overtaking, two workers for
a late settlement, one repair for a second generation. Every action fires in some
passing run.

Deadlock is checked except in `events`, `events_progress` and `node_output`, which
may really stop: all is settled and the bounds on publishers, operators and
activities are used up. Symmetry (tasks, workers, events, controllers) is used
only in runs without liveness properties, over values the specifications treat
alike.

Type invariants are stated for every proved module (`GraphRun`, `TaskLease`,
`BudgetLedger`, `NodeOutput`, `AttemptSupervisor`, `EventDelivery`); `core` checks its
own, the others are proved.

## Fairness

`GraphRun`: weak fairness of the drive as a whole (a Python loop on a live
process; the Worker call is bounded by its attempt deadline) and of `Resume`,
which stands for the operator or service that calls `recover_and_run` on a run
without a driver. Nothing is assumed of the Worker's outcome, of approvals or of
crashes. `RunEnds` therefore excepts a run that waits for an approval and one that
lost a Worker call with an unknown outcome (`OutcomeUnknown`).

`TaskLease`: workers poll, handlers end (they run under a deadline), time passes.
`Reclaim` of each message is strongly fair: `run_once` tries it after every empty
poll and a dropped task's lease is live at the poll that follows at once, so that a
refused task cannot be the only one that is ever found, provided
`reclaim_stale_ms` is set (it is off by default) and exceeds `block_ms`, that new
tasks stop arriving, and that faults are finitely many.

`AttemptSupervisor`: the supervising thread and the attempt thread up to the
callable are scheduled. The callable, the clock and the callers owe nothing: the
liveness property starts from a deadline that has passed or a cancellation.

`TaskSchedule`: the ticking process goes on. `EventDelivery`: the host calls
`dispatch_batch` again and again, consumers return, leases and delays run out;
nothing is asked of publishers and operators. The loop itself is not in the
repository: only `scripts/durable_event_benchmark.py` calls `dispatch_batch`.

## What the runs show

* A Worker is called at most once for an attempt, a result is never unprojectable,
  and no committed decision is ever refused by the reducer: the places that count
  budgets and slots agree.
* A node completes only with all verify gates passed for its last attempt, even
  when a crash cuts the evaluation; a run completes only when it is quiet; every
  run ends or waits for a reason.
* An approved Step of a resumed run is halted (`step_lifecycle_input_missing`),
  because the drive builds Step inputs for ready and running nodes only.
* Several controllers of a run do call the Worker more than once (the marker is no
  lock), but only the newest lease publishes, a success always names an output
  committed for its activity, and the first result is final.
* A slot of the supervisor's capacity lives exactly as long as an admission or a
  thread; no call starts below an attempt that has ended; counters and facts agree
  on every failure path.
* No scope of the ledger exceeds its limit although requests are sized by stale
  reads, and replaying the facts gives the live ledger.
* The queue settles a message only under its newest lease and implements the
  contract; a task is neither lost nor multiplied, except by a requeue cut off
  between its two calls, which leaves exactly one copy more (`split`).
* A poisoned task is reclaimed for ever, `acquire` and `reclaim` count its attempts
  without a limit; it occupies a place of the window for good. As many poisoned
  tasks as the window has places would hide every later entry; the run has one
  place left.
* Schedules fire on their grid only, and the file never names a run that was not
  enqueued. A due time is enqueued once, once more for each fault, and up to twice more
  for each edit: the editor may rename away the tick's temporary file, which ends the
  tick's saves, and then write a stale text through its open file into the one just
  published. With one extra firing per edit TLC finds this trace.
* A cron schedule goes on as long as its minutes are within the window and the file can
  be read. Where two processes save at the same time it may be lost, see below.
* Effects of a stream keep its order except over a dead letter, happen once with
  inbox transactions, and the checkpoint is the frontier of the settled deliveries.

### Disagreements between code and text

Shown by runs:

* `f_dispatch`: `reconcile` never authorizes an activity with a marker and no
  result; the comment in `recover` says each must be reconciled. The run then
  has no decision and raises on every resume. The code's choice is the one
  that makes `OneCallPerAttempt` true.
* `f_plan`: a crash after entering PLAN and before a failed plan gate is
  committed lets the node execute with a plan no gate has passed.
* `f_schedule`: a cron schedule whose minutes are farther apart than the catch-up
  window (1440 minutes), a weekly one for instance, fires once and then scans the
  same empty window for ever.

Met while modelling, kept inside the properties as the exceptions they make:

* The temporary file of the schedules has one name for all processes
  (`schedule_store.py:83`). An editor that truncates it between the tick's `write_text` and
  `replace` makes the tick publish an empty file. The editor's own text repairs it if it
  lives; if it dies, or if the two texts overlap and differ in length, the file stays
  unreadable, and since every operation reads it first no schedule fires again and none
  can be edited or deleted (`Lost`, which `CronGoesOn` excepts and `LostForEver` proves
  final). Nothing in the repository says that two processes may not use the file or that
  it survives; `AloneKeepsTheFile` proves that one process alone never loses it.
* A crash around a phase record leaves a hole in the log of a completed node
  (`UninterruptedDrive` promises a complete transcript without crashes only).
* A cancelled attempt of the supervisor whose nested call has an unknown effect is
  recorded as cancelled, without the indeterminacy of its descendant.
* The revision in a budget check is read after the ledger's lock and may belong to
  another operation's fact; verification then refuses a correct check
  (`VerifiedCheckIsTheOutcome` speaks of verified ones).
* After an append that was stored but whose reply was lost, the ledger issues the
  same revision again; the stream then holds it twice and is no longer contiguous,
  which a replay refuses (`RecoveryReproducesLedger` excepts such a stream).
* `acquire_after_admission` (`sqlite_node_output.py:83`) clears the committed
  output of any other activity as that of an earlier one, but does not check which
  of the two is the newer: a slow controller of an old activity wipes the output of
  a later, successful one. The result survives in the journal, hence `outputs`.
* An overtaken attempt that adopts the output of another controller
  (`activity_executor.py:360`) records its own failure as terminal evidence beside
  a successful result; the owner of the output then raises a replay mismatch
  (the exception in `EvidenceDecides`).

## Proofs

All theorems hold for every value of the constants under the named assumptions of
the modules. Each follows from an inductive invariant that TLC checked first on
small instances, as far as TLC can evaluate it (the formulas about all numbers excepted).

| Module | Theorem | Statement |
|---|---|---|
| `GraphRunProofs` | `TypeCorrect` | `Spec => []TypeOK` |
| | `AtMostOneCall` | `Spec => []OneCallPerAttempt` |
| | `ResultsProject` | `Spec => []ResultProjectable` |
| | `EndedIsFrozen` | `Spec => EndedRunIsFrozen` |
| `GraphCompletionProofs` | `DecisionsProject`, `ActivitiesBounded`, `CompletionSound` | `DecisionProjectable`, `ActivitiesAreBounded`, `CompletionIsSound` |
| | `UninterruptedDriven` | `UninterruptedDrive`, for graphs without a cycle |
| | `RunImplements` | `Spec => KeepsRunContract` |
| `TaskLeaseProofs` | `Types`, `Pending`, `Final` | types, `PendingIsUnsettled`, `SettledIsFinal` |
| | `Implements` | `Spec => KeepsContract` |
| | `Fenced`, `Conservation`, `Bounded` | `LeasesAreFenced`, `TaskIsConserved`, `RetriesAreBounded` |
| `AttemptSupervisorProofs` | `CapacityHeld`, `Counted` | `CapacityIsLiveWork`, `AttemptsAreCounted` |
| | `CommitsDeterminate`, `NoLateWork` | `CommittedOutputIsDeterminate`, `NoWorkBelowAnEndedAttempt` |
| `BudgetLedgerProofs` | `Types`, `Limits`, `DecidedOnce` | types, `WithinLimits`, `OperationsAreDecidedOnce` |
| | `Paid`, `ChecksTell` | `DispatchIsAccounted`, `VerifiedCheckIsTheOutcome` |
| | `Recovers` | `RecoveryReproducesLedger` |
| `NodeOutputProofs` | `Fenced`, `Backed`, `Decided`, `Final` | `SlotIsNewest`, `SuccessIsBacked`, `EvidenceDecides`, `ResultsAreFinal` |
| `TaskScheduleProofs` | `WhenDue`, `SavedBacked` | `FiresOnlyWhenDue`, `SavedRunsWereEnqueued` |
| | `OncePerDueTime` | `FiresOncePerDueTime`, when at most one process ticks |
| | `AloneKeepsTheFile`, `LostForEver` | one process never spoils the file; a lost file stays lost |
| `EventDeliveryProofs` | `Final`, `Limits` | `TerminalIsFinal`, `LimitsHold` |
| | `Checkpointed`, `Exactly` | `CheckpointIsFrontier`, `ExactlySubscribed` |
| | `Once`, `InOrder` | `EffectExactlyOnce`, `EffectsInOrder` |

The assumptions only say what the constants are: limits are numbers, sets of nodes,
calls, tasks, events, workers and controllers are finite, and a value that stands for
absence (`NoTask`, `NoCall`, the node name `"none"`) is none of the real ones. Two
theorems have a hypothesis of their own. `OncePerDueTime` is about at most one process
that ticks. `UninterruptedDriven` is about graphs in which every nonempty set of nodes
has one without a predecessor in the set (`Acyclic`): the structural validation rejects
any cycle but a declared bounded loop (`_contains_undeclared_cycle`,
`graph/validation/structural.py:161`), and those loops are not modelled. All others
hold for predecessors with cycles too, and no theorem assumes that the parents of
calls or the scopes of a budget form none.

`GraphRunProofs`. `IInv` adds to the theorems' invariants

* `Shapes`: the fields of the open record and of the controller's memory at each
  program point, and the steps a ready or running node can be in;
* `Attempts`: no active or marked activity is ahead of its node's attempt, a
  running step has its current attempt in flight or answered, and a pending
  dispatch comes from a planned or retried step, so that it opens a new attempt;
* `Calls`: every called activity is marked; at `mark` the activity is in flight
  and unmarked, at `call` marked and not called, at `called` all three. The marker
  written before the call is therefore enough for at most one call;
* `Quiescence`: once the run has ended no record is pending and the controller is
  at a point from which nothing is projected or dispatched any more.

There is one lemma per conjunct; each splits `Next` into its actions and treats the
actions that do not touch the variables concerned together.

`GraphCompletionProofs`. `CInv` adds to `IInv` what lies between the choice of a
decision and its projection, which are two writes with crashes in between:

* `DecisionFits`: the open decision is one the scheduler could choose in the present
  state (budget, slots, source phase, predecessors, no activity in flight); it holds
  because nothing but its own projection is written while it is open;
* `GateWork` and `ObservationFits`: gates are evaluated in memory and recorded one by
  one. The node stays in the phase they belong to, and what is still to do plus what
  is on record or in the open record is all of VERIFY. A crash drops only the former;
* `Ownership`, `Counters`, `AttemptsLeft`: the activities in flight are current
  attempts of executing nodes and each was paid for; retries spent are at most the
  pairs (node, retry) its attempts can stand for, which bounds them for any graph;
* `Evidence`: what each later phase of a node says about its execution, approval and
  gates.

`UninterruptedDriven` adds `Smooth`, which holds until the first crash:

* `OwnRecords`: the record that is open is the controller's own, so that nothing is
  left for a recovery;
* `StopsOnlyStuck`: a drive stops only with an unknown effect or a run that waits;
* `InHand`: nothing is in flight and no result outstanding but what the controller
  has in hand;
* `Transcribed`: the phase record the controller is on its way to (`NextRecord`) is
  the next one the log accepts, and the log of every other node ends with the exit of
  the phase the node's step comes from (`Logged`).

That the scheduler always finds a decision (`DecisionExists`) takes a node that has not
succeeded and whose predecessors all have, which `Acyclic` gives; whatever its step is,
one of the scheduler's options applies to it, since nothing is in flight.

`RunImplements` adds two conjuncts to `CInv`. `Recorded`: the last attempt of a node is
answered, or in flight and one ahead of the last answer; so calls are numbered like
attempts, a call is the next attempt (`CallsSoFar`), and a node that ends has no call
unanswered. `FailureFits`: an open decision to fail a node rests on a report that is not
a success. Projections of activations, completions, failures, halts, results and the end
of a run and the physical call are steps of the contract; every other action - commits,
markers, gates, phase records, recovery, crashes - is a stutter (`HiddenSteps`).
`EndedIsFrozen` says more about an ended run than the contract, which does not know of
budgets and gates; no run checks it by itself.

`AttemptSupervisorProofs`. `SInv` describes one call (`Life`, `Asked`, `Published`) and
one edge of the tree of calls: `Nested` (a call is made by its parent's running
callable) and `Flagged` (the parent knows of an effect that is unknown or of a
callable that lives on, by the time the call lets go of it). `CapacityHeld` counts
`Holders`, the admissions past the semaphore and the threads alive, against `active`;
`Counted` relates the budget, its lock (`Reserved`: a reservation is what holds it)
and the attempt numbers, which are those up to `used` without a gap.

`BudgetLedgerProofs`. `TypeOK` and `WithinLimits` are inductive together: that a
request is never negative, however far a scope has been drawn down when it is
sized, is what keeps a settlement above its reservation from lowering a total, and
a failed append restores the totals it found. `Paid` follows a thread that is alone
with its operation (`Accounted`); recoveries of its record by others leave it open or
settled. `ChecksTell` needs `Faithful`: as long as revisions number the stream, each
terminal fact agrees with its record, up to the one revision of an unknown outcome;
and `Dated`: no record or check is ahead of the ledger. `Recovers` needs no induction
over the stream: a replay is a function of the number of facts read
(`IsReplay`), two functions that satisfy its equation agree by their least difference,
and the replay of a longer stream is that of the shorter one and one value more
(`Replayable`: such a function exists). What is left is that each operation changes
the live ledger as the replay of the fact it appends does; an append that was stored
though it raised leaves the stream ahead of the ledger for good.

`TaskLeaseProofs`. `Shapes` gives types, that the dead letter an interrupted requeue
still has to remove is there, and that a worker's message is one that was read;
`Settlement` (what was never read is new, what is pending is not settled, what is
settled is closed under the token it was settled with) gives the rest.
The refinement maps messages to items that wait or are settled; every action maps
to an action of the contract or a stutter, and the steps of workers, leases and
faults are the stutters.

The tokens of a task come from one counter. `Fences`: no message
has a newer one, a token names one message of its task, what a worker holds was
granted to it, and no two workers hold the same. Poisoned tasks, whose counters the
model caps at one because they are leased for ever, are the exception throughout. `Conserved` counts
the messages of an unbounded log by what became of them. `RetriesAreBounded` rests on
attempts being equal to tokens (`Counted`) and on `WithinBudget`: the retries of a task
are as many as the different tokens of its retried messages, which all lie below
`MaxAttempts`.

`NodeOutputProofs`. `Inv` joins the slot's fencing with `JournalOK` (recorded
evidence and results are backed by outputs committed for their activity and fit
each other, the active activity is the newest and has no result) and `MemoriesOK`
(what a controller remembers at each point of an execution: its lease was granted
to its activity, evidence exists from the point where the attempt failed, and what
it is about to record or apply is backed already). Leases and outputs only grow, so
the memory of every other controller stays sound (`MemoryKept`), and a terminal
evidence never changes under a controller that is about to apply it.

`TaskScheduleProofs`. The lemmas about `Evaluate` say for every trigger, policy, last
run and time that what is due is new, on the grid and not past the last run that will
be saved, and that an interval that catches up leaves none out (`EvaluateSound`).
`Shapes` (types, and what a process holds at each point) and `Punctual` (no last run
and no due time lies in the future or off the grid) give `WhenDue`. `Accountable` says
of every last run - in the file, in the temporary file, in a copy a process has read, or
in a save it has yet to make - which due times were enqueued by then, where a save under
way may count on those its tick has still to enqueue; that is why a stale copy that
overwrites the file does no harm. `Once` bounds the enqueues of a due time, the one that
is under way included, by `Room`: the faults, and of each edit the two steps that can
undo a save of the tick, its text and its rename, once they are over; and by one more as
long as the due time is `Covered`: the file, and what the tick is about to publish, are
`Safe`, that is unreadable, so that nothing is due in them, or with a last run, or a save
to come, at or past it. A tick finds due only what is not covered, and whatever takes
cover away - an edit's text in either file, an edit's rename, a crash - is charged when
it happens; the edits still under way are counted by cardinality (`Editing`, `Early`).
`AloneKeepsTheFile` and `LostForEver` need no count: a process that is alone has the
empty temporary file open when it writes, and a lost file lets no process past a load.

`EventDeliveryProofs`. `Core` is the life of deliveries: types, events stored once in
their stream (`Placed`), deliveries of stored events whose generations have no gap
(`Keyed`, `Numbered`), what state, attempts, owner and lease say of each other (`Lives`,
`Held`, `Empty`), and that the delivery of a dead letter is settled (`Letters`). Relative
to it four invariants are inductive on their own:

* `CheckpointIsFrontier` itself: each settlement recomputes it, and no step that
  skips the recomputation settles or adds a first delivery;
* `Subscribed`: the first deliveries are those of the wanted events (`Delivered`), and
  the start and retirement sequences of a stream are what the history of
  registration and retirement says (`Told`), so that an append and a backfill agree
  about what is wanted;
* `EffectInv`: a first delivery that was attempted has all earlier ones of its stream
  settled (`InTurn`), what workers hold was attempted (`Batches`), and inbox and
  effects agree (`Effects`); an event takes effect only out of a worker's batch;
* `InFlight` and `Backlog`, the limits: a claim fits into what the leases it has just
  recovered leave free, and an append into what the backlog leaves.

For these proofs `Claim` states the order of its batch as a condition on the sequence
(earlier items come before later ones in the order of the query), not as a sort.

Every invariant and every action property of the passing runs is a theorem. Only
model-checked is what rests on fairness, hence on `ENABLED`, which is outside the
prover's reach: `RunEnds`, `TasksSettle`, `InterruptedAttemptEnds`, `CronGoesOn` and
`EventsSettle`.

## Plan

1. Extend the model: Graph Waits (registrations, inbox, timers, approvals), the
   cancellation of branches, `SideEffectFence`, `LocalQueue`, the admission and
   reclaim of TaskPlan tasks, repair routes and control nodes of `GraphRun`; the
   composition of `GraphRun` with `NodeOutput` over two controllers; an unbounded
   stream of new tasks in `TaskLease`.
2. Prove more: the invariants of the modules of 1, and contracts for the event
   delivery and the schedules.

## Not modelled

Control nodes, Waits, side effects, compensation and cancellation; the TaskPlan
scheduler; the local queue; the Postgres event store and event projections; the
compare-and-set of the transition stores below the level of one atomic commit
(plan, as far as they have a protocol of their own). The agent loop, LLM routing
and caches, memory, retrieval, skills, tools and the research backend are data
transformations and I/O behind the Worker's report; the interfaces, web console,
desktop application and SDK are facades.

## Running

    tlc -config core.cfg MCGraphRun.tla       # also f_plan, f_dispatch
    tlc -config node_output.cfg MCNodeOutput.tla
    tlc -config attempts.cfg MCAttemptSupervisor.tla
    tlc -config budget.cfg MCBudgetLedger.tla
    tlc -config lease.cfg MCTaskLease.tla     # also lease_progress
    tlc -config schedule.cfg MCTaskSchedule.tla   # also f_schedule
    tlc -config events.cfg MCEventDelivery.tla    # also events_progress
    tlapm GraphRunProofs.tla                  # also the other *Proofs modules

The largest state spaces are those of `node_output` and `events` (two to three
million states, about two minutes each).
