----------------------------- MODULE TaskLease -----------------------------
(***************************************************************************)
(* The Redis task queue with fenced leases (RedisStreamTaskQueue) and the  *)
(* workers that poll it (WorkerApplicationService.run_once).               *)
(*                                                                         *)
(* A message is a stream entry together with the lease hash kept under its *)
(* identity; its position in log is its stream id.  Each Lua script is one *)
(* atomic action; a Redis reply may be lost, the client then sends the     *)
(* same script again.  Lease time is counted in ticks.                     *)
(***************************************************************************)
EXTENDS Integers, Sequences, FiniteSets

CONSTANTS
    Tasks, Workers,
    Poisoned,       \* tasks whose execution policy is invalid
    MaxAttempts,    \* min(task.max_attempts, retry policy's max_attempts)
    PendingWindow,  \* pending entries reclaim_stale_one looks at
    TTL,            \* ticks a lease lasts without a renewal
    MaxRequeues,    \* bound on dead letters the operator requeues
    MaxFaults       \* bound on crashes, lost replies, expired and dropped leases

ASSUME LeaseAssumption ==
    /\ IsFiniteSet(Tasks) /\ IsFiniteSet(Workers) /\ Poisoned \subseteq Tasks
    /\ MaxAttempts \in Nat \ {0}
    /\ PendingWindow \in Nat \ {0}
    /\ TTL \in Nat \ {0}
    /\ MaxRequeues \in Nat /\ MaxFaults \in Nat

VARIABLES
    log,        \* the stream and the lease hash of every entry
    read,       \* last id the consumer group delivered
    pel,        \* the group's pending entries list
    counter,    \* per task: the last fencing token and the attempts
    dlq,        \* per task: its records in the dead-letter stream
    worker,     \* what each worker process holds in memory
    operator,   \* the task whose dead letter is being requeued
    submitted, requeues, faults,
    settled,    \* history: which token settled which message
    retries,    \* history: per task, the retries scheduled
    split       \* history: per task, requeues cut off before the deletion

redis == <<log, read, pel, counter, dlq>>
history == <<settled, retries, split>>
vars == <<redis, worker, operator, submitted, requeues, faults, history>>

-----------------------------------------------------------------------------
Terminal   == {"succeeded", "retrying", "dead_letter"}
NoWorker   == "none"
NoTask     == "none"
ASSUME NoTaskAssumption == NoTask \notin Tasks

IdleWorker == [pc |-> "idle", m |-> 0, token |-> 0, attempt |-> 0]

\* An entry as XADD leaves it: no lease hash yet.
Message(t) == [task |-> t, state |-> "new", owner |-> NoWorker, token |-> 0,
               attempt |-> 0, ttl |-> 0, first |-> FALSE]

Ids        == DOMAIN log
Live(m)    == log[m].state = "active" /\ log[m].ttl > 0
TaskOf(w)  == log[worker[w].m].task

\* Variant: the window is one entry short.
ShortWindow == {m \in pel : Cardinality({o \in pel : o < m}) < PendingWindow - 1}

\* The oldest PendingWindow entries of the pending list.
Window == {m \in pel : Cardinality({o \in pel : o < m}) < PendingWindow}

\* The lease on record is the one the worker holds.
OnRecord(w) ==
    LET lease == log[worker[w].m]
    IN  lease.owner = w /\ lease.token = worker[w].token

\* Variant: any live lease of the message will do.
OwnsUnfenced(w) == Live(worker[w].m)

Owns(w) == Live(worker[w].m) /\ OnRecord(w)

\* A Redis call that was carried out: its reply arrives, and the caller goes
\* on to next, or it is lost, and the caller goes on to other.
Reply(w, next, other) ==
    \/ worker' = [worker EXCEPT ![w] = next] /\ faults' = faults
    \/ /\ faults < MaxFaults /\ faults' = faults + 1
       /\ worker' = [worker EXCEPT ![w] = other]

Init ==
    /\ log = <<>> /\ read = 0 /\ pel = {}
    /\ counter = [t \in Tasks |-> [token |-> 0, attempt |-> 0]]
    /\ dlq = [t \in Tasks |-> 0]
    /\ worker = [w \in Workers |-> IdleWorker]
    /\ operator = NoTask
    /\ submitted = {} /\ requeues = 0 /\ faults = 0
    /\ settled = {}
    /\ retries = [t \in Tasks |-> 0]
    /\ split = [t \in Tasks |-> 0]

Enqueue(t) ==
    /\ t \notin submitted
    /\ submitted' = submitted \cup {t}
    /\ log' = Append(log, Message(t))
    /\ UNCHANGED <<read, pel, counter, dlq, worker, operator, requeues, faults, history>>

-----------------------------------------------------------------------------
(* Polling: lease_one first, reclaim_stale_one when it returned nothing.   *)

\* XREADGROUP ">": the group hands every entry to exactly one read.
ReadNew(w) ==
    /\ worker[w].pc = "idle"
    /\ IF read < Len(log)
       THEN /\ read' = read + 1
            /\ pel' = pel \cup {read + 1}
            /\ worker' = [worker EXCEPT ![w].pc = "read", ![w].m = read + 1]
       ELSE /\ worker' = [worker EXCEPT ![w].pc = "polled"]
            /\ UNCHANGED <<read, pel>>
    /\ UNCHANGED <<log, counter, dlq, operator, submitted, requeues, faults, history>>

\* The counters a lease of the task draws.  A poisoned task is never settled,
\* so nothing reads its counters and they stay at 1 to keep the state finite.
Drawn(t) == IF t \in Poisoned THEN [token |-> 1, attempt |-> 1]
            ELSE [token |-> counter[t].token + 1, attempt |-> counter[t].attempt + 1]

\* What a granted lease writes: the task's next fencing token and attempt.
Grant(w, m, first) ==
    LET t == log[m].task
        next == Drawn(t)
    IN  /\ counter' = [counter EXCEPT ![t] = next]
        /\ log' = [log EXCEPT ![m] =
                      [@ EXCEPT !.state = "active", !.owner = w, !.token = next.token,
                                !.attempt = next.attempt, !.ttl = TTL, !.first = first]]

\* Variant: attempts counted from zero.
HoldingFromZero(m, lease) ==
    [pc |-> "working", m |-> m, token |-> lease.token, attempt |-> lease.attempt - 1]

Holding(m, lease) == [pc |-> "working", m |-> m, token |-> lease.token, attempt |-> lease.attempt]

\* The acquire script.  first marks the lease whose lease_id the lease_one
\* call that read this entry drew: a repeated script finds it and returns it,
\* whether or not it has expired meanwhile.
Acquire(w) ==
    LET m == worker[w].m
        mine == log[m].state = "active" /\ log[m].first /\ log[m].owner = w
    IN  /\ worker[w].pc = "read"
        /\ \/ /\ mine
              /\ Reply(w, Holding(m, log[m]), worker[w])
              /\ UNCHANGED <<log, counter>>
           \/ /\ ~mine /\ (Live(m) \/ log[m].state \in Terminal)
              /\ worker' = [worker EXCEPT ![w] = [IdleWorker EXCEPT !.pc = "polled"]]
              /\ UNCHANGED <<log, counter, faults>>
           \/ /\ ~mine /\ ~Live(m) /\ log[m].state \notin Terminal
              /\ Grant(w, m, TRUE)
              /\ Reply(w, Holding(m, log'[m]), worker[w])
        /\ UNCHANGED <<read, pel, dlq, operator, submitted, requeues, history>>

\* The reclaim script grants a lease unless one is live.  It has no memory of
\* its own calls: repeated after a lost reply it finds its lease busy.
Reclaim(w, m) ==
    /\ worker[w].pc = "polled"
    /\ m \in Window
    /\ ~Live(m) /\ log[m].state \notin Terminal
    /\ Grant(w, m, FALSE)
    /\ Reply(w, Holding(m, log'[m]), IdleWorker)
    /\ UNCHANGED <<read, pel, dlq, operator, submitted, requeues, history>>

\* No pending entry is idle long enough for the caller.
FindNothing(w) ==
    /\ worker[w].pc = "polled"
    /\ worker' = [worker EXCEPT ![w] = IdleWorker]
    /\ UNCHANGED <<redis, operator, submitted, requeues, faults, history>>

-----------------------------------------------------------------------------
(* Holding a lease: the renewer thread and the handler.                    *)

Renew(w) ==
    /\ worker[w].pc = "working" /\ Owns(w) /\ TaskOf(w) \notin Poisoned
    /\ log' = [log EXCEPT ![worker[w].m].ttl = TTL]
    /\ UNCHANGED <<read, pel, counter, dlq, worker, operator, submitted, requeues, faults, history>>

\* The renewal was stale: the result is dropped, the message not settled.
LoseLease(w) ==
    /\ worker[w].pc = "working" /\ ~Owns(w) /\ TaskOf(w) \notin Poisoned
    /\ worker' = [worker EXCEPT ![w] = IdleWorker]
    /\ UNCHANGED <<redis, operator, submitted, requeues, faults, history>>

\* An invalid execution policy is reported as a failure of the lease: the task
\* is dropped before its renewer starts, and not settled.
Refuse(w) ==
    /\ worker[w].pc = "working" /\ TaskOf(w) \in Poisoned
    /\ worker' = [worker EXCEPT ![w] = IdleWorker]
    /\ UNCHANGED <<redis, operator, submitted, requeues, faults, history>>

\* A renewal error or a rejected admission: the task is dropped while its lease
\* runs on.
Abandon(w) ==
    /\ worker[w].pc = "working" /\ faults < MaxFaults
    /\ worker' = [worker EXCEPT ![w] = IdleWorker]
    /\ faults' = faults + 1
    /\ UNCHANGED <<redis, operator, submitted, requeues, history>>

\* The handler ends before its renewer noticed anything; should_retry decides
\* by the attempt of the lease.
HandlerEnds(w) ==
    /\ worker[w].pc = "working" /\ TaskOf(w) \notin Poisoned
    /\ \E result \in {"success", "retryable", "fatal"} :
          worker' = [worker EXCEPT ![w].pc =
              CASE result = "success" -> "ack"
                [] result = "retryable" /\ worker[w].attempt < MaxAttempts -> "retry"
                [] OTHER -> "dead"]
    /\ UNCHANGED <<redis, operator, submitted, requeues, faults, history>>

-----------------------------------------------------------------------------
(* Settling: the complete and transition scripts.                          *)

\* Variant: a settling script only compares the lease.
EffectiveIfRecorded(w) == OnRecord(w)

Effective(w) == worker[w].m \in pel /\ Owns(w)

\* A script that does not find its lease on record and unexpired is stale, or
\* repeated, and changes nothing: run_once is done with the message anyway.
Settle(w) ==
    /\ Reply(w, IdleWorker, worker[w])
    /\ IF Effective(w)
       THEN /\ pel' = pel \ {worker[w].m}
            /\ settled' = settled \cup {<<worker[w].m, worker[w].token>>}
       ELSE UNCHANGED <<pel, settled>>
    /\ UNCHANGED <<read, counter, operator, submitted, requeues, split>>

\* Variant: settling only lets the lease run out.
ClosedByExpiry(w, state) == [log EXCEPT ![worker[w].m].ttl = 0]

Closed(w, state) == [log EXCEPT ![worker[w].m].state = state]

Ack(w) ==
    /\ worker[w].pc = "ack"
    /\ Settle(w)
    /\ log' = IF Effective(w) THEN Closed(w, "succeeded") ELSE log
    /\ UNCHANGED <<dlq, retries>>

\* The retry is a new message of the same task, added and acknowledged in one
\* script.
FailRetry(w) ==
    /\ worker[w].pc = "retry"
    /\ Settle(w)
    /\ IF Effective(w)
       THEN /\ log' = Append(Closed(w, "retrying"), Message(TaskOf(w)))
            /\ retries' = [retries EXCEPT ![TaskOf(w)] = @ + 1]
       ELSE UNCHANGED <<log, retries>>
    /\ UNCHANGED dlq

\* Variant: a repeated transition adds its dead letter again.
FailDeadLetterAgain(w) ==
    /\ worker[w].pc = "dead"
    /\ Settle(w)
    /\ log' = IF Effective(w) THEN Closed(w, "dead_letter") ELSE log
    /\ dlq' = [dlq EXCEPT ![TaskOf(w)] = @ + 1]
    /\ UNCHANGED retries

FailDeadLetter(w) ==
    /\ worker[w].pc = "dead"
    /\ Settle(w)
    /\ IF Effective(w)
       THEN /\ log' = Closed(w, "dead_letter")
            /\ dlq' = [dlq EXCEPT ![TaskOf(w)] = @ + 1]
       ELSE UNCHANGED <<log, dlq>>
    /\ UNCHANGED retries

-----------------------------------------------------------------------------
(* Operator, time and faults.                                              *)

\* requeue_dead_letter makes two calls: XADD to the task's queue, then XDEL of
\* the dead letter.
RequeueAdd(t) ==
    /\ operator = NoTask /\ dlq[t] > 0 /\ requeues < MaxRequeues
    /\ log' = Append(log, Message(t))
    /\ operator' = t
    /\ requeues' = requeues + 1
    /\ UNCHANGED <<read, pel, counter, dlq, worker, submitted, faults, history>>

RequeueDelete ==
    /\ operator # NoTask
    /\ dlq' = [dlq EXCEPT ![operator] = @ - 1]
    /\ operator' = NoTask
    /\ UNCHANGED <<log, read, pel, counter, worker, submitted, requeues, faults, history>>

RequeueCutOff ==
    /\ operator # NoTask /\ faults < MaxFaults
    /\ split' = [split EXCEPT ![operator] = @ + 1]
    /\ operator' = NoTask
    /\ faults' = faults + 1
    /\ UNCHANGED <<redis, worker, submitted, requeues, settled, retries>>

\* Time passes for every lease.  A lease whose worker still holds it runs out
\* only by a fault: its renewer wakes up four times per lease.
Tick ==
    LET runsOut == {w \in Workers : /\ worker[w].pc \notin {"idle", "read", "polled"}
                                    /\ Owns(w) /\ log[worker[w].m].ttl = 1}
    IN  /\ \E m \in Ids : Live(m)
        /\ runsOut # {} => faults < MaxFaults
        /\ faults' = IF runsOut = {} THEN faults ELSE faults + 1
        /\ log' = [m \in Ids |-> IF Live(m) THEN [log[m] EXCEPT !.ttl = @ - 1] ELSE log[m]]
        /\ UNCHANGED <<read, pel, counter, dlq, worker, operator, submitted, requeues, history>>

\* A worker process dies and is replaced under the same consumer name.
Crash(w) ==
    /\ worker[w].pc # "idle" /\ faults < MaxFaults
    /\ worker' = [worker EXCEPT ![w] = IdleWorker]
    /\ faults' = faults + 1
    /\ UNCHANGED <<redis, operator, submitted, requeues, history>>

Poll(w)  == ReadNew(w) \/ Acquire(w) \/ (\E m \in pel : Reclaim(w, m)) \/ FindNothing(w)
Work(w)  == Renew(w) \/ LoseLease(w) \/ Refuse(w) \/ Abandon(w) \/ HandlerEnds(w)
Close(w) == Ack(w) \/ FailRetry(w) \/ FailDeadLetter(w)

Next ==
    \/ \E t \in Tasks : Enqueue(t) \/ RequeueAdd(t)
    \/ \E w \in Workers : Poll(w) \/ Work(w) \/ Close(w) \/ Crash(w)
    \/ RequeueDelete \/ RequeueCutOff \/ Tick

Spec == Init /\ [][Next]_vars

\* Messages a run can reach.
MaxMessages == Cardinality(Tasks) * MaxAttempts + MaxRequeues

\* Workers poll and their handlers end, and time passes.  A message that is
\* stale again and again is reclaimed: the message reclaimed before it has a
\* live lease at the next poll, which follows at once.
Fairness ==
    /\ WF_vars(Tick)
    /\ \A w \in Workers :
          /\ WF_vars(ReadNew(w)) /\ WF_vars(Acquire(w)) /\ WF_vars(FindNothing(w))
          /\ \A m \in 1..MaxMessages : SF_vars(m \in pel /\ Reclaim(w, m))
          /\ WF_vars(LoseLease(w)) /\ WF_vars(Refuse(w)) /\ WF_vars(HandlerEnds(w)) /\ WF_vars(Close(w))
FairSpec == Spec /\ Fairness
=============================================================================
