------------------------ MODULE TaskLeaseProperties ------------------------
(***************************************************************************)
(* What the fenced task queue promises, over the state of TaskLease.       *)
(***************************************************************************)
EXTENDS TaskLease

Holders == {w \in Workers : worker[w].pc \in {"working", "ack", "retry", "dead"}}

MessageType == [task : Tasks, state : Terminal \cup {"new", "active"},
                owner : Workers \cup {NoWorker}, token : Nat, attempt : Nat,
                ttl : 0..TTL, first : BOOLEAN]
CounterType == [token : Nat, attempt : Nat]
WorkerType(last) == [pc : {"idle", "read", "polled", "working", "ack", "retry", "dead"},
                     m : 0..last, token : Nat, attempt : Nat]

\* Type correctness of the Redis keys and of the workers' memory.
TypeOK ==
    /\ log \in Seq(MessageType)
    /\ read \in 0..Len(log)
    /\ pel \subseteq 1..read
    /\ counter \in [Tasks -> CounterType]
    /\ dlq \in [Tasks -> Nat]
    /\ worker \in [Workers -> WorkerType(read)]
    /\ operator \in Tasks \cup {NoTask}
    /\ submitted \subseteq Tasks /\ requeues \in Nat /\ faults \in Nat
    /\ settled \subseteq (1..read) \X Nat
    /\ retries \in [Tasks -> Nat] /\ split \in [Tasks -> Nat]

-----------------------------------------------------------------------------
(* Fencing.                                                                *)

\* A fencing token names one lease of a task: two workers never act under the
\* same token of a task, not even after a lost reply made one of them repeat
\* its acquire script, and no lease on record outruns the task's counter.
TokensAreUnique ==
    /\ \A v, w \in Holders :
          v # w /\ TaskOf(v) = TaskOf(w) /\ TaskOf(v) \notin Poisoned => worker[v].token # worker[w].token
    /\ \A m \in Ids : log[m].token <= counter[log[m].task].token

\* A message is settled under at most one token, that of the newest lease it
\* was ever given: a slow worker whose message was reclaimed settles nothing.
SettledByNewestLease ==
    /\ \A s \in settled : s[2] = log[s[1]].token /\ log[s[1]].state \in Terminal
    /\ \A w \in Holders : worker[w].token <= log[worker[w].m].token

\* Together: of all the workers that ever held a message, one settles it.
LeasesAreFenced == TokensAreUnique /\ SettledByNewestLease

\* The pending list and the lease hashes agree: what the group still owes is
\* exactly what was delivered and is not settled.
PendingIsUnsettled ==
    pel = {m \in 1..read : log[m].state \notin Terminal}

-----------------------------------------------------------------------------
(* No task is lost, none is multiplied.                                    *)

Unsettled(t) == {m \in Ids : log[m].task = t /\ log[m].state \notin Terminal}
Succeeded(t) == {m \in Ids : log[m].task = t /\ log[m].state = "succeeded"}

\* A submitted task is in exactly one place: one unsettled message, one
\* success or one dead letter; a requeue that was cut off between its two
\* calls leaves one copy more.
TaskIsConserved ==
    \A t \in submitted :
        Cardinality(Unsettled(t)) + Cardinality(Succeeded(t)) + dlq[t] =
            1 + split[t] + (IF operator = t THEN 1 ELSE 0)

\* Retries are bounded by the policy over the whole life of a task: neither
\* reclaims, which also count as attempts, nor a requeue start it anew.
RetriesAreBounded == \A t \in Tasks : retries[t] < MaxAttempts

\* A message a worker has settled stays as it was settled.
SettledIsFinal ==
    [][\A m \in Ids : log[m].state \in Terminal => log'[m].state = log[m].state]_vars

-----------------------------------------------------------------------------
(* What the callers of the queue see.                                      *)

Outcome(m) == [task |-> log[m].task,
               state |-> IF log[m].state \in Terminal THEN log[m].state ELSE "open"]

Items == [m \in DOMAIN log |-> Outcome(m)]

Contract == INSTANCE TaskContract WITH items <- Items, dead <- dlq, moving <- operator

\* Whatever leases expire, are stolen or settled late, whatever replies are
\* lost and workers die: the queue settles as its contract says.
KeepsContract == Contract!Spec

-----------------------------------------------------------------------------
(* Progress.                                                               *)

\* Every task that is submitted and can be run eventually has no message left to
\* work on, although poisoned tasks occupy places of the reclaim window for ever.
TasksSettle == \A t \in Tasks \ Poisoned : t \in submitted ~> Unsettled(t) = {}
=============================================================================
